------------------------- MODULE BalanceSyncProofs -------------------------
(***************************************************************************)
(* What TLAPS proves about the sync pipeline for any number of balances,   *)
(* requests and flushers, any batch size and any number of failures: what  *)
(* it keeps, that it implements one ledger, and that deleted rows stay.    *)
(***************************************************************************)
EXTENDS BalanceAdmin, TLAPS

\* A request between GetBalances and the script holds a copy of both balances.
RequestsHoldCopies ==
    \A r \in Requests : req[r].state = "read" =>
        /\ req[r].from \in Balances /\ req[r].to \in Balances
        /\ req[r].from # req[r].to
        /\ req[r].copies[req[r].from] \in Copy
        /\ req[r].copies[req[r].to] \in Copy

\* No score lies in the future of the Redis clock, so a mutation always gives
\* its member a score nobody has claimed yet.
ScoresArePast ==
    /\ clock > 0
    /\ \A b \in Balances : schedule[b] <= clock /\ legacy[b] <= clock
    /\ \A w \in Flushers, b \in Balances : flusher[w].buffer[b] <= clock

\* A copy that could still be seeded into an empty cache slot is not newer
\* than the row.
SeedsAreOld ==
    \A r \in Requests, b \in Balances \ deleted :
        hot[b] = NoBalance /\ req[r].copies[b] # NoBalance
            => req[r].copies[b].Version <= cold[b].Version

\* PostgreSQL has the blob, or the version it has to catch up with.
Synced(b) == hot[b] # NoBalance => hot[b].Version <= cold[b].Version

\* While a member still has the score a flusher claimed, the blob has not
\* changed since the MGET: it is in the snapshot, and after UpdateMany in the
\* row.
ClaimedScoreMeansUnchanged ==
    \A w \in Flushers, b \in Balances \ deleted :
        flusher[w].buffer[b] # 0 /\ flusher[w].buffer[b] = schedule[b] =>
            /\ flusher[w].step = "persisted" => Synced(b)
            /\ flusher[w].step = "fetched" =>
                  \/ Synced(b)
                  \/ /\ flusher[w].snapshot[b] # NoBalance
                     /\ hot[b].Version <= flusher[w].snapshot[b].Version

SyncInv ==
    /\ TypeOK
    /\ RequestsHoldCopies
    /\ ScoresArePast
    /\ SeedsAreOld
    /\ ClaimedScoreMeansUnchanged
    /\ UnsyncedIsScheduled
-----------------------------------------------------------------------------
LEMMA InitialTypes == Init => TypeOK
  BY BalancesAssumption
  DEF Init, TypeOK, NoCopies, Unclaimed, IdleRequest, IdleFlusher, Copy, MaybeCopy

LEMMA LoadedIsCopy ==
  ASSUME TypeOK, RequestsHoldCopies, NEW r \in Requests, req[r].state = "read"
  PROVE  /\ Loaded(r, req[r].from) \in Copy
         /\ Loaded(r, req[r].to) \in Copy
  BY DEF TypeOK, RequestsHoldCopies, Loaded, MaybeCopy

LEMMA MovedIsCopy ==
  ASSUME NEW c \in Copy, NEW d \in Int, c.Available + d >= 0
  PROVE  /\ Moved(c, d) \in Copy
         /\ Moved(c, d).Available = c.Available + d
         /\ Moved(c, d).Version = c.Version + 1
  BY DEF Moved, Copy

\* UpdateMany leaves a row at the newer of its two versions.
LEMMA PersistedIsNewer ==
  ASSUME NEW b, cold[b] \in Copy, NEW c \in MaybeCopy
  PROVE  /\ Persisted(b, c) \in Copy
         /\ cold[b].Version <= Persisted(b, c).Version
         /\ c # NoBalance /\ b \notin deleted => c.Version <= Persisted(b, c).Version
  <1>1. c # NoBalance => c \in Copy
    BY DEF MaybeCopy
  <1> QED BY <1>1 DEF Persisted, Copy

LEMMA TypesPreserved ==
  ASSUME TypeOK, RequestsHoldCopies, [Next]_vars
  PROVE  TypeOK'
  <1>1. ASSUME NEW r \in Requests, NEW from \in Balances, NEW to \in Balances,
               GetBalances(r, from, to)
        PROVE  TypeOK'
    BY <1>1 DEF GetBalances, TypeOK, NoCopies, Readable, MaybeCopy
  <1>2. ASSUME NEW r \in Requests, ProcessBalanceAtomicOperation(r)
        PROVE  TypeOK'
    <2> DEFINE f == Moved(Loaded(r, req[r].from), -1)
               t == Moved(Loaded(r, req[r].to), 1)
    <2>1. req[r].state = "read"
      BY <1>2 DEF ProcessBalanceAtomicOperation
    <2>2. f \in Copy /\ t \in Copy
      <3>1. Loaded(r, req[r].from).Available + (-1) >= 0
        BY <1>2, <2>1, LoadedIsCopy DEF ProcessBalanceAtomicOperation, Moved, Copy
      <3>2. Loaded(r, req[r].to).Available + 1 >= 0
        BY <2>1, LoadedIsCopy DEF Copy
      <3> QED BY <2>1, <3>1, <3>2, LoadedIsCopy, MovedIsCopy
    <2>3. f.Available \in Nat /\ t.Available \in Nat
      BY <2>2 DEF Copy
    <2> HIDE DEF f, t
    <2>4. /\ clock' = clock + 1
          /\ hot' = [hot EXCEPT ![req[r].from] = f, ![req[r].to] = t]
          /\ schedule' = [schedule EXCEPT ![req[r].from] = clock + 1, ![req[r].to] = clock + 1]
          /\ log' = [log EXCEPT ![req[r].from] = Append(@, f.Available),
                                ![req[r].to] = Append(@, t.Available)]
          /\ req' = [req EXCEPT ![r] = [IdleRequest EXCEPT !.state = "done"]]
          /\ UNCHANGED <<cold, deleted, legacy, locks, flusher, faults>>
      BY <1>2 DEF ProcessBalanceAtomicOperation, Settle, f, t
    <2>5. req' \in [Requests -> [state : {"idle", "read", "done"},
                             from : Balances \cup {NoBalance}, to : Balances \cup {NoBalance},
                             copies : [Balances -> MaybeCopy]]]
      BY <2>4, Zenon DEF TypeOK, IdleRequest, NoCopies, MaybeCopy
    <2>6. req[r].from \in Balances /\ req[r].to \in Balances
      BY <2>1 DEF RequestsHoldCopies
    <2>7. log' \in [Balances -> Seq(Nat)]
      <3>1. /\ Append(log[req[r].from], f.Available) \in Seq(Nat)
            /\ Append(log[req[r].to], t.Available) \in Seq(Nat)
        BY <2>3, <2>6 DEF TypeOK
      <3>2. log' = [log EXCEPT ![req[r].from] = Append(log[req[r].from], f.Available),
                               ![req[r].to] = Append(log[req[r].to], t.Available)]
        BY <2>4
      <3>3. log \in [Balances -> Seq(Nat)]
        BY DEF TypeOK
      <3> QED BY <3>1, <3>2, <3>3, <2>6, Zenon
    <2>8. hot' \in [Balances -> MaybeCopy]
      BY <2>2, <2>4, <2>6, Zenon DEF TypeOK, MaybeCopy
    <2>9. schedule' \in [Balances -> Nat] /\ clock' \in Nat
      BY <2>4, <2>6 DEF TypeOK
    <2> QED BY <2>4, <2>5, <2>7, <2>8, <2>9, Zenon DEF TypeOK
  <1>3. ASSUME NEW r \in Requests, NEW first \in BOOLEAN, RollbackAtomicOperation(r, first)
        PROVE  TypeOK'
    <2>1. req[r].state = "read"
      BY <1>3 DEF RollbackAtomicOperation
    <2>2. req' \in [Requests -> [state : {"idle", "read", "done"},
                             from : Balances \cup {NoBalance}, to : Balances \cup {NoBalance},
                             copies : [Balances -> MaybeCopy]]]
      BY <1>3, Zenon DEF RollbackAtomicOperation, Settle, TypeOK, IdleRequest, NoCopies, MaybeCopy
    <2>3. req[r].from \in Balances /\ req[r].to \in Balances
      BY <2>1 DEF RequestsHoldCopies
    <2>4. hot' \in [Balances -> MaybeCopy]
      BY <1>3, <2>1, <2>3, LoadedIsCopy, Zenon DEF RollbackAtomicOperation, TypeOK, MaybeCopy
    <2>5. schedule' \in [Balances -> Nat] /\ clock' \in Nat
      BY <1>3, <2>3 DEF RollbackAtomicOperation, TypeOK
    <2> QED BY <1>3, <2>2, <2>4, <2>5, Zenon DEF RollbackAtomicOperation, TypeOK
  <1>4. ASSUME NEW w \in Flushers, FlusherStep(w) \/ Failure(w)
        PROVE  TypeOK'
    <2>1. ASSUME NEW zset \in [Balances -> Nat], Claim(w, zset)
          PROVE  TypeOK'
      <3>1. PICK due \in SUBSET Balances :
                /\ locks' = locks \cup due
                /\ flusher' = [flusher EXCEPT ![w].buffer =
                      [b \in Balances |-> IF b \in due \ locks THEN zset[b] ELSE @[b]]]
        BY <2>1, Zenon DEF Claim, DueBatches, Members
      <3>2. [b \in Balances |-> IF b \in due \ locks THEN zset[b] ELSE flusher[w].buffer[b]]
                \in [Balances -> Nat]
        BY DEF TypeOK
      <3>3. flusher' \in [Flushers -> [step : {"collect", "fetched", "persisted"},
                                       buffer : [Balances -> Nat],
                                       snapshot : [Balances -> MaybeCopy]]]
        BY <3>1, <3>2, Zenon DEF TypeOK
      <3> QED BY <2>1, <3>1, <3>3, Zenon DEF Claim, TypeOK
    <2>2. CASE GetBalanceSyncKeys(w) \/ GetBalanceSyncKeysLegacy(w)
      BY <2>1, <2>2 DEF GetBalanceSyncKeys, GetBalanceSyncKeysLegacy, TypeOK
    <2>3. CASE GetBalancesByKeys(w)
      BY <2>3 DEF GetBalancesByKeys, TypeOK, MaybeCopy
    <2>4. CASE UpdateMany(w)
      <3>1. \A b \in Balances : Persisted(b, flusher[w].snapshot[b]) \in Copy
        BY PersistedIsNewer DEF TypeOK
      <3> QED BY <2>4, <3>1, Zenon DEF UpdateMany, TypeOK
    <2>5. CASE RemoveBalanceSyncKeysBatch(w)
      BY <2>5 DEF RemoveBalanceSyncKeysBatch, TypeOK, IdleFlusher, Unclaimed, NoCopies, MaybeCopy
    <2>6. CASE UpdateManyFails(w)
      BY <2>6 DEF UpdateManyFails, TypeOK
    <2>7. CASE Drop(w)
      BY <2>7 DEF Drop, TypeOK, IdleFlusher, Unclaimed, NoCopies, MaybeCopy
    <2> QED BY <1>4, <2>2, <2>3, <2>4, <2>5, <2>6, <2>7 DEF FlusherStep, Failure
  <1>5. ASSUME NEW b \in Balances, LockExpires(b) \/ HotExpires(b)
        PROVE  TypeOK'
    <2>1. CASE LockExpires(b)
      BY <2>1 DEF LockExpires, TypeOK
    <2>2. CASE HotExpires(b)
      <3>1. faults' = faults \/ faults' = faults + 1
        BY <2>2, Zenon DEF HotExpires
      <3>2. /\ hot' = [hot EXCEPT ![b] = NoBalance]
            /\ UNCHANGED <<cold, deleted, schedule, legacy, locks, clock, req, flusher, log>>
        BY <2>2, Zenon DEF HotExpires
      <3> QED BY <3>1, <3>2 DEF TypeOK, MaybeCopy
    <2> QED BY <1>5, <2>1, <2>2
  <1>6. CASE UNCHANGED vars
    BY <1>6 DEF vars, TypeOK
  <1> QED BY <1>1, <1>2, <1>3, <1>4, <1>5, <1>6 DEF Next, RequestStep
-----------------------------------------------------------------------------
\* The numbers that scores and versions are compared by.
LEMMA Numbers ==
  ASSUME TypeOK
  PROVE  /\ clock \in Nat
         /\ \A b \in Balances : schedule[b] \in Nat /\ legacy[b] \in Nat
         /\ \A w \in Flushers, b \in Balances : flusher[w].buffer[b] \in Nat
         /\ \A b \in Balances : cold[b].Version \in Nat
         /\ \A b \in Balances : hot[b] # NoBalance => hot[b].Version \in Nat
         /\ \A w \in Flushers, b \in Balances :
                flusher[w].snapshot[b] # NoBalance => flusher[w].snapshot[b].Version \in Nat
         /\ \A r \in Requests, b \in Balances :
                req[r].copies[b] # NoBalance => req[r].copies[b].Version \in Nat
  BY DEF TypeOK, MaybeCopy, Copy

LEMMA InitialSyncInv == Init => SyncInv
  <1> SUFFICES ASSUME Init PROVE SyncInv
    OBVIOUS
  <1>1. TypeOK
    BY InitialTypes
  <1>2. RequestsHoldCopies /\ SeedsAreOld
    BY DEF Init, RequestsHoldCopies, SeedsAreOld, IdleRequest, NoCopies
  <1>3. ScoresArePast
    BY DEF Init, ScoresArePast, Unclaimed, IdleFlusher
  <1>4. ClaimedScoreMeansUnchanged
    BY DEF Init, ClaimedScoreMeansUnchanged, Unclaimed, IdleFlusher
  <1>5. UnsyncedIsScheduled
    BY DEF Init, UnsyncedIsScheduled
  <1> QED BY <1>1, <1>2, <1>3, <1>4, <1>5 DEF SyncInv

\* What a request's last step does to its own slot and to the others.
LEMMA SettledRequest ==
  ASSUME TypeOK, NEW r \in Requests, Settle(r)
  PROVE  /\ req'[r].state = "done"
         /\ \A b \in Balances : req'[r].copies[b] = NoBalance
         /\ \A q \in Requests \ {r} : req'[q] = req[q]
  BY DEF Settle, TypeOK, IdleRequest, NoCopies

LEMMA RequestsPreserveSyncInv ==
  ASSUME SyncInv, TypeOK', NEW r \in Requests, RequestStep(r)
  PROVE  SyncInv'
  <1>1. ASSUME NEW from \in Balances, NEW to \in Balances, GetBalances(r, from, to)
        PROVE  SyncInv'
    <2>1. PICK f \in Readable(from), t \in Readable(to) :
              req' = [req EXCEPT ![r] = [state |-> "read", from |-> from, to |-> to,
                                         copies |-> [NoCopies EXCEPT ![from] = f, ![to] = t]]]
      BY <1>1, Zenon DEF GetBalances
    <2>2. f \in Copy /\ t \in Copy
      BY DEF Readable, SyncInv, TypeOK, MaybeCopy
    <2>3. /\ req'[r].from = from /\ req'[r].to = to
          /\ req'[r].copies = [NoCopies EXCEPT ![from] = f, ![to] = t]
          /\ \A q \in Requests \ {r} : req'[q] = req[q]
      BY <2>1 DEF SyncInv, TypeOK
    <2>4. /\ req'[r].copies[from] = f /\ req'[r].copies[to] = t
          /\ \A b \in Balances \ {from, to} : req'[r].copies[b] = NoBalance
      BY <1>1, <2>3 DEF GetBalances, NoCopies
    <2>5. UNCHANGED <<hot, cold, deleted, schedule, legacy, clock, flusher>> /\ from # to
      BY <1>1 DEF GetBalances
    <2>6. RequestsHoldCopies'
      BY <2>2, <2>3, <2>4, <2>5, Zenon DEF SyncInv, RequestsHoldCopies
    <2>7. \A b \in Balances : hot[b] = NoBalance => Readable(b) \subseteq {cold[b]}
      BY DEF Readable
    <2>8. SeedsAreOld'
      <3> SUFFICES ASSUME NEW q \in Requests, NEW b \in Balances \ deleted,
                          hot[b] = NoBalance, req'[q].copies[b] # NoBalance
                   PROVE  req'[q].copies[b].Version <= cold[b].Version
        BY <2>5 DEF SeedsAreOld
      <3>1. CASE q # r
        BY <3>1, <2>3 DEF SyncInv, SeedsAreOld
      <3>2. CASE q = r
        <4>1. req'[q].copies[b] = cold[b]
          BY <3>2, <2>1, <2>4, <2>7, Zenon
        <4>2. cold[b].Version \in Nat
          BY Zenon DEF SyncInv, TypeOK, Copy
        <4> QED BY <4>1, <4>2
      <3> QED BY <3>1, <3>2
    <2>9. ScoresArePast' /\ ClaimedScoreMeansUnchanged' /\ UnsyncedIsScheduled'
      BY <2>5 DEF SyncInv, ScoresArePast, ClaimedScoreMeansUnchanged, Synced, UnsyncedIsScheduled
    <2> QED BY <2>6, <2>8, <2>9 DEF SyncInv
  <1>2. CASE ProcessBalanceAtomicOperation(r)
    <2> DEFINE from == req[r].from
               to   == req[r].to
    <2>1. /\ req[r].state = "read" /\ Settle(r) /\ clock' = clock + 1
          /\ UNCHANGED <<cold, deleted, legacy, flusher>>
      BY <1>2 DEF ProcessBalanceAtomicOperation
    <2>2. from \in Balances /\ to \in Balances
      BY <2>1 DEF SyncInv, RequestsHoldCopies
    <2>3. schedule' = [schedule EXCEPT ![from] = clock + 1, ![to] = clock + 1]
      BY <1>2 DEF ProcessBalanceAtomicOperation
    <2>4. \A b \in Balances : schedule'[b] = IF b \in {from, to} THEN clock + 1 ELSE schedule[b]
      BY <2>2, <2>3, Zenon DEF SyncInv, TypeOK
    <2>5. hot' = [hot EXCEPT ![from] = Moved(Loaded(r, from), -1), ![to] = Moved(Loaded(r, to), 1)]
      BY <1>2 DEF ProcessBalanceAtomicOperation
    <2>6. \A b \in Balances \ {from, to} : hot'[b] = hot[b]
      BY <2>5 DEF SyncInv, TypeOK
    <2>7. hot'[from] # NoBalance /\ hot'[to] # NoBalance
      <3>1. hot'[from] = Moved(Loaded(r, from), -1) \/ hot'[from] = Moved(Loaded(r, to), 1)
        BY <2>2, <2>5 DEF SyncInv, TypeOK
      <3>2. hot'[to] = Moved(Loaded(r, to), 1)
        BY <2>2, <2>5, Zenon DEF SyncInv, TypeOK
      <3>3. Loaded(r, from).Available + (-1) >= 0 /\ Loaded(r, to).Available + 1 >= 0
        BY <1>2, <2>1, LoadedIsCopy DEF ProcessBalanceAtomicOperation, Moved, Copy, SyncInv
      <3>4. Moved(Loaded(r, from), -1) \in Copy /\ Moved(Loaded(r, to), 1) \in Copy
        BY <2>1, <3>3, LoadedIsCopy, MovedIsCopy DEF SyncInv
      <3> QED BY <3>1, <3>2, <3>4, BalancesAssumption
    <2> HIDE DEF from, to
    <2>8. RequestsHoldCopies'
      BY <2>1, SettledRequest DEF SyncInv, RequestsHoldCopies
    <2>9. SeedsAreOld'
      BY <2>1, <2>6, <2>7, SettledRequest DEF SyncInv, SeedsAreOld
    <2>10. ScoresArePast'
      BY <2>1, <2>4, Numbers DEF SyncInv, ScoresArePast
    <2>11. ClaimedScoreMeansUnchanged'
      <3> SUFFICES ASSUME NEW w \in Flushers, NEW b \in Balances \ deleted,
                          flusher[w].buffer[b] # 0, flusher[w].buffer[b] = schedule'[b]
                   PROVE  b \notin {from, to}
        BY <2>1, <2>4, <2>6 DEF SyncInv, ClaimedScoreMeansUnchanged, Synced
      <3> QED BY <2>4, Numbers DEF SyncInv, ScoresArePast
    <2>12. UnsyncedIsScheduled'
      BY <2>1, <2>4, <2>6, Numbers DEF SyncInv, UnsyncedIsScheduled
    <2> QED BY <2>8, <2>9, <2>10, <2>11, <2>12, Zenon DEF SyncInv
  <1>3. ASSUME NEW first \in BOOLEAN, RollbackAtomicOperation(r, first)
        PROVE  SyncInv'
    <2> DEFINE from == req[r].from
               to   == req[r].to
    <2>1. /\ req[r].state = "read" /\ Settle(r) /\ clock' = clock + 1
          /\ UNCHANGED <<cold, deleted, legacy, flusher>>
      BY <1>3 DEF RollbackAtomicOperation
    <2>2. from \in Balances /\ to \in Balances
      BY <2>1, Zenon DEF SyncInv, RequestsHoldCopies
    <2>3. schedule' = [schedule EXCEPT ![to] = IF first THEN clock + 1 ELSE @]
      BY <1>3 DEF RollbackAtomicOperation
    <2>4. \A b \in Balances : schedule'[b] = schedule[b] \/ schedule'[b] = clock + 1
      BY <2>2, <2>3 DEF SyncInv, TypeOK
    <2>5. hot' = [hot EXCEPT ![from] = Loaded(r, from), ![to] = IF first THEN Loaded(r, to) ELSE @]
      BY <1>3 DEF RollbackAtomicOperation
    <2>6. \A b \in Balances : hot'[b] = hot[b] \/ hot'[b] = Loaded(r, b)
      BY <2>2, <2>5, Zenon DEF SyncInv, TypeOK
    <2> HIDE DEF from, to
    <2>7. \A b \in Balances :
             \/ hot'[b] = hot[b]
             \/ hot[b] = NoBalance /\ hot'[b] = req[r].copies[b]
      BY <2>6 DEF Loaded
    <2>8. RequestsHoldCopies'
      BY <2>1, SettledRequest DEF SyncInv, RequestsHoldCopies
    <2>9. SeedsAreOld'
      BY <2>1, <2>7, SettledRequest DEF SyncInv, SeedsAreOld
    <2>10. ScoresArePast'
      BY <2>1, <2>4, Numbers DEF SyncInv, ScoresArePast
    <2>11. \A b \in Balances \ deleted : hot'[b] = hot[b] \/ Synced(b)'
      BY <2>1, <2>7 DEF SyncInv, SeedsAreOld, Synced
    <2>12. ClaimedScoreMeansUnchanged'
      <3> SUFFICES ASSUME NEW w \in Flushers, NEW b \in Balances \ deleted,
                          flusher[w].buffer[b] # 0, flusher[w].buffer[b] = schedule'[b]
                   PROVE  schedule'[b] = schedule[b]
        BY <2>1, <2>11 DEF SyncInv, ClaimedScoreMeansUnchanged, Synced
      <3> QED BY <2>4, Numbers DEF SyncInv, ScoresArePast
    <2>13. UnsyncedIsScheduled'
      <3>1. \A b \in Balances : hot'[b] # NoBalance => hot'[b].Version \in Nat
        BY DEF TypeOK, MaybeCopy, Copy
      <3> QED BY <2>1, <2>4, <2>11, <3>1, Numbers DEF SyncInv, UnsyncedIsScheduled, Synced
    <2> QED BY <2>8, <2>9, <2>10, <2>12, <2>13 DEF SyncInv
  <1> QED BY <1>1, <1>2, <1>3 DEF RequestStep

LEMMA FlushersPreserveSyncInv ==
  ASSUME SyncInv, TypeOK', NEW w \in Flushers, FlusherStep(w) \/ Failure(w)
  PROVE  SyncInv'
  <1>1. ASSUME NEW zset \in [Balances -> Nat], \A b \in Balances : zset[b] <= clock,
               Claim(w, zset)
        PROVE  SyncInv'
    <2>1. PICK due \in SUBSET Balances :
              flusher' = [flusher EXCEPT ![w].buffer =
                    [b \in Balances |-> IF b \in due \ locks THEN zset[b] ELSE @[b]]]
      BY <1>1, Zenon DEF Claim, DueBatches, Members
    <2>2. /\ flusher[w].step = "collect"
          /\ UNCHANGED <<hot, cold, deleted, schedule, legacy, clock, req>>
      BY <1>1 DEF Claim
    <2>3. /\ flusher'[w].step = "collect"
          /\ \A b \in Balances : flusher'[w].buffer[b] \in {zset[b], flusher[w].buffer[b]}
          /\ \A v \in Flushers \ {w} : flusher'[v] = flusher[v]
      BY <2>1, <2>2 DEF SyncInv, TypeOK
    <2>4. ScoresArePast'
      BY <1>1, <2>2, <2>3, Numbers, Zenon DEF SyncInv, ScoresArePast
    <2>5. ClaimedScoreMeansUnchanged'
      BY <2>2, <2>3 DEF SyncInv, ClaimedScoreMeansUnchanged, Synced
    <2> QED BY <2>2, <2>4, <2>5
            DEF SyncInv, RequestsHoldCopies, SeedsAreOld, UnsyncedIsScheduled
  <1>2. CASE GetBalanceSyncKeys(w) \/ GetBalanceSyncKeysLegacy(w)
    BY <1>1, <1>2, Zenon DEF GetBalanceSyncKeys, GetBalanceSyncKeysLegacy, SyncInv, TypeOK, ScoresArePast
  <1>3. CASE GetBalancesByKeys(w)
    <2>1. UNCHANGED <<hot, cold, deleted, schedule, legacy, clock, req>>
      BY <1>3 DEF GetBalancesByKeys
    <2>2. /\ flusher'[w].step = "fetched"
          /\ flusher'[w].buffer = flusher[w].buffer
          /\ \A b \in Balances : flusher[w].buffer[b] # 0 => flusher'[w].snapshot[b] = hot[b]
          /\ \A v \in Flushers \ {w} : flusher'[v] = flusher[v]
      BY <1>3, Zenon DEF GetBalancesByKeys, SyncInv, TypeOK
    <2>3. ScoresArePast'
      BY <2>1, <2>2, Zenon DEF SyncInv, ScoresArePast
    <2>4. ClaimedScoreMeansUnchanged'
      BY <2>1, <2>2, Numbers DEF SyncInv, ClaimedScoreMeansUnchanged, Synced
    <2> QED BY <2>1, <2>3, <2>4
            DEF SyncInv, RequestsHoldCopies, SeedsAreOld, UnsyncedIsScheduled
  <1>4. CASE UpdateMany(w)
    <2>1. UNCHANGED <<hot, deleted, schedule, legacy, clock, req>>
      BY <1>4 DEF UpdateMany
    <2>2. /\ flusher[w].step = "fetched"
          /\ flusher'[w].step = "persisted"
          /\ flusher'[w].buffer = flusher[w].buffer
          /\ \A v \in Flushers \ {w} : flusher'[v] = flusher[v]
      BY <1>4 DEF UpdateMany, SyncInv, TypeOK
    <2>3. \A b \in Balances : cold'[b] = Persisted(b, flusher[w].snapshot[b])
      BY <1>4 DEF UpdateMany
    <2>4. \A b \in Balances : cold[b].Version <= cold'[b].Version
      BY <2>3, PersistedIsNewer DEF SyncInv, TypeOK
    <2>5. \A b \in Balances \ deleted : flusher[w].snapshot[b] # NoBalance =>
             flusher[w].snapshot[b].Version <= cold'[b].Version
      BY <2>3, PersistedIsNewer DEF SyncInv, TypeOK
    <2>6. \A b \in Balances : cold'[b].Version \in Nat
      BY DEF TypeOK, Copy
    <2>7. ScoresArePast'
      BY <2>1, <2>2 DEF SyncInv, ScoresArePast
    <2>8. SeedsAreOld'
      BY <2>1, <2>4, <2>6, Numbers DEF SyncInv, SeedsAreOld
    <2>9. ClaimedScoreMeansUnchanged'
      BY <2>1, <2>2, <2>4, <2>5, <2>6, Numbers DEF SyncInv, ClaimedScoreMeansUnchanged, Synced
    <2>10. UnsyncedIsScheduled'
      BY <2>1, <2>4, <2>6, Numbers DEF SyncInv, UnsyncedIsScheduled
    <2> QED BY <2>1, <2>7, <2>8, <2>9, <2>10 DEF SyncInv, RequestsHoldCopies
  <1>5. CASE RemoveBalanceSyncKeysBatch(w)
    <2>1. UNCHANGED <<hot, cold, deleted, legacy, clock, req>> /\ flusher[w].step = "persisted"
      BY <1>5, Zenon DEF RemoveBalanceSyncKeysBatch
    <2>2. /\ flusher'[w].step = "collect"
          /\ \A b \in Balances : flusher'[w].buffer[b] = 0
          /\ \A v \in Flushers \ {w} : flusher'[v] = flusher[v]
      BY <1>5 DEF RemoveBalanceSyncKeysBatch, IdleFlusher, Unclaimed, SyncInv, TypeOK
    <2>3. \A b \in Balances :
             \/ schedule'[b] = schedule[b]
             \/ /\ schedule'[b] = 0
                /\ flusher[w].buffer[b] # 0 /\ flusher[w].buffer[b] = schedule[b]
      BY <1>5, Zenon DEF RemoveBalanceSyncKeysBatch
    <2>4. ScoresArePast'
      BY <2>1, <2>2, <2>3, Numbers DEF SyncInv, ScoresArePast
    <2>5. ClaimedScoreMeansUnchanged'
      BY <2>1, <2>2, <2>3 DEF SyncInv, ClaimedScoreMeansUnchanged, Synced
    <2>6. UnsyncedIsScheduled'
      BY <2>1, <2>3, Numbers DEF SyncInv, ClaimedScoreMeansUnchanged, Synced, UnsyncedIsScheduled
    <2> QED BY <2>1, <2>4, <2>5, <2>6, Zenon DEF SyncInv, RequestsHoldCopies, SeedsAreOld
  <1>6. CASE UpdateManyFails(w)
    <2>1. UNCHANGED <<hot, cold, deleted, schedule, legacy, clock, req>>
      BY <1>6, Zenon DEF UpdateManyFails
    <2>2. /\ flusher[w].step = "fetched"
          /\ \A b \in Balances : flusher'[w].buffer[b] =
                 IF flusher[w].snapshot[b] = NoBalance THEN flusher[w].buffer[b] ELSE 0
          /\ flusher'[w].step = "persisted"
          /\ \A v \in Flushers \ {w} : flusher'[v] = flusher[v]
      BY <1>6, Zenon DEF UpdateManyFails, SyncInv, TypeOK
    <2>3. ScoresArePast'
      BY <2>1, <2>2, Numbers DEF SyncInv, ScoresArePast
    <2>4. ClaimedScoreMeansUnchanged'
      BY <2>1, <2>2 DEF SyncInv, ClaimedScoreMeansUnchanged, Synced
    <2> QED BY <2>1, <2>3, <2>4
            DEF SyncInv, RequestsHoldCopies, SeedsAreOld, UnsyncedIsScheduled
  <1>7. CASE Drop(w)
    <2>1. UNCHANGED <<hot, cold, deleted, schedule, legacy, clock, req>>
      BY <1>7, Zenon DEF Drop
    <2>2. /\ flusher'[w].step = "collect"
          /\ \A b \in Balances : flusher'[w].buffer[b] = 0
          /\ \A v \in Flushers \ {w} : flusher'[v] = flusher[v]
      BY <1>7, Zenon DEF Drop, IdleFlusher, Unclaimed, SyncInv, TypeOK
    <2>3. ScoresArePast'
      BY <2>1, <2>2, Numbers DEF SyncInv, ScoresArePast
    <2>4. ClaimedScoreMeansUnchanged'
      BY <2>1, <2>2 DEF SyncInv, ClaimedScoreMeansUnchanged, Synced
    <2> QED BY <2>1, <2>3, <2>4
            DEF SyncInv, RequestsHoldCopies, SeedsAreOld, UnsyncedIsScheduled
  <1> QED BY <1>2, <1>3, <1>4, <1>5, <1>6, <1>7, Zenon DEF FlusherStep, Failure

LEMMA ExpiryPreservesSyncInv ==
  ASSUME ~Outage, SyncInv, TypeOK', NEW b \in Balances, LockExpires(b) \/ HotExpires(b)
  PROVE  SyncInv'
  <1>1. CASE LockExpires(b)
    BY <1>1 DEF LockExpires, SyncInv, RequestsHoldCopies, ScoresArePast, SeedsAreOld,
                ClaimedScoreMeansUnchanged, Synced, UnsyncedIsScheduled
  <1>2. CASE HotExpires(b)
    <2>1. /\ \A r \in Requests : req[r].copies[b] # NoBalance =>
                                   req[r].copies[b].Version = hot[b].Version
          /\ schedule[b] = 0 /\ hot[b] # NoBalance
          /\ hot' = [hot EXCEPT ![b] = NoBalance]
          /\ UNCHANGED <<cold, deleted, schedule, legacy, clock, req, flusher>>
      BY <1>2, Zenon DEF HotExpires
    <2>2. hot'[b] = NoBalance /\ \A c \in Balances \ {b} : hot'[c] = hot[c]
      BY <2>1, Zenon DEF SyncInv, TypeOK
    <2>3. RequestsHoldCopies' /\ ScoresArePast'
      BY <2>1, Zenon DEF SyncInv, RequestsHoldCopies, ScoresArePast
    <2>4. SeedsAreOld'
      <3>1. b \notin deleted => hot[b].Version <= cold[b].Version
        BY <2>1, Numbers DEF SyncInv, UnsyncedIsScheduled
      <3> QED BY <2>1, <2>2, <3>1, Zenon DEF SyncInv, SeedsAreOld
    <2>5. ClaimedScoreMeansUnchanged' /\ UnsyncedIsScheduled'
      BY <2>1, <2>2 DEF SyncInv, ClaimedScoreMeansUnchanged, Synced, UnsyncedIsScheduled
    <2> QED BY <2>3, <2>4, <2>5 DEF SyncInv
  <1> QED BY <1>1, <1>2, Zenon

LEMMA SyncInvStep ==
  ASSUME ~Outage, SyncInv, [Next]_vars
  PROVE  SyncInv'
  <1>1. TypeOK'
    BY TypesPreserved, Zenon DEF SyncInv
  <1>2. CASE UNCHANGED vars
    BY <1>2, <1>1 DEF vars, SyncInv, RequestsHoldCopies, ScoresArePast, SeedsAreOld,
                ClaimedScoreMeansUnchanged, Synced, UnsyncedIsScheduled
  <1> QED BY <1>1, <1>2, RequestsPreserveSyncInv, FlushersPreserveSyncInv, ExpiryPreservesSyncInv
          DEF Next

LEMMA RequestsKeepCopies ==
  ASSUME TypeOK, RequestsHoldCopies, [Next]_vars
  PROVE  RequestsHoldCopies'
  <1>1. ASSUME NEW r \in Requests, NEW from \in Balances, NEW to \in Balances,
               GetBalances(r, from, to)
        PROVE  RequestsHoldCopies'
    <2>1. PICK f \in Readable(from), t \in Readable(to) :
              req' = [req EXCEPT ![r] = [state |-> "read", from |-> from, to |-> to,
                                         copies |-> [NoCopies EXCEPT ![from] = f, ![to] = t]]]
      BY <1>1, Zenon DEF GetBalances
    <2>2. f \in Copy /\ t \in Copy /\ from # to
      BY <1>1 DEF GetBalances, Readable, TypeOK, MaybeCopy
    <2>3. /\ req'[r].from = from /\ req'[r].to = to
          /\ req'[r].copies = [NoCopies EXCEPT ![from] = f, ![to] = t]
          /\ \A q \in Requests \ {r} : req'[q] = req[q]
      BY <2>1 DEF TypeOK
    <2>4. req'[r].copies[from] = f /\ req'[r].copies[to] = t
      BY <2>2, <2>3, Zenon DEF NoCopies
    <2> QED BY <2>2, <2>3, <2>4, Zenon DEF RequestsHoldCopies
  <1>2. ASSUME NEW r \in Requests, Settle(r)
        PROVE  RequestsHoldCopies'
    BY <1>2, SettledRequest DEF RequestsHoldCopies
  <1>3. CASE UNCHANGED req
    BY <1>3 DEF RequestsHoldCopies
  <1> QED
    BY <1>1, <1>2, <1>3, Zenon
    DEF Next, RequestStep, ProcessBalanceAtomicOperation, RollbackAtomicOperation, FlusherStep,
        Failure, GetBalanceSyncKeys, GetBalanceSyncKeysLegacy, Claim, GetBalancesByKeys,
        UpdateMany, RemoveBalanceSyncKeysBatch, UpdateManyFails, Drop, LockExpires, HotExpires, vars
-----------------------------------------------------------------------------
TypeInv == TypeOK /\ RequestsHoldCopies

LEMMA TypeInvariant == Spec => []TypeInv
  <1>1. Init => TypeInv
    BY InitialSyncInv DEF SyncInv, TypeInv
  <1>2. TypeInv /\ [Next]_vars => TypeInv'
    BY TypesPreserved, RequestsKeepCopies DEF TypeInv
  <1> QED BY <1>1, <1>2, PTL DEF Spec

\* Types are kept, and with them the floor: whatever the interleaving of
\* requests, flushes, failures, expiries and outages, no copy of a balance is
\* ever negative (the 0018 check of balance_atomic_operation.lua).
THEOREM TypesCorrect == Spec => []TypeOK
  <1>1. TypeInv => TypeOK
    BY DEF TypeInv
  <1> QED BY <1>1, TypeInvariant, PTL

\* No interleaving of flushers takes a row of PostgreSQL back to an older
\* version (the version guard of UpdateMany), outages included.
THEOREM RowsNeverRegress == Spec => ColdNeverRegresses
  <1> DEFINE Forward == \A b \in Balances : cold'[b].Version >= cold[b].Version
  <1>1. TypeInv /\ [Next]_vars => [Forward]_cold
    <2> SUFFICES ASSUME TypeInv, Next, cold' # cold PROVE Forward
      BY DEF vars
    <2>1. PICK w \in Flushers : UpdateMany(w)
      BY Zenon DEF Next, RequestStep, GetBalances, ProcessBalanceAtomicOperation,
             RollbackAtomicOperation, FlusherStep, Failure, GetBalanceSyncKeys,
             GetBalanceSyncKeysLegacy, Claim, GetBalancesByKeys, RemoveBalanceSyncKeysBatch,
             UpdateManyFails, Drop, LockExpires, HotExpires
    <2>2. \A b \in Balances : cold'[b] = Persisted(b, flusher[w].snapshot[b])
      BY <2>1 DEF UpdateMany
    <2>3. \A b \in Balances : /\ cold[b].Version <= cold'[b].Version
                             /\ cold[b].Version \in Nat /\ cold'[b].Version \in Nat
      BY <2>2, PersistedIsNewer DEF TypeInv, TypeOK, Copy
    <2> QED BY <2>3
  <1> QED BY <1>1, TypeInvariant, PTL DEF Spec, ColdNeverRegresses

\* No mutation is forgotten: as long as no blob outlives an outage, one that is
\* newer than its row is always on the schedule, for any number of workers,
\* stolen locks and crashes.
THEOREM MutationsStayScheduled ==
  ASSUME ~Outage
  PROVE  Spec => []UnsyncedIsScheduled
  <1>1. SyncInv /\ [Next]_vars => SyncInv'
    BY SyncInvStep
  <1>2. SyncInv => UnsyncedIsScheduled
    BY DEF SyncInv
  <1> QED BY <1>1, <1>2, InitialSyncInv, PTL DEF Spec

-----------------------------------------------------------------------------
(***************************************************************************)
(* As long as PostgreSQL is not unreachable for longer than a cached blob  *)
(* lives, the cache, the schedule and the workers together implement       *)
(* LedgerBalances: acknowledged transfers are neither lost nor repeated.   *)
(***************************************************************************)
\* A copy of the latest state of the balance.
IsHead(b, c) == c.Version = Len(log[b])

\* The latest state is where a reader looks for it: in the blob if there is
\* one and in the row if there is none; and a copy that could still be seeded
\* into an empty slot is the latest state too.
HeadIsServed ==
    \A b \in Balances :
        /\ hot[b] # NoBalance => IsHead(b, hot[b])
        /\ hot[b] = NoBalance => IsHead(b, cold[b])
        /\ \A r \in Requests :
              hot[b] = NoBalance /\ req[r].copies[b] # NoBalance => IsHead(b, req[r].copies[b])

RequestCopiesAreLedgerStates ==
    \A r \in Requests, b \in Balances : IsLedgerState(b, req[r].copies[b])

LedgerInv ==
    /\ SyncInv
    /\ deleted = {}
    /\ HeadIsServed
    /\ CopiesAreLedgerStates
    /\ RequestCopiesAreLedgerStates

\* The amount after the last mutation.
HeadAmount(b) == AvailableAt(b, Len(log[b]))
-----------------------------------------------------------------------------
LEMMA Appended ==
  ASSUME NEW s \in Seq(Nat), NEW x \in Nat
  PROVE  /\ Len(s) \in Nat
         /\ Len(Append(s, x)) = Len(s) + 1
         /\ \A i \in 1..Len(s) : Append(s, x)[i] = s[i]
         /\ Append(s, x)[Len(s) + 1] = x
  OBVIOUS

LEMMA InitialLedgerInv == Init => LedgerInv
  <1> SUFFICES ASSUME Init PROVE LedgerInv
    OBVIOUS
  <1>1. \A b \in Balances : /\ log[b] = << >> /\ hot[b] = NoBalance
                            /\ cold[b].Version = 0 /\ cold[b].Available = InitialFunds
    BY Zenon DEF Init
  <1>2. /\ \A r \in Requests, b \in Balances : req[r].copies[b] = NoBalance
        /\ \A w \in Flushers, b \in Balances : flusher[w].snapshot[b] = NoBalance
    BY DEF Init, IdleRequest, IdleFlusher, NoCopies
  <1>3. deleted = {}
    BY Zenon DEF Init
  <1>4. HeadIsServed
    BY <1>1, <1>2, Zenon DEF HeadIsServed, IsHead
  <1>5. CopiesAreLedgerStates /\ RequestCopiesAreLedgerStates
    BY <1>1, <1>2 DEF CopiesAreLedgerStates, RequestCopiesAreLedgerStates, IsLedgerState,
                      AvailableAt
  <1> QED BY <1>3, <1>4, <1>5, InitialSyncInv DEF LedgerInv

\* A reader is served the amount after the last mutation.
LEMMA CurrentIsHead ==
  ASSUME LedgerInv, NEW b \in Balances
  PROVE  Current(b).Available = HeadAmount(b)
  <1>1. cold[b] # NoBalance
    BY BalancesAssumption DEF LedgerInv, SyncInv, TypeOK
  <1> QED BY <1>1 DEF LedgerInv, HeadIsServed, IsHead, CopiesAreLedgerStates, IsLedgerState, Current, HeadAmount

LEMMA ServedAmounts == LedgerInv => \A b \in Balances : Current(b).Available = HeadAmount(b)
  BY CurrentIsHead, Zenon

\* The script starts from the latest state, whichever side it is loaded from.
LEMMA LoadedIsHead ==
  ASSUME LedgerInv, NEW r \in Requests, NEW b \in Balances, req[r].copies[b] # NoBalance
  PROVE  /\ Loaded(r, b) # NoBalance
         /\ Loaded(r, b).Version = Len(log[b])
         /\ Loaded(r, b).Available = HeadAmount(b)
  BY DEF LedgerInv, HeadIsServed, IsHead, CopiesAreLedgerStates, RequestCopiesAreLedgerStates,
         IsLedgerState, Loaded, HeadAmount

\* Appending to the log changes no older state.
LEMMA LedgerStateStays ==
  ASSUME NEW b \in Balances, log[b] \in Seq(Nat), NEW c, NEW x \in Nat, IsLedgerState(b, c),
         log'[b] = log[b] \/ log'[b] = Append(log[b], x)
  PROVE  c # NoBalance => /\ c.Version \in 0..Len(log'[b])
                          /\ c.Available = (IF c.Version = 0 THEN InitialFunds
                                            ELSE log'[b][c.Version])
  <1>1. CASE log'[b] = log[b]
    BY <1>1 DEF IsLedgerState, AvailableAt
  <1>2. CASE log'[b] = Append(log[b], x)
    BY <1>2, Appended DEF IsLedgerState, AvailableAt
  <1> QED BY <1>1, <1>2
-----------------------------------------------------------------------------
LEMMA TransferStep ==
  ASSUME LedgerInv, SyncInv', NEW r \in Requests, ProcessBalanceAtomicOperation(r)
  PROVE  /\ LedgerInv'
         /\ req[r].from \in Balances /\ req[r].to \in Balances /\ req[r].from # req[r].to
         /\ HeadAmount(req[r].from) >= 1
         /\ \A b \in Balances : HeadAmount(b) \in Nat
         /\ \A b \in Balances : HeadAmount(b)' = IF b = req[r].from THEN HeadAmount(b) - 1
                                          ELSE IF b = req[r].to THEN HeadAmount(b) + 1 ELSE HeadAmount(b)
  <1> DEFINE from == req[r].from
             to   == req[r].to
             f    == Moved(Loaded(r, from), -1)
             t    == Moved(Loaded(r, to), 1)
  <1>1. /\ req[r].state = "read" /\ f.Available >= 0 /\ Settle(r)
        /\ hot' = [hot EXCEPT ![from] = f, ![to] = t]
        /\ log' = [log EXCEPT ![from] = Append(@, f.Available), ![to] = Append(@, t.Available)]
        /\ UNCHANGED <<cold, deleted, flusher>>
    BY Zenon DEF ProcessBalanceAtomicOperation
  <1>2. /\ from \in Balances /\ to \in Balances /\ from # to
        /\ req[r].copies[from] \in Copy /\ req[r].copies[to] \in Copy
    BY <1>1, Zenon DEF LedgerInv, SyncInv, RequestsHoldCopies
  <1>3. /\ Loaded(r, from) \in Copy /\ Loaded(r, to) \in Copy
    BY <1>1, LoadedIsCopy, Zenon DEF LedgerInv, SyncInv
  <1>4. /\ Loaded(r, from).Version = Len(log[from]) /\ Loaded(r, from).Available = HeadAmount(from)
        /\ Loaded(r, to).Version = Len(log[to]) /\ Loaded(r, to).Available = HeadAmount(to)
    BY <1>2, LoadedIsHead, BalancesAssumption, Zenon
  <1>5. /\ f.Version = Len(log[from]) + 1 /\ f.Available = HeadAmount(from) - 1
        /\ t.Version = Len(log[to]) + 1 /\ t.Available = HeadAmount(to) + 1
        /\ f.Available \in Nat /\ t.Available \in Nat
        /\ HeadAmount(from) \in Nat /\ HeadAmount(to) \in Nat /\ HeadAmount(from) >= 1
    BY <1>1, <1>3, <1>4 DEF Moved, Copy
  <1>6. f \in Copy /\ t \in Copy
    BY <1>3, <1>5 DEF Moved, Copy
  <1>7. f # NoBalance /\ t # NoBalance
    BY <1>6, BalancesAssumption, Zenon
  <1> HIDE DEF f, t
  <1>8. log \in [Balances -> Seq(Nat)] /\ hot \in [Balances -> MaybeCopy]
    BY Zenon DEF LedgerInv, SyncInv, TypeOK
  <1>9. /\ hot'[from] = f /\ hot'[to] = t
        /\ \A b \in Balances \ {from, to} : hot'[b] = hot[b]
    BY <1>1, <1>2, <1>8, Zenon
  <1>10. /\ log'[from] = Append(log[from], f.Available)
         /\ log'[to] = Append(log[to], t.Available)
         /\ \A b \in Balances \ {from, to} : log'[b] = log[b]
    BY <1>1, <1>2, <1>8, Zenon
  <1> HIDE DEF from, to
  <1>11. \A b \in Balances : \A c : IsLedgerState(b, c) =>
           (c # NoBalance => /\ c.Version \in 0..Len(log'[b])
                             /\ c.Available = (IF c.Version = 0 THEN InitialFunds
                                               ELSE log'[b][c.Version]))
    BY <1>5, <1>8, <1>10, LedgerStateStays, ZenonT(30)
  <1>12. /\ Len(log'[from]) = Len(log[from]) + 1 /\ log'[from][Len(log[from]) + 1] = f.Available
         /\ Len(log'[to]) = Len(log[to]) + 1 /\ log'[to][Len(log[to]) + 1] = t.Available
         /\ Len(log[from]) \in Nat /\ Len(log[to]) \in Nat
    BY <1>2, <1>5, <1>8, <1>10, Appended
  <1>13. HeadIsServed'
    <2> SUFFICES ASSUME NEW b \in Balances
                 PROVE  /\ hot'[b] # NoBalance => IsHead(b, hot[b])'
                        /\ hot'[b] = NoBalance => IsHead(b, cold[b])'
                        /\ \A q \in Requests :
                              hot'[b] = NoBalance /\ req'[q].copies[b] # NoBalance
                                  => IsHead(b, req[q].copies[b])'
      BY Zenon DEF HeadIsServed
    <2>1. CASE b \in {from, to}
      BY <2>1, <1>5, <1>7, <1>9, <1>12, Zenon DEF IsHead
    <2>2. CASE b \notin {from, to}
      <3>1. \A q \in Requests : req'[q].copies[b] = req[q].copies[b]
                                 \/ req'[q].copies[b] = NoBalance
        BY <1>1, SettledRequest DEF LedgerInv, SyncInv
      <3>2. hot'[b] = hot[b] /\ log'[b] = log[b] /\ cold'[b] = cold[b]
        BY <2>2, <1>1, <1>9, <1>10, Zenon
      <3>3. /\ hot[b] # NoBalance => hot[b].Version = Len(log[b])
            /\ hot[b] = NoBalance => cold[b].Version = Len(log[b])
            /\ \A q \in Requests : hot[b] = NoBalance /\ req[q].copies[b] # NoBalance
                                       => req[q].copies[b].Version = Len(log[b])
        BY DEF IsHead, LedgerInv, HeadIsServed
      <3> QED BY <3>1, <3>2, <3>3, Zenon DEF IsHead
    <2> QED BY <2>1, <2>2, Zenon
  <1>14. CopiesAreLedgerStates'
    <2> SUFFICES ASSUME NEW b \in Balances
                 PROVE  /\ IsLedgerState(b, hot[b])'
                        /\ IsLedgerState(b, cold[b])'
                        /\ \A w \in Flushers : IsLedgerState(b, flusher[w].snapshot[b])'
      BY DEF CopiesAreLedgerStates
    <2>1. IsLedgerState(b, hot[b])'
      <3>1. CASE b \in {from, to}
        <4>1. /\ hot'[b].Version = Len(log[b]) + 1
              /\ Len(log'[b]) = Len(log[b]) + 1 /\ Len(log[b]) \in Nat
              /\ hot'[b].Available = log'[b][Len(log[b]) + 1]
          BY <3>1, <1>5, <1>9, <1>12, Zenon
        <4> QED BY <4>1 DEF IsLedgerState, AvailableAt
      <3>2. CASE b \notin {from, to}
        BY <3>2, <1>9, <1>11 DEF LedgerInv, CopiesAreLedgerStates, IsLedgerState, AvailableAt
      <3> QED BY <3>1, <3>2
    <2>2. IsLedgerState(b, cold[b])' /\ \A w \in Flushers : IsLedgerState(b, flusher[w].snapshot[b])'
      BY <1>1, <1>11, Zenon DEF LedgerInv, CopiesAreLedgerStates, IsLedgerState, AvailableAt
    <2> QED BY <2>1, <2>2
  <1>15. RequestCopiesAreLedgerStates'
    <2> SUFFICES ASSUME NEW q \in Requests, NEW b \in Balances
                 PROVE  IsLedgerState(b, req[q].copies[b])'
      BY DEF RequestCopiesAreLedgerStates
    <2>1. req'[q].copies[b] = req[q].copies[b] \/ req'[q].copies[b] = NoBalance
      BY <1>1, SettledRequest, Zenon DEF LedgerInv, SyncInv
    <2> QED BY <2>1, <1>11, Zenon DEF LedgerInv, RequestCopiesAreLedgerStates, IsLedgerState, AvailableAt
  <1>16. LedgerInv'
    BY <1>1, <1>13, <1>14, <1>15, Zenon DEF LedgerInv
  <1>17. \A b \in Balances : HeadAmount(b)' = IF b = from THEN HeadAmount(b) - 1
                                       ELSE IF b = to THEN HeadAmount(b) + 1 ELSE HeadAmount(b)
    BY <1>2, <1>5, <1>10, <1>12 DEF HeadAmount, AvailableAt
  <1>18. \A b \in Balances : HeadAmount(b) \in Nat
    <2>1. \A b \in Balances : Current(b) \in Copy
      BY Zenon DEF LedgerInv, SyncInv, TypeOK, Current, MaybeCopy
    <2> QED BY <2>1, CurrentIsHead DEF Copy
  <1> QED BY <1>2, <1>5, <1>16, <1>17, <1>18, Zenon DEF from, to

\* A request step that leaves the log alone may read what is served, and may
\* seed an empty slot with the head.
LEMMA QuietRequestStep ==
  ASSUME LedgerInv, SyncInv', UNCHANGED <<cold, deleted, flusher, log>>,
         \A b \in Balances :
            \/ hot'[b] = hot[b]
            \/ /\ hot'[b] # NoBalance
               /\ hot'[b].Version = Len(log[b])
               /\ IsLedgerState(b, hot'[b]),
         \A q \in Requests, b \in Balances :
            req'[q].copies[b] \in {NoBalance, req[q].copies[b], hot[b], cold[b]}
  PROVE  LedgerInv'
  <1>1. HeadIsServed'
    <2> SUFFICES ASSUME NEW b \in Balances
                 PROVE  /\ hot'[b] # NoBalance => hot'[b].Version = Len(log[b])
                        /\ hot'[b] = NoBalance => cold[b].Version = Len(log[b])
                        /\ \A q \in Requests :
                              hot'[b] = NoBalance /\ req'[q].copies[b] # NoBalance
                                  => req'[q].copies[b].Version = Len(log[b])
      BY Zenon DEF HeadIsServed, IsHead
    <2>1. /\ hot[b] # NoBalance => hot[b].Version = Len(log[b])
          /\ hot[b] = NoBalance => cold[b].Version = Len(log[b])
          /\ \A q \in Requests : hot[b] = NoBalance /\ req[q].copies[b] # NoBalance
                                     => req[q].copies[b].Version = Len(log[b])
      BY Zenon DEF IsHead, LedgerInv, HeadIsServed
    <2> QED BY <2>1, Zenon
  <1>2. CopiesAreLedgerStates'
    BY DEF LedgerInv, CopiesAreLedgerStates, IsLedgerState, AvailableAt
  <1>3. RequestCopiesAreLedgerStates'
    <2> SUFFICES ASSUME NEW q \in Requests, NEW b \in Balances
                 PROVE  IsLedgerState(b, req[q].copies[b])'
      BY DEF RequestCopiesAreLedgerStates
    <2>1. IsLedgerState(b, req[q].copies[b]) /\ IsLedgerState(b, hot[b]) /\ IsLedgerState(b, cold[b])
      BY Zenon DEF LedgerInv, RequestCopiesAreLedgerStates, CopiesAreLedgerStates
    <2> QED BY <2>1, ZenonT(30) DEF IsLedgerState, AvailableAt
  <1> QED BY <1>1, <1>2, <1>3, Zenon DEF LedgerInv

\* Every other step leaves the log alone and keeps the head where it is served.
LEMMA OtherRequestSteps ==
  ASSUME LedgerInv, SyncInv', NEW r \in Requests,
         \/ \E from, to \in Balances : GetBalances(r, from, to)
         \/ \E first \in BOOLEAN : RollbackAtomicOperation(r, first)
  PROVE  LedgerInv' /\ log' = log
  <1>1. ASSUME NEW from \in Balances, NEW to \in Balances, GetBalances(r, from, to)
        PROVE  LedgerInv' /\ log' = log
    <2>1. UNCHANGED <<hot, cold, deleted, flusher, log>>
      BY <1>1 DEF GetBalances
    <2>2. PICK f \in Readable(from), t \in Readable(to) :
              req' = [req EXCEPT ![r] = [state |-> "read", from |-> from, to |-> to,
                                         copies |-> [NoCopies EXCEPT ![from] = f, ![to] = t]]]
      BY <1>1, ZenonT(30) DEF GetBalances
    <2>3. /\ req'[r].copies = [NoCopies EXCEPT ![from] = f, ![to] = t]
          /\ \A q \in Requests \ {r} : req'[q] = req[q]
      BY <2>2, Zenon DEF LedgerInv, SyncInv, TypeOK
    <2>4. \A b \in Balances : req'[r].copies[b] = NoBalance \/ req'[r].copies[b] \in Readable(b)
      BY <2>2, <2>3, Zenon DEF NoCopies
    <2>5. \A b \in Balances :
             \/ req'[r].copies[b] = NoBalance
             \/ req'[r].copies[b] = hot[b]
             \/ req'[r].copies[b] = cold[b]
      BY <2>4 DEF Readable
    <2> QED BY <2>1, <2>3, <2>5, QuietRequestStep, Zenon
  <1>2. ASSUME NEW first \in BOOLEAN, RollbackAtomicOperation(r, first)
        PROVE  LedgerInv' /\ log' = log
    <2> DEFINE from == req[r].from
               to   == req[r].to
    <2>1. /\ req[r].state = "read" /\ Settle(r)
          /\ UNCHANGED <<cold, deleted, flusher, log>>
          /\ hot' = [hot EXCEPT ![from] = Loaded(r, from),
                                ![to] = IF first THEN Loaded(r, to) ELSE @]
      BY <1>2, Zenon DEF RollbackAtomicOperation
    <2>2. /\ from \in Balances /\ to \in Balances
          /\ req[r].copies[from] # NoBalance /\ req[r].copies[to] # NoBalance
      BY <2>1, BalancesAssumption, Zenon DEF LedgerInv, SyncInv, RequestsHoldCopies
    <2>3. \A b \in Balances : hot'[b] = hot[b] \/ (b \in {from, to} /\ hot'[b] = Loaded(r, b))
      BY <2>1, <2>2, Zenon DEF LedgerInv, SyncInv, TypeOK
    <2> HIDE DEF from, to
    <2>4. \A b \in Balances :
             \/ hot'[b] = hot[b]
             \/ /\ hot'[b] # NoBalance
                /\ hot'[b].Version = Len(log[b])
                /\ IsLedgerState(b, hot'[b])
      BY <2>2, <2>3, LoadedIsHead, ZenonT(30)
      DEF LedgerInv, CopiesAreLedgerStates, RequestCopiesAreLedgerStates, Loaded
    <2>5. \A q \in Requests, b \in Balances :
             req'[q].copies[b] = req[q].copies[b] \/ req'[q].copies[b] = NoBalance
      BY <2>1, SettledRequest, Zenon DEF LedgerInv, SyncInv
    <2> QED BY <2>1, <2>4, <2>5, QuietRequestStep, Zenon
  <1> QED BY <1>1, <1>2

LEMMA FlusherSteps ==
  ASSUME LedgerInv, SyncInv', NEW w \in Flushers, FlusherStep(w) \/ Failure(w)
  PROVE  LedgerInv' /\ log' = log
  <1>1. UNCHANGED <<hot, deleted, req, log>>
    BY DEF FlusherStep, Failure, GetBalanceSyncKeys, GetBalanceSyncKeysLegacy, Claim,
           GetBalancesByKeys, UpdateMany, RemoveBalanceSyncKeysBatch, UpdateManyFails, Drop
  <1>2. \A v \in Flushers, b \in Balances :
           flusher'[v].snapshot[b] \in {NoBalance, flusher[v].snapshot[b], hot[b]}
    <2>1. flusher \in [Flushers -> [step : {"collect", "fetched", "persisted"},
                                     buffer : [Balances -> Nat],
                                     snapshot : [Balances -> MaybeCopy]]]
      BY DEF LedgerInv, SyncInv, TypeOK
    <2>2. /\ \A v \in Flushers \ {w} : flusher'[v] = flusher[v]
          /\ \/ flusher'[w].snapshot = flusher[w].snapshot
             \/ flusher'[w].snapshot = NoCopies
             \/ flusher'[w].snapshot =
                   [b \in Balances |-> IF flusher[w].buffer[b] # 0 THEN hot[b] ELSE NoBalance]
      <3>1. CASE UpdateMany(w)
        BY <2>1, <3>1 DEF UpdateMany
      <3>2. CASE GetBalanceSyncKeys(w) \/ GetBalanceSyncKeysLegacy(w)
        BY <2>1, <3>2 DEF GetBalanceSyncKeys, GetBalanceSyncKeysLegacy, Claim
      <3>3. CASE GetBalancesByKeys(w)
        BY <2>1, <3>3 DEF GetBalancesByKeys
      <3>4. CASE UpdateManyFails(w)
        BY <2>1, <3>4 DEF UpdateManyFails
      <3>5. CASE RemoveBalanceSyncKeysBatch(w) \/ Drop(w)
        BY <2>1, <3>5 DEF RemoveBalanceSyncKeysBatch, Drop, IdleFlusher
      <3> QED BY <3>1, <3>2, <3>3, <3>4, <3>5, Zenon DEF FlusherStep, Failure
    <2> QED BY <2>2, ZenonT(30) DEF NoCopies
  <1>3. \A b \in Balances :
           \/ cold'[b] = cold[b]
           \/ /\ flusher[w].snapshot[b] # NoBalance
              /\ cold[b].Version < flusher[w].snapshot[b].Version
              /\ cold'[b].Version = flusher[w].snapshot[b].Version
              /\ cold'[b].Available = flusher[w].snapshot[b].Available
    <2>1. CASE UpdateMany(w)
      BY <2>1 DEF UpdateMany, Persisted
    <2>2. CASE ~UpdateMany(w)
      BY <2>2, Zenon DEF FlusherStep, Failure, GetBalanceSyncKeys, GetBalanceSyncKeysLegacy, Claim,
                  GetBalancesByKeys, RemoveBalanceSyncKeysBatch, UpdateManyFails, Drop
    <2> QED BY <2>1, <2>2
  <1>4. HeadIsServed'
    <2> SUFFICES ASSUME NEW b \in Balances, hot[b] = NoBalance
                 PROVE  cold'[b].Version = Len(log[b])
      BY <1>1 DEF LedgerInv, HeadIsServed, IsHead
    <2>1. cold[b].Version = Len(log[b])
      BY Zenon DEF LedgerInv, HeadIsServed, IsHead
    <2>2. flusher[w].snapshot[b] # NoBalance => flusher[w].snapshot[b].Version \in 0..Len(log[b])
      BY Zenon DEF LedgerInv, CopiesAreLedgerStates, IsLedgerState
    <2>3. Len(log[b]) \in Nat
      BY DEF LedgerInv, SyncInv, TypeOK
    <2> QED BY <1>3, <2>1, <2>2, <2>3
  <1>5. CopiesAreLedgerStates'
    <2> SUFFICES ASSUME NEW b \in Balances
                 PROVE  /\ IsLedgerState(b, hot[b])'
                        /\ IsLedgerState(b, cold[b])'
                        /\ \A v \in Flushers : IsLedgerState(b, flusher[v].snapshot[b])'
      BY DEF CopiesAreLedgerStates
    <2>1. /\ IsLedgerState(b, hot[b]) /\ IsLedgerState(b, cold[b])
          /\ \A v \in Flushers : IsLedgerState(b, flusher[v].snapshot[b])
      BY Zenon DEF LedgerInv, CopiesAreLedgerStates
    <2>2. IsLedgerState(b, hot[b])'
      BY <1>1, <2>1, Zenon DEF IsLedgerState, AvailableAt
    <2>3. IsLedgerState(b, cold[b])'
      <3>1. cold[b] # NoBalance
        BY BalancesAssumption DEF LedgerInv, SyncInv, TypeOK
      <3> QED BY <1>1, <1>3, <2>1, <3>1, Zenon DEF IsLedgerState, AvailableAt
    <2>4. ASSUME NEW v \in Flushers
          PROVE  IsLedgerState(b, flusher[v].snapshot[b])'
      <3>1. flusher'[v].snapshot[b] \in {NoBalance, flusher[v].snapshot[b], hot[b]}
        BY <1>2
      <3>2. IsLedgerState(b, flusher[v].snapshot[b]) /\ IsLedgerState(b, hot[b])
        BY <2>1, Zenon
      <3> QED BY <1>1, <3>1, <3>2, ZenonT(30) DEF IsLedgerState, AvailableAt
    <2> QED BY <2>2, <2>3, <2>4, Zenon
  <1>6. RequestCopiesAreLedgerStates'
    BY <1>1 DEF LedgerInv, RequestCopiesAreLedgerStates, IsLedgerState, AvailableAt
  <1> QED BY <1>1, <1>4, <1>5, <1>6 DEF LedgerInv

\* A blob only expires once its last version has reached the row.
LEMMA ExpirySteps ==
  ASSUME ~Outage, LedgerInv, SyncInv', NEW b \in Balances, LockExpires(b) \/ HotExpires(b)
  PROVE  LedgerInv' /\ log' = log
  <1>1. CASE LockExpires(b)
    BY <1>1, Zenon DEF LockExpires, LedgerInv, HeadIsServed, IsHead, CopiesAreLedgerStates,
                RequestCopiesAreLedgerStates, IsLedgerState, AvailableAt
  <1>2. CASE HotExpires(b)
    <2>1. /\ \A r \in Requests : req[r].copies[b] # NoBalance =>
                                   req[r].copies[b].Version = hot[b].Version
          /\ schedule[b] = 0 /\ hot[b] # NoBalance
          /\ hot' = [hot EXCEPT ![b] = NoBalance]
          /\ UNCHANGED <<cold, deleted, req, flusher, log>>
      BY <1>2, Zenon DEF HotExpires
    <2>2. hot'[b] = NoBalance /\ \A c \in Balances \ {b} : hot'[c] = hot[c]
      BY <2>1, Zenon DEF LedgerInv, SyncInv, TypeOK
    <2>3. cold[b].Version = Len(log[b])
      <3>1. hot[b].Version = Len(log[b])
        BY <2>1, Zenon DEF LedgerInv, HeadIsServed, IsHead
      <3>2. ~(hot[b].Version > cold[b].Version)
        BY <2>1, Zenon DEF LedgerInv, SyncInv, UnsyncedIsScheduled
      <3>3. cold[b].Version \in 0..Len(log[b]) /\ Len(log[b]) \in Nat
        BY BalancesAssumption DEF LedgerInv, SyncInv, TypeOK, CopiesAreLedgerStates, IsLedgerState
      <3> QED BY <3>1, <3>2, <3>3
    <2>4. HeadIsServed'
      <3>1. hot[b].Version = Len(log[b])
        BY <2>1, Zenon DEF LedgerInv, HeadIsServed, IsHead
      <3> QED BY <2>1, <2>2, <2>3, <3>1, Zenon DEF LedgerInv, HeadIsServed, IsHead
    <2>5. CopiesAreLedgerStates' /\ RequestCopiesAreLedgerStates'
      BY <2>1, <2>2 DEF LedgerInv, CopiesAreLedgerStates, RequestCopiesAreLedgerStates,
                        IsLedgerState, AvailableAt
    <2> QED BY <2>1, <2>4, <2>5 DEF LedgerInv
  <1> QED BY <1>1, <1>2, Zenon

LEMMA LedgerInvStep ==
  ASSUME ~Outage, LedgerInv, [Next]_vars
  PROVE  LedgerInv' /\ (log' = log \/ \E r \in Requests : ProcessBalanceAtomicOperation(r))
  <1>1. SyncInv'
    BY SyncInvStep DEF LedgerInv
  <1>2. CASE UNCHANGED vars
    BY <1>1, <1>2, Zenon DEF vars, LedgerInv, HeadIsServed, IsHead, CopiesAreLedgerStates,
                RequestCopiesAreLedgerStates, IsLedgerState, AvailableAt
  <1> QED BY <1>1, <1>2, TransferStep, OtherRequestSteps, FlusherSteps, ExpirySteps, Zenon
          DEF Next, RequestStep
-----------------------------------------------------------------------------
\* Without an outage longer than the blob TTL, every copy of a balance in the
\* cache, in PostgreSQL and in a flush holds the amount the script reported
\* for its version.
THEOREM CopiesCorrect ==
  ASSUME ~Outage
  PROVE  Spec => []CopiesAreLedgerStates
  <1>1. LedgerInv /\ [Next]_vars => LedgerInv'
    BY LedgerInvStep
  <1>2. LedgerInv => CopiesAreLedgerStates
    BY DEF LedgerInv
  <1> QED BY <1>1, <1>2, InitialLedgerInv, PTL DEF Spec

\* The whole store refines LedgerBalances under the mapping "the blob if there
\* is one, else the row": the script's commit is the transfer, and no read,
\* flush, failure or expiry changes an amount a client can see.
THEOREM StoreImplementsLedger ==
  ASSUME ~Outage
  PROVE  Spec => ImplementsLedger
  <1> DEFINE funds == [b \in Balances |-> Current(b).Available]
  <1>1. LedgerInv /\ [Next]_vars => LedgerInv'
    BY LedgerInvStep
  <1>2. Init => Ledger!Init
    BY DEF Init, Ledger!Init, Current
  <1>3. LedgerInv' => (\A b \in Balances : Current(b).Available = HeadAmount(b))'
    BY ServedAmounts, PTL
  <1>4. LedgerInv /\ [Next]_vars => [Ledger!Next]_funds
    <2> SUFFICES ASSUME LedgerInv, [Next]_vars
                 PROVE  Ledger!Next \/ funds' = funds
      OBVIOUS
    <2>1. LedgerInv'
      BY <1>1
    <2>2. funds = [b \in Balances |-> HeadAmount(b)]
      BY CurrentIsHead
    <2>3. funds' = [b \in Balances |-> HeadAmount(b)']
      BY <2>1, <1>3, Zenon
    <2>4. CASE log' = log
      BY <2>2, <2>3, <2>4 DEF HeadAmount, AvailableAt
    <2>5. ASSUME NEW r \in Requests, ProcessBalanceAtomicOperation(r)
          PROVE  Ledger!Next
      <3> DEFINE from == req[r].from
                 to   == req[r].to
      <3>1. SyncInv'
        BY <2>1, Zenon DEF LedgerInv
      <3>2. /\ from \in Balances /\ to \in Balances /\ from # to /\ HeadAmount(from) >= 1
            /\ \A b \in Balances : HeadAmount(b) \in Nat
            /\ \A b \in Balances : HeadAmount(b)' = IF b = from THEN HeadAmount(b) - 1
                                             ELSE IF b = to THEN HeadAmount(b) + 1 ELSE HeadAmount(b)
        BY <2>5, <3>1, TransferStep
      <3> HIDE DEF from, to
      <3>3. funds[from] >= 1
        BY <2>2, <3>2
      <3>4. funds' = [funds EXCEPT ![from] = @ - 1, ![to] = @ + 1]
        BY <2>2, <2>3, <3>2, ZenonT(30)
      <3> QED BY <3>2, <3>3, <3>4, Zenon DEF Ledger!Next, Ledger!Transfer
    <2> QED BY <2>4, <2>5, LedgerInvStep, Zenon
  <1> QED BY <1>1, <1>2, <1>4, InitialLedgerInv, PTL DEF Spec, ImplementsLedger, Ledger!Spec

-----------------------------------------------------------------------------
(***************************************************************************)
(* Deletion beside settings updates, transactions and flushes, for any     *)
(* number of each, outages included.                                       *)
(***************************************************************************)
\* The rows are those of Balances, and only rows are deleted.
RowsInv == DOMAIN cold = Balances /\ deleted \subseteq Balances

\* Only UpdateMany, UpdateRow and DeleteRow touch the table.
LEMMA TableWriters ==
  ASSUME RowsInv, [AdminNext]_adminVars
  PROVE  \/ UNCHANGED <<cold, deleted>>
         \/ \E w \in Flushers : UpdateMany(w)
         \/ \E u \in Updaters, b \in Balances, s \in SettingsValues : UpdateRow(u, b, s)
         \/ \E b \in Balances : DeleteRow(b)
  <1>1. ASSUME NEW r \in Requests, RequestStep(r) PROVE UNCHANGED <<cold, deleted>>
    BY <1>1 DEF RequestStep, GetBalances, ProcessBalanceAtomicOperation, RollbackAtomicOperation
  <1>2. ASSUME NEW w \in Flushers, FlusherStep(w) \/ Failure(w), ~UpdateMany(w)
        PROVE  UNCHANGED <<cold, deleted>>
    BY <1>2, Zenon DEF FlusherStep, Failure, GetBalanceSyncKeys, GetBalanceSyncKeysLegacy, Claim,
                GetBalancesByKeys, RemoveBalanceSyncKeysBatch, UpdateManyFails, Drop
  <1>3. ASSUME NEW b \in Balances, LockExpires(b) \/ AdminHotExpires(b)
        PROVE  UNCHANGED <<cold, deleted>>
    BY <1>3 DEF LockExpires, AdminHotExpires, HotExpires
  <1>4. ASSUME NEW u \in Updaters, ReadCachedBlob(u) \/ RewriteCachedBlob(u) \/ RewriteFails(u)
        PROVE  UNCHANGED <<cold, deleted>>
    BY <1>4, Zenon DEF ReadCachedBlob, RewriteCachedBlob, RewriteFails, vars
  <1>5. ASSUME NEW b \in Balances, DeleteBalanceFind(b) \/ DeleteAllList(b) \/ DeleteAllCheckCache(b)
        PROVE  UNCHANGED <<cold, deleted>>
    BY <1>5 DEF DeleteBalanceFind, DeleteAllList, DeleteAllCheckCache, vars
  <1>6. CASE UNCHANGED adminVars
    BY <1>6 DEF adminVars, vars
  <1> QED BY <1>1, <1>2, <1>3, <1>4, <1>5, <1>6 DEF AdminNext

LEMMA RowsPreserved ==
  ASSUME RowsInv, [AdminNext]_adminVars
  PROVE  /\ RowsInv'
         /\ \A b \in deleted : cold'[b] = cold[b]
  <1>1. CASE UNCHANGED <<cold, deleted>>
    BY <1>1 DEF RowsInv
  <1>2. ASSUME NEW w \in Flushers, UpdateMany(w)
        PROVE  RowsInv' /\ \A b \in deleted : cold'[b] = cold[b]
    BY <1>2 DEF UpdateMany, Persisted, RowsInv
  <1>3. ASSUME NEW u \in Updaters, NEW b \in Balances, NEW s \in SettingsValues, UpdateRow(u, b, s)
        PROVE  RowsInv' /\ \A d \in deleted : cold'[d] = cold[d]
    BY <1>3 DEF UpdateRow, RowsInv
  <1>4. ASSUME NEW b \in Balances, DeleteRow(b)
        PROVE  RowsInv' /\ \A d \in deleted : cold'[d] = cold[d]
    BY <1>4 DEF DeleteRow, RowsInv
  <1> QED BY <1>1, <1>2, <1>3, <1>4, TableWriters

\* No flush, however late, and no settings update writes into a row that a
\* delete has soft-deleted (UpdateMany and BalanceRepo.Update look at
\* deleted_at).
THEOREM DeletedRowsStay == AdminSpec => DeletedRowsAreFrozen
  <1>1. AdminInit => RowsInv
    BY DEF AdminInit, Init, RowsInv
  <1>2. RowsInv /\ [AdminNext]_adminVars => RowsInv'
    BY RowsPreserved
  <1>3. RowsInv /\ [AdminNext]_adminVars => [\A b \in deleted : cold'[b] = cold[b]]_cold
    BY RowsPreserved
  <1> QED BY <1>1, <1>2, <1>3, PTL DEF AdminSpec, DeletedRowsAreFrozen
=============================================================================
