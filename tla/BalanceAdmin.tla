---------------------------- MODULE BalanceAdmin ----------------------------
(***************************************************************************)
(* The administrative operations on a balance, running beside the          *)
(* transactions and the sync pipeline of BalanceSync:                      *)
(*                                                                         *)
(*   - UseCase.Update: persist new settings, then rewrite the settings     *)
(*     fields of the cached blob with a GET and a SET                      *)
(*     (UpdateBalanceCacheSettings);                                       *)
(*   - UseCase.DeleteBalance and UseCase.DeleteAllBalancesByAccountID      *)
(*     (for an account with one balance): check, then soft-delete the row. *)
(***************************************************************************)
EXTENDS BalanceSync

CONSTANT Updaters   \* PATCH .../balances/:id requests

VARIABLES
    upd,        \* each update's step, balance, settings and the blob it read
    deleting    \* per balance, how far a DELETE has come

adminVars == <<vars, upd, deleting>>

IdleUpdate == [step |-> "idle", bal |-> NoBalance, settings |-> InitialSettings,
               blob |-> NoBalance]

AdminInit ==
    /\ Init
    /\ upd = [u \in Updaters |-> IdleUpdate]
    /\ deleting = [b \in Balances |-> "none"]
-----------------------------------------------------------------------------
\* Find and BalanceRepo.Update: the settings column of a live row.
UpdateRow(u, b, s) ==
    /\ upd[u].step = "idle"
    /\ b \notin deleted
    /\ cold' = [cold EXCEPT ![b].Settings = s]
    /\ upd' = [upd EXCEPT ![u] = [step |-> "persisted", bal |-> b, settings |-> s,
                                  blob |-> NoBalance]]
    /\ UNCHANGED <<hot, deleted, schedule, legacy, locks, clock, req, flusher, log, faults,
                   deleting>>

FinishUpdate(u) == upd' = [upd EXCEPT ![u] = [IdleUpdate EXCEPT !.step = "done"]]

\* The GET of UpdateBalanceCacheSettings; a miss ends the update.
ReadCachedBlob(u) ==
    /\ upd[u].step = "persisted"
    /\ \/ hot[upd[u].bal] = NoBalance /\ FinishUpdate(u)
       \/ hot[upd[u].bal] # NoBalance
          /\ upd' = [upd EXCEPT ![u].step = "read", ![u].blob = hot[upd[u].bal]]
    /\ UNCHANGED <<vars, deleting>>

\* Its SET: the blob as it was read, with the new settings.
RewriteCachedBlob(u) ==
    /\ upd[u].step = "read"
    /\ hot' = [hot EXCEPT ![upd[u].bal] = [upd[u].blob EXCEPT !.Settings = upd[u].settings]]
    /\ FinishUpdate(u)
    /\ UNCHANGED <<cold, deleted, schedule, legacy, locks, clock, req, flusher, log, faults,
                   deleting>>

\* A Redis error in either call is logged and swallowed.
RewriteFails(u) ==
    /\ upd[u].step \in {"persisted", "read"}
    /\ faults < MaxFaults
    /\ faults' = faults + 1
    /\ FinishUpdate(u)
    /\ UNCHANGED <<hot, cold, deleted, schedule, legacy, locks, clock, req, flusher, log,
                   deleting>>
-----------------------------------------------------------------------------
\* DeleteBalance reads the row and refuses one with funds.
DeleteBalanceFind(b) ==
    /\ deleting[b] = "none" /\ b \notin deleted
    /\ cold[b].Available = 0
    /\ deleting' = [deleting EXCEPT ![b] = "checked"]
    /\ UNCHANGED <<vars, upd>>

\* DeleteAllBalancesByAccountID lists the rows (one with funds is refused)...
DeleteAllList(b) ==
    /\ deleting[b] = "none" /\ b \notin deleted
    /\ cold[b].Available = 0
    /\ deleting' = [deleting EXCEPT ![b] = "listed"]
    /\ UNCHANGED <<vars, upd>>

\* ... and then refuses a balance that has a cached blob.
DeleteAllCheckCache(b) ==
    /\ deleting[b] = "listed"
    /\ deleting' = [deleting EXCEPT ![b] = IF hot[b] = NoBalance THEN "checked" ELSE "none"]
    /\ UNCHANGED <<vars, upd>>

\* The soft delete both of them end with.
DeleteRow(b) ==
    /\ deleting[b] = "checked"
    /\ deleted' = deleted \cup {b}
    /\ deleting' = [deleting EXCEPT ![b] = "none"]
    /\ UNCHANGED <<hot, cold, schedule, legacy, locks, clock, req, flusher, log, faults, upd>>
-----------------------------------------------------------------------------
\* A settings update is shorter than the blob TTL, as a request is.
AdminHotExpires(b) ==
    /\ \A u \in Updaters : upd[u].blob # NoBalance => upd[u].bal # b
    /\ HotExpires(b)

AdminNext ==
    \/ /\ \/ \E r \in Requests : RequestStep(r)
          \/ \E w \in Flushers : FlusherStep(w) \/ Failure(w)
          \/ \E b \in Balances : LockExpires(b) \/ AdminHotExpires(b)
       /\ UNCHANGED <<upd, deleting>>
    \/ \E u \in Updaters :
          \/ \E b \in Balances, s \in SettingsValues : UpdateRow(u, b, s)
          \/ ReadCachedBlob(u)
          \/ RewriteCachedBlob(u)
          \/ RewriteFails(u)
    \/ \E b \in Balances :
          \/ DeleteBalanceFind(b)
          \/ DeleteAllList(b)
          \/ DeleteAllCheckCache(b)
          \/ DeleteRow(b)

AdminSpec == AdminInit /\ [][AdminNext]_adminVars
-----------------------------------------------------------------------------
(* Properties *)

\* A soft-deleted row never changes again: neither a flush of a blob that
\* outlived the row nor a settings update that was already under way writes it.
DeletedRowsAreFrozen ==
    [][\A b \in deleted : cold'[b] = cold[b]]_cold

\* UpdateBalanceCacheSettings preserves the live transactional state of the
\* blob, as its comment promises: a step of an update changes no Available
\* and no Version in the cache.
RewritePreservesState ==
    [][upd' # upd =>
         \A b \in Balances : hot[b] # NoBalance =>
             hot'[b].Available = hot[b].Available /\ hot'[b].Version = hot[b].Version]_<<hot, upd>>
=============================================================================
