--------------------------- MODULE UserLifecycle ---------------------------
(***************************************************************************)
(* The life of ONE user's decrypted database inside the server process:    *)
(* the registry of src/auth/lifecycle.rs (an entry of a HashMap behind one *)
(* Mutex, with a Condvar) and every handler and job that goes through it:  *)
(* browser requests, paired-client requests, login and registration,       *)
(* logout, pairing approval and claim, revocation, the session-cleanup job *)
(* and the deletion of inactive users.                                     *)
(*                                                                         *)
(* A step of the model is one critical section of the registry mutex or    *)
(* one statement/transaction on the app database; between two of them any  *)
(* other handler may run.  Registry entries of different users share only  *)
(* the mutex, so one entry is modelled.  An absent HashMap entry is the    *)
(* default (idle) entry: is_idle() removes exactly the entries equal to it.*)
(***************************************************************************)
EXTENDS Naturals, FiniteSets

CONSTANTS
    Procs,      \* handler threads; each runs one operation at a time
    Sessions,   \* session ids that login/register can ever generate
    Caps,       \* capability ids; also the ids of the pairings that create them
    Ops,        \* the operations the handlers run in this instance
    Faults      \* TRUE: SQLite, file-system and unwrap errors may happen

NoLease      == "none"       \* no UserRequestLease
SessionLease == "session"    \* lease with capability_id = None
NoSession    == "noSession"
NoCap        == "noCap"

AllOps == {"session", "approve", "revoke", "client", "login", "register",
           "logout", "cleanup", "reap"}

ASSUME ProcsAssumption == IsFiniteSet(Procs) /\ IsFiniteSet(Caps)
ASSUME DisjointAssumption == Procs \cap Caps = {}
ASSUME NamesAssumption ==
    /\ NoLease \notin Caps /\ SessionLease \notin Caps /\ NoCap \notin Caps
    /\ NoSession \notin Sessions
ASSUME OpsAssumption == Ops \subseteq AllOps /\ Faults \in BOOLEAN

\* What can own a UserRequestLease: a handler, or an approved pairing that
\* the PairingStore keeps until it is claimed or expires.
Holders == Procs \cup Caps

VARIABLES
    \* UserLifecycleState
    exclusive_user, blocked_capabilities, active_requests,
    active_by_capability, browser_sessions,
    dbOpen,       \* USER_CONNECTIONS has an entry for the user
    \* app database and data directory (survive a restart)
    user,         \* users row and envelope file
    inactive,     \* the users row satisfies the deletion-candidate query
    rows,         \* session ids in the sessions table
    expired,      \* session ids past their absolute or idle timeout
    capability,   \* client_capabilities rows
    capExpired,   \* capability ids past expires_at
    issued,       \* session ids generated so far
    tokens,       \* session ids whose cookie a browser was sent
    \* PairingStore
    pairing,
    \* handler threads
    pc, op, sess, cap, owed, todo, lease

registry == <<exclusive_user, blocked_capabilities, active_requests,
              active_by_capability, browser_sessions>>
sessionMeta == <<expired, issued, tokens>>
clients  == <<capability, capExpired>>
durable  == <<user, inactive, rows, sessionMeta, clients>>
locals   == <<op, sess, cap, owed, todo>>
vars     == <<registry, dbOpen, durable, pairing, pc, locals, lease>>

\* Where a handler holds a UserRequestLease, waits for or holds the
\* UserLifecycleGuard, or holds a CapabilityShutdownGuard.
ServeLabels    == {"serve", "approve", "revokeBegin", "revokeWrite"}
KeyLeaseLabels == {"keyRecheck", "keyOpen", "keyActivity", "keyServe", "releaseExpire"}
SessionLeaseLabels == ServeLabels \cup {"restore", "pin", "recheck"}
GuardLabels    == {"verify", "open", "settings", "insert", "pinNew", "lastLogin",
                   "reapCheck", "reapClear", "reapClose", "reapDir", "reapRows",
                   "unlock"}
ShutdownLabels == {"revokeWrite", "expireClear", "drain", "unblock", "abort"}
Labels == SessionLeaseLabels \cup KeyLeaseLabels \cup GuardLabels \cup ShutdownLabels
          \cup {"idle", "acquire", "keyAcquire", "expireBegin", "logout", "unpin",
                "release", "lock", "drainRequests", "nextExpired", "sweep"}

UserStates       == {"absent", "noEnvelope", "live", "deleted"}
CapabilityStates == {"none", "active", "cleared", "revoked"}
PairingStates    == {"none", "awaiting", "approved", "activating", "denied", "completed"}

\* Every variable ranges over the values the code can store in it.
TypeOK ==
    /\ exclusive_user \in BOOLEAN
    /\ blocked_capabilities \subseteq Caps
    /\ active_requests \in Nat
    /\ active_by_capability \in [Caps -> Nat]
    /\ browser_sessions \subseteq Sessions
    /\ dbOpen \in BOOLEAN
    /\ user \in UserStates
    /\ inactive \in BOOLEAN
    /\ rows \subseteq Sessions
    /\ expired \subseteq Sessions
    /\ capability \in [Caps -> CapabilityStates]
    /\ capExpired \subseteq Caps
    /\ issued \subseteq Sessions
    /\ tokens \subseteq Sessions
    /\ pairing \in [Caps -> PairingStates]
    /\ pc \in [Procs -> Labels]
    /\ op \in [Procs -> AllOps \cup {"none"}]
    /\ sess \in [Procs -> Sessions \cup {NoSession}]
    /\ cap \in [Procs -> Caps \cup {NoCap}]
    /\ owed \in [Procs -> SUBSET Sessions]
    /\ todo \in [Procs -> SUBSET Caps]
    /\ lease \in [Holders -> Caps \cup {NoLease, SessionLease}]

\* The process has just started, before the user registers.
Init ==
    /\ exclusive_user = FALSE
    /\ blocked_capabilities = {}
    /\ active_requests = 0
    /\ active_by_capability = [c \in Caps |-> 0]
    /\ browser_sessions = {}
    /\ dbOpen = FALSE
    /\ user = "absent"
    /\ inactive = FALSE
    /\ rows = {} /\ expired = {} /\ issued = {} /\ tokens = {}
    /\ capability = [c \in Caps |-> "none"]
    /\ capExpired = {}
    /\ pairing = [c \in Caps |-> "none"]
    /\ pc = [p \in Procs |-> "idle"]
    /\ op = [p \in Procs |-> "none"]
    /\ sess = [p \in Procs |-> NoSession]
    /\ cap = [p \in Procs |-> NoCap]
    /\ owed = [p \in Procs |-> {}]
    /\ todo = [p \in Procs |-> {}]
    /\ lease = [h \in Holders |-> NoLease]

-----------------------------------------------------------------------------
(* Helpers *)

Goto(p, l) == pc' = [pc EXCEPT ![p] = l]

\* The handler returns: its locals are dropped.
Return(p) ==
    /\ pc' = [pc EXCEPT ![p] = "idle"]
    /\ op' = [op EXCEPT ![p] = "none"]
    /\ sess' = [sess EXCEPT ![p] = NoSession]
    /\ cap' = [cap EXCEPT ![p] = NoCap]
    /\ owed' = [owed EXCEPT ![p] = {}]
    /\ todo' = [todo EXCEPT ![p] = {}]

\* A handler without an operation starts `o` on session s / capability c.
Start(p, o, s, c, l) ==
    /\ pc[p] = "idle" /\ o \in Ops
    /\ pc' = [pc EXCEPT ![p] = l]
    /\ op' = [op EXCEPT ![p] = o]
    /\ sess' = [sess EXCEPT ![p] = s]
    /\ cap' = [cap EXCEPT ![p] = c]

\* Slip: an exclusive operation that is still draining does not stop requests.
RefusedIgnoresExclusive(k) == k \in blocked_capabilities

\* acquire_request, refused while the user is exclusive or k is blocked.
Refused(k) == exclusive_user \/ k \in blocked_capabilities

acquire_request(h, k) ==
    /\ ~Refused(k)
    /\ active_requests' = active_requests + 1
    /\ active_by_capability' =
          [c \in Caps |-> active_by_capability[c] + (IF c = k THEN 1 ELSE 0)]
    /\ lease' = [lease EXCEPT ![h] = k]
    /\ UNCHANGED <<exclusive_user, blocked_capabilities, browser_sessions>>

saturating_pred(n) == IF n = 0 THEN 0 ELSE n - 1

\* Slip: the drop forgets the per-capability counter.
drop_lease_ForgetsCapability(h) ==
    /\ active_requests' = saturating_pred(active_requests)
    /\ lease' = [lease EXCEPT ![h] = NoLease]
    /\ dbOpen' = (dbOpen /\ ~(active_requests' = 0 /\ browser_sessions = {}))
    /\ UNCHANGED <<exclusive_user, blocked_capabilities, active_by_capability,
                   browser_sessions>>

\* Slip: only unpinning closes the database, never the last lease.
drop_lease_LeavesOpen(h) ==
    /\ active_requests' = saturating_pred(active_requests)
    /\ active_by_capability' =
          [c \in Caps |-> IF c = lease[h] THEN saturating_pred(active_by_capability[c])
                                          ELSE active_by_capability[c]]
    /\ lease' = [lease EXCEPT ![h] = NoLease]
    /\ UNCHANGED <<exclusive_user, blocked_capabilities, browser_sessions, dbOpen>>

\* Drop for UserRequestLease: the database is closed, under the registry
\* mutex, with the last lease of a user without pinned browser sessions.
drop_lease(h) ==
    /\ active_requests' = saturating_pred(active_requests)
    /\ active_by_capability' =
          [c \in Caps |-> IF c = lease[h] THEN saturating_pred(active_by_capability[c])
                                          ELSE active_by_capability[c]]
    /\ lease' = [lease EXCEPT ![h] = NoLease]
    /\ dbOpen' = (dbOpen /\ ~(active_requests' = 0 /\ browser_sessions = {}))
    /\ UNCHANGED <<exclusive_user, blocked_capabilities, browser_sessions>>

\* Where a handler goes once it owes no unpin: it still drops its lease or
\* its lifecycle guard, if it has one.
AfterUnpin(p) == IF lease[p] # NoLease THEN "release"
                 ELSE IF op[p] = "login" THEN "unlock" ELSE "idle"

\* Client capability of an active, unexpired, unrevoked row.
Authorized(c) == capability[c] = "active" /\ c \notin capExpired

-----------------------------------------------------------------------------
(* Unpinning: sessions.rs deletes the row first and unpins afterwards. *)

\* Slip: the last unpin closes the database under the requests in flight.
UnpinClosesUnderRequests(p) ==
    /\ pc[p] = "unpin"
    /\ \E s \in owed[p] :
        /\ browser_sessions' = browser_sessions \ {s}
        /\ dbOpen' = (dbOpen /\ browser_sessions' # {})
        /\ IF owed[p] = {s} /\ AfterUnpin(p) = "idle"
           THEN Return(p)
           ELSE /\ owed' = [owed EXCEPT ![p] = @ \ {s}]
                /\ Goto(p, IF owed[p] = {s} THEN AfterUnpin(p) ELSE "unpin")
                /\ UNCHANGED <<op, sess, cap, todo>>
    /\ UNCHANGED <<exclusive_user, blocked_capabilities, active_requests,
                   active_by_capability, durable, pairing, lease>>

\* unpin_browser_session, one call.  Closing ignores exclusive_user.
UnpinBrowserSession(p) ==
    /\ pc[p] = "unpin"
    /\ \E s \in owed[p] :
        /\ browser_sessions' = browser_sessions \ {s}
        /\ dbOpen' = (dbOpen /\ ~(active_requests = 0 /\ browser_sessions' = {}))
        /\ IF owed[p] = {s} /\ AfterUnpin(p) = "idle"
           THEN Return(p)
           ELSE /\ owed' = [owed EXCEPT ![p] = @ \ {s}]
                /\ Goto(p, IF owed[p] = {s} THEN AfterUnpin(p) ELSE "unpin")
                /\ UNCHANGED <<op, sess, cap, todo>>
    /\ UNCHANGED <<exclusive_user, blocked_capabilities, active_requests,
                   active_by_capability, durable, pairing, lease>>

\* Slip: the row is deleted but the session stays pinned.
DeleteRowForgetsPin(p, s) ==
    /\ rows' = rows \ {s}
    /\ IF AfterUnpin(p) = "idle" THEN Return(p)
       ELSE Goto(p, AfterUnpin(p)) /\ UNCHANGED locals

\* delete_session / invalidate_session: delete s's row; a deleted row is
\* unpinned next, a missing one leaves nothing to do.
DeleteRow(p, s) ==
    /\ rows' = rows \ {s}
    /\ IF s \in rows
       THEN /\ owed' = [owed EXCEPT ![p] = {s}] /\ Goto(p, "unpin")
            /\ UNCHANGED <<op, sess, cap, todo>>
       ELSE IF AfterUnpin(p) = "idle" THEN Return(p)
       ELSE Goto(p, AfterUnpin(p)) /\ UNCHANGED locals

-----------------------------------------------------------------------------
(* require_initialized_session *)

\* get_session_by_token finds a live row ... (c: the pairing or paired client
\* named by an approve, deny or revoke request)
LookupSession(p, o, s, c) ==
    /\ \/ o \in {"session", "logout"} /\ c = NoCap
       \/ o \in {"approve", "revoke"} /\ c \in Caps
    /\ s \in rows \ expired /\ s \in tokens
    /\ Start(p, o, s, c, IF o = "logout" THEN "logout" ELSE "acquire")
    /\ UNCHANGED <<registry, dbOpen, durable, pairing, owed, todo, lease>>

\* ... or an expired one, which it deletes and then unpins.
LookupExpiredSession(p, s) ==
    /\ s \in rows \cap expired /\ s \in tokens
    /\ Start(p, "session", s, NoCap, "unpin")
    /\ rows' = rows \ {s}
    /\ owed' = [owed EXCEPT ![p] = {s}]
    /\ UNCHANGED <<registry, dbOpen, user, inactive, sessionMeta, clients, pairing,
                   todo, lease>>

AcquireSessionRequest(p) ==
    /\ pc[p] = "acquire"
    /\ acquire_request(p, SessionLease)
    /\ Goto(p, "restore")
    /\ UNCHANGED <<dbOpen, durable, pairing, locals>>

\* acquire_session_request answers None: 401.
AcquireSessionRefused(p) ==
    /\ pc[p] = "acquire" /\ Refused(SessionLease)
    /\ Return(p)
    /\ UNCHANGED <<registry, dbOpen, durable, pairing, lease>>

\* Read the envelope, unwrap the key, initialize_user_db.
RestoreUserDb(p) ==
    /\ pc[p] = "restore" /\ user = "live"
    /\ dbOpen' = TRUE
    /\ Goto(p, "pin")
    /\ UNCHANGED <<registry, durable, pairing, locals, lease>>

\* An error before or while opening, or no envelope: the lease is dropped.
RestoreFails(p) ==
    /\ pc[p] = "restore" /\ (Faults \/ user # "live")
    /\ Goto(p, "release")
    /\ UNCHANGED <<registry, dbOpen, durable, pairing, locals, lease>>

\* The session wrapper does not unwrap: invalidate_session under the lease.
RestoreUnwrapFails(p) ==
    /\ pc[p] = "restore" /\ Faults
    /\ DeleteRow(p, sess[p])
    /\ UNCHANGED <<registry, dbOpen, user, inactive, sessionMeta, clients, pairing,
                   lease>>

PinBrowserSession(p) ==
    /\ pc[p] = "pin"
    /\ browser_sessions' = browser_sessions \cup {sess[p]}
    /\ Goto(p, "recheck")
    /\ UNCHANGED <<exclusive_user, blocked_capabilities, active_requests,
                   active_by_capability, dbOpen, durable, pairing, locals, lease>>

\* Slip: the session is not looked up again after it was pinned.
RecheckSkipped(p) ==
    /\ pc[p] = "recheck"
    /\ Goto(p, CASE op[p] = "approve" -> "approve"
                 [] op[p] = "revoke" -> "revokeBegin"
                 [] OTHER -> "serve")
    /\ UNCHANGED <<registry, dbOpen, durable, pairing, locals, lease>>

\* session_exists: the row may have gone since the lookup.
RecheckSession(p) ==
    /\ pc[p] = "recheck"
    /\ IF sess[p] \in rows
       THEN /\ Goto(p, CASE op[p] = "approve" -> "approve"
                         [] op[p] = "revoke" -> "revokeBegin"
                         [] OTHER -> "serve")
            /\ UNCHANGED owed
       ELSE /\ Goto(p, "unpin")
            /\ owed' = [owed EXCEPT ![p] = {sess[p]}]
    /\ UNCHANGED <<registry, dbOpen, durable, pairing, op, sess, cap, todo, lease>>

RecheckFails(p) ==
    /\ pc[p] = "recheck" /\ Faults
    /\ Goto(p, "release")
    /\ UNCHANGED <<registry, dbOpen, durable, pairing, locals, lease>>

\* The handler has used the database and returns.
Served(p) ==
    /\ pc[p] \in {"serve", "keyServe"}
    /\ Goto(p, "release")
    /\ UNCHANGED <<registry, dbOpen, durable, pairing, locals, lease>>

ReleaseLease(p) ==
    /\ pc[p] = "release"
    /\ drop_lease(p)
    /\ Return(p)
    /\ UNCHANGED <<durable, pairing>>

Logout(p) ==
    /\ pc[p] = "logout"
    /\ DeleteRow(p, sess[p])
    /\ UNCHANGED <<registry, dbOpen, user, inactive, sessionMeta, clients, pairing,
                   lease>>

-----------------------------------------------------------------------------
(* authorize_client_request *)

FindCapability(p, c) ==
    /\ capability[c] \in {"active", "cleared"}        \* found and not revoked
    /\ Start(p, "client", NoSession, c,
             IF c \in capExpired THEN "expireBegin" ELSE "keyAcquire")
    /\ UNCHANGED <<registry, dbOpen, durable, pairing, owed, todo, lease>>

AcquireKeyRequest(p) ==
    /\ pc[p] = "keyAcquire"
    /\ acquire_request(p, cap[p])
    /\ Goto(p, "keyRecheck")
    /\ UNCHANGED <<dbOpen, durable, pairing, locals>>

AcquireKeyRefused(p) ==
    /\ pc[p] = "keyAcquire" /\ Refused(cap[p])
    /\ Return(p)
    /\ UNCHANGED <<registry, dbOpen, durable, pairing, lease>>

\* Reload the record under the lease.  A wrap is only ever cleared from an
\* expired record, so an unexpired record still carries its wrap.
RecheckCapability(p) ==
    /\ pc[p] = "keyRecheck"
    /\ Goto(p, CASE capability[cap[p]] \in {"none", "revoked"} -> "release"
                 [] cap[p] \in capExpired -> "releaseExpire"
                 [] OTHER -> "keyOpen")
    /\ UNCHANGED <<registry, dbOpen, durable, pairing, locals, lease>>

OpenForClient(p) ==
    /\ pc[p] = "keyOpen" /\ user = "live"
    /\ dbOpen' = TRUE
    /\ Goto(p, "keyActivity")
    /\ UNCHANGED <<registry, durable, pairing, locals, lease>>

OpenForClientFails(p) ==
    /\ pc[p] = "keyOpen" /\ (Faults \/ user # "live")
    /\ Goto(p, "release")
    /\ UNCHANGED <<registry, dbOpen, durable, pairing, locals, lease>>

\* Second expiry check and record_client_capability_activity, which refuses a
\* revoked row and also refreshes users.last_login_at.
RecordActivity(p) ==
    /\ pc[p] = "keyActivity"
    /\ IF Authorized(cap[p])
       THEN Goto(p, "keyServe") /\ inactive' = FALSE
       ELSE /\ Goto(p, IF cap[p] \in capExpired THEN "releaseExpire" ELSE "release")
            /\ UNCHANGED inactive
    /\ UNCHANGED <<registry, dbOpen, user, rows, sessionMeta, clients, pairing,
                   locals, lease>>

\* Slip: the lease lives until the handler returns.
ReleaseAfterExpiry(p) ==
    /\ pc[p] = "releaseExpire"
    /\ Goto(p, "expireBegin")
    /\ UNCHANGED <<registry, dbOpen, durable, pairing, locals, lease>>

\* drop(lease), then expire_record.
ReleaseBeforeExpiry(p) ==
    /\ pc[p] = "releaseExpire"
    /\ drop_lease(p)
    /\ Goto(p, "expireBegin")
    /\ UNCHANGED <<durable, pairing, locals>>

-----------------------------------------------------------------------------
(* Capability shutdown: expiry (no lease held) and revoke_paired_client,   *)
(* which runs inside a browser request and so holds that request's lease.  *)

\* begin_capability_shutdown, once its wait loop is over.
BeginCapabilityShutdown(c) ==
    /\ ~exclusive_user /\ c \notin blocked_capabilities
    /\ blocked_capabilities' = blocked_capabilities \cup {c}
    /\ UNCHANGED <<exclusive_user, active_requests, active_by_capability,
                   browser_sessions>>

BeginExpiry(p) ==
    /\ pc[p] = "expireBegin"
    /\ BeginCapabilityShutdown(cap[p])
    /\ Goto(p, "expireClear")
    /\ UNCHANGED <<dbOpen, durable, pairing, locals, lease>>

\* clear_expired_client_capability_wrap
ClearExpiredWrap(p) ==
    /\ pc[p] = "expireClear"
    /\ capability' = [capability EXCEPT ![cap[p]] =
                        IF @ = "active" /\ cap[p] \in capExpired THEN "cleared" ELSE @]
    /\ Goto(p, "drain")
    /\ UNCHANGED <<registry, dbOpen, user, inactive, rows, sessionMeta, capExpired,
                   pairing, locals, lease>>

BeginRevoke(p) ==
    /\ pc[p] = "revokeBegin"
    /\ BeginCapabilityShutdown(cap[p])
    /\ Goto(p, "revokeWrite")
    /\ UNCHANGED <<dbOpen, durable, pairing, locals, lease>>

\* revoke_client_capability: Revoked and AlreadyRevoked wait for the requests,
\* NotFound (or an error) returns at once, dropping the shutdown guard.
RevokeCapability(p) ==
    /\ pc[p] = "revokeWrite"
    /\ IF capability[cap[p]] = "none"
       THEN Goto(p, "unblock") /\ UNCHANGED capability
       ELSE Goto(p, "drain") /\ capability' = [capability EXCEPT ![cap[p]] = "revoked"]
    /\ UNCHANGED <<registry, dbOpen, user, inactive, rows, sessionMeta, capExpired,
                   pairing, locals, lease>>

\* The write failed: `?` drops the shutdown guard and ends the handler, the
\* session-cleanup job included.
ShutdownWriteFails(p) ==
    /\ pc[p] \in {"revokeWrite", "expireClear"} /\ Faults
    /\ Goto(p, "abort")
    /\ UNCHANGED <<registry, dbOpen, durable, pairing, locals, lease>>

\* Slip: the shutdown does not wait for the requests in flight.
WaitForNobody(p) ==
    /\ pc[p] = "drain"
    /\ Goto(p, "unblock")
    /\ UNCHANGED <<registry, dbOpen, durable, pairing, locals, lease>>

\* CapabilityShutdownGuard::wait_for_requests
WaitForRequests(p) ==
    /\ pc[p] = "drain"
    /\ active_by_capability[cap[p]] = 0
    /\ Goto(p, "unblock")
    /\ UNCHANGED <<registry, dbOpen, durable, pairing, locals, lease>>

\* Drop for CapabilityShutdownGuard
DropShutdownGuard(p) ==
    /\ pc[p] \in {"unblock", "abort"}
    /\ blocked_capabilities' = blocked_capabilities \ {cap[p]}
    /\ CASE lease[p] # NoLease -> Goto(p, "release") /\ UNCHANGED locals
         [] lease[p] = NoLease /\ op[p] = "cleanup" /\ pc[p] = "unblock" ->
                Goto(p, "nextExpired") /\ UNCHANGED locals
         [] OTHER -> Return(p)
    /\ UNCHANGED <<exclusive_user, active_requests, active_by_capability,
                   browser_sessions, dbOpen, durable, pairing, lease>>

-----------------------------------------------------------------------------
(* PairingStore: an approved pairing owns a lease until claimed or expired *)

PairingStoreFree == \A c \in Caps : pairing[c] # "activating"

SetPairing(c, st) == pairing' = [pairing EXCEPT ![c] = st]

StartPairing(c) ==
    /\ "approve" \in Ops /\ PairingStoreFree
    /\ pairing[c] = "none" /\ capability[c] = "none" /\ user # "deleted"
    /\ SetPairing(c, "awaiting")
    /\ UNCHANGED <<registry, dbOpen, durable, pc, locals, lease>>

\* approve_pairing: the bind closure takes a second lease for the store.
ApprovePairing(p) ==
    /\ pc[p] = "approve" /\ PairingStoreFree /\ pairing[cap[p]] = "awaiting"
    /\ acquire_request(cap[p], SessionLease)
    /\ SetPairing(cap[p], "approved")
    /\ Goto(p, "release")
    /\ UNCHANGED <<dbOpen, durable, locals>>

\* NotFound, Conflict, or Binding because the lease was refused.
ApproveFails(p) ==
    /\ pc[p] = "approve" /\ PairingStoreFree
    /\ pairing[cap[p]] # "awaiting" \/ Refused(SessionLease)
    /\ Goto(p, "release")
    /\ UNCHANGED <<registry, dbOpen, durable, pairing, locals, lease>>

\* deny_pairing, by any browser session of the user.
DenyPairing(p) ==
    /\ pc[p] = "approve" /\ PairingStoreFree /\ pairing[cap[p]] = "awaiting"
    /\ SetPairing(cap[p], "denied")
    /\ Goto(p, "release")
    /\ UNCHANGED <<registry, dbOpen, durable, locals, lease>>

\* claim, under the store's mutex: activate_pairing_claim inserts the row
\* (into the open user database and the app database) ...
ActivateClaim(c) ==
    /\ PairingStoreFree /\ pairing[c] = "approved"
    /\ capability[c] = "none" /\ dbOpen /\ user = "live"
    /\ capability' = [capability EXCEPT ![c] = "active"]
    /\ SetPairing(c, "activating")
    /\ UNCHANGED <<registry, dbOpen, user, inactive, rows, sessionMeta, capExpired,
                   pc, locals, lease>>

\* ... and the entry becomes Completed, dropping the approval's lease.
CompleteClaim(c) ==
    /\ pairing[c] = "activating"
    /\ drop_lease(c)
    /\ SetPairing(c, "completed")
    /\ UNCHANGED <<durable, pc, locals>>

\* remove_expired, by the 1s cleanup task or the next store call.
ExpirePairing(c) ==
    /\ PairingStoreFree /\ pairing[c] # "none"
    /\ SetPairing(c, "none")
    /\ IF lease[c] # NoLease THEN drop_lease(c)
                             ELSE UNCHANGED <<registry, dbOpen, lease>>
    /\ UNCHANGED <<durable, pc, locals>>

-----------------------------------------------------------------------------
(* login and register, under the UserLifecycleGuard *)

\* create_user_with_password; the envelope is written later, under the guard.
Register(p, s) ==
    /\ user = "absent" /\ s \notin issued
    /\ Start(p, "register", s, NoCap, "lock")
    /\ user' = "noEnvelope"
    /\ issued' = issued \cup {s}
    /\ UNCHANGED <<registry, dbOpen, inactive, rows, expired, clients, pairing, owed,
                   todo, lease, tokens>>

\* get_user_by_username runs before the guard is taken.
LookupUser(p, s) ==
    /\ user \in {"noEnvelope", "live"} /\ s \notin issued
    /\ Start(p, "login", s, NoCap, "lock")
    /\ issued' = issued \cup {s}
    /\ UNCHANGED <<registry, dbOpen, user, inactive, rows, expired, clients, pairing,
                   owed, todo, lease, tokens>>

\* acquire_user_lifecycle_lock, first loop: claim the user ...
ClaimExclusive(p) ==
    /\ pc[p] = "lock"
    /\ ~exclusive_user /\ blocked_capabilities = {}
    /\ exclusive_user' = TRUE
    /\ Goto(p, "drainRequests")
    /\ UNCHANGED <<blocked_capabilities, active_requests, active_by_capability,
                   browser_sessions, dbOpen, durable, pairing, locals, lease>>

\* Slip: the guard is handed out as soon as exclusive_user is set.
DrainNobody(p) ==
    /\ pc[p] = "drainRequests"
    /\ Goto(p, CASE op[p] = "reap" -> "reapCheck"
                 [] op[p] = "register" -> "open"
                 [] OTHER -> "verify")
    /\ UNCHANGED <<registry, dbOpen, durable, pairing, locals, lease>>

\* ... second loop: wait for the admitted requests.
DrainRequests(p) ==
    /\ pc[p] = "drainRequests"
    /\ active_requests = 0
    /\ Goto(p, CASE op[p] = "reap" -> "reapCheck"
                 [] op[p] = "register" -> "open"
                 [] OTHER -> "verify")
    /\ UNCHANGED <<registry, dbOpen, durable, pairing, locals, lease>>

\* Password hash, password and envelope: a deleted user or a wrong password
\* ends the login.
VerifyPassword(p) ==
    /\ pc[p] = "verify"
    /\ \/ user = "live" /\ Goto(p, "open")
       \/ Goto(p, "unlock")
    /\ UNCHANGED <<registry, dbOpen, durable, pairing, locals, lease>>

\* initialize_user_db; register has just written the envelope.
OpenForLogin(p) ==
    /\ pc[p] = "open"
    /\ dbOpen' = TRUE
    /\ user' = IF op[p] = "register" THEN "live" ELSE user
    /\ Goto(p, "settings")
    /\ UNCHANGED <<registry, inactive, rows, sessionMeta, clients, pairing, locals,
                   lease>>

\* load_settings needs the open database, which a racing unpin may have closed.
LoadSettings(p) ==
    /\ pc[p] = "settings"
    /\ Goto(p, IF dbOpen THEN "insert" ELSE "unlock")
    /\ UNCHANGED <<registry, dbOpen, durable, pairing, locals, lease>>

\* Any of the three steps before the session row exists may fail.
LoginFails(p) ==
    /\ pc[p] \in {"open", "settings", "insert"} /\ Faults
    /\ Goto(p, "unlock")
    /\ UNCHANGED <<registry, dbOpen, durable, pairing, locals, lease>>

\* create_session_with_duration: insert the row ...
InsertSession(p) ==
    /\ pc[p] = "insert"
    /\ rows' = rows \cup {sess[p]}
    /\ Goto(p, "pinNew")
    /\ UNCHANGED <<registry, dbOpen, user, inactive, sessionMeta, clients, pairing,
                   locals, lease>>

\* ... then pin it.  Only login goes on to record_last_login.
PinNewSession(p) ==
    /\ pc[p] = "pinNew"
    /\ browser_sessions' = browser_sessions \cup {sess[p]}
    /\ Goto(p, IF op[p] = "login" THEN "lastLogin" ELSE "unlock")
    /\ UNCHANGED <<exclusive_user, blocked_capabilities, active_requests,
                   active_by_capability, dbOpen, durable, pairing, locals, lease>>

RecordLastLogin(p) ==
    /\ pc[p] = "lastLogin"
    /\ inactive' = FALSE
    /\ Goto(p, "unlock")
    /\ UNCHANGED <<registry, dbOpen, user, rows, sessionMeta, clients, pairing,
                   locals, lease>>

\* record_last_login failed: delete_session, still under the guard.
RecordLastLoginFails(p) ==
    /\ pc[p] = "lastLogin" /\ Faults
    /\ DeleteRow(p, sess[p])
    /\ UNCHANGED <<registry, dbOpen, user, inactive, sessionMeta, clients, pairing,
                   lease>>

\* Drop for UserLifecycleGuard, as the handler returns; the response of a
\* successful login or registration carries the session cookie.
DropLifecycleGuard(p) ==
    /\ pc[p] = "unlock"
    /\ exclusive_user' = FALSE
    /\ tokens' = tokens \cup ({sess[p]} \cap rows)
    /\ Return(p)
    /\ UNCHANGED <<blocked_capabilities, active_requests, active_by_capability,
                   browser_sessions, dbOpen, user, inactive, rows, expired, clients,
                   issued, pairing, lease>>

-----------------------------------------------------------------------------
(* delete_candidate_user, also under the guard.  The TaskManager runs a job *)
(* at most once at a time.                                                  *)

ListCandidate(p) ==
    /\ inactive /\ user \in {"noEnvelope", "live"}
    /\ \A q \in Procs : op[q] # "reap"
    /\ Start(p, "reap", NoSession, NoCap, "lock")
    /\ UNCHANGED <<registry, dbOpen, durable, pairing, owed, todo, lease>>

\* Slip: the candidate listed before the guard is not checked again.
ReapUnchecked(p) ==
    /\ pc[p] = "reapCheck"
    /\ Goto(p, "reapClear")
    /\ UNCHANGED <<registry, dbOpen, durable, pairing, locals, lease>>

\* is_deletion_candidate_now and user_has_live_session, under the guard.
ReapCheck(p) ==
    /\ pc[p] = "reapCheck"
    /\ \/ inactive /\ rows \subseteq expired /\ Goto(p, "reapClear")
       \* a row that expired only after the job read the clock still counts
       \/ (~inactive \/ rows # {} \/ Faults) /\ Goto(p, "unlock")
    /\ UNCHANGED <<registry, dbOpen, durable, pairing, locals, lease>>

ClearBrowserSessions(p) ==
    /\ pc[p] = "reapClear"
    /\ browser_sessions' = {}
    /\ Goto(p, "reapClose")
    /\ UNCHANGED <<exclusive_user, blocked_capabilities, active_requests,
                   active_by_capability, dbOpen, durable, pairing, locals, lease>>

CloseForDeletion(p) ==
    /\ pc[p] = "reapClose"
    /\ dbOpen' = FALSE
    /\ Goto(p, "reapDir")
    /\ UNCHANGED <<registry, durable, pairing, locals, lease>>

RemoveUserDirectory(p) ==
    /\ pc[p] = "reapDir"
    /\ user' = "noEnvelope"
    /\ Goto(p, "reapRows")
    /\ UNCHANGED <<registry, dbOpen, inactive, rows, sessionMeta, clients, pairing,
                   locals, lease>>

\* delete_app_db_rows: one transaction; client_capabilities rows cascade.
DeleteAppRows(p) ==
    /\ pc[p] = "reapRows"
    /\ user' = "deleted"
    /\ rows' = {}
    /\ capability' = [c \in Caps |-> "none"]
    /\ inactive' = FALSE
    /\ Goto(p, "unlock")
    /\ UNCHANGED <<registry, dbOpen, sessionMeta, capExpired, pairing, locals, lease>>

ReapFails(p) ==
    /\ pc[p] \in {"reapDir", "reapRows"} /\ Faults
    /\ Goto(p, "unlock")
    /\ UNCHANGED <<registry, dbOpen, durable, pairing, locals, lease>>

-----------------------------------------------------------------------------
(* The session-cleanup job: expired capabilities first, then sessions. *)

StartCleanup(p) ==
    /\ \A q \in Procs : op[q] # "cleanup"
    /\ Start(p, "cleanup", NoSession, NoCap, "nextExpired")
    /\ todo' = [todo EXCEPT ![p] = {c \in capExpired : capability[c] = "active"}]
    /\ UNCHANGED <<registry, dbOpen, durable, pairing, owed, lease>>

\* Slip: the job shuts down whichever capability it handled before.
NextExpiredKeepsCapability(p) ==
    /\ pc[p] = "nextExpired"
    /\ \/ \E c \in todo[p] :
            /\ todo' = [todo EXCEPT ![p] = @ \ {c}]
            /\ Goto(p, "expireBegin")
       \/ todo[p] = {} /\ Goto(p, "sweep") /\ UNCHANGED todo
    /\ UNCHANGED <<registry, dbOpen, durable, pairing, op, sess, cap, owed, lease>>

NextExpired(p) ==
    /\ pc[p] = "nextExpired"
    /\ \/ \E c \in todo[p] :
            /\ cap' = [cap EXCEPT ![p] = c]
            /\ todo' = [todo EXCEPT ![p] = @ \ {c}]
            /\ Goto(p, "expireBegin")
       \/ todo[p] = {} /\ Goto(p, "sweep") /\ UNCHANGED <<cap, todo>>
    /\ UNCHANGED <<registry, dbOpen, durable, pairing, op, sess, owed, lease>>

\* cleanup_expired_sessions_before deletes in one transaction the rows that
\* were past their timeout when the job read the clock, and unpins each.
SweepSessions(p) ==
    /\ pc[p] = "sweep"
    /\ \E S \in SUBSET (rows \cap expired) :
        /\ rows' = rows \ S
        /\ IF S = {} THEN Return(p)
           ELSE /\ owed' = [owed EXCEPT ![p] = S]
                /\ Goto(p, "unpin")
                /\ UNCHANGED <<op, sess, cap, todo>>
    /\ UNCHANGED <<registry, dbOpen, user, inactive, sessionMeta, clients, pairing,
                   lease>>

-----------------------------------------------------------------------------
(* Time and restarts *)

\* A session lasts minutes: it does not time out between insert and pin.
SessionTimesOut(s) ==
    /\ s \in rows \ expired
    /\ \A p \in Procs : ~(sess[p] = s /\ pc[p] \in {"pinNew", "lastLogin"})
    /\ expired' = expired \cup {s}
    /\ UNCHANGED <<registry, dbOpen, user, inactive, rows, clients, issued, tokens,
                   pairing, pc, locals, lease>>

CapabilityTimesOut(c) ==
    /\ capability[c] = "active" /\ c \notin capExpired
    /\ capExpired' = capExpired \cup {c}
    /\ UNCHANGED <<registry, dbOpen, user, inactive, rows, sessionMeta, capability,
                   pairing, pc, locals, lease>>

\* The cut-off is months away: no login or registration spans it.
UserBecomesInactive ==
    /\ "reap" \in Ops /\ user \in {"noEnvelope", "live"} /\ ~inactive
    /\ \A p \in Procs : op[p] \notin {"login", "register"}
    /\ inactive' = TRUE
    /\ UNCHANGED <<registry, dbOpen, user, rows, sessionMeta, clients, pairing, pc,
                   locals, lease>>

\* The process dies and starts again: only the databases and files survive.
Restart ==
    /\ exclusive_user' = FALSE
    /\ blocked_capabilities' = {}
    /\ active_requests' = 0
    /\ active_by_capability' = [c \in Caps |-> 0]
    /\ browser_sessions' = {}
    /\ dbOpen' = FALSE
    /\ pairing' = [c \in Caps |-> "none"]
    /\ pc' = [p \in Procs |-> "idle"]
    /\ op' = [p \in Procs |-> "none"]
    /\ sess' = [p \in Procs |-> NoSession]
    /\ cap' = [p \in Procs |-> NoCap]
    /\ owed' = [p \in Procs |-> {}]
    /\ todo' = [p \in Procs |-> {}]
    /\ lease' = [h \in Holders |-> NoLease]
    /\ UNCHANGED durable

-----------------------------------------------------------------------------
(* Specification *)

StartOp(p) ==
    \/ \E s \in Sessions :
          \/ \E o \in AllOps, c \in Caps \cup {NoCap} : LookupSession(p, o, s, c)
          \/ LookupExpiredSession(p, s)
          \/ Register(p, s)
          \/ LookupUser(p, s)
    \/ \E c \in Caps : FindCapability(p, c)
    \/ ListCandidate(p)
    \/ StartCleanup(p)

\* Steps the code takes without waiting for anybody.
LocalStep(p) ==
    \/ UnpinBrowserSession(p)
    \/ AcquireSessionRequest(p) \/ AcquireSessionRefused(p)
    \/ RestoreUserDb(p) \/ RestoreFails(p) \/ RestoreUnwrapFails(p)
    \/ PinBrowserSession(p) \/ RecheckSession(p) \/ RecheckFails(p)
    \/ Served(p) \/ ReleaseLease(p) \/ Logout(p)
    \/ AcquireKeyRequest(p) \/ AcquireKeyRefused(p) \/ RecheckCapability(p)
    \/ OpenForClient(p) \/ OpenForClientFails(p) \/ RecordActivity(p)
    \/ ReleaseBeforeExpiry(p)
    \/ ClearExpiredWrap(p) \/ RevokeCapability(p) \/ ShutdownWriteFails(p)
    \/ DropShutdownGuard(p)
    \/ ApprovePairing(p) \/ ApproveFails(p) \/ DenyPairing(p)
    \/ VerifyPassword(p) \/ OpenForLogin(p) \/ LoadSettings(p) \/ LoginFails(p)
    \/ InsertSession(p) \/ PinNewSession(p)
    \/ RecordLastLogin(p) \/ RecordLastLoginFails(p) \/ DropLifecycleGuard(p)
    \/ ReapCheck(p) \/ ClearBrowserSessions(p) \/ CloseForDeletion(p)
    \/ RemoveUserDirectory(p) \/ DeleteAppRows(p) \/ ReapFails(p)
    \/ NextExpired(p) \/ SweepSessions(p)

\* Steps behind a Condvar wait loop.
WaitingStep(p) ==
    \/ BeginExpiry(p) \/ BeginRevoke(p) \/ WaitForRequests(p)
    \/ ClaimExclusive(p) \/ DrainRequests(p)

HandlerStep(p) == LocalStep(p) \/ WaitingStep(p)

PairingStep(c) == StartPairing(c) \/ ActivateClaim(c) \/ CompleteClaim(c) \/ ExpirePairing(c)

TimePasses ==
    \/ \E s \in Sessions : SessionTimesOut(s)
    \/ \E c \in Caps : CapabilityTimesOut(c)
    \/ UserBecomesInactive

Next ==
    \/ \E p \in Procs : StartOp(p) \/ HandlerStep(p)
    \/ \E c \in Caps : PairingStep(c)
    \/ TimePasses
    \/ Restart

Spec == Init /\ [][Next]_vars

\* Handlers run to their next wait; a wait loop is left once its condition
\* stays true (every change of the registry ends in notify_all); a claim that
\* inserted its row completes; the store drops an expired pairing within a
\* second of its ten minutes.  No operation has to be started, nobody has to
\* claim a pairing, and the process need not restart.
FairSpec ==
    /\ Spec
    /\ \A p \in Procs : WF_vars(HandlerStep(p))
    /\ \A c \in Caps : WF_vars(CompleteClaim(c)) /\ WF_vars(ExpirePairing(c))

-----------------------------------------------------------------------------
(* Safety *)

\* p owns a UserLifecycleGuard (a login that deletes its session again owes
\* the unpin while it still owns the guard).
HoldsGuard(p) == pc[p] \in GuardLabels \/ (pc[p] = "unpin" /\ op[p] = "login")

LiveLeases == {h \in Holders : lease[h] # NoLease}

\* The two counters of UserLifecycleState count exactly the leases that are
\* alive, whichever path (return, error, pairing expiry, claim) drops them, so
\* saturating_sub never has to saturate.
LeaseAccounting ==
    /\ active_requests = Cardinality(LiveLeases)
    /\ \A c \in Caps : active_by_capability[c] = Cardinality({h \in Holders : lease[h] = c})

\* A login, registration or deletion that owns the guard is alone: no other
\* guard, no request or pairing lease and no capability shutdown of the user.
ExclusiveIsolation ==
    \A p \in Procs : HoldsGuard(p) =>
        /\ exclusive_user
        /\ LiveLeases = {}
        /\ blocked_capabilities = {}
        /\ \A q \in Procs \ {p} : ~HoldsGuard(q)

\* While a handler serves a browser or a paired client, and while an approved
\* pairing waits for its claim, the user's database is open and its envelope
\* in place: no logout, expiry, lease drop or deletion closes it underneath.
ServedFromOpenDatabase ==
    /\ \A p \in Procs : pc[p] \in ServeLabels \cup {"keyServe"} => dbOpen /\ user = "live"
    /\ \A c \in Caps : pairing[c] \in {"approved", "activating"} => dbOpen /\ user = "live"

\* Once revoke_paired_client or shutdown_expired_client_capability has let go
\* of a capability it retired, no request of that client is being served,
\* although requests authorised earlier were still in flight.
RetiredKeyServesNothing ==
    \A c \in Caps : capability[c] \in {"revoked", "cleared"} /\ c \notin blocked_capabilities
        => ~\E p \in Procs : pc[p] = "keyServe" /\ cap[p] = c

\* A browser session stays pinned without its row only while a handler is still
\* going to unpin it: a lost unpin would keep the decrypted database open.
NoOrphanPin ==
    \A s \in browser_sessions \ rows :
        \E p \in Procs : s \in owed[p] \/ (sess[p] = s /\ pc[p] = "recheck")

\* The decrypted database is open only for a lease, a pinned session, or a
\* login or deletion in progress.
OpenDatabaseIsNeeded ==
    dbOpen => LiveLeases # {} \/ browser_sessions # {} \/ \E p \in Procs : HoldsGuard(p)

\* What auth/session.rs's test expired_session_keeps_user_db_open_when_another_
\* session_exists asserts: ending one session leaves the database open for the
\* others.
PinnedSessionKeepsDatabaseOpen == browser_sessions # {} => dbOpen

-----------------------------------------------------------------------------
(* Action properties *)

\* Deleting an inactive user (its directory or its rows) finds no live session,
\* no lease and a closed database, however logins, client requests and the
\* cleanup interleave with the job's unlocked candidate query.
DeletionSparesActiveUsers ==
    [][ \/ user = "live" /\ user' = "noEnvelope"
        \/ user # "deleted" /\ user' = "deleted"
        => inactive /\ rows \subseteq expired /\ LiveLeases = {} /\ ~dbOpen ]_vars

-----------------------------------------------------------------------------
(* Liveness *)

\* An exclusive operation that has stopped new requests gets its guard: the
\* admitted requests end (lifecycle.rs's tests: "exclusive should eventually
\* acquire").
ExclusiveEventuallyAcquires ==
    \A p \in Procs : pc[p] = "drainRequests" ~> pc[p] # "drainRequests"

\* A capability shutdown does not wait for ever for the requests it blocked.
ShutdownEventuallyDrains ==
    \A p \in Procs : pc[p] = "drain" ~> pc[p] # "drain"

\* A deleted session does not stay pinned.
DeletedSessionEventuallyUnpinned ==
    \A s \in Sessions : s \in browser_sessions \ rows ~> s \notin browser_sessions \ rows

-----------------------------------------------------------------------------
(* The inductive invariant behind the safety properties *)

CapLabels == KeyLeaseLabels \cup ShutdownLabels
             \cup {"keyAcquire", "expireBegin", "approve", "revokeBegin"}
SessLabels == {"acquire", "restore", "pin", "recheck", "logout", "verify", "open",
               "settings", "insert", "pinNew", "lastLogin"}
NoLeaseLabels == {"idle", "acquire", "keyAcquire", "expireBegin", "expireClear", "logout",
                  "lock", "drainRequests", "nextExpired", "sweep"} \cup GuardLabels
OpenLabels == ServeLabels \cup {"pin", "recheck", "keyActivity", "keyServe"}

\* Every handler has the arguments its step uses, and only a login that owns
\* or awaits the guard is at a login's label.
ArgumentsBound ==
    \A p \in Procs :
        /\ op[p] \in {"approve", "revoke", "client"} \/ pc[p] \in CapLabels => cap[p] \in Caps
        /\ pc[p] \in SessLabels \/ (pc[p] \in {"lock", "drainRequests"} /\ op[p] # "reap")
              => sess[p] \in Sessions
        /\ op[p] = "login" => pc[p] \in {"lock", "drainRequests", "unpin"} \cup GuardLabels

\* Which lease each label holds.
LeaseShape ==
    /\ \A p \in Procs :
        /\ pc[p] \in SessionLeaseLabels => lease[p] = SessionLease
        /\ pc[p] \in KeyLeaseLabels => lease[p] = cap[p]
        /\ pc[p] = "release" => lease[p] # NoLease
        /\ pc[p] \in NoLeaseLabels => lease[p] = NoLease
    /\ \A c \in Caps : lease[c] = IF pairing[c] \in {"approved", "activating"}
                                  THEN SessionLease ELSE NoLease

\* p has set exclusive_user and not cleared it yet.
InExclusive(p) == pc[p] = "drainRequests" \/ HoldsGuard(p)

\* exclusive_user belongs to one handler, which owns the guard only with no
\* admitted request left, and excludes capability shutdowns.
ExclusiveOwner ==
    /\ exclusive_user => blocked_capabilities = {}
    /\ \A p \in Procs : InExclusive(p) => exclusive_user
    /\ \A p, q \in Procs : InExclusive(p) /\ InExclusive(q) => p = q
    /\ \A p \in Procs : HoldsGuard(p) => active_requests = 0

\* A blocked capability belongs to one shutdown, and a retired capability that
\* is still being served is in its shutdown's drain.
ShutdownOwner ==
    /\ \A p \in Procs : pc[p] \in ShutdownLabels => cap[p] \in blocked_capabilities
    /\ \A p, q \in Procs : /\ pc[p] \in ShutdownLabels /\ pc[q] \in ShutdownLabels
                           /\ cap[p] = cap[q]
                           => p = q
    /\ \A q \in Procs : pc[q] = "keyServe" /\ capability[cap[q]] \in {"revoked", "cleared"}
                           => \E p \in Procs : pc[p] = "drain" /\ cap[p] = cap[q]

\* The database is open from the step that opened it until the lease goes.
OpenWhileLeased ==
    /\ \A p \in Procs : pc[p] \in OpenLabels => dbOpen /\ user = "live"
    /\ \A c \in Caps : pairing[c] \in {"approved", "activating"} => dbOpen /\ user = "live"

DeletionLabels == {"reapClear", "reapClose", "reapDir", "reapRows"}

\* What delete_candidate_user checked under the guard still holds when it
\* deletes, and the database it closed is still closed.
DeletionReady ==
    \A p \in Procs :
        /\ pc[p] \in DeletionLabels => inactive /\ rows \subseteq expired
        /\ pc[p] \in {"reapDir", "reapRows"} => ~dbOpen

IndInv ==
    /\ TypeOK
    /\ ArgumentsBound
    /\ LeaseShape
    /\ LeaseAccounting
    /\ ExclusiveOwner
    /\ ShutdownOwner
    /\ OpenWhileLeased
    /\ DeletionReady
=============================================================================
