------------------------ MODULE UserLifecycleProofs ------------------------
(***************************************************************************)
(* TLAPS proofs about UserLifecycle, for any number of handlers, sessions  *)
(* and capabilities and any subset of the operations, with or without      *)
(* faults; the two theorems at the end are about a server without them.    *)
(***************************************************************************)
EXTENDS UserLifecycle, FiniteSetTheorems, TLAPS

-----------------------------------------------------------------------------
(* Counting leases *)

LeaseKinds == Caps \cup {NoLease, SessionLease}

\* The holders of a live lease, and of a lease on capability c, in the lease
\* function f.
Live(f)      == {h \in Holders : f[h] # NoLease}
Having(f, c) == {h \in Holders : f[h] = c}

\* Every set of holders is finite.
LEMMA HoldersFinite ==
  ASSUME NEW S \in SUBSET Holders
  PROVE  IsFiniteSet(S) /\ Cardinality(S) \in Nat
  BY ProcsAssumption, FS_Union, FS_Subset, FS_CardinalityType DEF Holders

\* A new lease adds its holder to the live leases and to those of its kind.
LEMMA CountAdded ==
  ASSUME NEW f \in [Holders -> LeaseKinds], NEW h \in Holders,
         NEW k \in Caps \cup {SessionLease}, f[h] = NoLease
  PROVE  LET g == [f EXCEPT ![h] = k]
         IN  /\ Cardinality(Live(g)) = Cardinality(Live(f)) + 1
             /\ \A c \in Caps : Cardinality(Having(g, c))
                                  = Cardinality(Having(f, c)) + (IF c = k THEN 1 ELSE 0)
<1> DEFINE g == [f EXCEPT ![h] = k]
<1>1. Live(g) = Live(f) \cup {h} /\ h \notin Live(f)
  BY NamesAssumption DEF Live, LeaseKinds, NoLease, SessionLease
<1>2. ASSUME NEW c \in Caps
      PROVE  /\ c = k => Having(g, c) = Having(f, c) \cup {h}
             /\ c # k => Having(g, c) = Having(f, c)
  BY NamesAssumption DEF Having, LeaseKinds, NoLease, SessionLease
<1>3. ASSUME NEW c \in Caps PROVE h \notin Having(f, c)
  BY NamesAssumption DEF Having, NoLease
<1>4. /\ IsFiniteSet(Live(f)) /\ Cardinality(Live(f)) \in Nat
      /\ \A c \in Caps : IsFiniteSet(Having(f, c)) /\ Cardinality(Having(f, c)) \in Nat
  BY HoldersFinite DEF Live, Having
<1>5. Cardinality(Live(g)) = Cardinality(Live(f)) + 1
  BY <1>1, <1>4, FS_AddElement
<1>6. ASSUME NEW c \in Caps
      PROVE  Cardinality(Having(g, c)) = Cardinality(Having(f, c)) + (IF c = k THEN 1 ELSE 0)
  <2> HIDE DEF g
  <2>0. Cardinality(Having(f, c)) \in Nat /\ IsFiniteSet(Having(f, c))
    BY <1>4
  <2>1. CASE c = k
    <3>1. Having(g, c) = Having(f, c) \cup {h}
      BY <1>2, <2>1
    <3>2. Cardinality(Having(g, c)) = Cardinality(Having(f, c)) + 1
      BY <1>3, <2>0, <3>1, FS_AddElement
    <3> QED BY <2>1, <3>2
  <2>2. CASE c # k
    <3>1. Having(g, c) = Having(f, c)
      BY <1>2, <2>2
    <3> QED BY <2>0, <2>2, <3>1
  <2> QED BY <2>1, <2>2
<1> QED BY <1>5, <1>6

\* Dropping a lease removes its holder.
LEMMA CountRemoved ==
  ASSUME NEW f \in [Holders -> LeaseKinds], NEW h \in Holders, f[h] # NoLease
  PROVE  LET g == [f EXCEPT ![h] = NoLease]
         IN  /\ Cardinality(Live(f)) # 0
             /\ Cardinality(Live(g)) = Cardinality(Live(f)) - 1
             /\ \A c \in Caps : /\ c = f[h] => Cardinality(Having(f, c)) # 0
                                /\ Cardinality(Having(g, c)) =
                                     IF c = f[h] THEN Cardinality(Having(f, c)) - 1
                                                 ELSE Cardinality(Having(f, c))
<1> DEFINE g == [f EXCEPT ![h] = NoLease]
<1>1. Live(g) = Live(f) \ {h} /\ h \in Live(f)
  BY DEF Live
<1>2. ASSUME NEW c \in Caps
      PROVE  /\ c = f[h] => Having(g, c) = Having(f, c) \ {h} /\ h \in Having(f, c)
             /\ c # f[h] => Having(g, c) = Having(f, c)
  BY NamesAssumption DEF Having, NoLease
<1>3. /\ IsFiniteSet(Live(f)) /\ Cardinality(Live(f)) \in Nat
      /\ \A c \in Caps : IsFiniteSet(Having(f, c)) /\ Cardinality(Having(f, c)) \in Nat
  BY HoldersFinite DEF Live, Having
<1>4. Cardinality(Live(g)) = Cardinality(Live(f)) - 1 /\ Cardinality(Live(f)) # 0
  BY ZenonT(40), <1>1, <1>3, FS_RemoveElement, FS_EmptySet
<1>5. ASSUME NEW c \in Caps
      PROVE  /\ c = f[h] => Cardinality(Having(f, c)) # 0
             /\ Cardinality(Having(g, c)) =
                   IF c = f[h] THEN Cardinality(Having(f, c)) - 1
                               ELSE Cardinality(Having(f, c))
  <2> HIDE DEF g
  <2>0. Cardinality(Having(f, c)) \in Nat /\ IsFiniteSet(Having(f, c))
    BY <1>3
  <2>1. CASE c = f[h]
    <3>1. Having(g, c) = Having(f, c) \ {h} /\ h \in Having(f, c)
      BY <1>2, <2>1
    <3>2. /\ Cardinality(Having(g, c)) = Cardinality(Having(f, c)) - 1
          /\ Cardinality(Having(f, c)) # 0
      BY <2>0, <3>1, FS_RemoveElement, FS_EmptySet
    <3> QED BY <2>1, <3>2
  <2>2. CASE c # f[h]
    BY <1>2, <2>2
  <2> QED BY <2>1, <2>2
<1> QED BY <1>4, <1>5

\* The counters say whether there is a lease.
LEMMA CountersSeeLeases ==
  ASSUME TypeOK, LeaseAccounting
  PROVE  /\ \A h \in Holders : lease[h] # NoLease => active_requests # 0
         /\ active_requests # 0 => \E h \in Holders : lease[h] # NoLease
         /\ \A h \in Holders, c \in Caps : lease[h] = c => active_by_capability[c] # 0
<1>1. IsFiniteSet(LiveLeases)
  BY HoldersFinite DEF LiveLeases
<1>2. active_requests = 0 <=> LiveLeases = {}
  BY <1>1, FS_EmptySet DEF LeaseAccounting
<1>3. ASSUME NEW c \in Caps, NEW h \in Holders, lease[h] = c
      PROVE  active_by_capability[c] # 0
  <2>1. IsFiniteSet({x \in Holders : lease[x] = c})
    BY HoldersFinite
  <2> QED BY <1>3, <2>1, FS_EmptySet DEF LeaseAccounting
<1> QED BY <1>2, <1>3 DEF LiveLeases

\* acquire_request keeps the counters exact ...
LEMMA AcquireAccounting ==
  ASSUME TypeOK, LeaseAccounting, NEW h \in Holders, NEW k \in Caps \cup {SessionLease},
         lease[h] = NoLease, acquire_request(h, k)
  PROVE  LeaseAccounting'
<1>1. /\ Live(lease) = LiveLeases /\ Live(lease') = LiveLeases'
      /\ \A c \in Caps : /\ Having(lease, c) = {x \in Holders : lease[x] = c}
                         /\ Having(lease', c) = {x \in Holders : lease'[x] = c}
  BY DEF Live, LiveLeases, Having
<1>2. /\ Cardinality(Live(lease')) = Cardinality(Live(lease)) + 1
      /\ \A c \in Caps : Cardinality(Having(lease', c))
                           = Cardinality(Having(lease, c)) + (IF c = k THEN 1 ELSE 0)
  BY ZenonT(40), CountAdded DEF acquire_request, TypeOK, LeaseKinds
<1> QED BY ZenonT(40), <1>1, <1>2 DEF acquire_request, LeaseAccounting, TypeOK

\* ... and so does Drop for UserRequestLease, where nothing saturates.
LEMMA DropAccounting ==
  ASSUME TypeOK, LeaseAccounting, NEW h \in Holders, lease[h] # NoLease, drop_lease(h)
  PROVE  /\ LeaseAccounting'
         /\ \A x \in Holders : lease'[x] # NoLease => active_requests' # 0
<1>1. /\ Live(lease) = LiveLeases /\ Live(lease') = LiveLeases'
      /\ \A c \in Caps : /\ Having(lease, c) = {x \in Holders : lease[x] = c}
                         /\ Having(lease', c) = {x \in Holders : lease'[x] = c}
  BY DEF Live, LiveLeases, Having
<1>2. /\ Cardinality(Live(lease)) # 0
      /\ Cardinality(Live(lease')) = Cardinality(Live(lease)) - 1
      /\ \A c \in Caps : /\ c = lease[h] => Cardinality(Having(lease, c)) # 0
                         /\ Cardinality(Having(lease', c)) =
                              IF c = lease[h] THEN Cardinality(Having(lease, c)) - 1
                                              ELSE Cardinality(Having(lease, c))
  BY CountRemoved DEF drop_lease, TypeOK, LeaseKinds
<1>3. active_requests' = Cardinality(LiveLeases')
  BY <1>1, <1>2 DEF drop_lease, saturating_pred, LeaseAccounting, TypeOK
<1>4. ASSUME NEW c \in Caps
      PROVE  active_by_capability'[c] = Cardinality({x \in Holders : lease'[x] = c})
  <2>1. /\ active_by_capability[c] = Cardinality(Having(lease, c))
        /\ active_by_capability[c] \in Nat
    BY <1>1 DEF LeaseAccounting, TypeOK
  <2>2. active_by_capability'[c] = IF c = lease[h] THEN saturating_pred(active_by_capability[c])
                                                   ELSE active_by_capability[c]
    BY DEF drop_lease
  <2>3. active_by_capability'[c] = Cardinality(Having(lease', c))
    BY <1>2, <2>1, <2>2 DEF saturating_pred
  <2> QED BY <1>1, <2>3
<1>5. \A x \in Holders : lease'[x] # NoLease => active_requests' # 0
  <2>1. IsFiniteSet(LiveLeases')
    BY HoldersFinite DEF LiveLeases
  <2> QED BY <1>3, <2>1, FS_EmptySet DEF LiveLeases
<1> QED BY <1>3, <1>4, <1>5 DEF LeaseAccounting

-----------------------------------------------------------------------------
(* The inductive step *)

\* IndInv without the counters.
Placement == /\ TypeOK /\ ArgumentsBound /\ LeaseShape
             /\ ExclusiveOwner /\ ShutdownOwner /\ OpenWhileLeased

\* A step of a running handler that waits for nobody keeps every label, lease
\* and owner in place.
LEMMA LocalStepPlacement ==
  ASSUME Placement, LeaseAccounting, NEW p \in Procs, LocalStep(p)
  PROVE  Placement'
<1> USE NamesAssumption, DisjointAssumption
    DEF TypeOK, ArgumentsBound, LeaseShape, ExclusiveOwner, ShutdownOwner, OpenWhileLeased,
        Placement, HoldsGuard, InExclusive, Holders, Goto, Return,
        Labels, ServeLabels, SessionLeaseLabels, KeyLeaseLabels, GuardLabels, ShutdownLabels,
        CapLabels, SessLabels, NoLeaseLabels, OpenLabels, AllOps, UserStates,
        CapabilityStates, PairingStates, NoLease, SessionLease, NoCap, NoSession,
        registry, durable, sessionMeta, clients, locals
<1>1. ASSUME UnpinBrowserSession(p) PROVE Placement'
  <2>1. PICK s \in owed[p] :
           /\ browser_sessions' = browser_sessions \ {s}
           /\ dbOpen' = (dbOpen /\ ~(active_requests = 0 /\ browser_sessions' = {}))
           /\ \/ AfterUnpin(p) = "idle" /\ Return(p)
              \/ \E l \in {"unpin", AfterUnpin(p)} :
                    /\ l # "idle" /\ Goto(p, l)
                    /\ owed' = [owed EXCEPT ![p] = owed[p] \ {s}]
                    /\ UNCHANGED <<op, sess, cap, todo>>
    BY SMTT(40), <1>1 DEF UnpinBrowserSession, AfterUnpin
  <2>2. /\ pc[p] = "unpin"
        /\ UNCHANGED <<exclusive_user, blocked_capabilities, active_requests,
                       active_by_capability, durable, pairing, lease>>
    BY <1>1 DEF UnpinBrowserSession
  <2>3. CASE AfterUnpin(p) = "idle" /\ Return(p)
    <3>1. TypeOK'
      BY <2>1, <2>2, <2>3 DEF AfterUnpin
    <3>2. ArgumentsBound' /\ LeaseShape'
      BY <2>1, <2>2, <2>3 DEF AfterUnpin
    <3>3. ExclusiveOwner'
      BY <2>1, <2>2, <2>3 DEF AfterUnpin
    <3>4. ShutdownOwner'
      BY <2>1, <2>2, <2>3 DEF AfterUnpin
    <3>5. OpenWhileLeased'
      BY <2>1, <2>2, <2>3, CountersSeeLeases DEF AfterUnpin
    <3> QED BY <3>1, <3>2, <3>3, <3>4, <3>5
  <2>4. ASSUME NEW l \in {"unpin", AfterUnpin(p)}, l # "idle", Goto(p, l),
               owed' = [owed EXCEPT ![p] = owed[p] \ {s}],
               UNCHANGED <<op, sess, cap, todo>>
        PROVE  Placement'
    <3>1. TypeOK'
      BY <2>1, <2>2, <2>4 DEF AfterUnpin
    <3>0. op[p] = "login" => lease[p] = NoLease
      BY <2>2, CountersSeeLeases
    <3>2. ArgumentsBound' /\ LeaseShape'
      BY <2>1, <2>2, <2>4, <3>0 DEF AfterUnpin
    <3>3. ExclusiveOwner'
      BY <2>1, <2>2, <2>4 DEF AfterUnpin
    <3>4. ShutdownOwner'
      BY <2>1, <2>2, <2>4 DEF AfterUnpin
    <3>5. OpenWhileLeased'
      BY <2>1, <2>2, <2>4, CountersSeeLeases DEF AfterUnpin
    <3> QED BY <3>1, <3>2, <3>3, <3>4, <3>5
  <2> QED BY <2>1, <2>3, <2>4
<1>2. ASSUME AcquireSessionRequest(p) PROVE Placement'
  BY <1>2 DEF AcquireSessionRequest, acquire_request, Refused
<1>3. ASSUME AcquireSessionRefused(p) PROVE Placement'
  BY <1>3 DEF AcquireSessionRefused, acquire_request, Refused
<1>4. ASSUME RestoreUserDb(p) PROVE Placement'
  BY <1>4 DEF RestoreUserDb
<1>5. ASSUME RestoreFails(p) PROVE Placement'
  BY <1>5 DEF RestoreFails
<1>6. ASSUME RestoreUnwrapFails(p) PROVE Placement'
  <2>1. TypeOK'
    BY <1>6 DEF RestoreUnwrapFails, DeleteRow, AfterUnpin
  <2>2. ArgumentsBound' /\ LeaseShape'
    BY <1>6 DEF RestoreUnwrapFails, DeleteRow, AfterUnpin
  <2>3. ExclusiveOwner'
    BY <1>6 DEF RestoreUnwrapFails, DeleteRow, AfterUnpin
  <2>4. ShutdownOwner'
    BY <1>6 DEF RestoreUnwrapFails, DeleteRow, AfterUnpin
  <2>5. OpenWhileLeased'
    BY <1>6 DEF RestoreUnwrapFails, DeleteRow, AfterUnpin
  <2> QED BY <2>1, <2>2, <2>3, <2>4, <2>5
<1>7. ASSUME PinBrowserSession(p) PROVE Placement'
  BY <1>7 DEF PinBrowserSession
<1>8. ASSUME RecheckSession(p) PROVE Placement'
  <2>1. TypeOK'
    BY <1>8 DEF RecheckSession
  <2>2. ArgumentsBound' /\ LeaseShape'
    BY <1>8 DEF RecheckSession
  <2>3. ExclusiveOwner'
    BY <1>8 DEF RecheckSession
  <2>4. ShutdownOwner'
    BY <1>8 DEF RecheckSession
  <2>5. OpenWhileLeased'
    BY <1>8 DEF RecheckSession
  <2> QED BY <2>1, <2>2, <2>3, <2>4, <2>5
<1>9. ASSUME RecheckFails(p) PROVE Placement'
  BY <1>9 DEF RecheckFails
<1>10. ASSUME Served(p) PROVE Placement'
  BY <1>10 DEF Served
<1>11. ASSUME ReleaseLease(p) PROVE Placement'
  <2>0. \A x \in Holders : lease'[x] # NoLease => active_requests' # 0
    BY <1>11, DropAccounting DEF ReleaseLease
  <2>1. TypeOK'
    BY <1>11 DEF ReleaseLease, drop_lease, saturating_pred
  <2>2. ArgumentsBound' /\ LeaseShape'
    BY <1>11 DEF ReleaseLease, drop_lease, saturating_pred
  <2>3. ExclusiveOwner'
    BY <1>11 DEF ReleaseLease, drop_lease, saturating_pred
  <2>4. ShutdownOwner'
    BY <1>11 DEF ReleaseLease, drop_lease, saturating_pred
  <2>5. OpenWhileLeased'
    BY SMTT(40), <1>11, <2>0 DEF ReleaseLease, drop_lease, saturating_pred
  <2> QED BY <2>1, <2>2, <2>3, <2>4, <2>5
<1>12. ASSUME Logout(p) PROVE Placement'
  <2>1. CASE sess[p] \in rows
    <3>1. TypeOK'
      BY SMTT(40), <1>12, <2>1 DEF Logout, DeleteRow
    <3>2. ArgumentsBound' /\ LeaseShape'
      BY <1>12, <2>1 DEF Logout, DeleteRow
    <3>3. ExclusiveOwner'
      BY <1>12, <2>1 DEF Logout, DeleteRow
    <3>4. ShutdownOwner'
      BY <1>12, <2>1 DEF Logout, DeleteRow
    <3>5. OpenWhileLeased'
      BY <1>12, <2>1 DEF Logout, DeleteRow
    <3> QED BY <3>1, <3>2, <3>3, <3>4, <3>5
  <2>2. CASE sess[p] \notin rows
    <3>0. /\ pc[p] = "logout" /\ rows' = rows \ {sess[p]} /\ Return(p)
          /\ UNCHANGED <<registry, dbOpen, user, inactive, sessionMeta, clients, pairing,
                         lease>>
      BY <1>12, <2>2 DEF Logout, DeleteRow, AfterUnpin
    <3>1. TypeOK'
      BY <3>0
    <3>2. ArgumentsBound' /\ LeaseShape'
      BY <3>0
    <3>3. ExclusiveOwner'
      BY <3>0
    <3>4. ShutdownOwner'
      BY <3>0
    <3>5. OpenWhileLeased'
      BY <3>0
    <3> QED BY <3>1, <3>2, <3>3, <3>4, <3>5
  <2> QED BY <2>1, <2>2
<1>13. ASSUME AcquireKeyRequest(p) PROVE Placement'
  BY <1>13 DEF AcquireKeyRequest, acquire_request, Refused
<1>14. ASSUME AcquireKeyRefused(p) PROVE Placement'
  BY <1>14 DEF AcquireKeyRefused, acquire_request, Refused
<1>15. ASSUME RecheckCapability(p) PROVE Placement'
  BY <1>15 DEF RecheckCapability
<1>16. ASSUME OpenForClient(p) PROVE Placement'
  BY <1>16 DEF OpenForClient
<1>17. ASSUME OpenForClientFails(p) PROVE Placement'
  BY <1>17 DEF OpenForClientFails
<1>18. ASSUME RecordActivity(p) PROVE Placement'
  <2>1. CASE Authorized(cap[p])
    <3>0. /\ pc[p] = "keyActivity" /\ capability[cap[p]] = "active"
          /\ Goto(p, "keyServe") /\ inactive' = FALSE
          /\ UNCHANGED <<registry, dbOpen, user, rows, sessionMeta, clients, pairing,
                         locals, lease>>
      BY <1>18, <2>1 DEF RecordActivity, Authorized
    <3>1. TypeOK'
      BY <3>0
    <3>2. ArgumentsBound' /\ LeaseShape'
      BY <3>0
    <3>3. ExclusiveOwner'
      BY <3>0
    <3>4. ShutdownOwner'
      BY <3>0
    <3>5. OpenWhileLeased'
      BY <3>0
    <3> QED BY <3>1, <3>2, <3>3, <3>4, <3>5
  <2>2. CASE ~Authorized(cap[p])
    <3>1. TypeOK'
      BY <1>18, <2>2 DEF RecordActivity
    <3>2. ArgumentsBound' /\ LeaseShape'
      BY <1>18, <2>2 DEF RecordActivity
    <3>3. ExclusiveOwner'
      BY <1>18, <2>2 DEF RecordActivity
    <3>4. ShutdownOwner'
      BY <1>18, <2>2 DEF RecordActivity
    <3>5. OpenWhileLeased'
      BY <1>18, <2>2 DEF RecordActivity
    <3> QED BY <3>1, <3>2, <3>3, <3>4, <3>5
  <2> QED BY <2>1, <2>2
<1>19. ASSUME ReleaseBeforeExpiry(p) PROVE Placement'
  <2>0. \A x \in Holders : lease'[x] # NoLease => active_requests' # 0
    BY <1>19, DropAccounting DEF ReleaseBeforeExpiry
  <2>1. TypeOK'
    BY <1>19 DEF ReleaseBeforeExpiry, drop_lease, saturating_pred
  <2>2. ArgumentsBound' /\ LeaseShape'
    BY <1>19 DEF ReleaseBeforeExpiry, drop_lease, saturating_pred
  <2>3. ExclusiveOwner'
    BY <1>19 DEF ReleaseBeforeExpiry, drop_lease, saturating_pred
  <2>4. ShutdownOwner'
    BY <1>19 DEF ReleaseBeforeExpiry, drop_lease, saturating_pred
  <2>5. OpenWhileLeased'
    BY SMTT(40), <1>19, <2>0 DEF ReleaseBeforeExpiry, drop_lease, saturating_pred
  <2> QED BY <2>1, <2>2, <2>3, <2>4, <2>5
<1>20. ASSUME ClearExpiredWrap(p) PROVE Placement'
  <2>1. TypeOK'
    BY <1>20 DEF ClearExpiredWrap
  <2>2. ArgumentsBound' /\ LeaseShape'
    BY <1>20 DEF ClearExpiredWrap
  <2>3. ExclusiveOwner'
    BY <1>20 DEF ClearExpiredWrap
  <2>4. ShutdownOwner'
    BY <1>20 DEF ClearExpiredWrap
  <2>5. OpenWhileLeased'
    BY <1>20 DEF ClearExpiredWrap
  <2> QED BY <2>1, <2>2, <2>3, <2>4, <2>5
<1>21. ASSUME RevokeCapability(p) PROVE Placement'
  <2>1. TypeOK'
    BY <1>21 DEF RevokeCapability
  <2>2. ArgumentsBound' /\ LeaseShape'
    BY <1>21 DEF RevokeCapability
  <2>3. ExclusiveOwner'
    BY <1>21 DEF RevokeCapability
  <2>4. ShutdownOwner'
    BY <1>21 DEF RevokeCapability
  <2>5. OpenWhileLeased'
    BY <1>21 DEF RevokeCapability
  <2> QED BY <2>1, <2>2, <2>3, <2>4, <2>5
<1>22. ASSUME ShutdownWriteFails(p) PROVE Placement'
  BY <1>22 DEF ShutdownWriteFails
<1>23. ASSUME DropShutdownGuard(p) PROVE Placement'
  <2>1. CASE lease[p] # NoLease
    <3>1. TypeOK'
      BY <1>23, <2>1 DEF DropShutdownGuard
    <3>2. ArgumentsBound' /\ LeaseShape'
      BY <1>23, <2>1 DEF DropShutdownGuard
    <3>3. ExclusiveOwner'
      BY <1>23, <2>1 DEF DropShutdownGuard
    <3>4. ShutdownOwner'
      BY <1>23, <2>1 DEF DropShutdownGuard
    <3>5. OpenWhileLeased'
      BY <1>23, <2>1 DEF DropShutdownGuard
    <3> QED BY <3>1, <3>2, <3>3, <3>4, <3>5
  <2>2. CASE lease[p] = NoLease /\ op[p] = "cleanup" /\ pc[p] = "unblock"
    <3>1. TypeOK'
      BY <1>23, <2>2 DEF DropShutdownGuard
    <3>2. ArgumentsBound' /\ LeaseShape'
      BY <1>23, <2>2 DEF DropShutdownGuard
    <3>3. ExclusiveOwner'
      BY <1>23, <2>2 DEF DropShutdownGuard
    <3>4. ShutdownOwner'
      BY <1>23, <2>2 DEF DropShutdownGuard
    <3>5. OpenWhileLeased'
      BY <1>23, <2>2 DEF DropShutdownGuard
    <3> QED BY <3>1, <3>2, <3>3, <3>4, <3>5
  <2>3. CASE lease[p] = NoLease /\ ~(op[p] = "cleanup" /\ pc[p] = "unblock")
    <3>0. /\ pc[p] \in {"unblock", "abort"}
          /\ blocked_capabilities' = blocked_capabilities \ {cap[p]}
          /\ Return(p)
          /\ UNCHANGED <<exclusive_user, active_requests, active_by_capability,
                         browser_sessions, dbOpen, durable, pairing, lease>>
      BY <1>23, <2>3 DEF DropShutdownGuard
    <3>1. TypeOK'
      BY <3>0
    <3>2. ArgumentsBound' /\ LeaseShape'
      BY <3>0, <2>3
    <3>3. ExclusiveOwner'
      BY <3>0
    <3>4. ShutdownOwner'
      BY <3>0
    <3>5. OpenWhileLeased'
      BY <3>0
    <3> QED BY <3>1, <3>2, <3>3, <3>4, <3>5
  <2> QED BY <2>1, <2>2, <2>3
<1>24. ASSUME ApprovePairing(p) PROVE Placement'
  <2>1. TypeOK'
    BY <1>24 DEF ApprovePairing, acquire_request, Refused, SetPairing
  <2>2. ArgumentsBound' /\ LeaseShape'
    BY <1>24 DEF ApprovePairing, acquire_request, Refused, SetPairing
  <2>3. ExclusiveOwner'
    BY <1>24 DEF ApprovePairing, acquire_request, Refused, SetPairing
  <2>4. ShutdownOwner'
    BY <1>24 DEF ApprovePairing, acquire_request, Refused, SetPairing
  <2>5. OpenWhileLeased'
    BY <1>24 DEF ApprovePairing, acquire_request, Refused, SetPairing
  <2> QED BY <2>1, <2>2, <2>3, <2>4, <2>5
<1>25. ASSUME ApproveFails(p) PROVE Placement'
  BY <1>25 DEF ApproveFails, acquire_request, Refused
<1>26. ASSUME DenyPairing(p) PROVE Placement'
  <2>1. TypeOK'
    BY <1>26 DEF DenyPairing, SetPairing
  <2>2. ArgumentsBound' /\ LeaseShape'
    BY <1>26 DEF DenyPairing, SetPairing
  <2>3. ExclusiveOwner'
    BY <1>26 DEF DenyPairing, SetPairing
  <2>4. ShutdownOwner'
    BY <1>26 DEF DenyPairing, SetPairing
  <2>5. OpenWhileLeased'
    BY <1>26 DEF DenyPairing, SetPairing
  <2> QED BY <2>1, <2>2, <2>3, <2>4, <2>5
<1>27. ASSUME VerifyPassword(p) PROVE Placement'
  BY SMTT(40), <1>27 DEF VerifyPassword
<1>28. ASSUME OpenForLogin(p) PROVE Placement'
  <2>1. TypeOK'
    BY <1>28 DEF OpenForLogin
  <2>2. ArgumentsBound' /\ LeaseShape'
    BY <1>28 DEF OpenForLogin
  <2>3. ExclusiveOwner'
    BY <1>28 DEF OpenForLogin
  <2>4. ShutdownOwner'
    BY <1>28 DEF OpenForLogin
  <2>5. OpenWhileLeased'
    BY <1>28 DEF OpenForLogin
  <2> QED BY <2>1, <2>2, <2>3, <2>4, <2>5
<1>29. ASSUME LoadSettings(p) PROVE Placement'
  BY <1>29 DEF LoadSettings
<1>30. ASSUME LoginFails(p) PROVE Placement'
  BY <1>30 DEF LoginFails
<1>31. ASSUME InsertSession(p) PROVE Placement'
  BY <1>31 DEF InsertSession
<1>32. ASSUME PinNewSession(p) PROVE Placement'
  BY <1>32 DEF PinNewSession
<1>33. ASSUME RecordLastLogin(p) PROVE Placement'
  <2>1. TypeOK'
    BY <1>33 DEF RecordLastLogin
  <2>2. ArgumentsBound' /\ LeaseShape'
    BY <1>33 DEF RecordLastLogin
  <2>3. ExclusiveOwner'
    BY <1>33 DEF RecordLastLogin
  <2>4. ShutdownOwner'
    BY <1>33 DEF RecordLastLogin
  <2>5. OpenWhileLeased'
    BY <1>33 DEF RecordLastLogin
  <2> QED BY <2>1, <2>2, <2>3, <2>4, <2>5
<1>34. ASSUME RecordLastLoginFails(p) PROVE Placement'
  <2>1. CASE sess[p] \in rows
    <3>0. /\ pc[p] = "lastLogin" /\ rows' = rows \ {sess[p]}
          /\ owed' = [owed EXCEPT ![p] = {sess[p]}] /\ Goto(p, "unpin")
          /\ UNCHANGED <<op, sess, cap, todo>>
          /\ UNCHANGED <<registry, dbOpen, user, inactive, sessionMeta, clients, pairing,
                         lease>>
      BY <1>34, <2>1 DEF RecordLastLoginFails, DeleteRow
    <3>1. TypeOK'
      <4>1. sess[p] \in Sessions
        BY <2>1
      <4>2. owed' \in [Procs -> SUBSET Sessions] /\ pc' \in [Procs -> Labels]
        BY <3>0, <4>1
      <4> QED BY <3>0, <4>2
    <3>2. ArgumentsBound' /\ LeaseShape'
      BY <3>0
    <3>3. ExclusiveOwner'
      BY <3>0
    <3>4. ShutdownOwner'
      BY <3>0
    <3>5. OpenWhileLeased'
      BY <3>0
    <3> QED BY <3>1, <3>2, <3>3, <3>4, <3>5
  <2>2. CASE sess[p] \notin rows
    <3>0. /\ pc[p] = "lastLogin" /\ rows' = rows \ {sess[p]}
          /\ Return(p) \/ (Goto(p, "unlock") /\ UNCHANGED locals)
          /\ UNCHANGED <<registry, dbOpen, user, inactive, sessionMeta, clients, pairing,
                         lease>>
      BY <1>34, <2>2 DEF RecordLastLoginFails, DeleteRow, AfterUnpin
    <3>1. CASE Return(p)
      <4>1. TypeOK'
        BY <3>0, <3>1
      <4>2. ArgumentsBound' /\ LeaseShape'
        BY <3>0, <3>1
      <4>3. ExclusiveOwner'
        BY <3>0, <3>1
      <4>4. ShutdownOwner'
        BY <3>0, <3>1
      <4>5. OpenWhileLeased'
        BY <3>0, <3>1
      <4> QED BY <4>1, <4>2, <4>3, <4>4, <4>5
    <3>2. CASE Goto(p, "unlock") /\ UNCHANGED locals
      <4>1. TypeOK'
        BY <3>0, <3>2
      <4>2. ArgumentsBound' /\ LeaseShape'
        BY <3>0, <3>2
      <4>3. ExclusiveOwner'
        BY <3>0, <3>2
      <4>4. ShutdownOwner'
        BY <3>0, <3>2
      <4>5. OpenWhileLeased'
        BY <3>0, <3>2
      <4> QED BY <4>1, <4>2, <4>3, <4>4, <4>5
    <3> QED BY <3>0, <3>1, <3>2
  <2> QED BY <2>1, <2>2
<1>35. ASSUME DropLifecycleGuard(p) PROVE Placement'
  <2>1. TypeOK'
    BY <1>35 DEF DropLifecycleGuard
  <2>2. ArgumentsBound' /\ LeaseShape'
    BY <1>35 DEF DropLifecycleGuard
  <2>3. ExclusiveOwner'
    BY <1>35 DEF DropLifecycleGuard
  <2>4. ShutdownOwner'
    BY <1>35 DEF DropLifecycleGuard
  <2>5. OpenWhileLeased'
    BY <1>35 DEF DropLifecycleGuard
  <2> QED BY <2>1, <2>2, <2>3, <2>4, <2>5
<1>36. ASSUME ReapCheck(p) PROVE Placement'
  BY SMTT(40), <1>36 DEF ReapCheck
<1>37. ASSUME ClearBrowserSessions(p) PROVE Placement'
  BY <1>37 DEF ClearBrowserSessions
<1>38. ASSUME CloseForDeletion(p) PROVE Placement'
  <2>1. TypeOK'
    BY <1>38 DEF CloseForDeletion
  <2>2. ArgumentsBound' /\ LeaseShape'
    BY <1>38 DEF CloseForDeletion
  <2>3. ExclusiveOwner'
    BY <1>38 DEF CloseForDeletion
  <2>4. ShutdownOwner'
    BY <1>38 DEF CloseForDeletion
  <2>5. OpenWhileLeased'
    BY <1>38, CountersSeeLeases DEF CloseForDeletion
  <2> QED BY <2>1, <2>2, <2>3, <2>4, <2>5
<1>39. ASSUME RemoveUserDirectory(p) PROVE Placement'
  <2>1. TypeOK'
    BY <1>39 DEF RemoveUserDirectory
  <2>2. ArgumentsBound' /\ LeaseShape'
    BY <1>39 DEF RemoveUserDirectory
  <2>3. ExclusiveOwner'
    BY <1>39 DEF RemoveUserDirectory
  <2>4. ShutdownOwner'
    BY <1>39 DEF RemoveUserDirectory
  <2>5. OpenWhileLeased'
    BY <1>39, CountersSeeLeases DEF RemoveUserDirectory
  <2> QED BY <2>1, <2>2, <2>3, <2>4, <2>5
<1>40. ASSUME DeleteAppRows(p) PROVE Placement'
  <2>1. TypeOK'
    BY <1>40 DEF DeleteAppRows
  <2>2. ArgumentsBound' /\ LeaseShape'
    BY <1>40 DEF DeleteAppRows
  <2>3. ExclusiveOwner'
    BY <1>40 DEF DeleteAppRows
  <2>4. ShutdownOwner'
    BY <1>40 DEF DeleteAppRows
  <2>5. OpenWhileLeased'
    BY <1>40, CountersSeeLeases DEF DeleteAppRows
  <2> QED BY <2>1, <2>2, <2>3, <2>4, <2>5
<1>41. ASSUME ReapFails(p) PROVE Placement'
  BY <1>41 DEF ReapFails
<1>42. ASSUME NextExpired(p) PROVE Placement'
  <2>1. TypeOK'
    BY <1>42 DEF NextExpired
  <2>2. ArgumentsBound' /\ LeaseShape'
    BY <1>42 DEF NextExpired
  <2>3. ExclusiveOwner'
    BY <1>42 DEF NextExpired
  <2>4. ShutdownOwner'
    BY <1>42 DEF NextExpired
  <2>5. OpenWhileLeased'
    BY <1>42 DEF NextExpired
  <2> QED BY <2>1, <2>2, <2>3, <2>4, <2>5
<1>43. ASSUME SweepSessions(p) PROVE Placement'
  <2>1. PICK S \in SUBSET (rows \cap expired) :
           /\ rows' = rows \ S
           /\ \/ Return(p)
              \/ /\ owed' = [owed EXCEPT ![p] = S]
                 /\ Goto(p, "unpin")
                 /\ UNCHANGED <<op, sess, cap, todo>>
    BY <1>43 DEF SweepSessions
  <2>2. /\ pc[p] = "sweep"
        /\ UNCHANGED <<registry, dbOpen, user, inactive, sessionMeta, clients, pairing, lease>>
    BY <1>43 DEF SweepSessions
  <2>3. CASE Return(p)
    <3>1. TypeOK'
      BY <2>1, <2>2, <2>3
    <3>2. ArgumentsBound' /\ LeaseShape'
      BY <2>1, <2>2, <2>3
    <3>3. ExclusiveOwner'
      BY <2>1, <2>2, <2>3
    <3>4. ShutdownOwner'
      BY <2>1, <2>2, <2>3
    <3>5. OpenWhileLeased'
      BY <2>1, <2>2, <2>3
    <3> QED BY <3>1, <3>2, <3>3, <3>4, <3>5
  <2>4. CASE /\ owed' = [owed EXCEPT ![p] = S] /\ Goto(p, "unpin")
             /\ UNCHANGED <<op, sess, cap, todo>>
    <3>1. TypeOK'
      BY <2>1, <2>2, <2>4
    <3>2. ArgumentsBound' /\ LeaseShape'
      BY <2>1, <2>2, <2>4
    <3>3. ExclusiveOwner'
      BY <2>1, <2>2, <2>4
    <3>4. ShutdownOwner'
      BY <2>1, <2>2, <2>4
    <3>5. OpenWhileLeased'
      BY <2>1, <2>2, <2>4
    <3> QED BY <3>1, <3>2, <3>3, <3>4, <3>5
  <2> QED BY <2>1, <2>3, <2>4
<1> QED
  BY <1>1, <1>2, <1>3, <1>4, <1>5, <1>6, <1>7, <1>8, <1>9, <1>10, <1>11, <1>12,
     <1>13, <1>14, <1>15, <1>16, <1>17, <1>18, <1>19, <1>20, <1>21, <1>22,
     <1>23, <1>24, <1>25, <1>26, <1>27, <1>28, <1>29, <1>30, <1>31, <1>32,
     <1>33, <1>34, <1>35, <1>36, <1>37, <1>38, <1>39, <1>40, <1>41, <1>42, <1>43
  DEF LocalStep

\* So does a step that leaves a wait loop.
LEMMA WaitingStepPlacement ==
  ASSUME Placement, LeaseAccounting, NEW p \in Procs, WaitingStep(p)
  PROVE  Placement'
<1> USE NamesAssumption, DisjointAssumption
    DEF TypeOK, ArgumentsBound, LeaseShape, ExclusiveOwner, ShutdownOwner, OpenWhileLeased,
        Placement, HoldsGuard, InExclusive, Holders, Goto, Return,
        Labels, ServeLabels, SessionLeaseLabels, KeyLeaseLabels, GuardLabels, ShutdownLabels,
        CapLabels, SessLabels, NoLeaseLabels, OpenLabels, AllOps, UserStates,
        CapabilityStates, PairingStates, NoLease, SessionLease, NoCap, NoSession,
        registry, durable, sessionMeta, clients, locals
<1>1. ASSUME BeginExpiry(p) PROVE Placement'
  BY <1>1 DEF BeginExpiry, BeginCapabilityShutdown
<1>2. ASSUME BeginRevoke(p) PROVE Placement'
  BY <1>2 DEF BeginRevoke, BeginCapabilityShutdown
<1>3. ASSUME WaitForRequests(p) PROVE Placement'
  <2>1. TypeOK'
    BY <1>3 DEF WaitForRequests
  <2>2. ArgumentsBound' /\ LeaseShape'
    BY <1>3 DEF WaitForRequests
  <2>3. ExclusiveOwner'
    BY <1>3 DEF WaitForRequests
  <2>4. ShutdownOwner'
    BY <1>3, CountersSeeLeases DEF WaitForRequests
  <2>5. OpenWhileLeased'
    BY <1>3 DEF WaitForRequests
  <2> QED BY <2>1, <2>2, <2>3, <2>4, <2>5
<1>4. ASSUME ClaimExclusive(p) PROVE Placement'
  BY <1>4 DEF ClaimExclusive
<1>5. ASSUME DrainRequests(p) PROVE Placement'
  BY <1>5 DEF DrainRequests
<1> QED
  BY <1>1, <1>2, <1>3, <1>4, <1>5
  DEF WaitingStep

\* So does the start of an operation.
LEMMA StartPlacement ==
  ASSUME Placement, LeaseAccounting, NEW p \in Procs, StartOp(p)
  PROVE  Placement'
<1> USE NamesAssumption, DisjointAssumption
    DEF TypeOK, ArgumentsBound, LeaseShape, ExclusiveOwner, ShutdownOwner, OpenWhileLeased,
        Placement, HoldsGuard, InExclusive, Holders, Goto, Return,
        Labels, ServeLabels, SessionLeaseLabels, KeyLeaseLabels, GuardLabels, ShutdownLabels,
        CapLabels, SessLabels, NoLeaseLabels, OpenLabels, AllOps, UserStates,
        CapabilityStates, PairingStates, NoLease, SessionLease, NoCap, NoSession,
        registry, durable, sessionMeta, clients, locals
<1>1. ASSUME NEW s \in Sessions, NEW o \in AllOps, NEW c \in Caps \cup {NoCap},
             LookupSession(p, o, s, c)
      PROVE  Placement'
  BY <1>1 DEF LookupSession, Start
<1>2. ASSUME NEW s \in Sessions, LookupExpiredSession(p, s) PROVE Placement'
  BY SMTT(40), <1>2 DEF LookupExpiredSession, Start
<1>3. ASSUME NEW s \in Sessions, Register(p, s) PROVE Placement'
  BY <1>3 DEF Register, Start
<1>4. ASSUME NEW s \in Sessions, LookupUser(p, s) PROVE Placement'
  BY <1>4 DEF LookupUser, Start
<1>5. ASSUME NEW c \in Caps, FindCapability(p, c) PROVE Placement'
  BY <1>5 DEF FindCapability, Start
<1>6. ASSUME ListCandidate(p) PROVE Placement'
  BY <1>6 DEF ListCandidate, Start
<1>7. ASSUME StartCleanup(p) PROVE Placement'
  BY <1>7 DEF StartCleanup, Start
<1> HIDE DEF Placement, AllOps, NoCap
<1>8. ASSUME NEW s \in Sessions,
             \/ \E o \in AllOps, c \in Caps \cup {NoCap} : LookupSession(p, o, s, c)
             \/ LookupExpiredSession(p, s) \/ Register(p, s) \/ LookupUser(p, s)
      PROVE  Placement'
  BY <1>1, <1>2, <1>3, <1>4, <1>8, Zenon
<1> QED
  BY <1>5, <1>6, <1>7, <1>8, Zenon DEF StartOp

\* So does a step of the pairing store.
LEMMA PairingPlacement ==
  ASSUME Placement, LeaseAccounting, NEW c \in Caps, PairingStep(c)
  PROVE  Placement'
<1> USE NamesAssumption, DisjointAssumption
    DEF TypeOK, ArgumentsBound, LeaseShape, ExclusiveOwner, ShutdownOwner, OpenWhileLeased,
        Placement, HoldsGuard, InExclusive, Holders, Goto, Return,
        Labels, ServeLabels, SessionLeaseLabels, KeyLeaseLabels, GuardLabels, ShutdownLabels,
        CapLabels, SessLabels, NoLeaseLabels, OpenLabels, AllOps, UserStates,
        CapabilityStates, PairingStates, NoLease, SessionLease, NoCap, NoSession,
        registry, durable, sessionMeta, clients, locals
<1>1. ASSUME StartPairing(c) PROVE Placement'
  BY <1>1 DEF StartPairing, SetPairing
<1>2. ASSUME ActivateClaim(c) PROVE Placement'
  BY <1>2 DEF ActivateClaim, SetPairing
<1>3. ASSUME CompleteClaim(c) PROVE Placement'
  <2>0. \A x \in Holders : lease'[x] # NoLease => active_requests' # 0
    BY <1>3, DropAccounting DEF CompleteClaim
  <2>1. TypeOK'
    BY <1>3 DEF CompleteClaim, SetPairing, drop_lease, saturating_pred
  <2>2. ArgumentsBound' /\ LeaseShape'
    BY <1>3 DEF CompleteClaim, SetPairing, drop_lease, saturating_pred
  <2>3. ExclusiveOwner'
    BY <1>3 DEF CompleteClaim, SetPairing, drop_lease, saturating_pred
  <2>4. ShutdownOwner'
    BY <1>3 DEF CompleteClaim, SetPairing, drop_lease, saturating_pred
  <2>5. OpenWhileLeased'
    BY <1>3, <2>0 DEF CompleteClaim, SetPairing, drop_lease, saturating_pred
  <2> QED BY <2>1, <2>2, <2>3, <2>4, <2>5
<1>4. ASSUME ExpirePairing(c) PROVE Placement'
  <2>1. CASE lease[c] # NoLease
    <3>0. \A x \in Holders : lease'[x] # NoLease => active_requests' # 0
      BY <1>4, <2>1, DropAccounting DEF ExpirePairing
    <3>1. TypeOK'
      BY SMTT(40), <1>4, <2>1 DEF ExpirePairing, SetPairing, drop_lease, saturating_pred
    <3>2. ArgumentsBound' /\ LeaseShape'
      BY <1>4, <2>1 DEF ExpirePairing, SetPairing, drop_lease, saturating_pred
    <3>3. ExclusiveOwner'
      BY <1>4, <2>1 DEF ExpirePairing, SetPairing, drop_lease, saturating_pred
    <3>4. ShutdownOwner'
      BY <1>4, <2>1 DEF ExpirePairing, SetPairing, drop_lease, saturating_pred
    <3>5. OpenWhileLeased'
      BY <1>4, <2>1, <3>0 DEF ExpirePairing, SetPairing, drop_lease, saturating_pred
    <3> QED BY <3>1, <3>2, <3>3, <3>4, <3>5
  <2>2. CASE lease[c] = NoLease
    <3>1. TypeOK'
      BY <1>4, <2>2 DEF ExpirePairing, SetPairing
    <3>2. ArgumentsBound' /\ LeaseShape'
      BY <1>4, <2>2 DEF ExpirePairing, SetPairing
    <3>3. ExclusiveOwner'
      BY <1>4, <2>2 DEF ExpirePairing, SetPairing
    <3>4. ShutdownOwner'
      BY <1>4, <2>2 DEF ExpirePairing, SetPairing
    <3>5. OpenWhileLeased'
      BY <1>4, <2>2 DEF ExpirePairing, SetPairing
    <3> QED BY <3>1, <3>2, <3>3, <3>4, <3>5
  <2> QED BY <2>1, <2>2
<1> QED
  BY <1>1, <1>2, <1>3, <1>4
  DEF PairingStep

\* So do the clock, a restart and stuttering.
LEMMA EnvironmentPlacement ==
  ASSUME Placement, TimePasses \/ Restart \/ UNCHANGED vars
  PROVE  Placement'
<1> USE NamesAssumption, DisjointAssumption
    DEF TypeOK, ArgumentsBound, LeaseShape, ExclusiveOwner, ShutdownOwner, OpenWhileLeased,
        Placement, HoldsGuard, InExclusive, Holders, Goto, Return,
        Labels, ServeLabels, SessionLeaseLabels, KeyLeaseLabels, GuardLabels, ShutdownLabels,
        CapLabels, SessLabels, NoLeaseLabels, OpenLabels, AllOps, UserStates,
        CapabilityStates, PairingStates, NoLease, SessionLease, NoCap, NoSession,
        registry, durable, sessionMeta, clients, locals
<1>1. ASSUME NEW s \in Sessions, SessionTimesOut(s) PROVE Placement'
  BY <1>1 DEF SessionTimesOut
<1>2. ASSUME NEW c \in Caps, CapabilityTimesOut(c) PROVE Placement'
  BY <1>2 DEF CapabilityTimesOut
<1>3. ASSUME UserBecomesInactive PROVE Placement'
  BY <1>3 DEF UserBecomesInactive
<1>4. ASSUME Restart PROVE Placement'
  BY <1>4 DEF Restart
<1>5. ASSUME UNCHANGED vars PROVE Placement'
  BY <1>5 DEF vars
<1> QED
  BY <1>1, <1>2, <1>3, <1>4, <1>5 DEF TimePasses

-----------------------------------------------------------------------------
(* The counters *)

\* A step that touches neither a lease nor a counter keeps them equal.
LEMMA UnchangedAccounting ==
  ASSUME LeaseAccounting, UNCHANGED <<active_requests, active_by_capability, lease>>
  PROVE  LeaseAccounting'
  BY DEF LeaseAccounting, LiveLeases

\* Without a lease both counters are zero.
LEMMA NoLeaseAccounting ==
  ASSUME lease = [h \in Holders |-> NoLease], active_requests = 0,
         active_by_capability = [c \in Caps |-> 0]
  PROVE  LeaseAccounting
<1>1. LiveLeases = {}
  BY DEF LiveLeases
<1>2. \A c \in Caps : {h \in Holders : lease[h] = c} = {}
  BY NamesAssumption DEF NoLease
<1> QED BY <1>1, <1>2, FS_EmptySet DEF LeaseAccounting

\* Every step of a handler keeps the counters exact.
LEMMA HandlerAccounting ==
  ASSUME Placement, LeaseAccounting, NEW p \in Procs, StartOp(p) \/ HandlerStep(p)
  PROVE  LeaseAccounting'
<1> USE DEF Placement
<1>1. CASE AcquireSessionRequest(p)
  <2>1. lease[p] = NoLease /\ p \in Holders
    BY <1>1 DEF AcquireSessionRequest, LeaseShape, NoLeaseLabels, Holders
  <2> QED BY <1>1, <2>1, AcquireAccounting DEF AcquireSessionRequest
<1>2. CASE AcquireKeyRequest(p)
  <2>1. lease[p] = NoLease /\ p \in Holders /\ cap[p] \in Caps
    BY <1>2 DEF AcquireKeyRequest, LeaseShape, NoLeaseLabels, Holders, ArgumentsBound, CapLabels
  <2> QED BY <1>2, <2>1, AcquireAccounting DEF AcquireKeyRequest
<1>3. CASE ApprovePairing(p)
  <2>1. cap[p] \in Caps /\ cap[p] \in Holders
    BY <1>3 DEF ApprovePairing, ArgumentsBound, CapLabels, Holders
  <2>2. lease[cap[p]] = NoLease
    BY <1>3, <2>1 DEF ApprovePairing, LeaseShape
  <2> QED BY <1>3, <2>1, <2>2, AcquireAccounting DEF ApprovePairing
<1>4. CASE ReleaseLease(p)
  <2>1. lease[p] # NoLease /\ p \in Holders
    BY <1>4 DEF ReleaseLease, LeaseShape, Holders
  <2> QED BY <1>4, <2>1, DropAccounting DEF ReleaseLease
<1>5. CASE ReleaseBeforeExpiry(p)
  <2>1. lease[p] # NoLease /\ p \in Holders
    BY <1>5, NamesAssumption DEF ReleaseBeforeExpiry, LeaseShape, Holders, KeyLeaseLabels,
                                 ArgumentsBound, CapLabels
  <2> QED BY <1>5, <2>1, DropAccounting DEF ReleaseBeforeExpiry
<1>6. CASE StartOp(p)
  <2>1. UNCHANGED <<active_requests, active_by_capability, lease>>
    BY <1>6 DEF StartOp, LookupSession, LookupExpiredSession, Register, LookupUser,
                FindCapability, ListCandidate, StartCleanup, registry
  <2> QED BY <2>1, UnchangedAccounting
<1>7. CASE WaitingStep(p)
  <2>1. UNCHANGED <<active_requests, active_by_capability, lease>>
    BY <1>7 DEF WaitingStep, BeginExpiry, BeginRevoke, BeginCapabilityShutdown,
                WaitForRequests, ClaimExclusive, DrainRequests, registry
  <2> QED BY <2>1, UnchangedAccounting
<1>8. CASE /\ LocalStep(p)
           /\ ~AcquireSessionRequest(p) /\ ~AcquireKeyRequest(p) /\ ~ApprovePairing(p)
           /\ ~ReleaseLease(p) /\ ~ReleaseBeforeExpiry(p)
  <2>1. UNCHANGED <<active_requests, active_by_capability, lease>>
    BY <1>8
    DEF LocalStep, UnpinBrowserSession, AcquireSessionRefused, RestoreUserDb, RestoreFails,
        RestoreUnwrapFails, PinBrowserSession, RecheckSession, RecheckFails, Served,
        Logout, AcquireKeyRefused, RecheckCapability, OpenForClient,
        OpenForClientFails, RecordActivity, ClearExpiredWrap, RevokeCapability,
        ShutdownWriteFails, DropShutdownGuard, ApproveFails, DenyPairing,
        VerifyPassword, OpenForLogin, LoadSettings, LoginFails, InsertSession,
        PinNewSession, RecordLastLogin, RecordLastLoginFails, DropLifecycleGuard,
        ReapCheck, ClearBrowserSessions, CloseForDeletion, RemoveUserDirectory,
        DeleteAppRows, ReapFails, NextExpired, SweepSessions, registry
  <2> QED BY <2>1, UnchangedAccounting
<1> QED
  BY <1>1, <1>2, <1>3, <1>4, <1>5, <1>6, <1>7, <1>8 DEF HandlerStep

\* So does every step of the pairing store.
LEMMA PairingAccounting ==
  ASSUME Placement, LeaseAccounting, NEW c \in Caps, PairingStep(c)
  PROVE  LeaseAccounting'
<1> USE DEF Placement
<1>0. c \in Holders
  BY DEF Holders
<1>1. CASE CompleteClaim(c)
  <2>1. lease[c] # NoLease
    BY <1>1 DEF CompleteClaim, LeaseShape, NoLease, SessionLease
  <2> QED BY <1>0, <1>1, <2>1, DropAccounting DEF CompleteClaim
<1>2. CASE ExpirePairing(c) /\ lease[c] # NoLease
  BY <1>0, <1>2, DropAccounting DEF ExpirePairing
<1>3. CASE StartPairing(c) \/ ActivateClaim(c) \/ (ExpirePairing(c) /\ lease[c] = NoLease)
  <2>1. UNCHANGED <<active_requests, active_by_capability, lease>>
    BY <1>3 DEF StartPairing, ActivateClaim, ExpirePairing, registry
  <2> QED BY <2>1, UnchangedAccounting
<1> QED BY <1>1, <1>2, <1>3 DEF PairingStep

\* So do the clock, a restart and stuttering.
LEMMA EnvironmentAccounting ==
  ASSUME LeaseAccounting, TimePasses \/ Restart \/ UNCHANGED vars
  PROVE  LeaseAccounting'
<1>1. CASE TimePasses \/ UNCHANGED vars
  <2>1. UNCHANGED <<active_requests, active_by_capability, lease>>
    BY <1>1 DEF TimePasses, SessionTimesOut, CapabilityTimesOut, UserBecomesInactive, vars,
                registry
  <2> QED BY <2>1, UnchangedAccounting
<1>2. CASE Restart
  <2>1. LiveLeases' = {}
    BY <1>2 DEF Restart, LiveLeases
  <2>2. \A c \in Caps : {h \in Holders : lease'[h] = c} = {}
    BY <1>2, NamesAssumption DEF Restart, NoLease
  <2> QED BY <1>2, <2>1, <2>2, FS_EmptySet DEF Restart, LeaseAccounting
<1> QED BY <1>1, <1>2

-----------------------------------------------------------------------------
(* Deletion *)

\* While a job deletes the user, no other handler holds a lease or the guard.
LEMMA DeletionAlone ==
  ASSUME Placement, LeaseAccounting
  PROVE  \A q, p \in Procs : pc[q] \in DeletionLabels /\ p # q =>
            pc[p] \notin GuardLabels \cup KeyLeaseLabels \cup SessionLeaseLabels
<1>1. SUFFICES ASSUME NEW q \in Procs, NEW p \in Procs, pc[q] \in DeletionLabels, p # q
               PROVE  pc[p] \notin GuardLabels \cup KeyLeaseLabels \cup SessionLeaseLabels
  BY Zenon
<1>2. HoldsGuard(q)
  BY <1>1 DEF HoldsGuard, DeletionLabels, GuardLabels
<1>3. ~HoldsGuard(p) /\ active_requests = 0
  BY <1>1, <1>2 DEF Placement, ExclusiveOwner, InExclusive
<1>4. lease[p] = NoLease
  BY <1>3, CountersSeeLeases DEF Placement, Holders
<1>5. pc[p] \notin KeyLeaseLabels
  BY <1>4, NamesAssumption DEF Placement, LeaseShape, ArgumentsBound, CapLabels
<1>6. pc[p] \notin SessionLeaseLabels
  BY <1>4 DEF Placement, LeaseShape, NoLease, SessionLease
<1> QED BY <1>3, <1>5, <1>6 DEF HoldsGuard

\* So what the deletion checked stays true through every handler's steps ...
LEMMA HandlerDeletion ==
  ASSUME Placement, LeaseAccounting, DeletionReady, NEW p \in Procs, HandlerStep(p)
  PROVE  DeletionReady'
<1>0. \A q \in Procs : pc[q] \in DeletionLabels /\ p # q =>
            pc[p] \notin GuardLabels \cup KeyLeaseLabels \cup SessionLeaseLabels
  BY DeletionAlone, Zenon
<1>t. pc \in [Procs -> Labels]
  BY DEF Placement, TypeOK
<1> USE <1>0, <1>t DEF DeletionReady, DeletionLabels, Goto, Return, GuardLabels, KeyLeaseLabels,
        SessionLeaseLabels, ServeLabels, registry, durable, sessionMeta, clients, locals
<1>1. ASSUME UnpinBrowserSession(p) PROVE DeletionReady'
  BY <1>1 DEF UnpinBrowserSession, AfterUnpin
<1>2. ASSUME AcquireSessionRequest(p) PROVE DeletionReady'
  BY <1>2 DEF AcquireSessionRequest
<1>3. ASSUME AcquireSessionRefused(p) PROVE DeletionReady'
  BY <1>3 DEF AcquireSessionRefused
<1>4. ASSUME RestoreUserDb(p) PROVE DeletionReady'
  BY <1>4 DEF RestoreUserDb
<1>5. ASSUME RestoreFails(p) PROVE DeletionReady'
  BY <1>5 DEF RestoreFails
<1>6. ASSUME RestoreUnwrapFails(p) PROVE DeletionReady'
  BY <1>6 DEF RestoreUnwrapFails, DeleteRow, AfterUnpin
<1>7. ASSUME PinBrowserSession(p) PROVE DeletionReady'
  BY <1>7 DEF PinBrowserSession
<1>8. ASSUME RecheckSession(p) PROVE DeletionReady'
  BY <1>8 DEF RecheckSession
<1>9. ASSUME RecheckFails(p) PROVE DeletionReady'
  BY <1>9 DEF RecheckFails
<1>10. ASSUME Served(p) PROVE DeletionReady'
  BY <1>10 DEF Served
<1>11. ASSUME ReleaseLease(p) PROVE DeletionReady'
  BY <1>11 DEF ReleaseLease, drop_lease
<1>12. ASSUME Logout(p) PROVE DeletionReady'
  BY <1>12 DEF Logout, DeleteRow, AfterUnpin
<1>13. ASSUME AcquireKeyRequest(p) PROVE DeletionReady'
  BY <1>13 DEF AcquireKeyRequest
<1>14. ASSUME AcquireKeyRefused(p) PROVE DeletionReady'
  BY <1>14 DEF AcquireKeyRefused
<1>15. ASSUME RecheckCapability(p) PROVE DeletionReady'
  BY <1>15 DEF RecheckCapability
<1>16. ASSUME OpenForClient(p) PROVE DeletionReady'
  BY <1>16 DEF OpenForClient
<1>17. ASSUME OpenForClientFails(p) PROVE DeletionReady'
  BY <1>17 DEF OpenForClientFails
<1>18. ASSUME RecordActivity(p) PROVE DeletionReady'
  BY <1>18 DEF RecordActivity
<1>19. ASSUME ReleaseBeforeExpiry(p) PROVE DeletionReady'
  BY <1>19 DEF ReleaseBeforeExpiry, drop_lease
<1>20. ASSUME ClearExpiredWrap(p) PROVE DeletionReady'
  BY <1>20 DEF ClearExpiredWrap
<1>21. ASSUME RevokeCapability(p) PROVE DeletionReady'
  BY <1>21 DEF RevokeCapability
<1>22. ASSUME ShutdownWriteFails(p) PROVE DeletionReady'
  BY <1>22 DEF ShutdownWriteFails
<1>23. ASSUME DropShutdownGuard(p) PROVE DeletionReady'
  BY <1>23 DEF DropShutdownGuard
<1>24. ASSUME ApprovePairing(p) PROVE DeletionReady'
  BY <1>24 DEF ApprovePairing
<1>25. ASSUME ApproveFails(p) PROVE DeletionReady'
  BY <1>25 DEF ApproveFails
<1>26. ASSUME DenyPairing(p) PROVE DeletionReady'
  BY <1>26 DEF DenyPairing
<1>27. ASSUME VerifyPassword(p) PROVE DeletionReady'
  BY <1>27 DEF VerifyPassword
<1>28. ASSUME OpenForLogin(p) PROVE DeletionReady'
  BY <1>28 DEF OpenForLogin
<1>29. ASSUME LoadSettings(p) PROVE DeletionReady'
  BY <1>29 DEF LoadSettings
<1>30. ASSUME LoginFails(p) PROVE DeletionReady'
  BY <1>30 DEF LoginFails
<1>31. ASSUME InsertSession(p) PROVE DeletionReady'
  BY <1>31 DEF InsertSession
<1>32. ASSUME PinNewSession(p) PROVE DeletionReady'
  BY <1>32 DEF PinNewSession
<1>33. ASSUME RecordLastLogin(p) PROVE DeletionReady'
  BY <1>33 DEF RecordLastLogin
<1>34. ASSUME RecordLastLoginFails(p) PROVE DeletionReady'
  BY <1>34 DEF RecordLastLoginFails, DeleteRow, AfterUnpin
<1>35. ASSUME DropLifecycleGuard(p) PROVE DeletionReady'
  BY <1>35 DEF DropLifecycleGuard
<1>36. ASSUME ReapCheck(p) PROVE DeletionReady'
  BY <1>36 DEF ReapCheck
<1>37. ASSUME ClearBrowserSessions(p) PROVE DeletionReady'
  BY <1>37 DEF ClearBrowserSessions
<1>38. ASSUME CloseForDeletion(p) PROVE DeletionReady'
  BY <1>38 DEF CloseForDeletion
<1>39. ASSUME RemoveUserDirectory(p) PROVE DeletionReady'
  BY <1>39 DEF RemoveUserDirectory
<1>40. ASSUME DeleteAppRows(p) PROVE DeletionReady'
  BY <1>40 DEF DeleteAppRows
<1>41. ASSUME ReapFails(p) PROVE DeletionReady'
  BY <1>41 DEF ReapFails
<1>42. ASSUME NextExpired(p) PROVE DeletionReady'
  BY <1>42 DEF NextExpired
<1>43. ASSUME SweepSessions(p) PROVE DeletionReady'
  BY <1>43 DEF SweepSessions
<1>44. ASSUME BeginExpiry(p) PROVE DeletionReady'
  BY <1>44 DEF BeginExpiry
<1>45. ASSUME BeginRevoke(p) PROVE DeletionReady'
  BY <1>45 DEF BeginRevoke
<1>46. ASSUME WaitForRequests(p) PROVE DeletionReady'
  BY <1>46 DEF WaitForRequests
<1>47. ASSUME ClaimExclusive(p) PROVE DeletionReady'
  BY <1>47 DEF ClaimExclusive
<1>48. ASSUME DrainRequests(p) PROVE DeletionReady'
  BY <1>48 DEF DrainRequests
<1> QED
  BY <1>1, <1>2, <1>3, <1>4, <1>5, <1>6, <1>7, <1>8, <1>9, <1>10, <1>11, <1>12,
     <1>13, <1>14, <1>15, <1>16, <1>17, <1>18, <1>19, <1>20, <1>21, <1>22,
     <1>23, <1>24, <1>25, <1>26, <1>27, <1>28, <1>29, <1>30, <1>31, <1>32,
     <1>33, <1>34, <1>35, <1>36, <1>37, <1>38, <1>39, <1>40, <1>41, <1>42,
     <1>43, <1>44, <1>45, <1>46, <1>47, <1>48
  DEF HandlerStep, LocalStep, WaitingStep

\* ... and through every other step.
LEMMA OtherDeletion ==
  ASSUME Placement, DeletionReady,
         \/ \E p \in Procs : StartOp(p)
         \/ \E c \in Caps : PairingStep(c)
         \/ TimePasses \/ Restart \/ UNCHANGED vars
  PROVE  DeletionReady'
<1>t. pc \in [Procs -> Labels]
  BY DEF Placement, TypeOK
<1> USE <1>t DEF DeletionReady, DeletionLabels, registry, durable, sessionMeta, clients, locals
<1>1. ASSUME NEW p \in Procs, StartOp(p) PROVE DeletionReady'
  <2>1. /\ UNCHANGED <<inactive, dbOpen, expired>> /\ rows' \subseteq rows
        /\ \E l \in {"acquire", "logout", "unpin", "keyAcquire", "expireBegin", "lock",
                     "nextExpired"} : pc' = [pc EXCEPT ![p] = l]
    BY <1>1 DEF StartOp, LookupSession, LookupExpiredSession, Register, LookupUser,
                FindCapability, ListCandidate, StartCleanup, Start
  <2> QED BY <2>1
<1>2. ASSUME NEW c \in Caps, PairingStep(c) PROVE DeletionReady'
  <2>1. UNCHANGED <<inactive, rows, expired, pc>>
    BY <1>2 DEF PairingStep, StartPairing, ActivateClaim, CompleteClaim, ExpirePairing
  <2>2. ~dbOpen => ~dbOpen'
    BY <1>2 DEF PairingStep, StartPairing, ActivateClaim, CompleteClaim, ExpirePairing, drop_lease
  <2> QED BY <2>1, <2>2
<1>3. CASE TimePasses
  BY <1>3 DEF TimePasses, SessionTimesOut, CapabilityTimesOut, UserBecomesInactive
<1>4. CASE Restart \/ UNCHANGED vars
  BY <1>4 DEF Restart, vars
<1> QED BY <1>1, <1>2, <1>3, <1>4

-----------------------------------------------------------------------------
(* Theorems *)

\* A freshly started server satisfies the invariant ...
LEMMA InitIndInv == Init => IndInv
<1> SUFFICES ASSUME Init PROVE IndInv
  OBVIOUS
<1> USE DEF Init
<1>1. TypeOK
  BY DEF TypeOK, UserStates, CapabilityStates, PairingStates, Labels
<1>2. LeaseAccounting
  BY NoLeaseAccounting
<1>3. ArgumentsBound /\ LeaseShape
  BY DEF ArgumentsBound, LeaseShape, CapLabels, KeyLeaseLabels, ShutdownLabels, SessLabels,
         GuardLabels, SessionLeaseLabels, ServeLabels, NoLeaseLabels, NoLease, Holders
<1>4. ExclusiveOwner /\ ShutdownOwner /\ OpenWhileLeased
  BY DEF ExclusiveOwner, ShutdownOwner, OpenWhileLeased, InExclusive, HoldsGuard, GuardLabels,
         ShutdownLabels, OpenLabels, ServeLabels
<1>5. DeletionReady
  BY DEF DeletionReady, DeletionLabels
<1> QED BY <1>1, <1>2, <1>3, <1>4, <1>5 DEF IndInv

\* ... and every step of every handler, of the pairing store, of the clock and a
\* restart preserve it.
LEMMA NextIndInv == IndInv /\ [Next]_vars => IndInv'
<1> SUFFICES ASSUME IndInv, [Next]_vars PROVE IndInv'
  OBVIOUS
<1>1. Placement /\ LeaseAccounting
  BY DEF IndInv, Placement
<1>2. ASSUME NEW p \in Procs, StartOp(p) \/ HandlerStep(p) PROVE Placement' /\ LeaseAccounting'
  BY <1>1, <1>2, LocalStepPlacement, WaitingStepPlacement, StartPlacement, HandlerAccounting
  DEF HandlerStep
<1>3. ASSUME NEW c \in Caps, PairingStep(c) PROVE Placement' /\ LeaseAccounting'
  BY <1>1, <1>3, PairingPlacement, PairingAccounting
<1>4. ASSUME TimePasses \/ Restart \/ UNCHANGED vars PROVE Placement' /\ LeaseAccounting'
  BY <1>1, <1>4, EnvironmentPlacement, EnvironmentAccounting
<1>5. Placement' /\ LeaseAccounting'
  BY <1>2, <1>3, <1>4 DEF Next
<1>6. DeletionReady'
  BY <1>1, HandlerDeletion, OtherDeletion DEF IndInv, Next
<1> QED BY <1>5, <1>6 DEF IndInv, Placement

\* Counters, owners and labels agree with each other in every reachable state.
THEOREM Inductive == Spec => []IndInv
  BY InitIndInv, NextIndInv, PTL DEF Spec

\* Every variable of the registry, the databases, the pairing store and the
\* handlers stays in its type.
THEOREM TypeCorrect == Spec => []TypeOK
<1>1. IndInv => TypeOK
  BY DEF IndInv
<1> QED BY <1>1, Inductive, PTL

\* The counters of UserLifecycleState always equal the number of live leases.
THEOREM CountersExact == Spec => []LeaseAccounting
<1>1. IndInv => LeaseAccounting
  BY DEF IndInv
<1> QED BY <1>1, Inductive, PTL

\* The owner of a UserLifecycleGuard is alone with the user.
THEOREM GuardIsExclusive == Spec => []ExclusiveIsolation
<1>1. ASSUME IndInv PROVE ExclusiveIsolation
  <2>1. ASSUME NEW p \in Procs, HoldsGuard(p)
        PROVE  /\ exclusive_user /\ LiveLeases = {} /\ blocked_capabilities = {}
               /\ \A q \in Procs \ {p} : ~HoldsGuard(q)
    <3>1. exclusive_user /\ active_requests = 0 /\ blocked_capabilities = {}
      BY <1>1, <2>1 DEF IndInv, ExclusiveOwner, InExclusive
    <3>2. LiveLeases = {}
      BY <1>1, <3>1, CountersSeeLeases DEF IndInv, LiveLeases
    <3>3. \A q \in Procs \ {p} : ~HoldsGuard(q)
      BY <1>1, <2>1 DEF IndInv, ExclusiveOwner, InExclusive
    <3> QED BY <3>1, <3>2, <3>3
  <2> QED BY <2>1 DEF ExclusiveIsolation
<1> QED BY <1>1, Inductive, PTL

\* No handler and no approved pairing has the database closed, or the user's
\* directory removed, underneath it.
THEOREM ServedWhileOpen == Spec => []ServedFromOpenDatabase
<1>1. IndInv => ServedFromOpenDatabase
  BY DEF IndInv, ServedFromOpenDatabase, OpenWhileLeased, OpenLabels
<1> QED BY <1>1, Inductive, PTL

\* A retired capability serves nothing once its shutdown is over.
THEOREM RetiredKeysAreSilent == Spec => []RetiredKeyServesNothing
<1>1. ASSUME IndInv PROVE RetiredKeyServesNothing
  <2> SUFFICES ASSUME NEW c \in Caps, capability[c] \in {"revoked", "cleared"},
                      NEW q \in Procs, pc[q] = "keyServe", cap[q] = c
               PROVE  c \in blocked_capabilities
    BY DEF RetiredKeyServesNothing
  <2>1. PICK p \in Procs : pc[p] = "drain" /\ cap[p] = c
    BY <1>1 DEF IndInv, ShutdownOwner
  <2> QED BY <1>1, <2>1 DEF IndInv, ShutdownOwner, ShutdownLabels
<1> QED BY <1>1, Inductive, PTL

\* The inactive-user job deletes a directory or rows only of a user that is
\* inactive, without live session, lease or open database.
THEOREM DeletionIsSafe == Spec => DeletionSparesActiveUsers
<1> DEFINE Deletes == \/ user = "live" /\ user' = "noEnvelope"
                      \/ user # "deleted" /\ user' = "deleted"
           Spared  == inactive /\ rows \subseteq expired /\ LiveLeases = {} /\ ~dbOpen
<1>1. ASSUME IndInv, [Next]_vars PROVE [Deletes => Spared]_vars
  <2>1. SUFFICES ASSUME Deletes PROVE Spared
    OBVIOUS
  <2>2. ~UNCHANGED vars
    BY <2>1 DEF vars, durable
  <2>3. ~TimePasses /\ ~Restart /\ ~\E c \in Caps : PairingStep(c)
    BY <2>1 DEF TimePasses, SessionTimesOut, CapabilityTimesOut, UserBecomesInactive, Restart,
                PairingStep, StartPairing, ActivateClaim, CompleteClaim, ExpirePairing, durable
  <2>4. PICK p \in Procs : StartOp(p) \/ HandlerStep(p)
    BY <1>1, <2>2, <2>3 DEF Next
  <2>5. ~StartOp(p)
    BY <2>1 DEF StartOp, LookupSession, LookupExpiredSession, Register, LookupUser,
                FindCapability, ListCandidate, StartCleanup, durable
  <2>6. RemoveUserDirectory(p) \/ DeleteAppRows(p)
    BY <2>1, <2>4, <2>5
    DEF HandlerStep, LocalStep, WaitingStep, durable, UnpinBrowserSession,
        AcquireSessionRequest, AcquireSessionRefused, RestoreUserDb, RestoreFails,
        RestoreUnwrapFails, PinBrowserSession, RecheckSession, RecheckFails, Served,
        ReleaseLease, Logout, AcquireKeyRequest, AcquireKeyRefused,
        RecheckCapability, OpenForClient, OpenForClientFails, RecordActivity,
        ReleaseBeforeExpiry, ClearExpiredWrap, RevokeCapability, ShutdownWriteFails,
        DropShutdownGuard, ApprovePairing, ApproveFails, DenyPairing,
        VerifyPassword, OpenForLogin, LoadSettings, LoginFails, InsertSession,
        PinNewSession, RecordLastLogin, RecordLastLoginFails, DropLifecycleGuard,
        ReapCheck, ClearBrowserSessions, CloseForDeletion, ReapFails, NextExpired,
        SweepSessions, BeginExpiry, BeginRevoke, WaitForRequests, ClaimExclusive,
        DrainRequests
  <2>7. pc[p] \in {"reapDir", "reapRows"}
    BY <2>6 DEF RemoveUserDirectory, DeleteAppRows
  <2>8. inactive /\ rows \subseteq expired /\ ~dbOpen
    BY <1>1, <2>7 DEF IndInv, DeletionReady, DeletionLabels
  <2>9. active_requests = 0
    BY <1>1, <2>7 DEF IndInv, ExclusiveOwner, HoldsGuard, GuardLabels
  <2> QED BY <1>1, <2>8, <2>9, CountersSeeLeases DEF IndInv, LiveLeases
<1> QED BY <1>1, Inductive, PTL DEF Spec, DeletionSparesActiveUsers

-----------------------------------------------------------------------------
(* Why the database is open, and who unpins (without I/O errors) *)

\* Where a handler is about to pin a session into the database it opened, or to
\* close it.
OpeningLabels == {"settings", "insert", "pinNew", "reapClose"}

\* OpenDatabaseIsNeeded, with the exact steps of a login or deletion that keep
\* a database open that nobody has leased or pinned.
OpenHasReason ==
    dbOpen => \/ \E h \in Holders : lease[h] # NoLease
              \/ browser_sessions # {}
              \/ \E p \in Procs : pc[p] \in OpeningLabels

LoginOps == {"login", "register"}

\* A login or registration that has not inserted its session row yet.
BeforeInsert(p) ==
    op[p] \in LoginOps /\ pc[p] \in {"lock", "drainRequests", "verify", "open", "settings", "insert"}

\* Only logins and registrations reach the labels where a session is created.
LoginPlaces ==
    \A p \in Procs :
        /\ pc[p] \in {"verify", "open", "settings", "insert", "pinNew", "lastLogin"}
              => op[p] \in LoginOps
        /\ pc[p] \in {"lock", "drainRequests"} => op[p] \in LoginOps \cup {"reap"}

\* A session id is generated once and belongs to the login that generated it.
SessionsIssuedOnce ==
    /\ rows \cup tokens \cup expired \subseteq issued
    /\ \A p \in Procs : op[p] \in LoginOps => sess[p] \in issued
    /\ \A p, q \in Procs : op[p] \in LoginOps /\ op[q] \in LoginOps /\ sess[p] = sess[q] => p = q

\* Nobody else knows the session of a login that has not answered yet.
NewSessionPrivate ==
    \A p \in Procs :
        /\ BeforeInsert(p) => sess[p] \notin rows \cup tokens \cup expired
        /\ pc[p] = "pinNew" => sess[p] \in rows \ (tokens \cup expired)

\* Only a handler at its unpin loop owes unpins, a logout acts for a browser
\* that was sent the session, and a deletion has unpinned everything.
UnpinDuty ==
    /\ \A p \in Procs : owed[p] # {} => pc[p] = "unpin"
    /\ \A p \in Procs : pc[p] = "logout" => sess[p] \in tokens
    /\ \A p \in Procs : pc[p] \in {"reapClose", "reapDir", "reapRows"} => browser_sessions = {}

\* NoOrphanPin with what makes it inductive.
PinInv ==
    /\ LoginPlaces
    /\ SessionsIssuedOnce
    /\ NewSessionPrivate
    /\ UnpinDuty
    /\ NoOrphanPin

\* While a handler drops its last lease or unpins the last session under the
\* registry mutex it closes the database, so every step keeps the reason.
LEMMA HandlerReason ==
  ASSUME ~Faults, IndInv, LeaseAccounting', OpenHasReason, NEW p \in Procs, HandlerStep(p)
  PROVE  OpenHasReason'
<1>t. /\ pc \in [Procs -> Labels] /\ lease \in [Holders -> Caps \cup {NoLease, SessionLease}]
      /\ p \in Holders
  BY DEF IndInv, TypeOK, Holders
<1>0. active_requests' # 0 => \E h \in Holders : lease'[h] # NoLease
  BY HoldersFinite, FS_EmptySet DEF LeaseAccounting, LiveLeases
<1> USE <1>t DEF OpenHasReason, OpeningLabels, Goto, Return, registry, locals
<1>1. ASSUME UnpinBrowserSession(p) PROVE OpenHasReason'
  BY <1>1, CountersSeeLeases DEF UnpinBrowserSession, AfterUnpin, IndInv
<1>2. ASSUME AcquireSessionRequest(p) PROVE OpenHasReason'
  BY <1>2, NamesAssumption DEF AcquireSessionRequest, acquire_request, NoLease, SessionLease
<1>3. ASSUME AcquireSessionRefused(p) PROVE OpenHasReason'
  BY <1>3 DEF AcquireSessionRefused
<1>4. ASSUME RestoreUserDb(p) PROVE OpenHasReason'
  <2>1. lease[p] # NoLease
    BY <1>4 DEF RestoreUserDb, IndInv, LeaseShape, SessionLeaseLabels, NoLease, SessionLease
  <2> QED BY <1>4, <2>1 DEF RestoreUserDb
<1>5. ASSUME RestoreFails(p) PROVE OpenHasReason'
  BY <1>5 DEF RestoreFails
<1>6. ASSUME RestoreUnwrapFails(p) PROVE OpenHasReason'
  BY <1>6 DEF RestoreUnwrapFails
<1>7. ASSUME PinBrowserSession(p) PROVE OpenHasReason'
  BY <1>7 DEF PinBrowserSession
<1>8. ASSUME RecheckSession(p) PROVE OpenHasReason'
  BY <1>8 DEF RecheckSession
<1>9. ASSUME RecheckFails(p) PROVE OpenHasReason'
  BY <1>9 DEF RecheckFails
<1>10. ASSUME Served(p) PROVE OpenHasReason'
  BY <1>10 DEF Served
<1>11. ASSUME ReleaseLease(p) PROVE OpenHasReason'
  BY <1>11, <1>0 DEF ReleaseLease, drop_lease
<1>12. ASSUME Logout(p) PROVE OpenHasReason'
  BY <1>12 DEF Logout, DeleteRow, AfterUnpin
<1>13. ASSUME AcquireKeyRequest(p) PROVE OpenHasReason'
  <2>1. cap[p] \in Caps
    BY <1>13 DEF AcquireKeyRequest, IndInv, ArgumentsBound, CapLabels
  <2> QED BY <1>13, <2>1, NamesAssumption DEF AcquireKeyRequest, acquire_request
<1>14. ASSUME AcquireKeyRefused(p) PROVE OpenHasReason'
  BY <1>14 DEF AcquireKeyRefused
<1>15. ASSUME RecheckCapability(p) PROVE OpenHasReason'
  BY <1>15 DEF RecheckCapability
<1>16. ASSUME OpenForClient(p) PROVE OpenHasReason'
  <2>1. lease[p] # NoLease
    BY <1>16, NamesAssumption DEF OpenForClient, IndInv, LeaseShape, ArgumentsBound, CapLabels,
                                 KeyLeaseLabels
  <2> QED BY <1>16, <2>1 DEF OpenForClient
<1>17. ASSUME OpenForClientFails(p) PROVE OpenHasReason'
  BY <1>17 DEF OpenForClientFails
<1>18. ASSUME RecordActivity(p) PROVE OpenHasReason'
  BY <1>18 DEF RecordActivity
<1>19. ASSUME ReleaseBeforeExpiry(p) PROVE OpenHasReason'
  BY <1>19, <1>0 DEF ReleaseBeforeExpiry, drop_lease
<1>20. ASSUME ClearExpiredWrap(p) PROVE OpenHasReason'
  BY <1>20 DEF ClearExpiredWrap
<1>21. ASSUME RevokeCapability(p) PROVE OpenHasReason'
  BY <1>21 DEF RevokeCapability
<1>22. ASSUME ShutdownWriteFails(p) PROVE OpenHasReason'
  BY <1>22 DEF ShutdownWriteFails
<1>23. ASSUME DropShutdownGuard(p) PROVE OpenHasReason'
  BY <1>23 DEF DropShutdownGuard
<1>24. ASSUME ApprovePairing(p) PROVE OpenHasReason'
  <2>1. cap[p] \in Holders
    BY <1>24 DEF ApprovePairing, IndInv, ArgumentsBound, CapLabels, Holders
  <2> QED BY <1>24, <2>1 DEF ApprovePairing, acquire_request, NoLease, SessionLease
<1>25. ASSUME ApproveFails(p) PROVE OpenHasReason'
  BY <1>25 DEF ApproveFails
<1>26. ASSUME DenyPairing(p) PROVE OpenHasReason'
  BY <1>26 DEF DenyPairing
<1>27. ASSUME VerifyPassword(p) PROVE OpenHasReason'
  BY <1>27 DEF VerifyPassword
<1>28. ASSUME OpenForLogin(p) PROVE OpenHasReason'
  BY <1>28 DEF OpenForLogin
<1>29. ASSUME LoadSettings(p) PROVE OpenHasReason'
  BY <1>29 DEF LoadSettings
<1>30. ASSUME LoginFails(p) PROVE OpenHasReason'
  BY <1>30 DEF LoginFails
<1>31. ASSUME InsertSession(p) PROVE OpenHasReason'
  BY <1>31 DEF InsertSession
<1>32. ASSUME PinNewSession(p) PROVE OpenHasReason'
  BY <1>32 DEF PinNewSession
<1>33. ASSUME RecordLastLogin(p) PROVE OpenHasReason'
  BY <1>33 DEF RecordLastLogin
<1>34. ASSUME RecordLastLoginFails(p) PROVE OpenHasReason'
  BY <1>34 DEF RecordLastLoginFails
<1>35. ASSUME DropLifecycleGuard(p) PROVE OpenHasReason'
  BY <1>35 DEF DropLifecycleGuard
<1>36. ASSUME ReapCheck(p) PROVE OpenHasReason'
  BY <1>36 DEF ReapCheck
<1>37. ASSUME ClearBrowserSessions(p) PROVE OpenHasReason'
  BY <1>37 DEF ClearBrowserSessions
<1>38. ASSUME CloseForDeletion(p) PROVE OpenHasReason'
  BY <1>38 DEF CloseForDeletion
<1>39. ASSUME RemoveUserDirectory(p) PROVE OpenHasReason'
  BY <1>39 DEF RemoveUserDirectory
<1>40. ASSUME DeleteAppRows(p) PROVE OpenHasReason'
  BY <1>40 DEF DeleteAppRows
<1>41. ASSUME ReapFails(p) PROVE OpenHasReason'
  BY <1>41 DEF ReapFails
<1>42. ASSUME NextExpired(p) PROVE OpenHasReason'
  BY <1>42 DEF NextExpired
<1>43. ASSUME SweepSessions(p) PROVE OpenHasReason'
  BY <1>43 DEF SweepSessions
<1>44. ASSUME BeginExpiry(p) PROVE OpenHasReason'
  BY <1>44 DEF BeginExpiry, BeginCapabilityShutdown
<1>45. ASSUME BeginRevoke(p) PROVE OpenHasReason'
  BY <1>45 DEF BeginRevoke, BeginCapabilityShutdown
<1>46. ASSUME WaitForRequests(p) PROVE OpenHasReason'
  BY <1>46 DEF WaitForRequests
<1>47. ASSUME ClaimExclusive(p) PROVE OpenHasReason'
  BY <1>47 DEF ClaimExclusive
<1>48. ASSUME DrainRequests(p) PROVE OpenHasReason'
  BY <1>48 DEF DrainRequests
<1> QED
  BY <1>1, <1>2, <1>3, <1>4, <1>5, <1>6, <1>7, <1>8, <1>9, <1>10, <1>11, <1>12, <1>13,
     <1>14, <1>15, <1>16, <1>17, <1>18, <1>19, <1>20, <1>21, <1>22, <1>23, <1>24, <1>25,
     <1>26, <1>27, <1>28, <1>29, <1>30, <1>31, <1>32, <1>33, <1>34, <1>35, <1>36, <1>37,
     <1>38, <1>39, <1>40, <1>41, <1>42, <1>43, <1>44, <1>45, <1>46, <1>47, <1>48
  DEF HandlerStep, LocalStep, WaitingStep

\* So do the start of an operation, the pairing store, the clock and a restart.
LEMMA OtherReason ==
  ASSUME IndInv, LeaseAccounting', OpenHasReason,
         \/ \E p \in Procs : StartOp(p)
         \/ \E c \in Caps : PairingStep(c)
         \/ TimePasses \/ Restart \/ UNCHANGED vars
  PROVE  OpenHasReason'
<1>t. pc \in [Procs -> Labels]
  BY DEF IndInv, TypeOK
<1> USE <1>t DEF OpenHasReason, OpeningLabels, registry
<1>1. ASSUME NEW p \in Procs, StartOp(p) PROVE OpenHasReason'
  <2>1. /\ UNCHANGED <<dbOpen, lease, browser_sessions>> /\ pc[p] = "idle"
        /\ \E l \in Labels : pc' = [pc EXCEPT ![p] = l]
    BY <1>1 DEF StartOp, LookupSession, LookupExpiredSession, Register, LookupUser,
                FindCapability, ListCandidate, StartCleanup, Start, Labels, ShutdownLabels,
                KeyLeaseLabels, SessionLeaseLabels, GuardLabels, ServeLabels
  <2> QED BY <2>1
<1>2. ASSUME NEW c \in Caps, PairingStep(c) PROVE OpenHasReason'
  <2>0. active_requests' # 0 => \E h \in Holders : lease'[h] # NoLease
    BY HoldersFinite, FS_EmptySet DEF LeaseAccounting, LiveLeases
  <2> QED BY <1>2, <2>0
      DEF PairingStep, StartPairing, ActivateClaim, CompleteClaim, ExpirePairing, drop_lease
<1>3. CASE TimePasses
  BY <1>3 DEF TimePasses, SessionTimesOut, CapabilityTimesOut, UserBecomesInactive
<1>4. CASE Restart \/ UNCHANGED vars
  BY <1>4 DEF Restart, vars
<1> QED BY <1>1, <1>2, <1>3, <1>4

\* A row that a handler's step deletes is owed an unpin by that handler, and no
\* other handler deletes the row of a session that a login is about to pin.
LEMMA HandlerPins ==
  ASSUME ~Faults, IndInv, PinInv, NEW p \in Procs, HandlerStep(p)
  PROVE  PinInv'
<1>t. /\ pc \in [Procs -> Labels] /\ op \in [Procs -> AllOps \cup {"none"}]
      /\ sess \in [Procs -> Sessions \cup {NoSession}]
      /\ owed \in [Procs -> SUBSET Sessions]
  BY DEF IndInv, TypeOK
<1>a. \A q \in Procs : pc[q] \in DeletionLabels /\ p # q =>
            pc[p] \notin GuardLabels \cup KeyLeaseLabels \cup SessionLeaseLabels
  BY DeletionAlone, Zenon DEF IndInv, Placement
<1>g. \A q \in Procs : HoldsGuard(p) /\ HoldsGuard(q) => p = q
  BY DEF IndInv, ExclusiveOwner, InExclusive
<1> USE <1>t DEF PinInv, LoginPlaces, SessionsIssuedOnce, NewSessionPrivate, UnpinDuty,
        NoOrphanPin, BeforeInsert, LoginOps, Goto, Return, registry, locals, durable,
        sessionMeta
<1>1. ASSUME UnpinBrowserSession(p) PROVE PinInv'
  BY <1>1 DEF UnpinBrowserSession, AfterUnpin
<1>2. ASSUME AcquireSessionRequest(p) PROVE PinInv'
  BY <1>2 DEF AcquireSessionRequest, acquire_request
<1>3. ASSUME AcquireSessionRefused(p) PROVE PinInv'
  BY <1>3 DEF AcquireSessionRefused
<1>4. ASSUME RestoreUserDb(p) PROVE PinInv'
  BY <1>4 DEF RestoreUserDb
<1>5. ASSUME RestoreFails(p) PROVE PinInv'
  BY <1>5 DEF RestoreFails
<1>6. ASSUME RestoreUnwrapFails(p) PROVE PinInv'
  BY <1>6 DEF RestoreUnwrapFails
<1>7. ASSUME PinBrowserSession(p) PROVE PinInv'
  BY <1>7, <1>a DEF PinBrowserSession, DeletionLabels, SessionLeaseLabels
<1>8. ASSUME RecheckSession(p) PROVE PinInv'
  BY <1>8 DEF RecheckSession
<1>9. ASSUME RecheckFails(p) PROVE PinInv'
  BY <1>9 DEF RecheckFails
<1>10. ASSUME Served(p) PROVE PinInv'
  BY <1>10 DEF Served
<1>11. ASSUME ReleaseLease(p) PROVE PinInv'
  BY <1>11 DEF ReleaseLease, drop_lease
<1>12. ASSUME Logout(p) PROVE PinInv'
  BY <1>12 DEF Logout, DeleteRow, AfterUnpin
<1>13. ASSUME AcquireKeyRequest(p) PROVE PinInv'
  BY <1>13 DEF AcquireKeyRequest, acquire_request
<1>14. ASSUME AcquireKeyRefused(p) PROVE PinInv'
  BY <1>14 DEF AcquireKeyRefused
<1>15. ASSUME RecheckCapability(p) PROVE PinInv'
  BY <1>15 DEF RecheckCapability
<1>16. ASSUME OpenForClient(p) PROVE PinInv'
  BY <1>16 DEF OpenForClient
<1>17. ASSUME OpenForClientFails(p) PROVE PinInv'
  BY <1>17 DEF OpenForClientFails
<1>18. ASSUME RecordActivity(p) PROVE PinInv'
  BY <1>18 DEF RecordActivity
<1>19. ASSUME ReleaseBeforeExpiry(p) PROVE PinInv'
  BY <1>19 DEF ReleaseBeforeExpiry, drop_lease
<1>20. ASSUME ClearExpiredWrap(p) PROVE PinInv'
  BY <1>20 DEF ClearExpiredWrap
<1>21. ASSUME RevokeCapability(p) PROVE PinInv'
  BY <1>21 DEF RevokeCapability
<1>22. ASSUME ShutdownWriteFails(p) PROVE PinInv'
  BY <1>22 DEF ShutdownWriteFails
<1>23. ASSUME DropShutdownGuard(p) PROVE PinInv'
  BY <1>23 DEF DropShutdownGuard
<1>24. ASSUME ApprovePairing(p) PROVE PinInv'
  BY <1>24 DEF ApprovePairing, acquire_request
<1>25. ASSUME ApproveFails(p) PROVE PinInv'
  BY <1>25 DEF ApproveFails
<1>26. ASSUME DenyPairing(p) PROVE PinInv'
  BY <1>26 DEF DenyPairing
<1>27. ASSUME VerifyPassword(p) PROVE PinInv'
  BY <1>27 DEF VerifyPassword
<1>28. ASSUME OpenForLogin(p) PROVE PinInv'
  BY <1>28 DEF OpenForLogin
<1>29. ASSUME LoadSettings(p) PROVE PinInv'
  BY <1>29 DEF LoadSettings
<1>30. ASSUME LoginFails(p) PROVE PinInv'
  BY <1>30 DEF LoginFails
<1>31. ASSUME InsertSession(p) PROVE PinInv'
  BY <1>31 DEF InsertSession
<1>32. ASSUME PinNewSession(p) PROVE PinInv'
  BY <1>32, <1>a DEF PinNewSession, DeletionLabels, GuardLabels
<1>33. ASSUME RecordLastLogin(p) PROVE PinInv'
  BY <1>33 DEF RecordLastLogin
<1>34. ASSUME RecordLastLoginFails(p) PROVE PinInv'
  BY <1>34 DEF RecordLastLoginFails
<1>35. ASSUME DropLifecycleGuard(p) PROVE PinInv'
  BY <1>35, <1>g DEF DropLifecycleGuard, HoldsGuard, GuardLabels
<1>36. ASSUME ReapCheck(p) PROVE PinInv'
  BY <1>36 DEF ReapCheck
<1>37. ASSUME ClearBrowserSessions(p) PROVE PinInv'
  BY <1>37 DEF ClearBrowserSessions
<1>38. ASSUME CloseForDeletion(p) PROVE PinInv'
  BY <1>38 DEF CloseForDeletion
<1>39. ASSUME RemoveUserDirectory(p) PROVE PinInv'
  BY <1>39 DEF RemoveUserDirectory
<1>40. ASSUME DeleteAppRows(p) PROVE PinInv'
  BY <1>40, <1>g DEF DeleteAppRows, HoldsGuard, GuardLabels
<1>41. ASSUME ReapFails(p) PROVE PinInv'
  BY <1>41 DEF ReapFails
<1>42. ASSUME NextExpired(p) PROVE PinInv'
  BY <1>42 DEF NextExpired
<1>43. ASSUME SweepSessions(p) PROVE PinInv'
  BY <1>43 DEF SweepSessions
<1>44. ASSUME BeginExpiry(p) PROVE PinInv'
  BY <1>44 DEF BeginExpiry, BeginCapabilityShutdown
<1>45. ASSUME BeginRevoke(p) PROVE PinInv'
  BY <1>45 DEF BeginRevoke, BeginCapabilityShutdown
<1>46. ASSUME WaitForRequests(p) PROVE PinInv'
  BY <1>46 DEF WaitForRequests
<1>47. ASSUME ClaimExclusive(p) PROVE PinInv'
  BY <1>47 DEF ClaimExclusive
<1>48. ASSUME DrainRequests(p) PROVE PinInv'
  BY <1>48 DEF DrainRequests
<1> QED
  BY <1>1, <1>2, <1>3, <1>4, <1>5, <1>6, <1>7, <1>8, <1>9, <1>10, <1>11, <1>12, <1>13,
     <1>14, <1>15, <1>16, <1>17, <1>18, <1>19, <1>20, <1>21, <1>22, <1>23, <1>24, <1>25,
     <1>26, <1>27, <1>28, <1>29, <1>30, <1>31, <1>32, <1>33, <1>34, <1>35, <1>36, <1>37,
     <1>38, <1>39, <1>40, <1>41, <1>42, <1>43, <1>44, <1>45, <1>46, <1>47, <1>48
  DEF HandlerStep, LocalStep, WaitingStep

\* So do the start of an operation, the pairing store, the clock and a restart:
\* an expired session's row is deleted by the request that will unpin it, and a
\* login's session id is new.
LEMMA OtherPins ==
  ASSUME IndInv, PinInv,
         \/ \E p \in Procs : StartOp(p)
         \/ \E c \in Caps : PairingStep(c)
         \/ TimePasses \/ Restart \/ UNCHANGED vars
  PROVE  PinInv'
<1>t. /\ pc \in [Procs -> Labels] /\ op \in [Procs -> AllOps \cup {"none"}]
      /\ sess \in [Procs -> Sessions \cup {NoSession}]
      /\ owed \in [Procs -> SUBSET Sessions]
  BY DEF IndInv, TypeOK
<1> USE <1>t DEF PinInv, LoginPlaces, SessionsIssuedOnce, NewSessionPrivate, UnpinDuty,
        NoOrphanPin, BeforeInsert, LoginOps, registry, locals, durable, sessionMeta
<1>1. ASSUME NEW p \in Procs, NEW s \in Sessions, NEW o \in AllOps, NEW c \in Caps \cup {NoCap},
             LookupSession(p, o, s, c)
      PROVE  PinInv'
  BY <1>1 DEF LookupSession, Start
<1>2. ASSUME NEW p \in Procs, NEW s \in Sessions, LookupExpiredSession(p, s) PROVE PinInv'
  BY <1>2 DEF LookupExpiredSession, Start
<1>3. ASSUME NEW p \in Procs, NEW s \in Sessions, Register(p, s) PROVE PinInv'
  BY <1>3 DEF Register, Start
<1>4. ASSUME NEW p \in Procs, NEW s \in Sessions, LookupUser(p, s) PROVE PinInv'
  BY <1>4 DEF LookupUser, Start
<1>5. ASSUME NEW p \in Procs, NEW c \in Caps, FindCapability(p, c) PROVE PinInv'
  BY <1>5 DEF FindCapability, Start
<1>6. ASSUME NEW p \in Procs, ListCandidate(p) PROVE PinInv'
  BY <1>6 DEF ListCandidate, Start
<1>7. ASSUME NEW p \in Procs, StartCleanup(p) PROVE PinInv'
  BY <1>7 DEF StartCleanup, Start
<1>8. ASSUME NEW c \in Caps, PairingStep(c) PROVE PinInv'
  <2>1. UNCHANGED <<browser_sessions, rows, expired, issued, tokens, pc, op, sess, owed>>
    BY <1>8 DEF PairingStep, StartPairing, ActivateClaim, CompleteClaim, ExpirePairing,
                drop_lease
  <2> QED BY <2>1
<1>9. CASE TimePasses
  BY <1>9 DEF TimePasses, SessionTimesOut, CapabilityTimesOut, UserBecomesInactive
<1>10. CASE Restart \/ UNCHANGED vars
  BY <1>10 DEF Restart, vars
<1> HIDE DEF PinInv, LoginPlaces
<1>11. ASSUME NEW p \in Procs, StartOp(p) PROVE PinInv'
  BY <1>1, <1>2, <1>3, <1>4, <1>5, <1>6, <1>7, <1>11, Zenon DEF StartOp
<1> QED BY <1>8, <1>9, <1>10, <1>11

\* Without I/O errors both hold in every reachable state.
LEMMA NoFaultsInductive ==
  ASSUME ~Faults
  PROVE  Spec => [](OpenHasReason /\ PinInv)
<1>1. Init => OpenHasReason /\ PinInv
  BY DEF Init, OpenHasReason, PinInv, LoginPlaces, SessionsIssuedOnce, NewSessionPrivate,
         UnpinDuty, NoOrphanPin, BeforeInsert, LoginOps
<1>2. ASSUME OpenHasReason, PinInv, IndInv, IndInv', [Next]_vars
      PROVE  OpenHasReason' /\ PinInv'
  <2>1. LeaseAccounting'
    BY <1>2 DEF IndInv
  <2>2. \/ \E p \in Procs : HandlerStep(p)
        \/ \E p \in Procs : StartOp(p)
        \/ \E c \in Caps : PairingStep(c)
        \/ TimePasses \/ Restart \/ UNCHANGED vars
    BY <1>2 DEF Next
  <2>3. OpenHasReason'
    BY <1>2, <2>1, <2>2, HandlerReason, OtherReason, Zenon
  <2>4. PinInv'
    BY <1>2, <2>2, HandlerPins, OtherPins, Zenon
  <2> QED BY <2>3, <2>4
<1> QED BY <1>1, <1>2, Inductive, PTL DEF Spec

\* Without I/O errors the decrypted database is open only for a lease, a pinned
\* session, or a login or deletion in progress.  (With them LoginFails leaves it
\* open.)
THEOREM OpenDatabaseHasReason ==
  ASSUME ~Faults
  PROVE  Spec => []OpenDatabaseIsNeeded
<1>1. OpenHasReason => OpenDatabaseIsNeeded
  BY DEF OpenHasReason, OpeningLabels, OpenDatabaseIsNeeded, LiveLeases, HoldsGuard, GuardLabels
<1> QED BY <1>1, NoFaultsInductive, PTL

\* Without I/O errors a pinned session without its row is about to be unpinned.
\* (With them RecheckFails leaves the pin behind.)
THEOREM PinsHaveOwners ==
  ASSUME ~Faults
  PROVE  Spec => []NoOrphanPin
<1>1. PinInv => NoOrphanPin
  BY DEF PinInv
<1> QED BY <1>1, NoFaultsInductive, PTL

=============================================================================
