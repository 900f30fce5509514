------------------------------ MODULE ApiKeys ------------------------------
(***************************************************************************)
(* One API key of the open interface: its row, the copies of it that the   *)
(* servers cache, the requests that are let in with it, the slots they     *)
(* hold in Redis while they run, and the points that their orders spend.   *)
(*                                                                         *)
(* src/internal/openapi: app/keycache.go (the cache),     *)
(* app/ports.go (create, change, delete, begin and finish),                *)
(* infra/concurrency_gate.go (slots), infra/repo.go (the row);             *)
(* src/internal/billing/infra/repo.go (the quota).                         *)
(*                                                                         *)
(* A cached copy is an object that requests may still point at after it    *)
(* left the cache: it is named by the request that loaded it.              *)
(***************************************************************************)
EXTENDS Integers, FiniteSets, Functions

CONSTANTS Servers,    \* processes that serve the open interface
          Requests,   \* requests that present the key; also the ids of their slots
          Editors,    \* calls that change or delete the key
          None,       \* no cached copy
          Never,      \* a time that does not come, or a limit that is not set
          Changes,    \* what a change may set: records with a column and a value
          Created,    \* the row as the key was created
          GroupLimit, \* concurrency limit of the owner's group, 0 for none
          MetaTTL,    \* apiKeyRuntimeMetaTTL: life of a cached copy
          LeaseTTL,   \* apiKeyConcurrencyLeaseTTL: life of a slot
          Lag,        \* the longest a database or Redis call takes
          MaxTime,    \* bound on the clock
          MaxCrashes  \* bound on crashes of a server

ASSUME BoundsAssumption ==
  /\ {MetaTTL, LeaseTTL} \subseteq Nat \ {0}
  /\ {GroupLimit, Lag, MaxTime, MaxCrashes} \subseteq Nat
  /\ None \notin Requests /\ Never \notin Int

\* What a column of the row may hold: Create and Update of app/ports.go refuse
\* a limit or a quota that is not above zero, and an unset limit is the default.
Column == [enabled |-> BOOLEAN, limit |-> Nat \ {0},
           expireAt |-> Int \cup {Never}, quota |-> (Nat \ {0}) \cup {Never}]

ASSUME KeyAssumption ==
  /\ Created \in [deleted : BOOLEAN, used : Nat, enabled : Column.enabled,
                  limit : Column.limit, expireAt : Column.expireAt,
                  quota : Column.quota]
  /\ ~Created.deleted /\ Created.enabled /\ Created.used = 0
  /\ \A change \in Changes :
       /\ change.column \in DOMAIN Column
       /\ change.value \in Column[change.column]

VARIABLES
  row,       \* api_keys: the key
  cache,     \* byPlain and byID of each server: a copy or None
  copies,    \* the copies: apiKeyState
  request,   \* the requests
  edit,      \* the calls that change the key
  leases,    \* the sorted set of the key in Redis: slot -> time it ends
  orders,    \* what each request bought with the key
  clock, crashes,
  offSince,  \* history: since when the key is disabled or deleted, or Never
  expirySet  \* history: when its expiry was last changed, or Never

vars == <<row, cache, copies, request, edit, leases, orders, clock,
          crashes, offSince, expirySet>>

history == <<offSince, expirySet>>

Idle == [pc |-> "idle"]
Over == [pc |-> "over"]

----------------------------------------------------------------------------
(* The row and its copies *)

\* The columns that decide whether a request is let in.
Meta == [enabled |-> row.enabled, limit |-> row.limit, expireAt |-> row.expireAt]

NotExpired(at, now) == at # Never => at > now

Open(key, now) == ~key.deleted /\ key.enabled /\ NotExpired(key.expireAt, now)

\* FindAPIKeyByPlain finds only the keys of an active owner. The owner's account
\* is read with every request and is not cached: it may be anything each time.
Found(active) == ~row.deleted /\ active

OffFrom(key) ==
  IF ~key.deleted /\ key.enabled THEN Never
  ELSE IF offSince = Never THEN clock ELSE offSince

\* Faulty form: a copy lives one moment longer.
StaleLater(copy, now) == now - copy.loadedAt > MetaTTL

Stale(copy, now) == now - copy.loadedAt >= MetaTTL

\* Nobody holds the mutex of the copy: begin holds it from its first look at
\* the copy until Redis has answered.
Unlocked(c) ==
  \A r \in Requests : request[r].pc \in {"reload", "gate"} => request[r].copy # c

\* effectiveAPIKeyConcurrency
Limit(meta) ==
  IF GroupLimit > 0 /\ GroupLimit < meta.limit THEN GroupLimit ELSE meta.limit

Cached(s) == {c \in Requests : cache[s] = c}

NoCopy == [meta |-> None, loadedAt |-> 0]

----------------------------------------------------------------------------
(* A request: begin *)

\* stateForPlain: the copy that is already there stays.
Installed(s, r) == IF cache[s] # None THEN cache[s] ELSE r

\* stateForPlain finds a copy, and the request reads the clock; or it reads
\* the row, which may be gone.
Begin(r, s) ==
  /\ request[r].pc = "idle"
  /\ \E active \in BOOLEAN : request' = [request EXCEPT ![r] =
       CASE cache[s] # None ->
              [pc |-> "found", server |-> s, copy |-> cache[s], now |-> clock]
         [] cache[s] = None /\ Found(active) ->
              [pc |-> "fill", server |-> s, meta |-> Meta, readAt |-> clock]
         [] OTHER -> Over]
  /\ UNCHANGED <<row, cache, copies, edit, leases, orders, clock,
                 crashes, history>>

Fill(r) ==
  LET s == request[r].server
      c == Installed(s, r) IN
  /\ request[r].pc = "fill"
  /\ cache' = [cache EXCEPT ![s] = c]
  /\ copies' = IF c # r THEN copies
               ELSE [copies EXCEPT ![r] =
                       [meta |-> request[r].meta, loadedAt |-> clock]]
  /\ request' = [request EXCEPT ![r] =
       [pc |-> "found", server |-> s, copy |-> c, now |-> clock]]
  /\ UNCHANGED <<row, edit, leases, orders, clock, crashes, history>>

\* The rest of begin up to Redis: the copy says yes, the owner is still active
\* (read from the database every time), and Acquire reads the clock.
Checked(r, meta, active) ==
  IF meta.enabled /\ active /\ NotExpired(meta.expireAt, request[r].now)
  THEN [pc |-> "gate", server |-> request[r].server, copy |-> request[r].copy,
        now |-> request[r].now, limit |-> Limit(meta), began |-> clock]
  ELSE Over

\* begin locks the copy; one that is too old is read again.
Check(r) ==
  LET copy == copies[request[r].copy] IN
  /\ request[r].pc = "found"
  /\ Unlocked(request[r].copy)
  /\ \E active \in BOOLEAN : request' = [request EXCEPT ![r] =
       CASE ~Stale(copy, @.now) -> Checked(r, copy.meta, active)
         [] Stale(copy, @.now) /\ Found(active) ->
              [pc |-> "reload", server |-> @.server, copy |-> @.copy,
               now |-> @.now, meta |-> Meta, readAt |-> clock]
         [] OTHER -> Over]
  /\ UNCHANGED <<row, cache, copies, edit, leases, orders, clock,
                 crashes, history>>

Reload(r) ==
  /\ request[r].pc = "reload"
  /\ copies' = [copies EXCEPT ![request[r].copy].meta = request[r].meta,
                              ![request[r].copy].loadedAt = clock]
  /\ \E active \in BOOLEAN :
       request' = [request EXCEPT ![r] = Checked(r, @.meta, active)]
  /\ UNCHANGED <<row, cache, edit, leases, orders, clock, crashes,
                 history>>

----------------------------------------------------------------------------
(* Slots *)

\* ZREMRANGEBYSCORE with the clock that Acquire read.
Purged(now) == Restrict(leases, {q \in DOMAIN leases : leases[q] > now})

\* ZADD
Taken(r) ==
  LET rest == Purged(request[r].began) IN
  [q \in DOMAIN rest \cup {r} |->
     IF q = r THEN request[r].began + LeaseTTL ELSE rest[q]]

\* Faulty form: a release gives back the slot that ends first, as a counter
\* of running requests would.
ReleasedOldest(r) ==
  Restrict(leases, {q \in DOMAIN leases :
                      \E p \in DOMAIN leases \ {q} : leases[p] <= leases[q]})

\* ZREM of the request's own slot.
Released(r) == Restrict(leases, DOMAIN leases \ {r})

HasSlot(r) == Cardinality(DOMAIN Purged(request[r].began)) < request[r].limit

\* The script of Acquire takes a slot, and the request runs.
Admit(r) ==
  /\ request[r].pc = "gate"
  /\ HasSlot(r)
  /\ leases' = Taken(r)
  /\ request' = [request EXCEPT ![r] =
       [pc |-> "running", server |-> @.server, limit |-> @.limit,
        began |-> @.began]]
  /\ UNCHANGED <<row, cache, copies, edit, orders, clock, crashes, history>>

\* No slot is free: ErrAPIKeyConcurrencyLimit.
Refuse(r) ==
  /\ request[r].pc = "gate"
  /\ ~HasSlot(r)
  /\ leases' = Purged(request[r].began)
  /\ request' = [request EXCEPT ![r] = Over]
  /\ UNCHANGED <<row, cache, copies, edit, orders, clock, crashes,
                 history>>

\* The answer of Redis does not come, and a slot that the script took is not
\* given back; or the second script fails, and the slot is given back. (What
\* is purged has ended: it counts for nobody.)
AcquireFails(r) ==
  /\ request[r].pc = "gate"
  /\ \/ leases' = Purged(request[r].began)
     \/ HasSlot(r) /\ leases' = Taken(r)
  /\ request' = [request EXCEPT ![r] = Over]
  /\ UNCHANGED <<row, cache, copies, edit, orders, clock, crashes,
                 history>>

\* LoadAPIKey's deferred FinishAPIKeyRequest, which may fail.
Finish(r) ==
  /\ request[r].pc = "running"
  /\ request' = [request EXCEPT ![r] = Over]
  /\ leases' \in {leases, Released(r)}
  /\ UNCHANGED <<row, cache, copies, edit, orders, clock, crashes,
                 history>>

----------------------------------------------------------------------------
(* Points: the wallet's transaction carries the key *)

\* Faulty form: the points already spent are compared, without the order's.
WithinQuotaBefore(key) == key.quota # Never => key.used <= key.quota

WithinQuota(key) == key.quota # Never => key.used + 1 <= key.quota

\* Faulty form: the copy that let the request in is asked.
SpendableByCopy(r) ==
  LET c == cache[request[r].server] IN
  c # None /\ copies[c].meta.enabled /\ NotExpired(copies[c].meta.expireAt, clock)

\* The row is asked, not a copy of it.
Spendable(r) == Open(row, clock)

\* applyWalletTransaction, outgoing: an order of one point.
Charge(r) ==
  /\ request[r].pc = "running" /\ orders[r] = "none"
  /\ Spendable(r) /\ WithinQuota(row)
  /\ row' = [row EXCEPT !.used = @ + 1]
  /\ orders' = [orders EXCEPT ![r] = "charged"]
  /\ UNCHANGED <<cache, copies, request, edit, leases, clock, crashes,
                 history>>

\* applyWalletTransaction, incoming: whatever has become of the key.
Refund(r) ==
  /\ orders[r] = "charged"
  /\ row' = [row EXCEPT !.used = IF @ > 0 THEN @ - 1 ELSE 0]
  /\ orders' = [orders EXCEPT ![r] = "refunded"]
  /\ UNCHANGED <<cache, copies, request, edit, leases, clock, crashes,
                 history>>

----------------------------------------------------------------------------
(* Changing the key *)

\* Repo.UpdateAPIKey: a quota below what is spent is refused.
Allowed(change) ==
  change.column = "quota" /\ change.value # Never =>
    row.quota = change.value \/ row.used <= change.value

\* UpdateAPIKey writes the row and reads it back.
Update(e, s, change) ==
  LET new == [row EXCEPT ![change.column] = change.value] IN
  /\ edit[e].pc = "idle"
  /\ ~row.deleted /\ Allowed(change)
  /\ row' = new
  /\ offSince' = OffFrom(new)
  /\ expirySet' = IF change.column = "expireAt" THEN clock ELSE expirySet
  /\ edit' = [edit EXCEPT ![e] =
       [pc |-> "updated", server |-> s, readAt |-> clock,
        meta |-> [enabled |-> new.enabled, limit |-> new.limit,
                  expireAt |-> new.expireAt]]]
  /\ UNCHANGED <<cache, copies, request, leases, orders, clock, crashes>>

\* updateKey: the copy of this server, when it has one, is the row read back.
UpdateCopy(e) ==
  LET c == cache[edit[e].server] IN
  /\ edit[e].pc = "updated"
  /\ Unlocked(c)
  /\ copies' = IF c = None THEN copies
               ELSE [copies EXCEPT ![c].meta = edit[e].meta, ![c].loadedAt = clock]
  /\ edit' = [edit EXCEPT ![e] = Over]
  /\ UNCHANGED <<row, cache, request, leases, orders, clock, crashes,
                 history>>

\* DeleteAPIKey writes the row.
Delete(e, s) ==
  LET new == [row EXCEPT !.deleted = TRUE, !.enabled = FALSE] IN
  /\ edit[e].pc = "idle"
  /\ ~row.deleted
  /\ row' = new
  /\ offSince' = OffFrom(new)
  /\ edit' = [edit EXCEPT ![e] = [pc |-> "deleted", server |-> s]]
  /\ UNCHANGED <<cache, copies, request, leases, orders, clock, crashes,
                 expirySet>>

\* invalidateKey: this server forgets its copy.
Invalidate(e) ==
  /\ edit[e].pc = "deleted"
  /\ cache' = [cache EXCEPT ![edit[e].server] = None]
  /\ edit' = [edit EXCEPT ![e] = Over]
  /\ UNCHANGED <<row, copies, request, leases, orders, clock, crashes,
                 history>>

----------------------------------------------------------------------------
(* The surroundings *)

\* A server stops: its cache, its requests and its calls are gone.
Crash(s) ==
  /\ crashes < MaxCrashes /\ crashes' = crashes + 1
  /\ cache' = [cache EXCEPT ![s] = None]
  /\ request' = [r \in Requests |->
       IF request[r].pc \notin {"idle", "over"} /\ request[r].server = s
       THEN Over ELSE request[r]]
  /\ edit' = [e \in Editors |->
       IF edit[e].pc \notin {"idle", "over"} /\ edit[e].server = s
       THEN Over ELSE edit[e]]
  /\ copies' = [c \in Requests |-> IF c \in Cached(s) THEN NoCopy ELSE copies[c]]
  /\ UNCHANGED <<row, leases, orders, clock, history>>

\* No database or Redis call takes longer than Lag.
Answered ==
  /\ \A r \in Requests :
       /\ request[r].pc \in {"fill", "reload"} => clock < request[r].readAt + Lag
       /\ request[r].pc = "gate" => clock < request[r].began + Lag
  /\ \A e \in Editors : edit[e].pc = "updated" => clock < edit[e].readAt + Lag

Tick ==
  /\ clock < MaxTime
  /\ Answered
  /\ clock' = clock + 1
  /\ UNCHANGED <<row, cache, copies, request, edit, leases, orders,
                 crashes, history>>

----------------------------------------------------------------------------
Init ==
  /\ row = Created
  /\ cache = [s \in Servers |-> None]
  /\ copies = [r \in Requests |-> NoCopy]
  /\ request = [r \in Requests |-> Idle]
  /\ edit = [e \in Editors |-> Idle]
  /\ leases = <<>>
  /\ orders = [r \in Requests |-> "none"]
  /\ clock = 0 /\ crashes = 0
  /\ offSince = Never /\ expirySet = Never

Next ==
  \/ \E r \in Requests :
       \/ \E s \in Servers : Begin(r, s)
       \/ Fill(r) \/ Check(r) \/ Reload(r)
       \/ Admit(r) \/ Refuse(r) \/ AcquireFails(r) \/ Finish(r)
       \/ Charge(r) \/ Refund(r)
  \/ \E s \in Servers : Crash(s)
  \/ \E e \in Editors :
       \/ \E s \in Servers, change \in Changes : Update(e, s, change)
       \/ \E s \in Servers : Delete(e, s)
       \/ UpdateCopy(e) \/ Invalidate(e)
  \/ Tick

Spec == Init /\ [][Next]_vars

----------------------------------------------------------------------------
(* Properties *)

\* The key, the copies and the requests are what they may be.
TypeOK ==
  /\ row.used \in Nat /\ row.deleted \in BOOLEAN
  /\ cache \in [Servers -> Requests \cup {None}]
  /\ \A r \in Requests :
       request[r].pc \in {"idle", "fill", "found", "reload", "gate", "running", "over"}
  /\ DOMAIN leases \subseteq Requests

\* A key that was disabled or deleted, and one whose new expiry has passed,
\* lets nobody in for longer than one life of a cached copy, and the time that
\* the copy took to load: whichever server changed it, and however loads,
\* reloads and the ends of two changes follow each other (the cache of
\* keycache.go).
ClosedWithinTTL ==
  [][\A r \in Requests :
       request[r].pc = "gate" /\ request'[r].pc = "running" =>
         LET since(change) == request[r].now < change + MetaTTL + Lag IN
         /\ offSince = Never \/ since(offSince)
         /\ \/ NotExpired(row.expireAt, request[r].now)
            \/ expirySet # Never /\ since(expirySet)]_vars

\* The running requests whose slot has not ended.
Holding == {r \in Requests :
              request[r].pc = "running" /\ clock < request[r].began + LeaseTTL}

\* Requests in time hold their slots, and there are no more of them than the
\* limit that one of them was let in under: the late release of a request that
\* outlived its slot, on any server, takes nobody else's slot
\* (concurrency_gate.go).
SlotsKept ==
  /\ Holding \subseteq DOMAIN leases
  /\ Holding # {} => \E r \in Holding : Cardinality(Holding) <= request[r].limit

\* No points are spent with a key that is disabled, deleted or has expired,
\* although copies of it still let requests in (billing/infra/repo.go against
\* keycache.go).
SpendsWhileOpen ==
  [][\A r \in Requests :
       orders[r] = "none" /\ orders'[r] = "charged" =>
         offSince = Never /\ NotExpired(row.expireAt, clock)]_vars

\* The points spent with the key are those of its orders that were not given
\* back, and they are within its quota however charges, refunds and changes of
\* the quota follow each other, also after the key is gone (the guarded
\* updates of applyWalletTransaction and UpdateAPIKey).
QuotaTrue ==
  /\ row.used = Cardinality({r \in Requests : orders[r] = "charged"})
  /\ row.quota = Never \/ row.used <= row.quota
============================================================================
