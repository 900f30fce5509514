---------------------------- MODULE ApiKeysProofs ----------------------------
(***************************************************************************)
(* Theorems about ApiKeys, for every set of servers, requests and editors, *)
(* also infinite ones, every change the owner may make, every limit and    *)
(* every length of life: slots and charges are finite because they are     *)
(* made one at a time.                                                     *)
(***************************************************************************)
EXTENDS ApiKeys, FiniteSetTheorems, TLAPS

USE BoundsAssumption

Rows == [deleted : BOOLEAN, used : Nat, enabled : BOOLEAN,
         limit : Nat \ {0}, expireAt : Int \cup {Never},
         quota : (Nat \ {0}) \cup {Never}]

Metas == [enabled : BOOLEAN, limit : Nat \ {0}, expireAt : Int \cup {Never}]

RequestStates ==
       [pc : {"idle", "over"}]
  \cup [pc : {"fill"}, server : Servers, meta : Metas, readAt : Nat]
  \cup [pc : {"found"}, server : Servers, copy : Requests, now : Nat]
  \cup [pc : {"reload"}, server : Servers, copy : Requests, now : Nat,
        meta : Metas, readAt : Nat]
  \cup [pc : {"gate"}, server : Servers, copy : Requests, now : Nat,
        limit : Nat, began : Nat]
  \cup [pc : {"running"}, server : Servers, limit : Nat, began : Nat]

EditStates ==
       [pc : {"idle", "over"}]
  \cup [pc : {"updated"}, server : Servers, readAt : Nat, meta : Metas]
  \cup [pc : {"deleted"}, server : Servers]

\* A copy that a server or a request still points at was loaded.
Points(r) == request[r].pc \in {"found", "reload", "gate"}
InUse(c) == \/ \E s \in Servers : cache[s] = c
            \/ \E r \in Requests : Points(r) /\ request[r].copy = c

Times == Nat \cup {Never}

RowTypes ==
  /\ row \in Rows
  /\ clock \in Nat /\ offSince \in Times /\ expirySet \in Times

CacheTypes ==
  /\ cache \in [Servers -> Requests \cup {None}]
  /\ copies \in [Requests -> [meta : Metas \cup {None}, loadedAt : Nat]]
  /\ edit \in [Editors -> EditStates]

RequestTypes == request \in [Requests -> RequestStates]

SlotTypes ==
  /\ leases \in [DOMAIN leases -> Nat]
  /\ DOMAIN leases \subseteq Requests
  /\ IsFiniteSet(DOMAIN leases)

OrderTypes == orders \in [Requests -> {"none", "charged", "refunded"}]

\* What is only used where it is loaded.
CopiesLoaded == \A c \in Requests : InUse(c) => copies[c].meta \in Metas

\* A copy is named by a request that has loaded, and it is of one server.
CopiesNamed ==
  /\ \A c \in Requests : InUse(c) => request[c].pc \notin {"idle", "fill"}
  /\ \A s, t \in Servers : cache[s] = cache[t] /\ cache[s] # None => s = t
  /\ \A r \in Requests, s \in Servers :
       Points(r) /\ cache[s] = request[r].copy => request[r].server = s

Types == RowTypes /\ CacheTypes /\ RequestTypes /\ SlotTypes /\ OrderTypes

LEMMA RequestFields ==
  ASSUME RequestTypes, NEW r \in Requests
  PROVE  LET q == request[r] IN
         /\ q.pc \in {"idle", "fill", "found", "reload", "gate", "running", "over"}
         /\ q.pc \notin {"idle", "over"} => q.server \in Servers
         /\ q.pc \in {"fill", "reload"} => q.meta \in Metas /\ q.readAt \in Nat
         /\ Points(r) => q.copy \in Requests /\ q.now \in Nat
         /\ q.pc \in {"gate", "running"} => q.limit \in Nat /\ q.began \in Nat
  BY DEF RequestTypes, RequestStates, Points

LEMMA EditFields ==
  ASSUME CacheTypes, NEW e \in Editors
  PROVE  LET k == edit[e] IN
         /\ k.pc \in {"idle", "updated", "deleted", "over"}
         /\ k.pc \in {"updated", "deleted"} => k.server \in Servers
         /\ k.pc = "updated" => k.meta \in Metas /\ k.readAt \in Nat
  BY DEF CacheTypes, EditStates

LEMMA MetaType == RowTypes => Meta \in Metas
  BY DEF RowTypes, Rows, Meta, Metas

LEMMA LimitType == ASSUME NEW meta \in Metas PROVE Limit(meta) \in Nat
  BY DEF Limit, Metas

LEMMA CreatedType ==
  /\ Created \in Rows
  /\ Created.used = 0 /\ ~Created.deleted /\ Created.enabled
<1>1. /\ Column.enabled = BOOLEAN /\ Column.limit = Nat \ {0}
      /\ Column.expireAt = Int \cup {Never}
      /\ Column.quota = (Nat \ {0}) \cup {Never}
  BY DEF Column
<1>2. [deleted : BOOLEAN, used : Nat, enabled : Column.enabled,
       limit : Column.limit, expireAt : Column.expireAt,
       quota : Column.quota] = Rows
  BY <1>1, Zenon DEF Rows
<1>3. QED
  BY <1>2, KeyAssumption, Zenon

\* A change writes one column with a value that the column may hold.
LEMMA ChangeType ==
  ASSUME NEW change \in Changes
  PROVE  \/ change.column = "enabled" /\ change.value \in BOOLEAN
         \/ change.column = "limit" /\ change.value \in Nat \ {0}
         \/ change.column = "expireAt" /\ change.value \in Int \cup {Never}
         \/ change.column = "quota" /\ change.value \in (Nat \ {0}) \cup {Never}
<1>1. change.column \in {"enabled", "limit", "expireAt", "quota"}
  BY KeyAssumption DEF Column
<1>2. QED
  BY <1>1, KeyAssumption DEF Column

LEMMA InitTypes == Init => Types /\ CopiesLoaded /\ CopiesNamed
<1> SUFFICES ASSUME Init
             PROVE  Types /\ CopiesLoaded /\ CopiesNamed
  OBVIOUS
<1>1. RowTypes
  BY CreatedType DEF Init, RowTypes, Times
<1>2. CacheTypes /\ RequestTypes /\ OrderTypes
  BY DEF Init, CacheTypes, RequestTypes, OrderTypes, NoCopy, Idle, RequestStates, EditStates
<1>3. SlotTypes
  <2>1. DOMAIN leases = {}
    BY DEF Init
  <2>2. QED
    BY <2>1, FS_EmptySet DEF SlotTypes, Init
<1>4. \A c \in Requests : ~InUse(c)
  BY DEF Init, InUse, Points, Idle
<1>5. QED
  BY <1>1, <1>2, <1>3, <1>4 DEF Init, Types, CopiesLoaded, CopiesNamed, Points, Idle

----------------------------------------------------------------------------
(* The row *)

\* The columns that a change leaves are as they were.
LEMMA UpdateWrites ==
  ASSUME RowTypes, NEW change \in Changes,
         row' = [row EXCEPT ![change.column] = change.value]
  PROVE  /\ row' \in Rows
         /\ row'.deleted = row.deleted /\ row'.used = row.used
         /\ change.column # "expireAt" => row'.expireAt = row.expireAt
         /\ change.column # "quota" => row'.quota = row.quota
         /\ change.column = "quota" => row'.quota = change.value
<1>1. CASE change.column = "enabled" /\ change.value \in BOOLEAN
  BY <1>1 DEF RowTypes, Rows
<1>2. CASE change.column = "limit" /\ change.value \in Nat \ {0}
  BY <1>2 DEF RowTypes, Rows
<1>3. CASE change.column = "expireAt" /\ change.value \in Int \cup {Never}
  BY <1>3 DEF RowTypes, Rows
<1>4. CASE change.column = "quota" /\ change.value \in (Nat \ {0}) \cup {Never}
  BY <1>4 DEF RowTypes, Rows
<1>5. QED
  BY <1>1, <1>2, <1>3, <1>4, ChangeType

\* What no step takes back: the clock, and what the history has seen.
Onward ==
  /\ clock \in Nat /\ clock' \in {clock, clock + 1}
  /\ offSince' \in {offSince, clock, Never}
  /\ \/ expirySet' = expirySet /\ row'.expireAt = row.expireAt
     \/ expirySet' = clock

RowInv ==
  /\ offSince = Never <=> ~row.deleted /\ row.enabled
  /\ offSince # Never => offSince <= clock
  /\ expirySet # Never => expirySet <= clock

RowKept == row' = row /\ UNCHANGED history

LEMMA KeptRow ==
  ASSUME RowTypes, RowInv, RowKept, clock' \in {clock, clock + 1}
  PROVE  RowTypes' /\ RowInv' /\ Onward
  BY DEF RowTypes, RowInv, RowKept, Onward, history, Times

LEMMA ChangedRow ==
  ASSUME RowTypes, RowInv, clock' = clock, row' \in Rows, offSince' = OffFrom(row'),
         \/ expirySet' = expirySet /\ row'.expireAt = row.expireAt
         \/ expirySet' = clock
  PROVE  RowTypes' /\ RowInv' /\ Onward
  BY DEF RowTypes, RowInv, OffFrom, Onward, Times, Rows

LEMMA SpentRow ==
  ASSUME RowTypes, RowInv, clock' = clock, UNCHANGED history,
         NEW n \in Nat, row' = [row EXCEPT !.used = n]
  PROVE  RowTypes' /\ RowInv' /\ Onward
  BY DEF RowTypes, RowInv, Onward, Times, Rows, history

LEMMA StepRow ==
  ASSUME RowTypes, RowInv, [Next]_vars
  PROVE  RowTypes' /\ RowInv' /\ Onward
<1>1. ASSUME NEW r \in Requests, NEW s \in Servers, Begin(r, s)
      PROVE  RowKept /\ clock' = clock
  BY <1>1 DEF Begin, RowKept
<1>2. ASSUME NEW r \in Requests, Fill(r) \/ Check(r) \/ Reload(r)
      PROVE  RowKept /\ clock' = clock
  BY <1>2 DEF Fill, Check, Reload, RowKept
<1>3. ASSUME NEW r \in Requests, Admit(r) \/ Refuse(r) \/ AcquireFails(r) \/ Finish(r)
      PROVE  RowKept /\ clock' = clock
  BY <1>3 DEF Admit, Refuse, AcquireFails, Finish, RowKept
<1>4. ASSUME NEW r \in Requests, Charge(r) \/ Refund(r)
      PROVE  /\ clock' = clock /\ UNCHANGED history
             /\ \E n \in Nat : row' = [row EXCEPT !.used = n]
  <2>1. row.used + 1 \in Nat /\ (IF row.used > 0 THEN row.used - 1 ELSE 0) \in Nat
    BY DEF RowTypes, Rows
  <2>2. QED
    BY <1>4, <2>1 DEF Charge, Refund
<1>5. ASSUME NEW s \in Servers, Crash(s)
      PROVE  RowKept /\ clock' = clock
  BY <1>5 DEF Crash, RowKept
<1>6. ASSUME NEW e \in Editors, NEW s \in Servers, NEW change \in Changes,
             Update(e, s, change)
      PROVE  RowTypes' /\ RowInv' /\ Onward
  <2>1. /\ row' = [row EXCEPT ![change.column] = change.value]
        /\ offSince' = OffFrom(row') /\ clock' = clock
        /\ expirySet' = IF change.column = "expireAt" THEN clock ELSE expirySet
    BY <1>6 DEF Update
  <2>2. QED
    BY <2>1, UpdateWrites, ChangedRow
<1>7. ASSUME NEW e \in Editors, NEW s \in Servers, Delete(e, s)
      PROVE  RowTypes' /\ RowInv' /\ Onward
  <2>1. /\ row' = [row EXCEPT !.deleted = TRUE, !.enabled = FALSE]
        /\ offSince' = OffFrom(row') /\ clock' = clock /\ expirySet' = expirySet
    BY <1>7 DEF Delete
  <2>2. row' \in Rows /\ row'.expireAt = row.expireAt
    BY <2>1 DEF RowTypes, Rows
  <2>3. QED
    BY <2>1, <2>2, ChangedRow
<1>8. ASSUME NEW e \in Editors, UpdateCopy(e) \/ Invalidate(e)
      PROVE  RowKept /\ clock' = clock
  BY <1>8 DEF UpdateCopy, Invalidate, RowKept
<1>9. CASE Tick
  BY <1>9, KeptRow DEF Tick, RowKept
<1>10. CASE UNCHANGED vars
  BY <1>10, KeptRow DEF vars, RowKept, history
<1>11. QED
  BY <1>1, <1>2, <1>3, <1>4, <1>5, <1>6, <1>7, <1>8, <1>9, <1>10, KeptRow, SpentRow DEF Next

----------------------------------------------------------------------------
(* Requests and copies *)

LEMMA CheckedType ==
  ASSUME RequestTypes, RowTypes, NEW r \in Requests, Points(r),
         NEW meta \in Metas, NEW active \in BOOLEAN
  PROVE  Checked(r, meta, active) \in RequestStates
<1>1. /\ request[r].server \in Servers /\ request[r].copy \in Requests
      /\ request[r].now \in Nat
  BY RequestFields DEF Points
<1>2. Limit(meta) \in Nat /\ clock \in Nat
  BY LimitType DEF RowTypes
<1>3. QED
  BY <1>1, <1>2 DEF Checked, RequestStates, Over

\* A request takes one step at most.
Moves(r) == \E q \in RequestStates : request' = [request EXCEPT ![r] = q]

LEMMA BeginMoves ==
  ASSUME Types, NEW r \in Requests, NEW s \in Servers, Begin(r, s)
  PROVE  Moves(r)
<1>1. Meta \in Metas /\ clock \in Nat /\ cache[s] \in Requests \cup {None}
  BY MetaType DEF Types, RowTypes, CacheTypes
<1>2. /\ [pc |-> "fill", server |-> s, meta |-> Meta, readAt |-> clock] \in RequestStates
      /\ Over \in RequestStates
  BY <1>1 DEF RequestStates, Over
<1>3. cache[s] # None =>
        [pc |-> "found", server |-> s, copy |-> cache[s], now |-> clock] \in RequestStates
  BY <1>1 DEF RequestStates
<1>4. QED
  BY <1>2, <1>3 DEF Begin, Moves

LEMMA FillMoves ==
  ASSUME Types, NEW r \in Requests, Fill(r)
  PROVE  Moves(r) /\ Installed(request[r].server, r) \in Requests
<1> DEFINE s == request[r].server
<1>1. s \in Servers /\ clock \in Nat
  BY RequestFields DEF Types, RowTypes, Fill
<1>2. Installed(s, r) \in Requests
  BY <1>1 DEF Installed, Types, CacheTypes
<1>3. [pc |-> "found", server |-> s, copy |-> Installed(s, r), now |-> clock] \in RequestStates
  BY <1>1, <1>2 DEF RequestStates
<1>4. QED
  BY <1>2, <1>3 DEF Fill, Moves

LEMMA CheckMoves ==
  ASSUME Types, CopiesLoaded, NEW r \in Requests, Check(r)
  PROVE  Moves(r)
<1> DEFINE q == request[r]
<1>1. Points(r) /\ q.server \in Servers /\ q.copy \in Requests /\ q.now \in Nat
  BY RequestFields DEF Types, Check, Points
<1>2. copies[q.copy].meta \in Metas /\ Meta \in Metas /\ clock \in Nat
  BY <1>1, MetaType DEF CopiesLoaded, InUse, Types, RowTypes
<1>3. /\ [pc |-> "reload", server |-> q.server, copy |-> q.copy, now |-> q.now,
          meta |-> Meta, readAt |-> clock] \in RequestStates
      /\ Over \in RequestStates
  BY <1>1, <1>2 DEF RequestStates, Over
<1>4. \A active \in BOOLEAN : Checked(r, copies[q.copy].meta, active) \in RequestStates
  BY <1>1, <1>2, CheckedType DEF Types
<1>5. QED
  BY <1>3, <1>4 DEF Check, Moves

LEMMA ReloadMoves ==
  ASSUME Types, NEW r \in Requests, Reload(r)
  PROVE  Moves(r) /\ request[r].copy \in Requests /\ request[r].meta \in Metas
<1>1. Points(r) /\ request[r].copy \in Requests /\ request[r].meta \in Metas
  BY RequestFields DEF Types, Reload, Points
<1>2. \A active \in BOOLEAN : Checked(r, request[r].meta, active) \in RequestStates
  BY <1>1, CheckedType DEF Types
<1>3. QED
  BY <1>1, <1>2 DEF Reload, Moves

LEMMA SlotMoves ==
  ASSUME Types, NEW r \in Requests,
         Admit(r) \/ Refuse(r) \/ AcquireFails(r) \/ Finish(r)
  PROVE  Moves(r)
<1>1. Over \in RequestStates
  BY DEF RequestStates, Over
<1>2. CASE Admit(r)
  <2>1. [pc |-> "running", server |-> request[r].server, limit |-> request[r].limit,
         began |-> request[r].began] \in RequestStates
    BY <1>2, RequestFields DEF Admit, Types, RequestStates
  <2>2. QED
    BY <1>2, <2>1 DEF Admit, Moves
<1>3. QED
  BY <1>1, <1>2 DEF Refuse, AcquireFails, Finish, Moves

\* Whether a request takes a step, is stopped, or stays as it is.
Stopped == request' \in [Requests -> RequestStates] /\
           \A r \in Requests : request'[r] \in {request[r], Over}

LEMMA StepMoves ==
  ASSUME Types, CopiesLoaded, [Next]_vars
  PROVE  Stopped \/ \E r \in Requests : Moves(r)
<1>1. request' = request => Stopped
  BY DEF Stopped, Types, RequestTypes
<1>2. ASSUME NEW s \in Servers, Crash(s) PROVE Stopped
  BY <1>2 DEF Crash, Stopped, Types, RequestTypes, Over, RequestStates
<1>3. ASSUME NEW r \in Requests, Charge(r) \/ Refund(r) PROVE request' = request
  BY <1>3 DEF Charge, Refund
<1>4. ASSUME NEW e \in Editors, NEW s \in Servers, NEW change \in Changes,
             Update(e, s, change) \/ Delete(e, s)
      PROVE  request' = request
  BY <1>4 DEF Update, Delete
<1>5. ASSUME NEW e \in Editors, NEW s \in Servers, Delete(e, s) PROVE request' = request
  BY <1>5 DEF Delete
<1>6. ASSUME NEW e \in Editors, UpdateCopy(e) \/ Invalidate(e) PROVE request' = request
  BY <1>6 DEF UpdateCopy, Invalidate
<1>7. Tick \/ UNCHANGED vars => request' = request
  BY DEF Tick, vars
<1>8. QED
  BY <1>1, <1>2, <1>3, <1>4, <1>5, <1>6, <1>7, BeginMoves, FillMoves, CheckMoves,
     ReloadMoves, SlotMoves DEF Next

LEMMA StepRequestTypes ==
  ASSUME Types, CopiesLoaded, [Next]_vars
  PROVE  RequestTypes'
<1>1. ASSUME NEW r \in Requests, Moves(r) PROVE RequestTypes'
  BY <1>1 DEF Moves, Types, RequestTypes
<1>2. QED
  BY <1>1, StepMoves DEF Stopped, RequestTypes

LEMMA StepCacheTypes ==
  ASSUME Types, CopiesLoaded, [Next]_vars
  PROVE  CacheTypes'
<1> DEFINE Copy == [meta : Metas \cup {None}, loadedAt : Nat]
           Kept == UNCHANGED <<cache, copies, edit>>
<1>1. clock \in Nat /\ Meta \in Metas /\ CacheTypes
  BY MetaType DEF Types, RowTypes
<1>2. Kept => CacheTypes'
  BY <1>1 DEF CacheTypes
<1>3. ASSUME NEW r \in Requests, NEW s \in Servers, Begin(r, s) PROVE Kept
  BY <1>3 DEF Begin
<1>4. ASSUME NEW r \in Requests, Fill(r) PROVE CacheTypes'
  <2>1. request[r].meta \in Metas /\ Installed(request[r].server, r) \in Requests
    BY <1>4, RequestFields, FillMoves DEF Fill, Types
  <2>2. [meta |-> request[r].meta, loadedAt |-> clock] \in Copy
    BY <1>1, <2>1
  <2>3. QED
    BY <1>1, <1>4, <2>1, <2>2 DEF Fill, CacheTypes
<1>5. ASSUME NEW r \in Requests, Reload(r) PROVE CacheTypes'
  <2>1. request[r].copy \in Requests /\ request[r].meta \in Metas
    BY <1>5, ReloadMoves
  <2>2. QED
    BY <1>1, <1>5, <2>1 DEF Reload, CacheTypes
<1>6. ASSUME NEW r \in Requests,
             Check(r) \/ Admit(r) \/ Refuse(r) \/ AcquireFails(r) \/ Finish(r)
               \/ Charge(r) \/ Refund(r)
      PROVE  Kept
  BY <1>6 DEF Check, Admit, Refuse, AcquireFails, Finish, Charge, Refund
<1>7. ASSUME NEW s \in Servers, Crash(s) PROVE CacheTypes'
  <2>1. NoCopy \in Copy /\ Over \in EditStates
    BY DEF NoCopy, Over, EditStates
  <2>2. QED
    BY <1>1, <1>7, <2>1 DEF Crash, CacheTypes
<1>8. ASSUME NEW e \in Editors, NEW s \in Servers, NEW change \in Changes,
             Update(e, s, change)
      PROVE  CacheTypes'
  <2> DEFINE new == [row EXCEPT ![change.column] = change.value]
             meta == [enabled |-> new.enabled, limit |-> new.limit,
                      expireAt |-> new.expireAt]
  <2>1. row' = new /\ row' \in Rows
    BY <1>8, UpdateWrites DEF Update, Types
  <2>2. meta \in Metas
    BY <2>1 DEF Rows, Metas
  <2>3. [pc |-> "updated", server |-> s, readAt |-> clock, meta |-> meta] \in EditStates
    BY <1>1, <2>2 DEF EditStates
  <2>4. QED
    BY <1>1, <1>8, <2>3 DEF Update, CacheTypes
<1>9. ASSUME NEW e \in Editors, NEW s \in Servers, Delete(e, s) PROVE CacheTypes'
  BY <1>1, <1>9 DEF Delete, CacheTypes, EditStates
<1>10. ASSUME NEW e \in Editors, UpdateCopy(e) PROVE CacheTypes'
  <2>1. edit[e].meta \in Metas /\ edit[e].server \in Servers /\ Over \in EditStates
    BY <1>1, <1>10, EditFields DEF UpdateCopy, Over, EditStates
  <2>2. CASE cache[edit[e].server] = None
    BY <1>1, <1>10, <2>1, <2>2 DEF UpdateCopy, CacheTypes
  <2>3. CASE cache[edit[e].server] # None
    <3>1. cache[edit[e].server] \in Requests
      BY <1>1, <2>1, <2>3 DEF CacheTypes
    <3>2. QED
      BY <1>1, <1>10, <2>1, <2>3, <3>1 DEF UpdateCopy, CacheTypes
  <2>4. QED
    BY <2>2, <2>3
<1>11. ASSUME NEW e \in Editors, Invalidate(e) PROVE CacheTypes'
  BY <1>1, <1>11 DEF Invalidate, CacheTypes, Over, EditStates
<1>12. Tick \/ UNCHANGED vars => Kept
  BY DEF Tick, vars
<1>13. QED
  BY <1>2, <1>3, <1>4, <1>5, <1>6, <1>7, <1>8, <1>9, <1>10, <1>11, <1>12 DEF Next

\* A copy comes into use only where its request has loaded it.
LEMMA StepInUse ==
  ASSUME Types, CopiesLoaded, [Next]_vars, NEW c \in Requests, InUse(c)', ~InUse(c)
  PROVE  Fill(c) /\ cache[request[c].server] = None
<1> DEFINE Kept == UNCHANGED <<cache, request>>
<1>1. ~Kept
  BY DEF InUse, Points
<1>2. ASSUME NEW r \in Requests, NEW s \in Servers, Begin(r, s) PROVE FALSE
  BY <1>2 DEF Begin, InUse, Points, Over, Types, RequestTypes
<1>3. ASSUME NEW r \in Requests, Fill(r)
      PROVE  Fill(c) /\ cache[request[c].server] = None
  <2> DEFINE s == request[r].server
  <2>1. s \in Servers
    BY <1>3, RequestFields DEF Fill, Types
  <2>2. Installed(s, r) = c
    BY <1>3, <2>1 DEF Fill, InUse, Points, Types, RequestTypes, CacheTypes
  <2>3. QED
    BY <1>3, <2>1, <2>2 DEF Installed, InUse
<1>4. ASSUME NEW r \in Requests, Check(r) \/ Reload(r) PROVE FALSE
  BY <1>4 DEF Check, Reload, Checked, InUse, Points, Over, Types, RequestTypes
<1>5. ASSUME NEW r \in Requests,
             Admit(r) \/ Refuse(r) \/ AcquireFails(r) \/ Finish(r)
      PROVE  FALSE
  BY <1>5 DEF Admit, Refuse, AcquireFails, Finish, InUse, Points, Over, Types, RequestTypes
<1>6. ASSUME NEW r \in Requests, Charge(r) \/ Refund(r) PROVE Kept
  BY <1>6 DEF Charge, Refund
<1>7. ASSUME NEW s \in Servers, Crash(s) PROVE FALSE
  BY <1>7 DEF Crash, InUse, Points, Over, Types, CacheTypes
<1>8. ASSUME NEW e \in Editors, NEW s \in Servers, NEW change \in Changes,
             Update(e, s, change)
      PROVE  Kept
  BY <1>8 DEF Update
<1>9. ASSUME NEW e \in Editors, NEW s \in Servers, Delete(e, s) PROVE Kept
  BY <1>9 DEF Delete
<1>10. ASSUME NEW e \in Editors, UpdateCopy(e) PROVE Kept
  BY <1>10 DEF UpdateCopy
<1>11. ASSUME NEW e \in Editors, Invalidate(e) PROVE FALSE
  BY <1>11 DEF Invalidate, InUse, Points, Types, CacheTypes
<1>12. Tick \/ UNCHANGED vars => Kept
  BY DEF Tick, vars
<1>13. QED
  BY <1>1, <1>2, <1>3, <1>4, <1>5, <1>6, <1>7, <1>8, <1>9, <1>10, <1>11, <1>12 DEF Next

\* A request that has begun does not begin again, and one that has loaded does
\* not load again.
LEMMA StepLater ==
  ASSUME Types, CopiesLoaded, [Next]_vars, NEW r \in Requests
  PROVE  /\ request[r].pc # "idle" => request'[r].pc # "idle"
         /\ request[r].pc \notin {"idle", "fill"} => request'[r].pc \notin {"idle", "fill"}
<1> DEFINE Later == /\ request[r].pc # "idle" => request'[r].pc # "idle"
                    /\ request[r].pc \notin {"idle", "fill"} =>
                         request'[r].pc \notin {"idle", "fill"}
<1>1. request'[r] = request[r] => Later
  OBVIOUS
<1>2. ASSUME NEW q \in Requests, NEW s \in Servers, Begin(q, s) PROVE Later
  BY <1>2 DEF Begin, Over, Types, RequestTypes
<1>3. ASSUME NEW q \in Requests, Fill(q) PROVE Later
  BY <1>3 DEF Fill, Types, RequestTypes
<1>4. ASSUME NEW q \in Requests, Check(q) \/ Reload(q) PROVE Later
  BY <1>4 DEF Check, Reload, Checked, Over, Types, RequestTypes
<1>5. ASSUME NEW q \in Requests,
             Admit(q) \/ Refuse(q) \/ AcquireFails(q) \/ Finish(q)
      PROVE  Later
  BY <1>5 DEF Admit, Refuse, AcquireFails, Finish, Over, Types, RequestTypes
<1>6. ASSUME NEW q \in Requests, Charge(q) \/ Refund(q) PROVE Later
  BY <1>6 DEF Charge, Refund
<1>7. ASSUME NEW s \in Servers, Crash(s) PROVE Later
  BY <1>7 DEF Crash, Over
<1>8. ASSUME NEW e \in Editors, NEW s \in Servers, NEW change \in Changes,
             Update(e, s, change)
      PROVE  Later
  BY <1>8 DEF Update
<1>9. ASSUME NEW e \in Editors, NEW s \in Servers, Delete(e, s) PROVE Later
  BY <1>9 DEF Delete
<1>10. ASSUME NEW e \in Editors, UpdateCopy(e) \/ Invalidate(e) PROVE Later
  BY <1>10 DEF UpdateCopy, Invalidate
<1>11. Tick \/ UNCHANGED vars => Later
  BY DEF Tick, vars
<1>12. QED
  BY <1>2, <1>3, <1>4, <1>5, <1>6, <1>7, <1>8, <1>9, <1>10, <1>11 DEF Next

\* What a server caches and what a request points at after a step.
LEMMA StepCache ==
  ASSUME Types, CopiesLoaded, CopiesNamed, [Next]_vars, NEW s \in Servers
  PROVE  \/ cache'[s] \in {cache[s], None}
         \/ Fill(cache'[s]) /\ request[cache'[s]].server = s /\ cache[s] = None
<1>1. ASSUME NEW r \in Requests, NEW t \in Servers, Begin(r, t) PROVE cache'[s] = cache[s]
  BY <1>1 DEF Begin
<1>2. ASSUME NEW r \in Requests, Fill(r)
      PROVE  \/ cache'[s] = cache[s]
             \/ cache'[s] = r /\ request[r].server = s /\ cache[s] = None
  BY <1>2 DEF Fill, Installed, Types, CacheTypes
<1>3. ASSUME NEW r \in Requests,
             Check(r) \/ Reload(r) \/ Admit(r) \/ Refuse(r) \/ AcquireFails(r)
               \/ Finish(r) \/ Charge(r) \/ Refund(r)
      PROVE  cache'[s] = cache[s]
  BY <1>3 DEF Check, Reload, Admit, Refuse, AcquireFails, Finish, Charge, Refund
<1>4. ASSUME NEW t \in Servers, Crash(t) PROVE cache'[s] \in {cache[s], None}
  BY <1>4 DEF Crash, Types, CacheTypes
<1>5. ASSUME NEW e \in Editors, NEW t \in Servers, NEW change \in Changes,
             Update(e, t, change)
      PROVE  cache'[s] = cache[s]
  BY <1>5 DEF Update
<1>6. ASSUME NEW e \in Editors, NEW t \in Servers, Delete(e, t) PROVE cache'[s] = cache[s]
  BY <1>6 DEF Delete
<1>7. ASSUME NEW e \in Editors, UpdateCopy(e) \/ Invalidate(e)
      PROVE  cache'[s] \in {cache[s], None}
  BY <1>7 DEF UpdateCopy, Invalidate, Types, CacheTypes
<1>8. Tick \/ UNCHANGED vars => cache'[s] = cache[s]
  BY DEF Tick, vars
<1>9. QED
  BY <1>1, <1>2, <1>3, <1>4, <1>5, <1>6, <1>7, <1>8 DEF Next

LEMMA StepPoints ==
  ASSUME Types, CopiesLoaded, CopiesNamed, [Next]_vars, NEW r \in Requests, Points(r)'
  PROVE  \/ /\ Points(r)
            /\ request'[r].copy = request[r].copy
            /\ request'[r].server = request[r].server
         \/ /\ request'[r].server \in Servers
            /\ cache'[request'[r].server] = request'[r].copy
<1> DEFINE Same == request'[r] = request[r]
           Goal == \/ /\ Points(r)
                      /\ request'[r].copy = request[r].copy
                      /\ request'[r].server = request[r].server
                   \/ /\ request'[r].server \in Servers
                      /\ cache'[request'[r].server] = request'[r].copy
<1>1. Same => Goal
  BY DEF Points
<1>2. ASSUME NEW q \in Requests, NEW s \in Servers, Begin(q, s) PROVE Goal
  BY <1>2 DEF Begin, Points, Over, Types, RequestTypes
<1>3. ASSUME NEW q \in Requests, Fill(q) PROVE Goal
  <2>1. request[q].server \in Servers
    BY <1>3, RequestFields DEF Fill, Types
  <2>2. QED
    BY <1>3, <2>1 DEF Fill, Points, Types, RequestTypes, CacheTypes
<1>4. ASSUME NEW q \in Requests, Check(q) \/ Reload(q) PROVE Goal
  BY <1>4 DEF Check, Reload, Checked, Points, Over, Types, RequestTypes
<1>5. ASSUME NEW q \in Requests,
             Admit(q) \/ Refuse(q) \/ AcquireFails(q) \/ Finish(q)
      PROVE  Goal
  BY <1>5 DEF Admit, Refuse, AcquireFails, Finish, Points, Over, Types, RequestTypes
<1>6. ASSUME NEW q \in Requests, Charge(q) \/ Refund(q) PROVE Same
  BY <1>6 DEF Charge, Refund
<1>7. ASSUME NEW s \in Servers, Crash(s) PROVE Same
  BY <1>7 DEF Crash, Points, Over
<1>8. ASSUME NEW e \in Editors, NEW s \in Servers, NEW change \in Changes,
             Update(e, s, change)
      PROVE  Same
  BY <1>8 DEF Update
<1>9. ASSUME NEW e \in Editors, NEW s \in Servers, Delete(e, s) PROVE Same
  BY <1>9 DEF Delete
<1>10. ASSUME NEW e \in Editors, UpdateCopy(e) \/ Invalidate(e) PROVE Same
  BY <1>10 DEF UpdateCopy, Invalidate
<1>11. Tick \/ UNCHANGED vars => Same
  BY DEF Tick, vars
<1>12. QED
  BY <1>1, <1>2, <1>3, <1>4, <1>5, <1>6, <1>7, <1>8, <1>9, <1>10, <1>11 DEF Next

LEMMA StepNamed ==
  ASSUME Types, CopiesLoaded, CopiesNamed, [Next]_vars
  PROVE  CopiesNamed'
<1>1. ASSUME NEW c \in Requests, InUse(c)' PROVE request'[c].pc \notin {"idle", "fill"}
  <2>1. CASE InUse(c)
    BY <2>1, StepLater DEF CopiesNamed
  <2>2. CASE ~InUse(c)
    BY <1>1, <2>2, StepInUse DEF Fill, Types, RequestTypes
  <2>3. QED
    BY <2>1, <2>2
<1>2. ASSUME NEW s \in Servers, Fill(cache'[s]), cache'[s] \in Requests
      PROVE  ~InUse(cache'[s])
  BY <1>2 DEF Fill, CopiesNamed
<1>3. ASSUME NEW s \in Servers, NEW t \in Servers, cache'[s] = cache'[t], cache'[s] # None
      PROVE  s = t
  <2>1. cache'[s] \in Requests
    BY <1>3, StepCacheTypes DEF CacheTypes
  <2>2. InUse(cache'[s]) => cache[s] = cache'[s] /\ cache[t] = cache'[s]
    BY <1>2, <1>3, <2>1, StepCache
  <2>3. ~InUse(cache'[s]) => request[cache'[s]].server = s /\ request[cache'[s]].server = t
    <3>1. cache[s] # cache'[s] \/ InUse(cache'[s])
      BY DEF InUse
    <3>2. cache[t] # cache'[t] \/ InUse(cache'[s])
      BY <1>3 DEF InUse
    <3>3. QED
      BY <1>3, <3>1, <3>2, StepCache
  <2>4. QED
    BY <1>3, <2>2, <2>3 DEF CopiesNamed
<1>4. ASSUME NEW r \in Requests, NEW s \in Servers, Points(r)', cache'[s] = request'[r].copy
      PROVE  request'[r].server = s
  <2>1. cache'[s] \in Requests
    BY <1>4, StepRequestTypes, RequestFields DEF RequestTypes, RequestStates, Points
  <2>2. CASE /\ Points(r)
             /\ request'[r].copy = request[r].copy
             /\ request'[r].server = request[r].server
    <3>1. InUse(cache'[s])
      BY <1>4, <2>2 DEF InUse
    <3>2. cache[s] = cache'[s]
      BY <1>2, <2>1, <3>1, StepCache, BoundsAssumption
    <3>3. QED
      BY <1>4, <2>2, <3>2 DEF CopiesNamed
  <2>3. CASE /\ request'[r].server \in Servers
             /\ cache'[request'[r].server] = request'[r].copy
    BY <1>3, <1>4, <2>1, <2>3
  <2>4. QED
    BY <1>4, <2>2, <2>3, StepPoints
<1>5. QED
  BY <1>1, <1>3, <1>4 DEF CopiesNamed

\* What a step may do to a copy that is in use before and after it.
CopyWritten(c) ==
  \/ copies'[c] = copies[c]
  \/ \E r \in Requests :
       /\ request[r].pc = "reload"
       /\ copies'[c] = [meta |-> request[r].meta, loadedAt |-> clock]
  \/ \E e \in Editors :
       /\ edit[e].pc = "updated"
       /\ copies'[c] = [meta |-> edit[e].meta, loadedAt |-> clock]

LEMMA StepCopy ==
  ASSUME Types, CopiesLoaded, CopiesNamed, [Next]_vars,
         NEW c \in Requests, InUse(c), InUse(c)'
  PROVE  CopyWritten(c)
<1> DEFINE Same == copies'[c] = copies[c]
           Copy == [meta : Metas \cup {None}, loadedAt : Nat]
<1>1. Same => CopyWritten(c)
  BY DEF CopyWritten
<1>2. ASSUME NEW r \in Requests, NEW s \in Servers, Begin(r, s) PROVE Same
  BY <1>2 DEF Begin
<1>3. ASSUME NEW r \in Requests, Fill(r) PROVE Same
  <2>1. c # r
    BY <1>3 DEF Fill, CopiesNamed
  <2>2. QED
    BY <1>3, <2>1 DEF Fill, Types, CacheTypes
<1>4. ASSUME NEW r \in Requests, Reload(r) PROVE CopyWritten(c)
  <2>1. CASE c # request[r].copy
    BY <1>1, <1>4, <2>1 DEF Reload, Types, CacheTypes
  <2>2. CASE c = request[r].copy
    <3>1. copies'[c] = [meta |-> request[r].meta, loadedAt |-> clock]
      <4>1. /\ copies' = [copies EXCEPT ![c].meta = request[r].meta,
                                      ![c].loadedAt = clock]
            /\ copies \in [Requests -> Copy]
        BY <1>4, <2>2 DEF Reload, Types, CacheTypes
      <4>2. QED
        BY <4>1
    <3>2. QED
      BY <1>4, <3>1 DEF Reload, CopyWritten
  <2>3. QED
    BY <2>1, <2>2
<1>5. ASSUME NEW r \in Requests,
             Check(r) \/ Admit(r) \/ Refuse(r) \/ AcquireFails(r) \/ Finish(r)
               \/ Charge(r) \/ Refund(r)
      PROVE  Same
  BY <1>5 DEF Check, Admit, Refuse, AcquireFails, Finish, Charge, Refund
<1>6. ASSUME NEW s \in Servers, Crash(s) PROVE Same
  <2>1. CASE cache[s] = c
    <3>1. \A t \in Servers : cache'[t] # c
      BY <1>6, <2>1, BoundsAssumption DEF Crash, CopiesNamed, Types, CacheTypes
    <3>2. \A r \in Requests : Points(r)' /\ request'[r].copy = c => FALSE
      <4> SUFFICES ASSUME NEW r \in Requests, Points(r)', request'[r].copy = c
                   PROVE  FALSE
        OBVIOUS
      <4>1. request'[r] = request[r] /\ Points(r)
        BY <1>6 DEF Crash, Points, Over
      <4>2. request[r].server = s
        BY <2>1, <4>1 DEF CopiesNamed
      <4>3. QED
        BY <1>6, <4>1, <4>2 DEF Crash, Points, Over
    <3>3. QED
      BY <3>1, <3>2 DEF InUse
  <2>2. QED
    BY <1>6, <2>1 DEF Crash, Cached
<1>7. ASSUME NEW e \in Editors, NEW s \in Servers, NEW change \in Changes,
             Update(e, s, change)
      PROVE  Same
  BY <1>7 DEF Update
<1>8. ASSUME NEW e \in Editors, NEW s \in Servers, Delete(e, s) PROVE Same
  BY <1>8 DEF Delete
<1>9. ASSUME NEW e \in Editors, UpdateCopy(e) PROVE CopyWritten(c)
  <2>1. CASE cache[edit[e].server] # c
    BY <1>1, <1>9, <2>1 DEF UpdateCopy, Types, CacheTypes
  <2>2. CASE cache[edit[e].server] = c
    <3>1. copies'[c] = [meta |-> edit[e].meta, loadedAt |-> clock]
      BY <1>9, <2>2, BoundsAssumption DEF UpdateCopy, Types, CacheTypes
    <3>2. QED
      BY <1>9, <3>1 DEF UpdateCopy, CopyWritten
  <2>3. QED
    BY <2>1, <2>2
<1>10. ASSUME NEW e \in Editors, Invalidate(e) PROVE Same
  BY <1>10 DEF Invalidate
<1>11. Tick \/ UNCHANGED vars => Same
  BY DEF Tick, vars
<1>12. QED
  BY <1>1, <1>2, <1>3, <1>4, <1>5, <1>6, <1>7, <1>8, <1>9, <1>10, <1>11 DEF Next

LEMMA NewCopy ==
  ASSUME Types, CopiesLoaded, CopiesNamed, [Next]_vars,
         NEW c \in Requests, ~InUse(c), InUse(c)'
  PROVE  /\ request[c].pc = "fill"
         /\ copies'[c] = [meta |-> request[c].meta, loadedAt |-> clock]
<1>1. Fill(c) /\ cache[request[c].server] = None
  BY StepInUse
<1>2. QED
  BY <1>1 DEF Fill, Installed, Types, CacheTypes

LEMMA StepLoaded ==
  ASSUME Types, CopiesLoaded, CopiesNamed, [Next]_vars
  PROVE  CopiesLoaded'
<1> SUFFICES ASSUME NEW c \in Requests, InUse(c)'
             PROVE  copies'[c].meta \in Metas
  BY DEF CopiesLoaded
<1>1. /\ \A r \in Requests : request[r].pc \in {"fill", "reload"} => request[r].meta \in Metas
      /\ \A e \in Editors : edit[e].pc = "updated" => edit[e].meta \in Metas
  BY RequestFields, EditFields DEF Types
<1>2. CASE InUse(c)
  <2>1. CopyWritten(c)
    BY <1>2, StepCopy
  <2>2. copies[c].meta \in Metas
    BY <1>2 DEF CopiesLoaded
  <2>3. ASSUME NEW r \in Requests, request[r].pc = "reload",
               copies'[c] = [meta |-> request[r].meta, loadedAt |-> clock]
        PROVE  copies'[c].meta \in Metas
    BY <1>1, <2>3
  <2>4. ASSUME NEW e \in Editors, edit[e].pc = "updated",
               copies'[c] = [meta |-> edit[e].meta, loadedAt |-> clock]
        PROVE  copies'[c].meta \in Metas
    BY <1>1, <2>4
  <2>5. QED
    BY <2>1, <2>2, <2>3, <2>4 DEF CopyWritten
<1>3. CASE ~InUse(c)
  <2>1. /\ request[c].pc = "fill"
        /\ copies'[c] = [meta |-> request[c].meta, loadedAt |-> clock]
    BY <1>3, NewCopy
  <2>2. QED
    BY <1>1, <2>1
<1>4. QED
  BY <1>2, <1>3

----------------------------------------------------------------------------
(* How old what is known of the row may be *)

\* What meta says was true of the row at the time: it was enabled, and the
\* expiry was this one, if it was not changed since.
TrueAt(meta, at) ==
  /\ at <= clock
  /\ meta.enabled => offSince = Never \/ at <= offSince
  /\ meta.expireAt = row.expireAt \/ (expirySet # Never /\ at <= expirySet)

\* A request that reads its clock now may still be let in.
InTime(now) ==
  /\ offSince = Never \/ now < offSince + MetaTTL + Lag
  /\ \/ NotExpired(row.expireAt, now)
     \/ expirySet # Never /\ now < expirySet + MetaTTL + Lag

RequestTimely(r) ==
  /\ request[r].pc \in {"fill", "reload"} =>
       TrueAt(request[r].meta, request[r].readAt) /\ clock <= request[r].readAt + Lag
  /\ Points(r) => request[r].now <= clock
  /\ request[r].pc = "reload" => request[r].now <= request[r].readAt
  /\ request[r].pc \in {"gate", "running"} => request[r].began <= clock
  /\ request[r].pc = "gate" => InTime(request[r].now)

EditTimely(e) ==
  edit[e].pc = "updated" =>
    TrueAt(edit[e].meta, edit[e].readAt) /\ clock <= edit[e].readAt + Lag

\* A copy was read from the row at most Lag before it was loaded.
CopyTimely(c) ==
  InUse(c) => TrueAt(copies[c].meta, copies[c].loadedAt - Lag)

Timely ==
  /\ \A r \in Requests : RequestTimely(r)
  /\ \A e \in Editors : EditTimely(e)
  /\ \A c \in Requests : CopyTimely(c)

KeyInv ==
  /\ Types /\ RowInv
  /\ CopiesLoaded /\ CopiesNamed /\ Timely

\* The clock moves only when every call was answered in time.
InStep == clock' # clock => clock' = clock + 1 /\ Answered

LEMMA StepClock == [Next]_vars => InStep
<1>1. ASSUME NEW r \in Requests, NEW s \in Servers, Begin(r, s) PROVE clock' = clock
  BY <1>1 DEF Begin
<1>2. ASSUME NEW r \in Requests,
             Fill(r) \/ Check(r) \/ Reload(r) \/ Admit(r) \/ Refuse(r)
               \/ AcquireFails(r) \/ Finish(r) \/ Charge(r) \/ Refund(r)
      PROVE  clock' = clock
  BY <1>2 DEF Fill, Check, Reload, Admit, Refuse, AcquireFails, Finish, Charge, Refund
<1>3. ASSUME NEW s \in Servers, Crash(s) PROVE clock' = clock
  BY <1>3 DEF Crash
<1>4. ASSUME NEW e \in Editors, NEW s \in Servers, NEW change \in Changes,
             Update(e, s, change)
      PROVE  clock' = clock
  BY <1>4 DEF Update
<1>5. ASSUME NEW e \in Editors, NEW s \in Servers, Delete(e, s) PROVE clock' = clock
  BY <1>5 DEF Delete
<1>6. ASSUME NEW e \in Editors, UpdateCopy(e) \/ Invalidate(e) PROVE clock' = clock
  BY <1>6 DEF UpdateCopy, Invalidate
<1>7. Tick => InStep
  BY DEF Tick, InStep
<1>8. UNCHANGED vars => clock' = clock
  BY DEF vars
<1>9. clock' = clock => InStep
  BY DEF InStep
<1>10. QED
  BY <1>1, <1>2, <1>3, <1>4, <1>5, <1>6, <1>7, <1>8, <1>9 DEF Next

\* The row that is found now is enabled, as far as the history knows.
LEMMA FoundTrue ==
  ASSUME RowTypes, RowInv, ~row.deleted
  PROVE  TrueAt(Meta, clock)
  BY DEF TrueAt, Meta, RowTypes, Rows, RowInv

\* A copy that says yes, and is not too old, says so in time.
LEMMA YesInTime ==
  ASSUME RowTypes, NEW meta \in Metas, NEW at \in Int, NEW now \in Nat,
         TrueAt(meta, at), meta.enabled, NotExpired(meta.expireAt, now),
         now < at + MetaTTL + Lag
  PROVE  InTime(now)
<1>1. offSince = Never \/ now < offSince + MetaTTL + Lag
  BY DEF RowTypes, Times, TrueAt
<1>2. \/ NotExpired(row.expireAt, now)
      \/ expirySet # Never /\ now < expirySet + MetaTTL + Lag
  BY DEF RowTypes, Times, TrueAt
<1>3. QED
  BY <1>1, <1>2 DEF InTime

LEMMA CheckedTimely ==
  ASSUME RowTypes, RequestTypes, NEW r \in Requests, Points(r),
         NEW meta \in Metas, NEW at \in Int, NEW active \in BOOLEAN,
         TrueAt(meta, at), request[r].now <= clock,
         request[r].now < at + MetaTTL + Lag,
         request'[r] = Checked(r, meta, active), UNCHANGED <<row, clock, history>>
  PROVE  RequestTimely(r)'
<1>1. request[r].now \in Nat /\ clock \in Nat
  BY RequestFields DEF RowTypes
<1>2. CASE meta.enabled /\ active /\ NotExpired(meta.expireAt, request[r].now)
  <2>1. /\ request'[r].pc = "gate" /\ request'[r].now = request[r].now
        /\ request'[r].began = clock
    BY <1>2 DEF Checked
  <2>2. InTime(request[r].now)
    BY <1>1, <1>2, YesInTime
  <2>3. InTime(request[r].now)'
    BY <2>1, <2>2 DEF InTime, NotExpired, history
  <2>4. QED
    BY <1>1, <2>1, <2>3 DEF RequestTimely, Points
<1>3. QED
  BY <1>2 DEF Checked, Over, RequestTimely, Points

\* What is known of the row stays true of the time it was read at.
LEMMA KeptTimely ==
  ASSUME RowTypes, RowTypes', RequestTypes, Onward, InStep,
         NEW r \in Requests, RequestTimely(r), request'[r] = request[r]
  PROVE  RequestTimely(r)'
<1> DEFINE q == request[r]
<1>1. CASE q.pc \in {"fill", "reload"}
  <2>1. q.readAt \in Nat /\ (q.pc = "reload" => q.now \in Nat)
    BY <1>1, RequestFields DEF Points
  <2>2. clock' <= q.readAt + Lag
    BY <1>1, <2>1 DEF RequestTimely, InStep, Answered, Onward
  <2>3. TrueAt(q.meta, q.readAt)
    BY <1>1 DEF RequestTimely
  <2>4. TrueAt(request[r].meta, request[r].readAt)'
    BY <2>1, <2>3 DEF TrueAt, Onward, RowTypes, Times
  <2>5. QED
    BY <1>1, <2>1, <2>2, <2>4 DEF RequestTimely, Points, Onward
<1>2. CASE q.pc = "gate"
  <2>1. q.now \in Nat /\ q.began \in Nat /\ q.now <= clock /\ q.began <= clock /\ InTime(q.now)
    BY <1>2, RequestFields DEF RequestTimely, Points
  <2>2. InTime(request[r].now)'
    BY <2>1 DEF InTime, Onward, RowTypes, Times
  <2>3. QED
    BY <1>2, <2>1, <2>2 DEF RequestTimely, Points, Onward
<1>3. CASE q.pc \notin {"fill", "reload", "gate"}
  BY <1>3, RequestFields DEF RequestTimely, Points, Onward
<1>4. QED
  BY <1>1, <1>2, <1>3

LEMMA BeginTimely ==
  ASSUME KeyInv, NEW r \in Requests, NEW s \in Servers, Begin(r, s)
  PROVE  RequestTimely(r)'
<1>1. clock \in Nat /\ UNCHANGED <<row, clock, history>> /\ RowTypes /\ RowInv
  BY DEF Begin, KeyInv, Types, RowTypes
<1>2. CASE request'[r] = [pc |-> "found", server |-> s, copy |-> cache[s], now |-> clock]
  BY <1>1, <1>2 DEF RequestTimely, Points
<1>3. CASE request'[r] = Over
  BY <1>3 DEF RequestTimely, Points, Over
<1>4. CASE /\ request'[r] = [pc |-> "fill", server |-> s, meta |-> Meta, readAt |-> clock]
           /\ ~row.deleted
  <2>1. TrueAt(Meta, clock)
    BY <1>1, <1>4, FoundTrue
  <2>2. TrueAt(request[r].meta, request[r].readAt)'
    BY <1>1, <1>4, <2>1 DEF TrueAt, history
  <2>3. QED
    BY <1>1, <1>4, <2>2 DEF RequestTimely, Points
<1>5. QED
  BY <1>2, <1>3, <1>4 DEF Begin, Found, KeyInv, Types, RequestTypes

LEMMA FillTimely ==
  ASSUME KeyInv, NEW r \in Requests, Fill(r)
  PROVE  RequestTimely(r)'
<1>1. clock \in Nat /\ clock' = clock
  BY DEF Fill, KeyInv, Types, RowTypes
<1>2. request'[r].pc = "found" /\ request'[r].now = clock
  BY DEF Fill, KeyInv, Types, RequestTypes
<1>3. QED
  BY <1>1, <1>2 DEF RequestTimely, Points

LEMMA CheckTimely ==
  ASSUME KeyInv, NEW r \in Requests, Check(r)
  PROVE  RequestTimely(r)'
<1> DEFINE q == request[r]
           copy == copies[q.copy]
<1>1. /\ RowTypes /\ RequestTypes /\ RowInv /\ clock \in Nat
      /\ UNCHANGED <<row, clock, history>> /\ Points(r)
  BY DEF Check, KeyInv, Types, RowTypes, Points
<1>2. q.copy \in Requests /\ q.now \in Nat /\ q.server \in Servers /\ q.now <= clock
  BY <1>1, RequestFields DEF KeyInv, Timely, RequestTimely, Points
<1>3. InUse(q.copy)
  BY <1>1, <1>2 DEF InUse
<1>4. copy.meta \in Metas /\ copy.loadedAt \in Nat /\ TrueAt(copy.meta, copy.loadedAt - Lag)
  BY <1>2, <1>3 DEF KeyInv, Types, CacheTypes, CopiesLoaded, Timely, CopyTimely
<1>5. ASSUME NEW active \in BOOLEAN, ~Stale(copy, q.now),
             request'[r] = Checked(r, copy.meta, active)
      PROVE  RequestTimely(r)'
  <2>1. q.now < (copy.loadedAt - Lag) + MetaTTL + Lag /\ copy.loadedAt - Lag \in Int
    BY <1>2, <1>4, <1>5 DEF Stale
  <2>2. QED
    BY <1>1, <1>2, <1>4, <1>5, <2>1, CheckedTimely
<1>6. ASSUME ~row.deleted,
             request'[r] = [pc |-> "reload", server |-> q.server, copy |-> q.copy,
                            now |-> q.now, meta |-> Meta, readAt |-> clock]
      PROVE  RequestTimely(r)'
  <2>1. TrueAt(Meta, clock)
    BY <1>1, <1>6, FoundTrue
  <2>2. TrueAt(request[r].meta, request[r].readAt)'
    BY <1>1, <1>6, <2>1 DEF TrueAt, history
  <2>3. QED
    BY <1>1, <1>2, <1>6, <2>2 DEF RequestTimely, Points
<1>7. request'[r] = Over => RequestTimely(r)'
  BY DEF RequestTimely, Points, Over
<1>8. \E active \in BOOLEAN :
        \/ ~Stale(copy, q.now) /\ request'[r] = Checked(r, copy.meta, active)
        \/ /\ Found(active)
           /\ request'[r] = [pc |-> "reload", server |-> q.server, copy |-> q.copy,
                             now |-> q.now, meta |-> Meta, readAt |-> clock]
        \/ request'[r] = Over
  <2> HIDE DEF copy
  <2>1. QED
    BY <1>1, Zenon DEF Check, RequestTypes, copy
<1>9. QED
  BY <1>5, <1>6, <1>7, <1>8 DEF Found

LEMMA ReloadTimely ==
  ASSUME KeyInv, NEW r \in Requests, Reload(r)
  PROVE  RequestTimely(r)'
<1> DEFINE q == request[r]
<1>1. /\ RowTypes /\ RequestTypes /\ UNCHANGED <<row, clock, history>> /\ Points(r)
      /\ q.pc = "reload"
  BY DEF Reload, KeyInv, Types, Points
<1>2. q.meta \in Metas /\ q.readAt \in Nat /\ q.now \in Nat
  BY <1>1, RequestFields
<1>3. TrueAt(q.meta, q.readAt) /\ q.now <= clock /\ q.now <= q.readAt
  BY <1>1 DEF KeyInv, Timely, RequestTimely
<1>4. q.now < q.readAt + MetaTTL + Lag
  BY <1>2, <1>3
<1>5. PICK active \in BOOLEAN : request'[r] = Checked(r, q.meta, active)
  BY <1>1 DEF Reload, RequestTypes
<1>6. QED
  BY <1>1, <1>2, <1>3, <1>4, <1>5, CheckedTimely

LEMMA SlotTimely ==
  ASSUME KeyInv, NEW r \in Requests,
         Admit(r) \/ Refuse(r) \/ AcquireFails(r) \/ Finish(r)
  PROVE  RequestTimely(r)'
<1>1. request'[r] = Over => RequestTimely(r)'
  BY DEF RequestTimely, Points, Over
<1>2. CASE Admit(r)
  <2>1. /\ request'[r].pc = "running" /\ request'[r].began = request[r].began
        /\ request[r].pc = "gate" /\ clock' = clock
    BY <1>2 DEF Admit, KeyInv, Types, RequestTypes
  <2>2. request[r].began <= clock
    BY <2>1 DEF KeyInv, Timely, RequestTimely
  <2>3. QED
    BY <2>1, <2>2 DEF RequestTimely, Points
<1>3. QED
  BY <1>1, <1>2 DEF Refuse, AcquireFails, Finish, KeyInv, Types, RequestTypes

\* A request moves by itself, or a crash ends it.
LEMMA OwnMoves ==
  ASSUME RequestTypes, [Next]_vars, NEW r \in Requests
  PROVE  \/ request'[r] \in {request[r], Over}
         \/ \E s \in Servers : Begin(r, s)
         \/ Fill(r) \/ Check(r) \/ Reload(r)
         \/ Admit(r) \/ Refuse(r) \/ AcquireFails(r) \/ Finish(r)
<1> DEFINE Same == request'[r] = request[r]
<1>1. ASSUME NEW q \in Requests, q # r, NEW s \in Servers, Begin(q, s) PROVE Same
  BY <1>1 DEF Begin, RequestTypes
<1>2. ASSUME NEW q \in Requests, q # r,
             Fill(q) \/ Check(q) \/ Reload(q) \/ Admit(q) \/ Refuse(q)
               \/ AcquireFails(q) \/ Finish(q)
      PROVE  Same
  BY <1>2 DEF Fill, Check, Reload, Admit, Refuse, AcquireFails, Finish, RequestTypes
<1>3. ASSUME NEW q \in Requests, Charge(q) \/ Refund(q) PROVE Same
  BY <1>3 DEF Charge, Refund
<1>4. ASSUME NEW s \in Servers, Crash(s) PROVE request'[r] \in {request[r], Over}
  BY <1>4 DEF Crash
<1>5. ASSUME NEW e \in Editors, NEW s \in Servers, NEW change \in Changes,
             Update(e, s, change)
      PROVE  Same
  BY <1>5 DEF Update
<1>6. ASSUME NEW e \in Editors, NEW s \in Servers, Delete(e, s) PROVE Same
  BY <1>6 DEF Delete
<1>7. ASSUME NEW e \in Editors, UpdateCopy(e) \/ Invalidate(e) PROVE Same
  BY <1>7 DEF UpdateCopy, Invalidate
<1>8. Tick \/ UNCHANGED vars => Same
  BY DEF Tick, vars
<1>9. QED
  BY <1>1, <1>2, <1>3, <1>4, <1>5, <1>6, <1>7, <1>8, Zenon DEF Next

LEMMA StepRequestTimely ==
  ASSUME KeyInv, [Next]_vars, NEW r \in Requests
  PROVE  RequestTimely(r)'
<1>1. RowTypes /\ RowTypes' /\ RequestTypes /\ Onward /\ InStep /\ RequestTimely(r)
  BY StepRow, StepClock DEF KeyInv, Types, Timely
<1>2. request'[r] = request[r] => RequestTimely(r)'
  BY <1>1, KeptTimely
<1>3. request'[r] = Over => RequestTimely(r)'
  BY DEF RequestTimely, Points, Over
<1>4. QED
  BY <1>1, <1>2, <1>3, OwnMoves, BeginTimely, FillTimely, CheckTimely, ReloadTimely, SlotTimely

\* A call that changes the key writes its own state, or a crash ends it.
LEMMA OwnEdits ==
  ASSUME CacheTypes, [Next]_vars, NEW e \in Editors
  PROVE  \/ edit'[e] = edit[e]
         \/ edit'[e].pc # "updated"
         \/ \E s \in Servers, change \in Changes : Update(e, s, change)
<1> DEFINE Same == edit'[e] = edit[e]
           Ends == edit'[e].pc # "updated"
<1>1. ASSUME NEW r \in Requests, NEW s \in Servers, Begin(r, s) PROVE Same
  BY <1>1 DEF Begin
<1>2. ASSUME NEW r \in Requests,
             Fill(r) \/ Check(r) \/ Reload(r) \/ Admit(r) \/ Refuse(r)
               \/ AcquireFails(r) \/ Finish(r) \/ Charge(r) \/ Refund(r)
      PROVE  Same
  BY <1>2 DEF Fill, Check, Reload, Admit, Refuse, AcquireFails, Finish, Charge, Refund
<1>3. ASSUME NEW s \in Servers, Crash(s) PROVE Same \/ Ends
  BY <1>3 DEF Crash, Over
<1>4. ASSUME NEW k \in Editors, k # e, NEW s \in Servers, NEW change \in Changes,
             Update(k, s, change)
      PROVE  Same
  BY <1>4 DEF Update, CacheTypes
<1>5. ASSUME NEW k \in Editors, NEW s \in Servers, Delete(k, s) PROVE Same \/ Ends
  BY <1>5 DEF Delete, CacheTypes
<1>6. ASSUME NEW k \in Editors, UpdateCopy(k) \/ Invalidate(k) PROVE Same \/ Ends
  BY <1>6 DEF UpdateCopy, Invalidate, CacheTypes, Over
<1>7. Tick \/ UNCHANGED vars => Same
  BY DEF Tick, vars
<1>8. QED
  BY <1>1, <1>2, <1>3, <1>4, <1>5, <1>6, <1>7, Zenon DEF Next

LEMMA StepEditTimely ==
  ASSUME KeyInv, [Next]_vars, NEW e \in Editors
  PROVE  EditTimely(e)'
<1>1. RowTypes /\ RowTypes' /\ CacheTypes /\ Onward /\ InStep /\ EditTimely(e)
  BY StepRow, StepClock DEF KeyInv, Types, Timely
<1>2. CASE edit'[e] = edit[e] /\ edit[e].pc = "updated"
  <2>1. edit[e].readAt \in Nat /\ TrueAt(edit[e].meta, edit[e].readAt)
    BY <1>1, <1>2, EditFields DEF EditTimely
  <2>2. clock' <= edit[e].readAt + Lag
    BY <1>1, <1>2, <2>1 DEF EditTimely, InStep, Answered, Onward
  <2>3. TrueAt(edit[e].meta, edit[e].readAt)'
    BY <1>1, <1>2, <2>1 DEF TrueAt, Onward, RowTypes, Times
  <2>4. QED
    BY <1>2, <2>2, <2>3 DEF EditTimely
<1>3. ASSUME NEW s \in Servers, NEW change \in Changes, Update(e, s, change)
      PROVE  EditTimely(e)'
  <2> DEFINE new == [row EXCEPT ![change.column] = change.value]
             meta == [enabled |-> new.enabled, limit |-> new.limit,
                      expireAt |-> new.expireAt]
  <2>1. /\ row' = new /\ ~row.deleted /\ clock' = clock /\ clock \in Nat
        /\ edit'[e] = [pc |-> "updated", server |-> s, readAt |-> clock, meta |-> meta]
    BY <1>1, <1>3 DEF Update, CacheTypes, RowTypes
  <2>2. row'.deleted = row.deleted
    BY <1>1, <2>1, UpdateWrites
  <2>3. RowInv'
    BY StepRow DEF KeyInv, Types
  <2>4. /\ edit'[e].meta.enabled = row'.enabled
        /\ edit'[e].meta.expireAt = row'.expireAt
        /\ edit'[e].readAt = clock
    BY <2>1
  <2>5. TrueAt(edit[e].meta, edit[e].readAt)'
    BY <2>1, <2>2, <2>3, <2>4 DEF TrueAt, RowInv
  <2>6. QED
    BY <2>1, <2>4, <2>5 DEF EditTimely
<1>4. QED
  BY <1>1, <1>2, <1>3, OwnEdits DEF EditTimely

LEMMA StepCopyTimely ==
  ASSUME KeyInv, [Next]_vars, NEW c \in Requests
  PROVE  CopyTimely(c)'
<1> SUFFICES ASSUME InUse(c)'
             PROVE  TrueAt(copies[c].meta, copies[c].loadedAt - Lag)'
  BY DEF CopyTimely
<1>1. RowTypes /\ RowTypes' /\ CacheTypes /\ Types /\ CopiesLoaded /\ CopiesNamed /\ Onward
  BY StepRow DEF KeyInv, Types
<1>2. CASE InUse(c) /\ copies'[c] = copies[c]
  <2>1. TrueAt(copies[c].meta, copies[c].loadedAt - Lag) /\ copies[c].loadedAt \in Nat
    BY <1>1, <1>2 DEF KeyInv, Timely, CopyTimely, CacheTypes
  <2>2. QED
    BY <1>1, <1>2, <2>1 DEF TrueAt, Onward, RowTypes, Times
<1>3. ASSUME NEW meta \in Metas, NEW at \in Nat, TrueAt(meta, at), clock <= at + Lag,
             copies'[c] = [meta |-> meta, loadedAt |-> clock]
      PROVE  TrueAt(copies[c].meta, copies[c].loadedAt - Lag)'
  <2>1. copies'[c].meta = meta /\ copies'[c].loadedAt - Lag <= at
    BY <1>1, <1>3 DEF RowTypes
  <2>2. copies'[c].loadedAt - Lag \in Int
    BY <1>1, <1>3 DEF RowTypes
  <2>3. QED
    BY <1>1, <1>3, <2>1, <2>2 DEF TrueAt, Onward, RowTypes, Times
<1>4. ASSUME NEW r \in Requests, request[r].pc \in {"fill", "reload"},
             copies'[c] = [meta |-> request[r].meta, loadedAt |-> clock]
      PROVE  TrueAt(copies[c].meta, copies[c].loadedAt - Lag)'
  <2>1. request[r].meta \in Metas /\ request[r].readAt \in Nat
    BY <1>1, <1>4, RequestFields DEF Types
  <2>2. TrueAt(request[r].meta, request[r].readAt) /\ clock <= request[r].readAt + Lag
    BY <1>4 DEF KeyInv, Timely, RequestTimely
  <2>3. QED
    BY <1>3, <1>4, <2>1, <2>2
<1>5. ASSUME NEW e \in Editors, edit[e].pc = "updated",
             copies'[c] = [meta |-> edit[e].meta, loadedAt |-> clock]
      PROVE  TrueAt(copies[c].meta, copies[c].loadedAt - Lag)'
  <2>1. edit[e].meta \in Metas /\ edit[e].readAt \in Nat
    BY <1>1, <1>5, EditFields
  <2>2. TrueAt(edit[e].meta, edit[e].readAt) /\ clock <= edit[e].readAt + Lag
    BY <1>5 DEF KeyInv, Timely, EditTimely
  <2>3. QED
    BY <1>3, <1>5, <2>1, <2>2
<1>6. CASE InUse(c)
  BY <1>1, <1>2, <1>4, <1>5, <1>6, StepCopy DEF CopyWritten
<1>7. CASE ~InUse(c)
  <2>1. /\ request[c].pc = "fill"
        /\ copies'[c] = [meta |-> request[c].meta, loadedAt |-> clock]
    BY <1>1, <1>7, NewCopy
  <2>2. QED
    BY <1>4, <2>1
<1>8. QED
  BY <1>6, <1>7

----------------------------------------------------------------------------
(* Slots *)

LEMMA PurgedSlots ==
  ASSUME SlotTypes, NEW now \in Nat
  PROVE  /\ DOMAIN Purged(now) = {q \in DOMAIN leases : leases[q] > now}
         /\ \A q \in DOMAIN Purged(now) : Purged(now)[q] = leases[q]
         /\ IsFiniteSet(DOMAIN Purged(now))
         /\ Purged(now) \in [DOMAIN Purged(now) -> Nat]
<1>1. /\ DOMAIN Purged(now) = {q \in DOMAIN leases : leases[q] > now}
      /\ \A q \in DOMAIN Purged(now) : Purged(now)[q] = leases[q]
      /\ Purged(now) \in [DOMAIN Purged(now) -> Nat]
  BY DEF Purged, Restrict, SlotTypes
<1>2. QED
  BY <1>1, FS_Subset DEF SlotTypes

LEMMA TakenSlots ==
  ASSUME SlotTypes, NEW r \in Requests, request[r].began \in Nat
  PROVE  LET rest == Purged(request[r].began) IN
         /\ DOMAIN Taken(r) = DOMAIN rest \cup {r}
         /\ Taken(r)[r] = request[r].began + LeaseTTL
         /\ \A q \in DOMAIN rest \ {r} : Taken(r)[q] = leases[q]
         /\ IsFiniteSet(DOMAIN Taken(r))
         /\ Taken(r) \in [DOMAIN Taken(r) -> Nat]
<1> DEFINE rest == Purged(request[r].began)
<1>1. /\ \A q \in DOMAIN rest : rest[q] = leases[q]
      /\ IsFiniteSet(DOMAIN rest) /\ rest \in [DOMAIN rest -> Nat]
  BY PurgedSlots
<1> HIDE DEF rest
<1>2. Taken(r) = [q \in DOMAIN rest \cup {r} |->
                    IF q = r THEN request[r].began + LeaseTTL ELSE rest[q]]
  BY DEF Taken, rest
<1>3. IsFiniteSet(DOMAIN rest \cup {r})
  BY <1>1, FS_AddElement
<1>4. /\ DOMAIN Taken(r) = DOMAIN rest \cup {r}
      /\ Taken(r)[r] = request[r].began + LeaseTTL
      /\ \A q \in DOMAIN rest \ {r} : Taken(r)[q] = leases[q]
      /\ Taken(r) \in [DOMAIN rest \cup {r} -> Nat]
  BY <1>1, <1>2
<1>5. QED
  BY <1>3, <1>4 DEF rest

\* What a step writes in the sorted set.
LEMMA StepLeases ==
  ASSUME [Next]_vars
  PROVE  \/ leases' = leases
         \/ \E q \in Requests :
              /\ request[q].pc = "gate"
              /\ leases' = Purged(request[q].began) \/ (HasSlot(q) /\ leases' = Taken(q))
              /\ request' = [request EXCEPT ![q] = Over] \/ Admit(q)
         \/ \E q \in Requests : Finish(q) /\ leases' = Released(q)
<1> DEFINE Same == leases' = leases
<1>1. ASSUME NEW r \in Requests, NEW s \in Servers, Begin(r, s) PROVE Same
  BY <1>1 DEF Begin
<1>2. ASSUME NEW r \in Requests, Fill(r) \/ Check(r) \/ Reload(r) \/ Charge(r) \/ Refund(r)
      PROVE  Same
  BY <1>2 DEF Fill, Check, Reload, Charge, Refund
<1>3. ASSUME NEW r \in Requests, Admit(r) \/ Refuse(r) \/ AcquireFails(r)
      PROVE  /\ request[r].pc = "gate"
             /\ leases' = Purged(request[r].began) \/ (HasSlot(r) /\ leases' = Taken(r))
             /\ request' = [request EXCEPT ![r] = Over] \/ Admit(r)
  BY <1>3, Zenon DEF Admit, Refuse, AcquireFails
<1>4. ASSUME NEW r \in Requests, Finish(r) PROVE leases' = leases \/ leases' = Released(r)
  BY <1>4 DEF Finish
<1>5. ASSUME NEW s \in Servers, Crash(s) PROVE Same
  BY <1>5 DEF Crash
<1>6. ASSUME NEW e \in Editors, NEW s \in Servers, NEW change \in Changes,
             Update(e, s, change)
      PROVE  Same
  BY <1>6 DEF Update
<1>7. ASSUME NEW e \in Editors, NEW s \in Servers, Delete(e, s) PROVE Same
  BY <1>7 DEF Delete
<1>8. ASSUME NEW e \in Editors, UpdateCopy(e) \/ Invalidate(e) PROVE Same
  BY <1>8 DEF UpdateCopy, Invalidate
<1>9. Tick \/ UNCHANGED vars => Same
  BY DEF Tick, vars
<1>10. QED
  BY <1>1, <1>2, <1>3, <1>4, <1>5, <1>6, <1>7, <1>8, <1>9, Zenon DEF Next

LEMMA StepSlotTypes ==
  ASSUME Types, [Next]_vars
  PROVE  SlotTypes'
<1>1. SlotTypes /\ RequestTypes
  BY DEF Types
<1>2. CASE leases' = leases
  BY <1>1, <1>2 DEF SlotTypes
<1>3. ASSUME NEW q \in Requests, request[q].pc = "gate",
             leases' = Purged(request[q].began) \/ leases' = Taken(q)
      PROVE  SlotTypes'
  <2>1. request[q].began \in Nat
    BY <1>1, <1>3, RequestFields
  <2>2. DOMAIN Purged(request[q].began) \subseteq Requests
    BY <1>1, <2>1, PurgedSlots DEF SlotTypes
  <2>3. CASE leases' = Purged(request[q].began)
    BY <1>1, <2>1, <2>2, <2>3, PurgedSlots DEF SlotTypes
  <2>4. CASE leases' = Taken(q)
    BY <1>1, <2>1, <2>2, <2>4, TakenSlots DEF SlotTypes
  <2>5. QED
    BY <1>3, <2>3, <2>4
<1>4. ASSUME NEW q \in Requests, leases' = Released(q) PROVE SlotTypes'
  <2>1. /\ DOMAIN leases' = DOMAIN leases \ {q}
        /\ leases' \in [DOMAIN leases' -> Nat]
    BY <1>1, <1>4 DEF Released, Restrict, SlotTypes
  <2>2. IsFiniteSet(DOMAIN leases')
    BY <1>1, <2>1, FS_Subset DEF SlotTypes
  <2>3. QED
    BY <1>1, <2>1, <2>2 DEF SlotTypes
<1>5. QED
  BY <1>2, <1>3, <1>4, StepLeases

\* A request in time holds its own slot, and any of them are within the limit
\* of one of them: the last that was let in counted the others.
SlotHeld ==
  \A r \in Holding : r \in DOMAIN leases /\ leases[r] = request[r].began + LeaseTTL

SlotsWithin ==
  \A H \in SUBSET Holding :
    H # {} => \E r \in H : Cardinality(H) <= request[r].limit

SlotInv == SlotHeld /\ SlotsWithin

\* A slot is held by who held it before, and by who is let in.
LEMMA HoldsAfter ==
  ASSUME Types, [Next]_vars, NEW r \in Requests, r \in Holding'
  PROVE  \/ r \in Holding /\ request'[r] = request[r]
         \/ Admit(r)
<1>1. /\ request'[r].pc = "running" /\ clock' < request'[r].began + LeaseTTL
      /\ clock \in Nat /\ RequestTypes
  BY DEF Holding, Types, RowTypes
<1>2. clock' = clock \/ clock' = clock + 1
  BY StepClock DEF InStep
<1>3. CASE request'[r] = request[r]
  <2>1. request[r].began \in Nat
    BY <1>1, <1>3, RequestFields
  <2>2. QED
    BY <1>1, <1>2, <1>3, <2>1 DEF Holding
<1>4. ASSUME NEW s \in Servers, Begin(r, s) PROVE FALSE
  BY <1>1, <1>4 DEF Begin, Over, RequestTypes
<1>5. ~Fill(r) /\ ~Check(r) /\ ~Reload(r)
  BY <1>1 DEF Fill, Check, Reload, Checked, Over, RequestTypes
<1>6. ~Refuse(r) /\ ~AcquireFails(r) /\ ~Finish(r)
  BY <1>1 DEF Refuse, AcquireFails, Finish, Over, RequestTypes
<1>7. request'[r] # Over
  BY <1>1 DEF Over
<1>8. QED
  BY <1>1, <1>3, <1>4, <1>5, <1>6, <1>7, OwnMoves

\* A step of another request, or a crash, leaves a held slot alone: what is
\* purged has ended, and what is released is the request's own.
LEMMA SlotLeftAlone ==
  ASSUME KeyInv, SlotHeld, [Next]_vars, NEW r \in Holding, request'[r] = request[r]
  PROVE  r \in DOMAIN leases' /\ leases'[r] = leases[r]
<1>1. /\ r \in Requests /\ request[r].pc = "running" /\ SlotTypes /\ RequestTypes
      /\ clock < request[r].began + LeaseTTL /\ clock \in Nat
      /\ r \in DOMAIN leases /\ leases[r] = request[r].began + LeaseTTL
  BY DEF Holding, SlotHeld, KeyInv, Types, RowTypes
<1>2. ASSUME NEW q \in Requests, request[q].pc = "gate",
             leases' = Purged(request[q].began) \/ leases' = Taken(q)
      PROVE  r \in DOMAIN leases' /\ leases'[r] = leases[r]
  <2>1. request[q].began \in Nat /\ request[q].began <= clock /\ q # r
    BY <1>1, <1>2, RequestFields DEF KeyInv, Timely, RequestTimely
  <2>2. leases[r] > request[q].began
    BY <1>1, <2>1 DEF SlotTypes
  <2>3. r \in DOMAIN Purged(request[q].began)
    BY <1>1, <2>1, <2>2, PurgedSlots
  <2>4. Purged(request[q].began)[r] = leases[r]
    BY <1>1, <2>1, <2>3, PurgedSlots
  <2>5. r \in DOMAIN Taken(q) /\ Taken(q)[r] = leases[r]
    BY <1>1, <2>1, <2>3, TakenSlots
  <2>6. QED
    BY <1>2, <2>3, <2>4, <2>5
<1>3. ASSUME NEW q \in Requests, Finish(q), leases' = Released(q)
      PROVE  r \in DOMAIN leases' /\ leases'[r] = leases[r]
  <2>1. q # r
    BY <1>1, <1>3 DEF Finish, Over, RequestTypes
  <2>2. QED
    BY <1>1, <1>3, <2>1 DEF Released, Restrict
<1>4. QED
  BY <1>1, <1>2, <1>3, StepLeases

LEMMA AdmitSlot ==
  ASSUME KeyInv, NEW r \in Requests, Admit(r)
  PROVE  /\ r \in DOMAIN leases' /\ leases'[r] = request'[r].began + LeaseTTL
         /\ request'[r].limit = request[r].limit
<1>1. request[r].began \in Nat /\ SlotTypes
  BY RequestFields DEF KeyInv, Types, Admit
<1>2. request'[r].began = request[r].began /\ request'[r].limit = request[r].limit
  BY DEF Admit, KeyInv, Types, RequestTypes
<1>3. QED
  BY <1>1, <1>2, TakenSlots DEF Admit

LEMMA StepSlotHeld ==
  ASSUME KeyInv, SlotHeld, [Next]_vars
  PROVE  SlotHeld'
<1> SUFFICES ASSUME NEW r \in Holding'
             PROVE  r \in DOMAIN leases' /\ leases'[r] = request'[r].began + LeaseTTL
  BY DEF SlotHeld
<1>1. r \in Requests /\ Types
  BY DEF Holding, KeyInv
<1>2. CASE r \in Holding /\ request'[r] = request[r]
  BY <1>2, SlotLeftAlone DEF SlotHeld
<1>3. CASE Admit(r)
  BY <1>1, <1>3, AdmitSlot
<1>4. QED
  BY <1>1, <1>2, <1>3, HoldsAfter

\* Those who hold slots are among those whom an admission counts.
LEMMA HoldersCounted ==
  ASSUME KeyInv, SlotHeld, NEW q \in Requests, request[q].pc = "gate"
  PROVE  /\ Holding \subseteq DOMAIN Purged(request[q].began)
         /\ IsFiniteSet(DOMAIN Purged(request[q].began))
<1>1. request[q].began \in Nat /\ request[q].began <= clock /\ SlotTypes /\ clock \in Nat
  BY RequestFields DEF KeyInv, Types, RowTypes, Timely, RequestTimely
<1>2. ASSUME NEW r \in Holding PROVE r \in DOMAIN Purged(request[q].began)
  <2>1. /\ r \in DOMAIN leases /\ leases[r] = request[r].began + LeaseTTL
        /\ clock < request[r].began + LeaseTTL
    BY DEF SlotHeld, Holding
  <2>2. leases[r] > request[q].began
    BY <1>1, <2>1 DEF SlotTypes
  <2>3. QED
    BY <1>1, <2>1, <2>2, PurgedSlots
<1>3. QED
  BY <1>1, <1>2, PurgedSlots

LEMMA StepSlotsWithin ==
  ASSUME KeyInv, SlotInv, [Next]_vars
  PROVE  SlotsWithin'
<1> SUFFICES ASSUME NEW H \in SUBSET (Holding'), H # {}
             PROVE  \E r \in H : Cardinality(H) <= request'[r].limit
  BY DEF SlotsWithin
<1>1. Types /\ H \subseteq Requests
  BY DEF Holding, KeyInv
<1>2. CASE \A r \in H : r \in Holding /\ request'[r] = request[r]
  BY <1>2 DEF SlotInv, SlotsWithin
<1>3. ASSUME NEW q \in H, Admit(q)
      PROVE  Cardinality(H) <= request'[q].limit
  <2> DEFINE D == DOMAIN Purged(request[q].began)
  <2>1. /\ q \in Requests /\ request[q].pc = "gate" /\ HasSlot(q)
        /\ request'[q].limit = request[q].limit /\ request[q].limit \in Nat
    BY <1>1, <1>3, AdmitSlot, RequestFields DEF Admit, Types
  <2>2. Holding \subseteq D /\ IsFiniteSet(D)
    BY <2>1, HoldersCounted DEF SlotInv
  <2>3. Cardinality(D) < request[q].limit
    BY <2>1 DEF HasSlot
  <2>4. \A r \in H \ {q} : r \in Holding
    <3>1. ASSUME NEW r \in H, r # q PROVE ~Admit(r)
      BY <1>1, <1>3, <3>1 DEF Admit, Types, RequestTypes
    <3>2. QED
      BY <1>1, <3>1, HoldsAfter
  <2> HIDE DEF D
  <2>5. H \subseteq D \cup {q}
    BY <2>2, <2>4
  <2>6. /\ IsFiniteSet(D \cup {q}) /\ Cardinality(D) \in Nat
        /\ Cardinality(D \cup {q}) \in {Cardinality(D), Cardinality(D) + 1}
    BY <2>2, FS_AddElement, FS_CardinalityType
  <2>7. Cardinality(H) <= Cardinality(D \cup {q}) /\ Cardinality(H) \in Nat
    BY <2>5, <2>6, FS_Subset, FS_CardinalityType
  <2>8. QED
    BY <2>1, <2>3, <2>6, <2>7
<1>4. QED
  BY <1>1, <1>2, <1>3, HoldsAfter

----------------------------------------------------------------------------
(* Points *)

Charged == {r \in Requests : orders[r] = "charged"}

PointInv == IsFiniteSet(Charged) /\ QuotaTrue

\* A step that leaves the orders leaves what is spent, and a change of the quota
\* was allowed.
OrdersKept ==
  /\ orders' = orders /\ row'.used = row.used
  /\ row'.quota = row.quota \/ row'.quota = Never \/ row.used <= row'.quota

LEMMA StepOrders ==
  ASSUME Types, [Next]_vars
  PROVE  OrdersKept \/ \E r \in Requests : Charge(r) \/ Refund(r)
<1>1. ASSUME NEW r \in Requests, NEW s \in Servers, Begin(r, s) PROVE OrdersKept
  BY <1>1 DEF Begin, OrdersKept
<1>2. ASSUME NEW r \in Requests,
             Fill(r) \/ Check(r) \/ Reload(r) \/ Admit(r) \/ Refuse(r)
               \/ AcquireFails(r) \/ Finish(r)
      PROVE  OrdersKept
  BY <1>2 DEF Fill, Check, Reload, Admit, Refuse, AcquireFails, Finish, OrdersKept
<1>3. ASSUME NEW s \in Servers, Crash(s) PROVE OrdersKept
  BY <1>3 DEF Crash, OrdersKept
<1>4. ASSUME NEW e \in Editors, NEW s \in Servers, NEW change \in Changes,
             Update(e, s, change)
      PROVE  OrdersKept
  <2>1. /\ row' = [row EXCEPT ![change.column] = change.value]
        /\ orders' = orders /\ Allowed(change)
    BY <1>4 DEF Update
  <2>2. /\ row'.used = row.used
        /\ change.column # "quota" => row'.quota = row.quota
        /\ change.column = "quota" => row'.quota = change.value
    BY <2>1, UpdateWrites DEF Types
  <2>3. QED
    BY <2>1, <2>2 DEF Allowed, OrdersKept
<1>5. ASSUME NEW e \in Editors, NEW s \in Servers, Delete(e, s) PROVE OrdersKept
  BY <1>5 DEF Delete, OrdersKept, Types, RowTypes, Rows
<1>6. ASSUME NEW e \in Editors, UpdateCopy(e) \/ Invalidate(e) PROVE OrdersKept
  BY <1>6 DEF UpdateCopy, Invalidate, OrdersKept
<1>7. Tick \/ UNCHANGED vars => OrdersKept
  BY DEF Tick, vars, OrdersKept
<1>8. QED
  BY <1>1, <1>2, <1>3, <1>4, <1>5, <1>6, <1>7, Zenon DEF Next

LEMMA StepSpent ==
  ASSUME Types, PointInv, [Next]_vars
  PROVE  OrderTypes' /\ PointInv'
<1>1. OrderTypes /\ row \in Rows /\ row.used = Cardinality(Charged) /\ IsFiniteSet(Charged)
  BY DEF Types, RowTypes, PointInv, QuotaTrue, Charged
<1>2. CASE OrdersKept
  <2>1. Charged' = Charged /\ OrderTypes' /\ row'.used = row.used
    BY <1>1, <1>2 DEF OrdersKept, Charged, OrderTypes
  <2>2. row'.quota = Never \/ row'.used <= row'.quota
    BY <1>2, <2>1 DEF OrdersKept, PointInv, QuotaTrue
  <2>3. QED
    BY <1>1, <2>1, <2>2 DEF PointInv, QuotaTrue, Charged
<1>3. ASSUME NEW r \in Requests, Charge(r) PROVE OrderTypes' /\ PointInv'
  <2>1. /\ orders[r] = "none" /\ orders' = [orders EXCEPT ![r] = "charged"]
        /\ row' = [row EXCEPT !.used = @ + 1] /\ WithinQuota(row)
    BY <1>3 DEF Charge
  <2>2. Charged' = Charged \cup {r} /\ r \notin Charged /\ OrderTypes'
    BY <1>1, <2>1 DEF Charged, OrderTypes
  <2>3. IsFiniteSet(Charged') /\ Cardinality(Charged') = Cardinality(Charged) + 1
    BY <1>1, <2>2, FS_AddElement
  <2>4. row'.used = row.used + 1 /\ row'.quota = row.quota
    BY <1>1, <2>1 DEF Rows
  <2>5. row'.quota = Never \/ row'.used <= row'.quota
    BY <2>1, <2>4 DEF WithinQuota
  <2>6. QED
    BY <1>1, <2>2, <2>3, <2>4, <2>5 DEF PointInv, QuotaTrue, Charged
<1>4. ASSUME NEW r \in Requests, Refund(r) PROVE OrderTypes' /\ PointInv'
  <2>1. /\ orders[r] = "charged" /\ orders' = [orders EXCEPT ![r] = "refunded"]
        /\ row' = [row EXCEPT !.used = IF @ > 0 THEN @ - 1 ELSE 0]
    BY <1>4 DEF Refund
  <2>2. Charged' = Charged \ {r} /\ r \in Charged /\ OrderTypes'
    BY <1>1, <2>1 DEF Charged, OrderTypes
  <2>3. /\ IsFiniteSet(Charged') /\ Cardinality(Charged') = Cardinality(Charged) - 1
        /\ Cardinality(Charged') \in Nat
    BY <1>1, <2>2, FS_RemoveElement, FS_CardinalityType
  <2>4. row'.used = row.used - 1 /\ row'.quota = row.quota
    BY <1>1, <2>1, <2>3 DEF Rows
  <2>5. row'.quota = Never \/ row'.used <= row'.quota
    BY <1>1, <2>4 DEF PointInv, QuotaTrue, Rows
  <2>6. QED
    BY <1>1, <2>2, <2>3, <2>4, <2>5 DEF PointInv, QuotaTrue, Charged
<1>5. QED
  BY <1>2, <1>3, <1>4, StepOrders DEF Types

----------------------------------------------------------------------------
(* The inductive invariant, and the theorems *)

ApiKeysInv == KeyInv /\ SlotInv /\ PointInv

LEMMA InitInv == Init => ApiKeysInv
<1> SUFFICES ASSUME Init
             PROVE  ApiKeysInv
  OBVIOUS
<1>1. Types /\ CopiesLoaded /\ CopiesNamed
  BY InitTypes
<1>2. \A r \in Requests : request[r].pc = "idle" /\ orders[r] = "none"
  BY DEF Init, Idle
<1>3. RowInv
  BY CreatedType DEF Init, RowInv
<1>4. Timely
  <2>1. \A r \in Requests : RequestTimely(r)
    BY <1>2 DEF RequestTimely, Points
  <2>2. \A e \in Editors : EditTimely(e)
    BY DEF Init, Idle, EditTimely
  <2>3. \A c \in Requests : ~InUse(c)
    BY <1>2 DEF Init, InUse, Points
  <2>4. QED
    BY <2>1, <2>2, <2>3 DEF Timely, CopyTimely
<1>5. Holding = {} /\ Charged = {}
  BY <1>2 DEF Holding, Charged
<1>6. SlotInv
  BY <1>5 DEF SlotInv, SlotHeld, SlotsWithin
<1>7. PointInv
  <2>1. row.used = 0 /\ row.quota \in Nat \cup {Never}
    BY CreatedType DEF Init, Rows
  <2>2. QED
    BY <1>5, <2>1, FS_EmptySet DEF PointInv, QuotaTrue, Charged
<1>8. QED
  BY <1>1, <1>3, <1>4, <1>6, <1>7 DEF ApiKeysInv, KeyInv

LEMMA StepInv == ApiKeysInv /\ [Next]_vars => ApiKeysInv'
<1> SUFFICES ASSUME ApiKeysInv, [Next]_vars
             PROVE  ApiKeysInv'
  OBVIOUS
<1>1. KeyInv /\ SlotInv /\ PointInv /\ Types /\ RowInv /\ CopiesLoaded /\ CopiesNamed
  BY DEF ApiKeysInv, KeyInv
<1>2. RowTypes' /\ RowInv'
  BY <1>1, StepRow DEF Types
<1>3. CacheTypes' /\ RequestTypes' /\ SlotTypes'
  BY <1>1, StepCacheTypes, StepRequestTypes, StepSlotTypes
<1>4. OrderTypes' /\ PointInv'
  BY <1>1, StepSpent
<1>5. CopiesLoaded' /\ CopiesNamed'
  BY <1>1, StepLoaded, StepNamed
<1>6. Timely'
  BY <1>1, StepRequestTimely, StepEditTimely, StepCopyTimely DEF Timely
<1>7. SlotInv'
  BY <1>1, StepSlotHeld, StepSlotsWithin DEF SlotInv
<1>8. QED
  BY <1>2, <1>3, <1>4, <1>5, <1>6, <1>7 DEF ApiKeysInv, KeyInv, Types

LEMMA Invariant == Spec => []ApiKeysInv
  BY InitInv, StepInv, PTL DEF Spec

\* The key, its copies and the requests are what they may be.
THEOREM ApiKeysTypeCorrect == Spec => []TypeOK
<1>1. ApiKeysInv => TypeOK
  <2> SUFFICES ASSUME ApiKeysInv
               PROVE  TypeOK
    OBVIOUS
  <2>1. Types
    BY DEF ApiKeysInv, KeyInv
  <2>2. \A r \in Requests : request[r].pc \in
          {"idle", "fill", "found", "reload", "gate", "running", "over"}
    BY <2>1, RequestFields DEF Types
  <2>3. QED
    BY <2>1, <2>2 DEF Types, RowTypes, Rows, CacheTypes, SlotTypes, TypeOK
<1>2. QED
  BY <1>1, Invariant, PTL

\* The points spent with a key are those of its charged orders, and within its
\* quota (applyWalletTransaction and UpdateAPIKey).
THEOREM QuotaTrueCorrect == Spec => []QuotaTrue
<1>1. ApiKeysInv => QuotaTrue
  BY DEF ApiKeysInv, PointInv
<1>2. QED
  BY <1>1, Invariant, PTL

\* Requests in time hold their slots, and are within the limit that one of
\* them was let in under (concurrency_gate.go).
THEOREM SlotsKeptCorrect == Spec => []SlotsKept
<1>1. ApiKeysInv => SlotsKept
  <2> SUFFICES ASSUME ApiKeysInv
               PROVE  SlotsKept
    OBVIOUS
  <2>1. Holding \subseteq DOMAIN leases
    BY DEF ApiKeysInv, SlotInv, SlotHeld
  <2>2. Holding # {} => \E r \in Holding : Cardinality(Holding) <= request[r].limit
    BY DEF ApiKeysInv, SlotInv, SlotsWithin
  <2>3. QED
    BY <2>1, <2>2 DEF SlotsKept
<1>2. QED
  BY <1>1, Invariant, PTL

\* A key that is disabled, deleted or past its expiry lets nobody in for longer
\* than a copy lives and loads, whatever server changed it (keycache.go).
THEOREM ClosedWithinTTLCorrect == Spec => ClosedWithinTTL
<1> DEFINE Let(r) == request[r].pc = "gate" /\ request'[r].pc = "running" =>
                       InTime(request[r].now)
           Lets == \A r \in Requests : Let(r)
<1>1. ApiKeysInv /\ [Next]_vars => [Lets]_vars
  BY DEF ApiKeysInv, KeyInv, Timely, RequestTimely
<1>2. Lets => \A r \in Requests :
        request[r].pc = "gate" /\ request'[r].pc = "running" =>
          LET since(change) == request[r].now < change + MetaTTL + Lag IN
          /\ offSince = Never \/ since(offSince)
          /\ \/ NotExpired(row.expireAt, request[r].now)
             \/ expirySet # Never /\ since(expirySet)
  BY DEF InTime
<1> HIDE DEF Lets
<1>3. QED
  BY <1>1, <1>2, Invariant, PTL DEF Spec, ClosedWithinTTL

\* No points are spent with a key that is disabled, deleted or has expired
\* (billing/infra/repo.go against keycache.go).
THEOREM SpendsWhileOpenCorrect == Spec => SpendsWhileOpen
<1> DEFINE Spend(r) == orders[r] = "none" /\ orders'[r] = "charged" =>
                         offSince = Never /\ NotExpired(row.expireAt, clock)
           Spends == \A r \in Requests : Spend(r)
<1>1. ApiKeysInv /\ [Next]_vars => [Spends]_vars
  <2> SUFFICES ASSUME ApiKeysInv, [Next]_vars, NEW r \in Requests,
                      orders[r] = "none", orders'[r] = "charged"
               PROVE  offSince = Never /\ NotExpired(row.expireAt, clock)
    OBVIOUS
  <2>1. Types /\ RowInv /\ OrderTypes
    BY DEF ApiKeysInv, KeyInv, Types
  <2>2. ~OrdersKept
    BY DEF OrdersKept
  <2>3. PICK q \in Requests : Charge(q) \/ Refund(q)
    BY <2>1, <2>2, StepOrders
  <2>4. ~Refund(q)
    BY <2>1 DEF Refund, OrderTypes
  <2>5. QED
    BY <2>1, <2>3, <2>4 DEF Charge, Spendable, Open, RowInv
<1>2. QED
  BY <1>1, Invariant, PTL DEF Spec, SpendsWhileOpen

=============================================================================
