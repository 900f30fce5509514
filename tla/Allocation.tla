------------------------------ MODULE Allocation ------------------------------
(***************************************************************************)
(* Allocating the mailboxes of domains to orders, against the commands of  *)
(* administrators and owners that change the domains meanwhile.            *)
(*                                                                         *)
(* src/internal/alloc: app/allocation.go (Allocate, the domain family,     *)
(* release), infra/repo.go (candidates, locks, guards, daily usage);       *)
(* src/internal/core: app/admin_domain.go and infra/resource_repo.go (the  *)
(* commands, which lock the same root row of a domain).                    *)
(*                                                                         *)
(* An address is a domain and a local part. The row of a mailbox is an     *)
(* address and the era of its domain: restoring a deleted domain retires   *)
(* its rows and starts an era, so a row is live while its era is its       *)
(* domain's.                                                               *)
(***************************************************************************)
EXTENDS Integers, FiniteSets, Sequences

CONSTANTS Orders, Workers, Domains, Locals, Users,
          Project,      \* the project of an order
          Buyer,        \* the user of an order
          ScopesOf,     \* the supply scopes of an order, in turn
          FirstOwner,   \* the owner of a domain at first
          FirstPurpose, \* the purpose of a domain at first
          DailyLimit,   \* mailbox_daily_limit of a domain
          Managed,      \* bound on the domains that commands change
          MaxDays,      \* bound on the days that pass
          MaxEvents     \* bound on the commands and the days together

Scopes == {"owned", "public"}
Purposes == {"not_sale", "sale"}

ASSUME ConstantsAssumption ==
  /\ Buyer \in [Orders -> Users]
  /\ ScopesOf \in [Orders -> {<<"owned", "public">>, <<"owned">>, <<"public">>}]
  /\ FirstOwner \in [Domains -> Users]
  /\ FirstPurpose \in [Domains -> Purposes]
  /\ DailyLimit \in [Domains -> Nat]
  /\ Managed \subseteq Domains
  /\ {MaxDays, MaxEvents} \subseteq Nat

VARIABLES
  domain,      \* domain_resources with their root rows
  mailboxes,   \* generated_mailboxes
  allocations, \* domain_allocations: the row of each order, with the day it was charged to
  usage,       \* allocation_daily_usages of each domain and day
  task,        \* the calls of Allocate, each one a transaction
  restore,     \* the domain createDomainTx works on; system_guard admits one
  dropped,     \* history: orders whose domain its owner deleted while they were served
  today,
  events

vars == <<domain, mailboxes, allocations, usage, task, restore, dropped, today, events>>

Days == 0..MaxDays
Mailboxes == [at : Domains, local : Locals, era : 0..MaxEvents]
NoRow == [status |-> "none"]
Idle == [pc |-> "idle"]

TypeOK ==
  /\ domain \in [Domains -> [status : {"normal", "off", "deleted"}, purpose : Purposes,
                             owner : Users, era : 0..MaxEvents]]
  /\ mailboxes \subseteq Mailboxes
  /\ allocations \in [Orders -> {NoRow} \cup
                       [status : {"allocated", "released"}, mailbox : Mailboxes,
                        owner : Users, date : Days]]
  /\ usage \in [Domains \X Days -> Nat]
  /\ restore \subseteq Domains
  /\ dropped \subseteq Orders
  /\ today \in Days /\ events \in 0..MaxEvents

-----------------------------------------------------------------------------
(* What the rows say                                                       *)

Live(m) == m \in mailboxes /\ m.era = domain[m.at].era
RowsOf(d) == {o \in Orders : allocations[o] # NoRow /\ allocations[o].mailbox.at = d}
Served(d) == {o \in RowsOf(d) : allocations[o].status = "allocated"}

\* A project's history is kept by address. Faulty form: by the row of the mailbox, which a
\* restored domain replaces.
HistoricByRow(p, m) ==
  \E o \in Orders : Project[o] = p /\ allocations[o] # NoRow /\ allocations[o].mailbox = m
Historic(p, m) ==
  \E o \in Orders :
    /\ Project[o] = p /\ allocations[o] # NoRow
    /\ allocations[o].mailbox.at = m.at /\ allocations[o].mailbox.local = m.local

Reusable(p) == {m \in mailboxes : Live(m) /\ ~Historic(p, m)}

\* A domain the scope of an order's buyer may be served from.
Eligible(d, scope, buyer) ==
  /\ domain[d].status = "normal"
  /\ IF scope = "owned" THEN domain[d].purpose = "not_sale" /\ domain[d].owner = buyer
                        ELSE domain[d].purpose = "sale"

\* Faulty form: counts the last mailbox twice.
HasRoomForOneMore(d, day, limit) == usage[<<d, day>>] <= limit
HasRoom(d, day, limit) == usage[<<d, day>>] < limit

\* The root row of a domain is locked by the task that tried it until its transaction ends.
\* Faulty form: the command does not take the root's lock.
RootUnlocked(d) == TRUE
RootFree(d) == \A w \in Workers : task[w] # Idle => d \notin task[w].roots

-----------------------------------------------------------------------------
(* Allocate                                                                *)

\* The candidates a phase lists, from what is committed at that time: mailboxes to be used
\* again, then domains to make one in.
Candidates(o, scope, phase) ==
  IF phase = "reuse"
  THEN {m \in Reusable(Project[o]) : Eligible(m.at, scope, Buyer[o])}
  ELSE {[at |-> d] : d \in {d \in Domains : Eligible(d, scope, Buyer[o])}}

Listing(o, scopes, phase, roots, busy) ==
  [pc |-> "trying", order |-> o, scopes |-> scopes, phase |-> phase, date |-> today,
   todo |-> Candidates(o, Head(scopes), phase), roots |-> roots, busy |-> busy]

Begin(w, o) ==
  /\ task[w] = Idle /\ allocations[o] = NoRow
  /\ task' = [task EXCEPT ![w] = Listing(o, ScopesOf[o], "reuse", {}, FALSE)]
  /\ UNCHANGED <<domain, mailboxes, allocations, usage, restore, dropped, today, events>>

\* The mailboxes a candidate may lead to under its root's lock. In the second phase a mailbox
\* made meanwhile comes first, then any address the project never had.
Choices(o, c, phase) ==
  LET again == {m \in Reusable(Project[o]) : m.at = c.at}
      new   == {m \in [at : {c.at}, local : Locals, era : {domain[c.at].era}] :
                  ~Historic(Project[o], m)}
  IN CASE phase = "reuse" -> again \cap {c}
       [] again # {}      -> again
       [] OTHER           -> new

\* The second phase tries one local part after the other and leaves the rows it made for those
\* the project had before.
Tried(o, c, m) ==
  {x \in [at : {c.at}, local : Locals, era : {domain[c.at].era}] :
     x = m \/ Historic(Project[o], x)}

MayTake(t, c) ==
  /\ Eligible(c.at, Head(t.scopes), Buyer[t.order])
  /\ HasRoom(c.at, t.date, DailyLimit[c.at])

\* The first root is waited for, a later one is skipped while another holds it.
Skip(w, c) ==
  /\ task[w].pc = "trying" /\ c \in task[w].todo
  /\ ~RootFree(c.at) /\ c.at \notin task[w].roots /\ task[w].roots # {}
  /\ task' = [task EXCEPT ![w].todo = @ \ {c}, ![w].busy = TRUE]
  /\ UNCHANGED <<domain, mailboxes, allocations, usage, restore, dropped, today, events>>

Locked(w, c) ==
  /\ task[w].pc = "trying" /\ c \in task[w].todo
  /\ c.at \in task[w].roots \/ RootFree(c.at)

\* The candidate fails its recheck; its root stays locked.
Unavailable(w, c) ==
  /\ Locked(w, c)
  /\ MayTake(task[w], c) => Choices(task[w].order, c, task[w].phase) = {}
  /\ task' = [task EXCEPT ![w].todo = @ \ {c}, ![w].roots = @ \cup {c.at}]
  /\ UNCHANGED <<domain, mailboxes, allocations, usage, restore, dropped, today, events>>

\* The guard of the order: a row that another call has inserted is waited for.
GuardFree(w, o) ==
  \A v \in Workers \ {w} : task[v].pc = "written" => task[v].order # o

Write(w, c) ==
  /\ Locked(w, c) /\ MayTake(task[w], c)
  /\ GuardFree(w, task[w].order) /\ allocations[task[w].order] = NoRow
  /\ \E m \in Choices(task[w].order, c, task[w].phase) :
       task' = [task EXCEPT ![w] =
                 [pc |-> "written", order |-> @.order, roots |-> @.roots \cup {c.at},
                  made |-> IF m \in mailboxes THEN {m} ELSE Tried(@.order, c, m),
                  row |-> [status |-> "allocated", mailbox |-> m,
                           owner |-> domain[c.at].owner, date |-> @.date]]]
  /\ UNCHANGED <<domain, mailboxes, allocations, usage, restore, dropped, today, events>>

\* Another call of the same order has committed its guard: a conflict, which rolls back.
Conflict(w) ==
  /\ task[w].pc = "trying" /\ allocations[task[w].order] # NoRow
  /\ task' = [task EXCEPT ![w] = Idle]
  /\ UNCHANGED <<domain, mailboxes, allocations, usage, restore, dropped, today, events>>

Commit(w) ==
  /\ task[w].pc = "written"
  /\ LET r == task[w].row IN
       /\ allocations' = [allocations EXCEPT ![task[w].order] = r]
       /\ usage' = [usage EXCEPT ![<<r.mailbox.at, r.date>>] = @ + 1]
  /\ mailboxes' = mailboxes \cup task[w].made
  /\ task' = [task EXCEPT ![w] = Idle]
  /\ UNCHANGED <<domain, restore, dropped, today, events>>

\* After the mailboxes the domains, after the domains the next scope; a candidate skipped
\* meanwhile makes the call a conflict instead of an exhausted inventory.
NextList(w) ==
  /\ task[w].pc = "trying" /\ task[w].todo = {}
  /\ task' = [task EXCEPT ![w] =
       CASE @.phase = "reuse" -> Listing(@.order, @.scopes, "generate", @.roots, @.busy)
         [] @.phase = "generate" /\ ~@.busy /\ Len(@.scopes) > 1 ->
              Listing(@.order, Tail(@.scopes), "reuse", @.roots, FALSE)
         [] OTHER -> Idle]
  /\ UNCHANGED <<domain, mailboxes, allocations, usage, restore, dropped, today, events>>

\* An error, a lost lock or a crash rolls the transaction back.
RollBack(w) ==
  /\ task[w] # Idle
  /\ task' = [task EXCEPT ![w] = Idle]
  /\ UNCHANGED <<domain, mailboxes, allocations, usage, restore, dropped, today, events>>

ReleaseByOrder(o) ==
  /\ allocations[o] # NoRow /\ allocations[o].status = "allocated"
  /\ allocations' = [allocations EXCEPT ![o].status = "released"]
  /\ UNCHANGED <<domain, mailboxes, usage, task, restore, dropped, today, events>>

-----------------------------------------------------------------------------
(* The commands on a domain, each a transaction under the lock of its root *)

Command(d) ==
  /\ events < MaxEvents /\ events' = events + 1
  /\ RootFree(d)
  /\ UNCHANGED <<allocations, usage, task, today>>

\* An administrator or the validation enables, disables or condemns the domain.
SetStatus(d, status) ==
  /\ Command(d)
  /\ domain[d].status \notin {"deleted", status}
  /\ domain' = [domain EXCEPT ![d].status = status]
  /\ UNCHANGED <<mailboxes, restore, dropped>>

\* Publish and Unpublish do not look at the allocations.
SetPurpose(d, purpose) ==
  /\ Command(d)
  /\ domain[d].status # "deleted" /\ domain[d].purpose # purpose
  /\ domain' = [domain EXCEPT ![d].purpose = purpose]
  /\ UNCHANGED <<mailboxes, restore, dropped>>

Transfer(d, u) ==
  /\ Command(d)
  /\ domain[d].status # "deleted" /\ domain[d].owner # u
  /\ Served(d) = {}
  /\ domain' = [domain EXCEPT ![d].owner = u]
  /\ UNCHANGED <<mailboxes, restore, dropped>>

AdminDelete(d) ==
  /\ Command(d)
  /\ domain[d].status # "deleted"
  /\ Served(d) = {}
  /\ domain' = [domain EXCEPT ![d].status = "deleted", ![d].purpose = "not_sale"]
  /\ UNCHANGED <<mailboxes, restore, dropped>>

\* The owner deletes a private domain whatever it serves.
PrivateDelete(d) ==
  /\ Command(d)
  /\ domain[d].status # "deleted" /\ domain[d].purpose = "not_sale"
  /\ domain' = [domain EXCEPT ![d].status = "deleted"]
  /\ dropped' = dropped \cup Served(d)
  /\ UNCHANGED <<mailboxes, restore>>

RecoverAdmin(d) ==
  /\ Command(d)
  /\ domain[d].status = "deleted"
  /\ domain' = [domain EXCEPT ![d].status = "off", ![d].purpose = "not_sale"]
  /\ UNCHANGED <<mailboxes, restore, dropped>>

\* Creating a domain that exists restores it. The transaction is at REPEATABLE READ: it counts
\* the allocations in the snapshot of its first plain read, before it waits for the root. One
\* that counts any ends without effect.
BeginRestore(d) ==
  /\ restore = {} /\ events < MaxEvents
  /\ Served(d) = {}
  /\ restore' = {d}
  /\ UNCHANGED <<domain, mailboxes, allocations, usage, task, dropped, today, events>>

\* Rows no order refers to are deleted, the others retire with the era.
Restore(d, u, purpose) ==
  /\ d \in restore
  /\ Command(d)
  /\ domain[d].status = "deleted"
  /\ domain' = [domain EXCEPT ![d] = [status |-> "off", purpose |-> purpose,
                                      owner |-> u, era |-> @.era + 1]]
  /\ mailboxes' = {m \in mailboxes :
                     m.at = d => \E o \in RowsOf(d) : allocations[o].mailbox = m}
  /\ restore' = {}
  /\ UNCHANGED dropped

\* The domain was not deleted, or the transaction fails.
RestoreFails ==
  /\ restore # {}
  /\ restore' = {}
  /\ UNCHANGED <<domain, mailboxes, allocations, usage, task, dropped, today, events>>

NewDay ==
  /\ today < MaxDays /\ events < MaxEvents
  /\ events' = events + 1
  /\ today' = today + 1
  /\ UNCHANGED <<domain, mailboxes, allocations, usage, task, restore, dropped>>

-----------------------------------------------------------------------------

Init ==
  /\ domain = [d \in Domains |-> [status |-> "normal", purpose |-> FirstPurpose[d],
                                  owner |-> FirstOwner[d], era |-> 0]]
  /\ mailboxes = {} /\ allocations = [o \in Orders |-> NoRow]
  /\ usage = [x \in Domains \X Days |-> 0]
  /\ task = [w \in Workers |-> Idle] /\ restore = {}
  /\ dropped = {} /\ today = 0 /\ events = 0

AllocateStep(w) ==
  \/ \E o \in Orders : Begin(w, o)
  \/ task[w].pc = "trying" /\ \E c \in task[w].todo : Skip(w, c) \/ Unavailable(w, c) \/ Write(w, c)
  \/ Conflict(w) \/ NextList(w) \/ Commit(w) \/ RollBack(w)

CommandStep(d) ==
  \/ \E status \in {"normal", "off"} : SetStatus(d, status)
  \/ \E purpose \in Purposes : SetPurpose(d, purpose)
  \/ \E u \in Users : Transfer(d, u)
  \/ AdminDelete(d) \/ PrivateDelete(d) \/ RecoverAdmin(d) \/ BeginRestore(d)
  \/ \E u \in Users, purpose \in Purposes : Restore(d, u, purpose)

Next ==
  \/ \E w \in Workers : AllocateStep(w)
  \/ \E o \in Orders : ReleaseByOrder(o)
  \/ \E d \in Managed : CommandStep(d)
  \/ RestoreFails \/ NewDay

Spec == Init /\ [][Next]_vars

-----------------------------------------------------------------------------
(* Properties                                                              *)

\* The usage of a day counts the allocations charged to it and stays within the limit, although
\* the limit is read before the allocation is written and midnight may pass in between
\* (EnsureDailyUsageAvailable, ConsumeDailyUsage).
UsageCounts ==
  \A d \in Domains, day \in Days :
    /\ usage[<<d, day>>] = Cardinality({o \in RowsOf(d) : allocations[o].date = day})
    /\ usage[<<d, day>>] <= DailyLimit[d]

\* An order is served from a mailbox that exists and is live in a domain that is not deleted and
\* has the owner the order was allocated from, whatever commands run meanwhile; the owner's own
\* deletion of a private domain is the exception (the root lock shared by LockResourceRoot and
\* the commands of core).
ServedAddressKept ==
  \A d \in Domains : \A o \in Served(d) :
    LET row == allocations[o] IN
      /\ row.mailbox \in mailboxes
      /\ o \in dropped \/ (/\ Live(row.mailbox) /\ domain[d].owner = row.owner
                           /\ domain[d].status # "deleted")

Contract == INSTANCE AllocationContract WITH
  Addresses <- Domains \X Locals,
  given <- [o \in Orders |-> IF allocations[o] = NoRow THEN {}
              ELSE {<<allocations[o].mailbox.at, allocations[o].mailbox.local>>}],
  ended <- {o \in Orders : allocations[o] # NoRow /\ allocations[o].status = "released"}

\* Two orders of one project never get the same address, not one after the other, not from
\* candidates listed at the same time, not through a restored domain; an allocation is made once
\* for an order and only ends (Historic under the root lock, the order guard).
ImplementsContract == Contract!Spec
===============================================================================
