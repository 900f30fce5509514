-------------------------- MODULE AllocationProofs --------------------------
(***************************************************************************)
(* Theorems about Allocation, for every set of orders, calls, domains and  *)
(* local parts, also infinite ones, every limit and every bound: what a    *)
(* day's usage counts is finite because allocations are made one at a      *)
(* time.                                                                   *)
(***************************************************************************)
EXTENDS Allocation, FiniteSetTheorems, TLAPS

USE ConstantsAssumption

Candidate == Mailboxes \cup [at : Domains]

Rows == [status : {"allocated", "released"}, mailbox : Mailboxes,
         owner : Users, date : Days]

Trying == [pc : {"trying"}, order : Orders, scopes : Seq(Scopes),
           phase : {"reuse", "generate"}, date : Days, todo : SUBSET Candidate,
           roots : SUBSET Domains, busy : BOOLEAN]

Written == [pc : {"written"}, order : Orders, roots : SUBSET Domains,
            made : SUBSET Mailboxes, row : Rows]

DomainRows == [status : {"normal", "off", "deleted"}, purpose : Purposes,
               owner : Users, era : 0..MaxEvents]

TaskTypes == task \in [Workers -> {Idle} \cup Trying \cup Written]

\* Every restoration is one of the bounded events.
ErasBounded == \A d \in Domains : domain[d].era <= events

Types == TypeOK /\ TaskTypes /\ ErasBounded

LEMMA TaskFields ==
  ASSUME TaskTypes, NEW w \in Workers
  PROVE  LET t == task[w] IN
         /\ t.pc \in {"idle", "trying", "written"}
         /\ t = Idle <=> t.pc = "idle"
         /\ t # Idle => t.order \in Orders /\ t.roots \in SUBSET Domains
         /\ t.pc = "trying" =>
              /\ t \in Trying /\ t.date \in Days /\ t.todo \in SUBSET Candidate
              /\ t.scopes \in Seq(Scopes)
         /\ t.pc = "written" =>
              /\ t \in Written /\ t.made \in SUBSET Mailboxes /\ t.row \in Rows
  BY DEF TaskTypes, Trying, Written, Idle

LEMMA RowFields ==
  ASSUME TypeOK, NEW o \in Orders
  PROVE  /\ allocations[o] = NoRow <=> allocations[o].status = "none"
         /\ allocations[o] # NoRow => allocations[o] \in Rows
  BY DEF TypeOK, NoRow, Rows

LEMMA DomainFields ==
  ASSUME TypeOK
  PROVE  domain \in [Domains -> DomainRows]
  BY DEF TypeOK, DomainRows

LEMMA CandidateFields ==
  ASSUME NEW c \in Candidate
  PROVE  c.at \in Domains
  BY DEF Candidate, Mailboxes

----------------------------------------------------------------------------
(* The kinds of steps *)

\* A call works in its transaction, or the surroundings move.
Aside == UNCHANGED <<domain, mailboxes, allocations, usage, dropped>>

\* A command changes a domain whose root is free.
Commanded(d) ==
  /\ Command(d)
  /\ \/ \E status \in {"normal", "off"} : SetStatus(d, status)
     \/ \E purpose \in Purposes : SetPurpose(d, purpose)
     \/ \E u \in Users : Transfer(d, u)
     \/ AdminDelete(d) \/ PrivateDelete(d) \/ RecoverAdmin(d)
     \/ \E u \in Users, purpose \in Purposes : Restore(d, u, purpose)

LEMMA StepKinds ==
  ASSUME [Next]_vars
  PROVE  \/ Aside
         \/ \E w \in Workers : Commit(w)
         \/ \E o \in Orders : ReleaseByOrder(o)
         \/ \E d \in Domains : Commanded(d)
<1>1. ASSUME NEW w \in Workers, NEW o \in Orders, Begin(w, o) PROVE Aside
  BY <1>1 DEF Begin, Aside
<1>2. ASSUME NEW w \in Workers, NEW c, Skip(w, c) \/ Unavailable(w, c) \/ Write(w, c)
      PROVE  Aside
  BY <1>2 DEF Skip, Unavailable, Write, Aside
<1>3. ASSUME NEW w \in Workers, Conflict(w) \/ NextList(w) \/ RollBack(w) PROVE Aside
  BY <1>3 DEF Conflict, NextList, RollBack, Aside
<1>4. ASSUME NEW d \in Managed, CommandStep(d), ~BeginRestore(d) PROVE Commanded(d)
  BY <1>4, Zenon DEF CommandStep, Commanded, SetStatus, SetPurpose, Transfer, AdminDelete,
     PrivateDelete, RecoverAdmin, Restore
<1>5. ASSUME NEW d \in Managed, BeginRestore(d) PROVE Aside
  BY <1>5 DEF BeginRestore, Aside
<1>6. RestoreFails \/ NewDay \/ UNCHANGED vars => Aside
  BY DEF RestoreFails, NewDay, vars, Aside
<1>7. QED
  BY <1>1, <1>2, <1>3, <1>4, <1>5, <1>6 DEF Next, AllocateStep

----------------------------------------------------------------------------
(* Types *)

LEMMA InitTypes == Init => Types
<1> SUFFICES ASSUME Init
             PROVE  Types
  OBVIOUS
<1>1. 0 \in 0..MaxEvents /\ 0 \in Days
  BY DEF Days
<1>2. TypeOK
  BY <1>1 DEF Init, TypeOK, Purposes
<1>3. QED
  BY <1>2 DEF Init, Types, TaskTypes, ErasBounded

LEMMA ListingType ==
  ASSUME TypeOK, NEW o \in Orders, NEW scopes \in Seq(Scopes),
         NEW phase \in {"reuse", "generate"}, NEW roots \in SUBSET Domains,
         NEW busy \in BOOLEAN
  PROVE  Listing(o, scopes, phase, roots, busy) \in Trying
<1>1. Candidates(o, Head(scopes), phase) \in SUBSET Candidate
  BY DEF Candidates, Candidate, Reusable, TypeOK
<1>2. QED
  BY <1>1 DEF Listing, Trying, TypeOK

\* What may be chosen is a live address that the project never had.
LEMMA ChoiceFields ==
  ASSUME TypeOK, NEW o \in Orders, NEW c, c.at \in Domains, NEW phase,
         NEW m \in Choices(o, c, phase)
  PROVE  /\ m \in Mailboxes /\ m.at = c.at /\ m.era = domain[c.at].era
         /\ ~Historic(Project[o], m)
         /\ m \notin mailboxes => m \in [at : {c.at}, local : Locals, era : {domain[c.at].era}]
<1>1. domain[c.at].era \in 0..MaxEvents
  BY DomainFields DEF DomainRows
<1>2. ASSUME m \in Reusable(Project[o]), m.at = c.at
      PROVE  /\ m \in Mailboxes /\ m.era = domain[c.at].era
             /\ ~Historic(Project[o], m) /\ m \in mailboxes
  BY <1>2 DEF Reusable, Live, TypeOK
<1>3. ASSUME m \in [at : {c.at}, local : Locals, era : {domain[c.at].era}]
      PROVE  m \in Mailboxes /\ m.at = c.at /\ m.era = domain[c.at].era
  BY <1>1, <1>3 DEF Mailboxes
<1>4. \/ m \in Reusable(Project[o]) /\ m.at = c.at
      \/ /\ m \in [at : {c.at}, local : Locals, era : {domain[c.at].era}]
         /\ ~Historic(Project[o], m)
  BY DEF Choices
<1>5. QED
  BY <1>2, <1>3, <1>4

LEMMA TriedType ==
  ASSUME TypeOK, NEW o, NEW c, c.at \in Domains, NEW m
  PROVE  Tried(o, c, m) \in SUBSET Mailboxes
<1>1. domain[c.at].era \in 0..MaxEvents
  BY DomainFields DEF DomainRows
<1>2. QED
  BY <1>1 DEF Tried, Mailboxes

\* The call of a worker takes one step at most.
Works(w) == \E t \in {Idle} \cup Trying \cup Written : task' = [task EXCEPT ![w] = t]

LEMMA BeginWorks ==
  ASSUME Types, NEW w \in Workers, NEW o \in Orders, Begin(w, o)
  PROVE  Works(w)
<1>1. ScopesOf[o] \in Seq(Scopes)
  <2>1. /\ <<"owned", "public">> \in Seq(Scopes)
        /\ <<"owned">> \in Seq(Scopes) /\ <<"public">> \in Seq(Scopes)
    BY DEF Scopes
  <2>2. ScopesOf[o] \in {<<"owned", "public">>, <<"owned">>, <<"public">>}
    OBVIOUS
  <2>3. QED
    BY <2>1, <2>2
<1>2. QED
  BY <1>1, ListingType DEF Begin, Works, Types

LEMMA CandidateWorks ==
  ASSUME Types, NEW w \in Workers, NEW c, Skip(w, c) \/ Unavailable(w, c)
  PROVE  Works(w)
<1>1. /\ task[w] \in Trying /\ c \in task[w].todo /\ task[w].todo \in SUBSET Candidate
      /\ task[w].roots \in SUBSET Domains
  BY TaskFields DEF Skip, Unavailable, Locked, Types, Idle
<1>2. c.at \in Domains
  BY <1>1, CandidateFields
<1>3. PICK todo \in SUBSET Candidate, roots \in SUBSET Domains, busy \in BOOLEAN :
        task' = [task EXCEPT ![w] = [task[w] EXCEPT !.todo = todo, !.roots = roots, !.busy = busy]]
  <2>1. CASE Skip(w, c)
    <3>1. task[w].todo \ {c} \in SUBSET Candidate
      BY <1>1
    <3>2. task' = [task EXCEPT ![w] = [task[w] EXCEPT !.todo = task[w].todo \ {c},
                                         !.roots = task[w].roots, !.busy = TRUE]]
      BY <1>1, <2>1 DEF Skip, Trying, Types, TaskTypes
    <3>3. QED
      BY <1>1, <3>1, <3>2
  <2>2. CASE Unavailable(w, c)
    <3>1. task[w].todo \ {c} \in SUBSET Candidate /\ task[w].roots \cup {c.at} \in SUBSET Domains
      BY <1>1, <1>2
    <3>2. task' = [task EXCEPT ![w] = [task[w] EXCEPT !.todo = task[w].todo \ {c},
                     !.roots = task[w].roots \cup {c.at}, !.busy = task[w].busy]]
      BY <1>1, <2>2 DEF Unavailable, Trying, Types, TaskTypes
    <3>3. task[w].busy \in BOOLEAN
      BY <1>1 DEF Trying
    <3>4. QED
      BY <3>1, <3>2, <3>3
  <2>3. QED
    BY <2>1, <2>2
<1>4. QED
  BY <1>1, <1>3 DEF Trying, Works

LEMMA WriteWorks ==
  ASSUME Types, NEW w \in Workers, NEW c, Write(w, c)
  PROVE  \E m \in Choices(task[w].order, c, task[w].phase) :
           /\ task[w] \in Trying /\ c.at \in Domains
           /\ LET t == [pc |-> "written", order |-> task[w].order,
                        roots |-> task[w].roots \cup {c.at},
                        made |-> IF m \in mailboxes THEN {m} ELSE Tried(task[w].order, c, m),
                        row |-> [status |-> "allocated", mailbox |-> m,
                                 owner |-> domain[c.at].owner, date |-> task[w].date]]
              IN t \in Written /\ task' = [task EXCEPT ![w] = t]
<1>1. /\ task[w] \in Trying /\ c \in task[w].todo /\ task[w].todo \in SUBSET Candidate
      /\ task[w].roots \in SUBSET Domains /\ task[w].order \in Orders /\ task[w].date \in Days
  BY TaskFields DEF Write, Locked, Types
<1>2. c.at \in Domains
  BY <1>1, CandidateFields
<1>3. domain[c.at].owner \in Users
  BY <1>2, DomainFields DEF Types, DomainRows
<1> DEFINE made(m) == IF m \in mailboxes THEN {m} ELSE Tried(task[w].order, c, m)
           t(m) == [pc |-> "written", order |-> task[w].order,
                    roots |-> task[w].roots \cup {c.at}, made |-> made(m),
                    row |-> [status |-> "allocated", mailbox |-> m,
                             owner |-> domain[c.at].owner, date |-> task[w].date]]
<1>4. PICK m \in Choices(task[w].order, c, task[w].phase) : task' = [task EXCEPT ![w] = t(m)]
  BY DEF Write, Types, TaskTypes
<1>5. m \in Mailboxes
  BY <1>1, <1>2, ChoiceFields DEF Types
<1>6. made(m) \in SUBSET Mailboxes
  BY <1>2, <1>5, TriedType DEF Types
<1> HIDE DEF made
<1>7. t(m) \in Written
  BY <1>1, <1>2, <1>3, <1>5, <1>6 DEF Written, Rows
<1>8. QED
  BY <1>1, <1>2, <1>4, <1>7 DEF made

LEMMA NextListWorks ==
  ASSUME Types, NEW w \in Workers, NextList(w)
  PROVE  Works(w)
<1> DEFINE t == task[w]
<1>1. t \in Trying /\ TypeOK
  BY TaskFields DEF NextList, Types
<1>2. /\ t.order \in Orders /\ t.scopes \in Seq(Scopes)
      /\ t.roots \in SUBSET Domains /\ t.busy \in BOOLEAN
  BY <1>1 DEF Trying
<1>3. Listing(t.order, t.scopes, "generate", t.roots, t.busy) \in Trying
  BY <1>1, <1>2, ListingType
<1>4. Len(t.scopes) > 1 =>
        Listing(t.order, Tail(t.scopes), "reuse", t.roots, FALSE) \in Trying
  <2> SUFFICES ASSUME Len(t.scopes) > 1
               PROVE  Listing(t.order, Tail(t.scopes), "reuse", t.roots, FALSE) \in Trying
    OBVIOUS
  <2>1. Tail(t.scopes) \in Seq(Scopes)
    BY <1>2
  <2>2. QED
    BY <1>1, <1>2, <2>1, ListingType
<1>5. QED
  BY <1>3, <1>4 DEF NextList, Works

LEMMA StepTaskTypes ==
  ASSUME Types, [Next]_vars
  PROVE  TaskTypes'
<1>1. ASSUME NEW w \in Workers, Works(w) PROVE TaskTypes'
  BY <1>1 DEF Works, Types, TaskTypes
<1>2. task' = task => TaskTypes'
  BY DEF Types, TaskTypes
<1>3. ASSUME NEW w \in Workers, NEW c, Write(w, c) PROVE TaskTypes'
  BY <1>3, WriteWorks DEF Types, TaskTypes
<1>4. ASSUME NEW w \in Workers, Conflict(w) \/ Commit(w) \/ RollBack(w) PROVE Works(w)
  BY <1>4 DEF Conflict, Commit, RollBack, Works
<1>5. ASSUME NEW o \in Orders, ReleaseByOrder(o) PROVE task' = task
  BY <1>5 DEF ReleaseByOrder
<1>6. ASSUME NEW d \in Managed, CommandStep(d) PROVE task' = task
  BY <1>6, Zenon DEF CommandStep, SetStatus, SetPurpose, Transfer, AdminDelete, PrivateDelete,
     RecoverAdmin, BeginRestore, Restore, Command
<1>7. RestoreFails \/ NewDay \/ UNCHANGED vars => task' = task
  BY DEF RestoreFails, NewDay, vars
<1>8. QED
  BY <1>1, <1>2, <1>3, <1>4, <1>5, <1>6, <1>7, BeginWorks, CandidateWorks, NextListWorks
     DEF Next, AllocateStep

LEMMA StepBounds ==
  ASSUME Types, [Next]_vars
  PROVE  /\ restore' \subseteq Domains /\ today' \in Days
         /\ events' \in 0..MaxEvents /\ events <= events'
<1> DEFINE Goal == /\ restore' \subseteq Domains /\ today' \in Days
                   /\ events' \in 0..MaxEvents /\ events <= events'
<1>1. restore \subseteq Domains /\ today \in Days /\ events \in 0..MaxEvents
  BY DEF Types, TypeOK
<1>2. UNCHANGED <<restore, today, events>> => Goal
  BY <1>1
<1>3. ASSUME NEW w \in Workers, NEW o \in Orders, Begin(w, o)
      PROVE  UNCHANGED <<restore, today, events>>
  BY <1>3 DEF Begin
<1>4. ASSUME NEW w \in Workers, NEW c, Skip(w, c) \/ Unavailable(w, c) \/ Write(w, c)
      PROVE  UNCHANGED <<restore, today, events>>
  BY <1>4 DEF Skip, Unavailable, Write
<1>5. ASSUME NEW w \in Workers, Conflict(w) \/ NextList(w) \/ RollBack(w) \/ Commit(w)
      PROVE  UNCHANGED <<restore, today, events>>
  BY <1>5 DEF Conflict, NextList, RollBack, Commit
<1>6. ASSUME NEW o \in Orders, ReleaseByOrder(o) PROVE UNCHANGED <<restore, today, events>>
  BY <1>6 DEF ReleaseByOrder
<1>7. ASSUME NEW d \in Managed, CommandStep(d), ~BeginRestore(d) PROVE Goal
  <2>1. Command(d) /\ restore' \in {restore, {}}
    BY <1>7, Zenon DEF CommandStep, SetStatus, SetPurpose, Transfer, AdminDelete, PrivateDelete,
       RecoverAdmin, Restore
  <2>2. QED
    BY <1>1, <2>1 DEF Command
<1>8. ASSUME NEW d \in Managed, BeginRestore(d) PROVE Goal
  BY <1>1, <1>8 DEF BeginRestore
<1>9. RestoreFails \/ UNCHANGED vars => Goal
  BY <1>1 DEF RestoreFails, vars
<1>10. NewDay => Goal
  BY <1>1 DEF NewDay, Days
<1>11. QED
  BY <1>2, <1>3, <1>4, <1>5, <1>6, <1>7, <1>8, <1>9, <1>10 DEF Next, AllocateStep

\* What a command does to its domain, and that it leaves the others and the
\* allocations alone.
LEMMA CommandDomain ==
  ASSUME Types, NEW d \in Domains, Commanded(d)
  PROVE  /\ domain' \in [Domains -> DomainRows]
         /\ \A x \in Domains \ {d} : domain'[x] = domain[x]
         /\ domain'[d].era \in {domain[d].era, domain[d].era + 1}
         /\ UNCHANGED <<allocations, usage, task>> /\ RootFree(d)
<1>1. /\ domain \in [Domains -> DomainRows] /\ UNCHANGED <<allocations, usage, task>>
      /\ RootFree(d) /\ events < MaxEvents /\ domain[d].era <= events /\ events \in 0..MaxEvents
  BY DomainFields DEF Commanded, Command, Types, ErasBounded, TypeOK
<1> DEFINE Row(x) == x \in DomainRows /\ x.era \in {domain[d].era, domain[d].era + 1}
<1>0. domain[d] \in DomainRows
  BY <1>1
<1>2. ASSUME NEW x \in DomainRows, domain' = [domain EXCEPT ![d] = x],
             x.era \in {domain[d].era, domain[d].era + 1}
      PROVE  /\ domain' \in [Domains -> DomainRows]
             /\ \A y \in Domains \ {d} : domain'[y] = domain[y]
             /\ domain'[d].era \in {domain[d].era, domain[d].era + 1}
  BY <1>1, <1>2
<1>3. ASSUME NEW status \in {"normal", "off"}, SetStatus(d, status)
      PROVE  \E x \in DomainRows : /\ domain' = [domain EXCEPT ![d] = x]
                                   /\ x.era \in {domain[d].era, domain[d].era + 1}
  <2>0. Row([domain[d] EXCEPT !.status = status])
    BY <1>0, <1>3 DEF DomainRows
  <2>1. domain' = [domain EXCEPT ![d] = [domain[d] EXCEPT !.status = status]]
    BY <1>1, <1>3 DEF SetStatus
  <2>2. QED
    BY <2>0, <2>1
<1>4. ASSUME NEW purpose \in Purposes, SetPurpose(d, purpose)
      PROVE  \E x \in DomainRows : /\ domain' = [domain EXCEPT ![d] = x]
                                   /\ x.era \in {domain[d].era, domain[d].era + 1}
  <2>0. Row([domain[d] EXCEPT !.purpose = purpose])
    BY <1>0, <1>4 DEF DomainRows
  <2>1. domain' = [domain EXCEPT ![d] = [domain[d] EXCEPT !.purpose = purpose]]
    BY <1>1, <1>4 DEF SetPurpose
  <2>2. QED
    BY <2>0, <2>1
<1>5. ASSUME NEW u \in Users, Transfer(d, u)
      PROVE  \E x \in DomainRows : /\ domain' = [domain EXCEPT ![d] = x]
                                   /\ x.era \in {domain[d].era, domain[d].era + 1}
  <2>0. Row([domain[d] EXCEPT !.owner = u])
    BY <1>0, <1>5 DEF DomainRows
  <2>1. domain' = [domain EXCEPT ![d] = [domain[d] EXCEPT !.owner = u]]
    BY <1>1, <1>5 DEF Transfer
  <2>2. QED
    BY <2>0, <2>1
<1>6. ASSUME AdminDelete(d) \/ PrivateDelete(d) \/ RecoverAdmin(d)
      PROVE  \E x \in DomainRows : /\ domain' = [domain EXCEPT ![d] = x]
                                   /\ x.era \in {domain[d].era, domain[d].era + 1}
  <2>1. PICK status \in {"off", "deleted"}, purpose \in {"not_sale", domain[d].purpose} :
          domain' = [domain EXCEPT ![d] =
                       [domain[d] EXCEPT !.status = status, !.purpose = purpose]]
    <3>1. CASE AdminDelete(d)
      <4>1. domain' = [domain EXCEPT ![d] =
                         [domain[d] EXCEPT !.status = "deleted", !.purpose = "not_sale"]]
        BY <1>1, <3>1 DEF AdminDelete
      <4>2. QED
        BY <4>1
    <3>2. CASE PrivateDelete(d)
      <4>1. domain' = [domain EXCEPT ![d] =
                         [domain[d] EXCEPT !.status = "deleted", !.purpose = domain[d].purpose]]
        BY <1>1, <3>2 DEF PrivateDelete, DomainRows
      <4>2. QED
        BY <4>1
    <3>3. CASE RecoverAdmin(d)
      <4>1. domain' = [domain EXCEPT ![d] =
                         [domain[d] EXCEPT !.status = "off", !.purpose = "not_sale"]]
        BY <1>1, <3>3 DEF RecoverAdmin
      <4>2. QED
        BY <4>1
    <3>4. QED
      BY <1>6, <3>1, <3>2, <3>3
  <2>2. purpose \in Purposes
    BY <1>0 DEF DomainRows, Purposes
  <2>3. Row([domain[d] EXCEPT !.status = status, !.purpose = purpose])
    BY <1>0, <2>2 DEF DomainRows
  <2>4. QED
    BY <2>1, <2>3
<1>7. ASSUME NEW u \in Users, NEW purpose \in Purposes, Restore(d, u, purpose)
      PROVE  \E x \in DomainRows : /\ domain' = [domain EXCEPT ![d] = x]
                                   /\ x.era \in {domain[d].era, domain[d].era + 1}
  <2>1. domain' = [domain EXCEPT ![d] = [status |-> "off", purpose |-> purpose, owner |-> u,
                                         era |-> domain[d].era + 1]]
    BY <1>1, <1>7 DEF Restore
  <2>2. domain[d].era + 1 \in 0..MaxEvents
    BY <1>1 DEF DomainRows
  <2>3. Row([status |-> "off", purpose |-> purpose, owner |-> u, era |-> domain[d].era + 1])
    BY <1>7, <2>2 DEF DomainRows
  <2>4. QED
    BY <2>1, <2>3
<1>8. QED
  BY <1>1, <1>2, <1>3, <1>4, <1>5, <1>6, <1>7 DEF Commanded

LEMMA CommandRows ==
  ASSUME Types, NEW d \in Domains, Commanded(d)
  PROVE  /\ mailboxes' \subseteq mailboxes
         /\ \A o \in Orders : allocations[o] # NoRow /\ allocations[o].mailbox \in mailboxes =>
                                allocations[o].mailbox \in mailboxes'
         /\ dropped \subseteq dropped' /\ dropped' \subseteq Orders
<1>1. dropped \subseteq Orders /\ Served(d) \subseteq Orders
  BY DEF Types, TypeOK, Served, RowsOf
<1>2. CASE mailboxes' = mailboxes /\ dropped' \in {dropped, dropped \cup Served(d)}
  BY <1>1, <1>2
<1>3. ASSUME NEW u \in Users, NEW purpose \in Purposes, Restore(d, u, purpose)
      PROVE  /\ mailboxes' \subseteq mailboxes /\ dropped' = dropped
             /\ \A o \in Orders : allocations[o] # NoRow /\ allocations[o].mailbox \in mailboxes =>
                                    allocations[o].mailbox \in mailboxes'
  BY <1>3 DEF Restore, RowsOf
<1>4. QED
  BY <1>1, <1>2, <1>3 DEF Commanded, SetStatus, SetPurpose, Transfer, AdminDelete, PrivateDelete,
     RecoverAdmin

LEMMA CommitFields ==
  ASSUME Types, NEW w \in Workers, Commit(w)
  PROVE  LET t == task[w] IN
         /\ t.pc = "written" /\ t.order \in Orders /\ t.made \in SUBSET Mailboxes
         /\ t.row \in Rows /\ t.row.mailbox.at \in Domains /\ t.row.date \in Days
         /\ allocations' = [allocations EXCEPT ![t.order] = t.row]
         /\ usage' = [usage EXCEPT ![<<t.row.mailbox.at, t.row.date>>] = @ + 1]
         /\ mailboxes' = mailboxes \cup t.made
         /\ task' = [task EXCEPT ![w] = Idle]
         /\ UNCHANGED <<domain, dropped>>
<1>1. task[w].pc = "written"
  BY DEF Commit
<1>2. /\ task[w].order \in Orders /\ task[w].made \in SUBSET Mailboxes /\ task[w].row \in Rows
  BY <1>1, TaskFields DEF Types, Idle
<1>3. task[w].row.mailbox.at \in Domains /\ task[w].row.date \in Days
  BY <1>2 DEF Rows, Mailboxes
<1>4. QED
  BY <1>1, <1>2, <1>3 DEF Commit

LEMMA StepTypes == Types /\ [Next]_vars => Types'
<1> SUFFICES ASSUME Types, [Next]_vars
             PROVE  Types'
  OBVIOUS
<1>1. /\ TaskTypes' /\ restore' \subseteq Domains /\ today' \in Days
      /\ events' \in 0..MaxEvents /\ events <= events'
  BY StepTaskTypes, StepBounds
<1>2. /\ TypeOK /\ ErasBounded /\ domain \in [Domains -> DomainRows] /\ events \in 0..MaxEvents
      /\ mailboxes \subseteq Mailboxes /\ allocations \in [Orders -> {NoRow} \cup Rows]
      /\ usage \in [Domains \X Days -> Nat] /\ dropped \subseteq Orders
  BY DomainFields DEF Types, TypeOK, Rows
<1> DEFINE RowsTyped ==
      /\ domain' \in [Domains -> DomainRows] /\ (\A d \in Domains : domain'[d].era <= events')
      /\ mailboxes' \subseteq Mailboxes /\ allocations' \in [Orders -> {NoRow} \cup Rows]
      /\ usage' \in [Domains \X Days -> Nat] /\ dropped' \subseteq Orders
<1>3. ASSUME domain' = domain
      PROVE  domain' \in [Domains -> DomainRows] /\ (\A d \in Domains : domain'[d].era <= events')
  <2>1. \A d \in Domains : domain[d].era \in 0..MaxEvents /\ domain[d].era <= events
    BY <1>2 DEF DomainRows, ErasBounded
  <2>2. QED
    BY <1>1, <1>2, <1>3, <2>1
<1>4. Aside => RowsTyped
  BY <1>2, <1>3 DEF Aside
<1>5. ASSUME NEW w \in Workers, Commit(w) PROVE RowsTyped
  <2>1. /\ domain' = domain /\ dropped' = dropped /\ task[w].order \in Orders
        /\ task[w].row \in Rows
        /\ mailboxes' = mailboxes \cup task[w].made /\ task[w].made \in SUBSET Mailboxes
        /\ allocations' = [allocations EXCEPT ![task[w].order] = task[w].row]
        /\ usage' = [usage EXCEPT ![<<task[w].row.mailbox.at, task[w].row.date>>] = @ + 1]
        /\ <<task[w].row.mailbox.at, task[w].row.date>> \in Domains \X Days
    BY <1>5, CommitFields
  <2>2. usage' \in [Domains \X Days -> Nat]
    BY <1>2, <2>1
  <2>3. QED
    BY <1>2, <1>3, <2>1, <2>2
<1>6. ASSUME NEW o \in Orders, ReleaseByOrder(o) PROVE RowsTyped
  <2>1. allocations[o] \in Rows
    BY <1>2, <1>6, RowFields DEF ReleaseByOrder
  <2>2. [allocations[o] EXCEPT !.status = "released"] \in Rows
    BY <2>1 DEF Rows
  <2>3. allocations' = [allocations EXCEPT ![o] = [allocations[o] EXCEPT !.status = "released"]]
    BY <1>2, <1>6 DEF ReleaseByOrder
  <2>4. allocations' \in [Orders -> {NoRow} \cup Rows]
    BY <1>2, <2>2, <2>3
  <2>5. QED
    BY <1>2, <1>3, <1>6, <2>4 DEF ReleaseByOrder
<1>7. ASSUME NEW d \in Domains, Commanded(d) PROVE RowsTyped
  <2>1. events' = events + 1
    BY <1>7 DEF Commanded, Command
  <2>2. /\ domain' \in [Domains -> DomainRows] /\ UNCHANGED <<allocations, usage>>
        /\ \A x \in Domains \ {d} : domain'[x] = domain[x]
        /\ domain'[d].era \in {domain[d].era, domain[d].era + 1}
    BY <1>7, CommandDomain
  <2>3. \A x \in Domains : domain[x].era \in 0..MaxEvents /\ domain[x].era <= events
    BY <1>2 DEF DomainRows, ErasBounded
  <2>4. \A x \in Domains : domain'[x].era <= events'
    BY <1>2, <2>1, <2>2, <2>3
  <2>5. mailboxes' \subseteq mailboxes /\ dropped' \subseteq Orders
    BY <1>7, CommandRows
  <2>6. QED
    BY <1>2, <2>2, <2>4, <2>5
<1>8. RowsTyped
  BY <1>4, <1>5, <1>6, <1>7, StepKinds
<1>9. QED
  BY <1>1, <1>8 DEF Types, TypeOK, ErasBounded, DomainRows, Rows

----------------------------------------------------------------------------
(* The inductive invariant *)

\* Two transactions hold no root in common.
RootsApart ==
  \A v, w \in Workers :
    v # w /\ task[v] # Idle /\ task[w] # Idle => task[v].roots \cap task[w].roots = {}

\* Two transactions have not inserted the guard of the same order.
GuardsApart ==
  \A v, w \in Workers :
    v # w /\ task[v].pc = "written" /\ task[w].pc = "written" =>
      task[v].order # task[w].order

\* What a transaction has written is still right when it commits: the address
\* is live and new to the project, and the day has room.
Sound(o, r) ==
  LET m == r.mailbox IN
  /\ r.status = "allocated"
  /\ allocations[o] = NoRow
  /\ m.era = domain[m.at].era /\ r.owner = domain[m.at].owner
  /\ domain[m.at].status # "deleted"
  /\ ~Historic(Project[o], m)
  /\ usage[<<m.at, r.date>>] < DailyLimit[m.at]

WrittenSound ==
  \A w \in Workers :
    task[w].pc = "written" =>
      /\ task[w].row.mailbox \in task[w].made
      /\ task[w].row.mailbox.at \in task[w].roots
      /\ Sound(task[w].order, task[w].row)

ChargedTo(d, day) == {o \in RowsOf(d) : allocations[o].date = day}

ChargesFinite == \A d \in Domains, day \in Days : IsFiniteSet(ChargedTo(d, day))

AllocationInv ==
  /\ Types /\ RootsApart /\ GuardsApart /\ WrittenSound
  /\ ChargesFinite /\ UsageCounts /\ ServedAddressKept

\* A call works by itself, or its transaction ends.
LEMMA OwnWork ==
  ASSUME TaskTypes, [Next]_vars, NEW w \in Workers
  PROVE  \/ task'[w] \in {task[w], Idle}
         \/ \E o \in Orders : Begin(w, o)
         \/ task[w].pc = "trying" /\ \E c \in task[w].todo :
              Skip(w, c) \/ Unavailable(w, c) \/ Write(w, c)
         \/ NextList(w)
<1> DEFINE Same == task'[w] = task[w]
<1>1. ASSUME NEW v \in Workers, v # w, NEW o \in Orders, Begin(v, o) PROVE Same
  BY <1>1 DEF Begin, TaskTypes
<1>2. ASSUME NEW v \in Workers, v # w, NEW c, Skip(v, c) \/ Unavailable(v, c) \/ Write(v, c)
      PROVE  Same
  BY <1>2 DEF Skip, Unavailable, Write, TaskTypes
<1>3. ASSUME NEW v \in Workers, v # w, NextList(v) PROVE Same
  BY <1>3 DEF NextList, TaskTypes
<1>4. ASSUME NEW v \in Workers, Conflict(v) \/ Commit(v) \/ RollBack(v)
      PROVE  task'[w] \in {task[w], Idle}
  BY <1>4 DEF Conflict, Commit, RollBack, TaskTypes
<1>5. ASSUME NEW o \in Orders, ReleaseByOrder(o) PROVE Same
  BY <1>5 DEF ReleaseByOrder
<1>6. ASSUME NEW d \in Managed, CommandStep(d) PROVE task' = task
  BY <1>6, Zenon DEF CommandStep, SetStatus, SetPurpose, Transfer, AdminDelete, PrivateDelete,
     RecoverAdmin, BeginRestore, Restore, Command
<1>7. RestoreFails \/ NewDay \/ UNCHANGED vars => Same
  BY DEF RestoreFails, NewDay, vars
<1>8. QED
  BY <1>1, <1>2, <1>3, <1>4, <1>5, <1>6, <1>7, Zenon DEF Next, AllocateStep

\* A transaction takes over the root of its candidate, when nobody holds it.
TakesRoot(w) ==
  /\ task[w] # Idle
  /\ \E d \in Domains :
       /\ d \in task[w].roots \/ RootFree(d)
       /\ task'[w].roots = task[w].roots \cup {d}
  /\ \A v \in Workers \ {w} : task'[v] = task[v]

LEMMA StepRoots ==
  ASSUME Types, [Next]_vars, NEW w \in Workers, task'[w] # Idle
  PROVE  \/ task[w] # Idle /\ task'[w].roots = task[w].roots
         \/ task'[w].roots = {}
         \/ TakesRoot(w)
<1> DEFINE Goal == \/ task[w] # Idle /\ task'[w].roots = task[w].roots
                   \/ task'[w].roots = {}
                   \/ TakesRoot(w)
<1>1. TaskTypes
  BY DEF Types
<1>2. task'[w] = task[w] => Goal
  OBVIOUS
<1>3. ASSUME NEW o \in Orders, Begin(w, o) PROVE Goal
  BY <1>1, <1>3 DEF Begin, Listing, TaskTypes
<1>4. ASSUME NEW c, Skip(w, c) PROVE Goal
  <2>1. task[w] \in Trying /\ task[w] # Idle
    BY <1>1, <1>4, TaskFields DEF Skip
  <2>2. task'[w].roots = task[w].roots
    BY <1>1, <1>4, <2>1 DEF Skip, Trying, TaskTypes
  <2>3. QED
    BY <2>1, <2>2
<1>5. ASSUME NEW c, Unavailable(w, c) PROVE Goal
  <2>1. /\ task[w] \in Trying /\ task[w] # Idle /\ c \in Candidate
        /\ c.at \in task[w].roots \/ RootFree(c.at)
    BY <1>1, <1>5, TaskFields DEF Unavailable, Locked
  <2>2. task'[w].roots = task[w].roots \cup {c.at}
    BY <1>1, <1>5, <2>1 DEF Unavailable, Trying, TaskTypes
  <2>3. \A v \in Workers \ {w} : task'[v] = task[v]
    BY <1>1, <1>5 DEF Unavailable, TaskTypes
  <2>4. c.at \in Domains
    BY <2>1, CandidateFields
  <2>5. QED
    BY <2>1, <2>2, <2>3, <2>4 DEF TakesRoot
<1>6. ASSUME NEW c, Write(w, c) PROVE Goal
  <2>1. c.at \in task[w].roots \/ RootFree(c.at)
    BY <1>6 DEF Write, Locked
  <2>2. c.at \in Domains /\ task'[w].roots = task[w].roots \cup {c.at}
    <3>1. c.at \in Domains
      BY <1>6, WriteWorks
    <3>2. task \in [Workers -> {Idle} \cup Trying \cup Written]
      BY <1>1 DEF TaskTypes
    <3>3. QED
      BY <1>6, <3>1, <3>2 DEF Write
  <2>3. \A v \in Workers \ {w} : task'[v] = task[v]
    BY <1>1, <1>6 DEF Write, TaskTypes
  <2>4. task[w] # Idle
    BY <1>6 DEF Write, Locked, Idle
  <2>5. QED
    BY <2>1, <2>2, <2>3, <2>4 DEF TakesRoot
<1>7. ASSUME NextList(w) PROVE Goal
  <2>1. task[w] # Idle
    BY <1>7 DEF NextList, Idle
  <2>2. task'[w].roots = task[w].roots \/ task'[w] = Idle
    BY <1>1, <1>7 DEF NextList, Listing, TaskTypes
  <2>3. QED
    BY <2>1, <2>2
<1>8. QED
  BY <1>1, <1>2, <1>3, <1>4, <1>5, <1>6, <1>7, OwnWork

LEMMA StepRootsApart ==
  ASSUME Types, RootsApart, [Next]_vars
  PROVE  RootsApart'
<1> SUFFICES ASSUME NEW v \in Workers, NEW w \in Workers, v # w,
                    task'[v] # Idle, task'[w] # Idle
             PROVE  task'[v].roots \cap task'[w].roots = {}
  BY DEF RootsApart
<1>1. ASSUME NEW x \in Workers, NEW y \in Workers, x # y, TakesRoot(x),
             task'[x] # Idle, task'[y] # Idle
      PROVE  task'[x].roots \cap task'[y].roots = {}
  <2>1. task'[y] = task[y] /\ task[y] # Idle /\ task[x] # Idle
    BY <1>1 DEF TakesRoot
  <2>2. task[x].roots \cap task[y].roots = {}
    BY <1>1, <2>1 DEF RootsApart
  <2>3. PICK d \in Domains : /\ d \in task[x].roots \/ RootFree(d)
                             /\ task'[x].roots = task[x].roots \cup {d}
    BY <1>1 DEF TakesRoot
  <2>4. d \notin task[y].roots
    BY <1>1, <2>1, <2>2, <2>3 DEF RootFree
  <2>5. QED
    BY <2>1, <2>2, <2>3, <2>4
<1>2. CASE TakesRoot(v) \/ TakesRoot(w)
  BY <1>1, <1>2
<1>3. CASE ~TakesRoot(v) /\ ~TakesRoot(w)
  <2>1. \/ task[v] # Idle /\ task'[v].roots = task[v].roots
        \/ task'[v].roots = {}
    BY <1>3, StepRoots
  <2>2. \/ task[w] # Idle /\ task'[w].roots = task[w].roots
        \/ task'[w].roots = {}
    BY <1>3, StepRoots
  <2>3. QED
    BY <2>1, <2>2 DEF RootsApart
<1>4. QED
  BY <1>2, <1>3

LEMMA WriteSound ==
  ASSUME Types, NEW w \in Workers, NEW c, Write(w, c)
  PROVE  /\ task'[w].pc = "written" /\ task'[w].order = task[w].order
         /\ task'[w].row.mailbox \in task'[w].made
         /\ task'[w].row.mailbox.at \in task'[w].roots
         /\ Sound(task[w].order, task[w].row)'
<1> DEFINE o == task[w].order
<1>1. PICK m \in Choices(o, c, task[w].phase) :
        /\ task[w] \in Trying /\ c.at \in Domains
        /\ LET t == [pc |-> "written", order |-> task[w].order,
                     roots |-> task[w].roots \cup {c.at},
                     made |-> IF m \in mailboxes THEN {m} ELSE Tried(task[w].order, c, m),
                     row |-> [status |-> "allocated", mailbox |-> m,
                              owner |-> domain[c.at].owner, date |-> task[w].date]]
           IN t \in Written /\ task' = [task EXCEPT ![w] = t]
  BY WriteWorks
<1>2. TypeOK /\ TaskTypes /\ o \in Orders
  BY <1>1 DEF Types, Trying
<1>3. /\ m \in Mailboxes /\ m.at = c.at /\ m.era = domain[c.at].era
      /\ ~Historic(Project[o], m)
      /\ m \notin mailboxes => m \in [at : {c.at}, local : Locals, era : {domain[c.at].era}]
  BY <1>1, <1>2, ChoiceFields
<1>4. m \in (IF m \in mailboxes THEN {m} ELSE Tried(o, c, m))
  BY <1>3 DEF Tried
<1> DEFINE row == [status |-> "allocated", mailbox |-> m,
                   owner |-> domain[c.at].owner, date |-> task[w].date]
<1>5. /\ task'[w].pc = "written" /\ task'[w].order = o
      /\ task'[w].roots = task[w].roots \cup {c.at}
      /\ task'[w].made = IF m \in mailboxes THEN {m} ELSE Tried(o, c, m)
      /\ task'[w].row = row
  BY <1>1, <1>2 DEF TaskTypes
<1>6. /\ domain[c.at].status = "normal" /\ usage[<<c.at, task[w].date>>] < DailyLimit[c.at]
      /\ allocations[o] = NoRow /\ UNCHANGED <<domain, mailboxes, allocations, usage>>
  BY DEF Write, MayTake, Eligible, HasRoom
<1>7. Sound(task[w].order, task[w].row)'
  <2>1. ~Historic(Project[task[w].order], task[w].row.mailbox)'
    BY <1>3, <1>5, <1>6 DEF Historic
  <2>2. QED
    BY <1>3, <1>5, <1>6, <2>1 DEF Sound
<1>8. QED
  BY <1>3, <1>4, <1>5, <1>7

\* A transaction that has written its allocation got there by Write.
LEMMA WrittenBefore ==
  ASSUME Types, [Next]_vars, NEW w \in Workers, task'[w].pc = "written"
  PROVE  task'[w] = task[w] \/ \E c : Write(w, c)
<1>1. TaskTypes
  BY DEF Types
<1>2. ASSUME NEW o \in Orders, Begin(w, o) PROVE FALSE
  BY <1>1, <1>2 DEF Begin, Listing, TaskTypes
<1>3. ASSUME NEW c, Skip(w, c) \/ Unavailable(w, c) PROVE FALSE
  <2>1. task[w] \in Trying
    BY <1>1, <1>3, TaskFields DEF Skip, Unavailable, Locked
  <2>2. task'[w].pc = "trying"
    BY <1>1, <1>3, <2>1 DEF Skip, Unavailable, Trying, TaskTypes
  <2>3. QED
    BY <2>2
<1>4. ~NextList(w)
  BY <1>1 DEF NextList, Listing, Idle, TaskTypes
<1>5. task'[w] # Idle
  BY DEF Idle
<1>6. QED
  BY <1>1, <1>2, <1>3, <1>4, <1>5, OwnWork

LEMMA StepGuardsApart ==
  ASSUME Types, GuardsApart, [Next]_vars
  PROVE  GuardsApart'
<1> SUFFICES ASSUME NEW v \in Workers, NEW w \in Workers, v # w,
                    task'[v].pc = "written", task'[w].pc = "written"
             PROVE  task'[v].order # task'[w].order
  BY DEF GuardsApart
<1>1. ASSUME NEW x \in Workers, NEW y \in Workers, x # y, NEW c, Write(x, c),
             task'[y].pc = "written"
      PROVE  task'[x].order # task'[y].order
  <2>1. task'[y] = task[y]
    BY <1>1 DEF Write, Types, TaskTypes
  <2>2. task'[x].order = task[x].order
    BY <1>1, WriteSound
  <2>3. task[y].order # task[x].order
    BY <1>1, <2>1 DEF Write, GuardFree
  <2>4. QED
    BY <2>1, <2>2, <2>3
<1>2. CASE task'[v] = task[v] /\ task'[w] = task[w]
  BY <1>2 DEF GuardsApart
<1>3. QED
  BY <1>1, <1>2, WrittenBefore

LEMMA CommitRow ==
  ASSUME Types, WrittenSound, NEW v \in Workers, Commit(v)
  PROVE  LET o == task[v].order
             r == task[v].row IN
         /\ allocations[o] = NoRow /\ allocations'[o] = r
         /\ \A q \in Orders \ {o} : allocations'[q] = allocations[q]
         /\ r.mailbox \in task[v].made /\ r.mailbox.at \in task[v].roots
         /\ Sound(o, r)
<1>1. /\ task[v].pc = "written" /\ task[v].order \in Orders
      /\ allocations' = [allocations EXCEPT ![task[v].order] = task[v].row]
  BY CommitFields
<1>2. /\ task[v].row.mailbox \in task[v].made /\ task[v].row.mailbox.at \in task[v].roots
      /\ Sound(task[v].order, task[v].row)
  BY <1>1 DEF WrittenSound
<1>3. allocations[task[v].order] = NoRow
  BY <1>2 DEF Sound
<1>4. QED
  BY <1>1, <1>2, <1>3 DEF Types, TypeOK

\* The transactions of others, releases and commands leave what is written
\* right: they work under other roots and for other orders.
LEMMA SoundKept ==
  ASSUME Types, RootsApart, GuardsApart, WrittenSound, [Next]_vars,
         NEW w \in Workers, task[w].pc = "written", task'[w] = task[w]
  PROVE  Sound(task[w].order, task[w].row)'
<1> DEFINE o == task[w].order
           r == task[w].row
           d == task[w].row.mailbox.at
<1>1. /\ o \in Orders /\ r \in Rows /\ d \in Domains /\ r.date \in Days
      /\ d \in task[w].roots /\ task[w] # Idle /\ Sound(o, r) /\ TypeOK
  BY TaskFields DEF Types, WrittenSound, Idle, Rows, Mailboxes
<1>2. ASSUME allocations'[o] = NoRow, domain'[d] = domain[d],
             usage'[<<d, r.date>>] = usage[<<d, r.date>>],
             ~Historic(Project[o], r.mailbox)'
      PROVE  Sound(task[w].order, task[w].row)'
  <2>1. ~Historic(Project[task[w].order], task[w].row.mailbox)'
    BY <1>2 DEF Historic
  <2>2. QED
    BY <1>1, <1>2, <2>1 DEF Sound
<1>3. ASSUME \A q \in Orders : \/ allocations'[q] = NoRow
                               \/ /\ allocations'[q] # NoRow /\ allocations[q] # NoRow
                                  /\ allocations'[q].mailbox = allocations[q].mailbox
                               \/ allocations'[q].mailbox.at # d
      PROVE  ~Historic(Project[o], r.mailbox)'
  <2>1. ~Historic(Project[o], r.mailbox)
    BY <1>1 DEF Sound
  <2>2. QED
    BY <1>3, <2>1 DEF Historic
<1>4. CASE Aside
  <2>1. /\ allocations'[o] = NoRow /\ domain'[d] = domain[d]
        /\ usage'[<<d, r.date>>] = usage[<<d, r.date>>]
    BY <1>1, <1>4 DEF Aside, Sound
  <2>2. QED
    BY <1>2, <1>3, <1>4, <2>1 DEF Aside
<1>5. ASSUME NEW v \in Workers, Commit(v) PROVE Sound(task[w].order, task[w].row)'
  <2>1. v # w /\ task[v].pc = "written" /\ task[v] # Idle
    BY <1>1, <1>5 DEF Commit, Types, TaskTypes, Idle
  <2>2. task[v].order # o /\ task[v].row.mailbox.at # d
    <3>1. task[v].row.mailbox.at \in task[v].roots
      BY <2>1 DEF WrittenSound
    <3>2. QED
      BY <1>1, <2>1, <3>1 DEF RootsApart, GuardsApart
  <2>3. /\ allocations'[task[v].order] = task[v].row
        /\ \A q \in Orders \ {task[v].order} : allocations'[q] = allocations[q]
    BY <1>5, CommitRow
  <2>4. allocations'[o] = NoRow /\ domain' = domain
    BY <1>1, <1>5, <2>2, <2>3, CommitFields DEF Sound
  <2>5. usage'[<<d, r.date>>] = usage[<<d, r.date>>]
    <3>1. /\ usage' = [usage EXCEPT ![<<task[v].row.mailbox.at, task[v].row.date>>] = @ + 1]
          /\ <<d, r.date>> \in Domains \X Days /\ usage \in [Domains \X Days -> Nat]
      BY <1>1, <1>5, CommitFields DEF TypeOK
    <3>2. QED
      BY <2>2, <3>1
  <2>6. ~Historic(Project[o], r.mailbox)'
    BY <1>3, <2>2, <2>3
  <2>7. QED
    BY <1>2, <2>4, <2>5, <2>6
<1>6. ASSUME NEW q \in Orders, ReleaseByOrder(q) PROVE Sound(task[w].order, task[w].row)'
  <2>1. /\ allocations' = [allocations EXCEPT ![q] = [allocations[q] EXCEPT !.status = "released"]]
        /\ allocations[q] # NoRow /\ UNCHANGED <<domain, usage>> /\ allocations[q] \in Rows
    BY <1>1, <1>6, RowFields DEF ReleaseByOrder, TypeOK
  <2>2. /\ allocations'[q].mailbox = allocations[q].mailbox /\ allocations'[q] # NoRow
        /\ \A x \in Orders \ {q} : allocations'[x] = allocations[x]
    BY <1>1, <2>1 DEF TypeOK, Rows, NoRow
  <2>3. allocations[o] = NoRow
    BY <1>1 DEF Sound
  <2>4. allocations'[o] = NoRow
    BY <1>1, <2>1, <2>2, <2>3
  <2>5. ~Historic(Project[o], r.mailbox)'
    BY <1>3, <2>1, <2>2
  <2>6. QED
    BY <1>2, <2>1, <2>4, <2>5
<1>7. ASSUME NEW x \in Domains, Commanded(x) PROVE Sound(task[w].order, task[w].row)'
  <2>1. /\ \A y \in Domains \ {x} : domain'[y] = domain[y]
        /\ UNCHANGED <<allocations, usage, task>> /\ RootFree(x)
    BY <1>7, CommandDomain
  <2>2. d # x
    BY <1>1, <2>1 DEF RootFree
  <2>3. allocations'[o] = NoRow
    BY <1>1, <2>1 DEF Sound
  <2>4. QED
    BY <1>1, <1>2, <1>3, <2>1, <2>2, <2>3
<1>8. QED
  BY <1>4, <1>5, <1>6, <1>7, StepKinds

LEMMA StepWrittenSound ==
  ASSUME Types, RootsApart, GuardsApart, WrittenSound, [Next]_vars
  PROVE  WrittenSound'
<1> SUFFICES ASSUME NEW w \in Workers, task'[w].pc = "written"
             PROVE  /\ task'[w].row.mailbox \in task'[w].made
                    /\ task'[w].row.mailbox.at \in task'[w].roots
                    /\ Sound(task[w].order, task[w].row)'
  BY DEF WrittenSound
<1>1. CASE task'[w] = task[w]
  BY <1>1, SoundKept DEF WrittenSound
<1>2. ASSUME NEW c, Write(w, c)
      PROVE  /\ task'[w].row.mailbox \in task'[w].made
             /\ task'[w].row.mailbox.at \in task'[w].roots
             /\ Sound(task[w].order, task[w].row)'
  BY <1>2, WriteSound
<1>3. QED
  BY <1>1, <1>2, WrittenBefore

----------------------------------------------------------------------------
(* What a day is charged                                                   *)

LEMMA ReleaseRow ==
  ASSUME Types, NEW o \in Orders, ReleaseByOrder(o)
  PROVE  /\ allocations[o] \in Rows /\ allocations[o] # NoRow /\ allocations'[o] # NoRow
         /\ allocations[o].status = "allocated" /\ allocations'[o].status = "released"
         /\ allocations'[o].mailbox = allocations[o].mailbox
         /\ allocations'[o].owner = allocations[o].owner
         /\ allocations'[o].date = allocations[o].date
         /\ \A q \in Orders \ {o} : allocations'[q] = allocations[q]
         /\ UNCHANGED <<domain, mailboxes, usage, dropped>>
<1>1. /\ allocations' = [allocations EXCEPT ![o] = [allocations[o] EXCEPT !.status = "released"]]
      /\ allocations[o] # NoRow /\ allocations[o].status = "allocated"
      /\ UNCHANGED <<domain, mailboxes, usage, dropped>>
  BY DEF ReleaseByOrder, Types, TypeOK
<1>2. allocations[o] \in Rows
  BY <1>1, RowFields DEF Types
<1>3. QED
  BY <1>1, <1>2 DEF Types, TypeOK, Rows, NoRow

LEMMA StepUsage ==
  ASSUME Types, WrittenSound, ChargesFinite, UsageCounts, [Next]_vars
  PROVE  ChargesFinite' /\ UsageCounts'
<1> SUFFICES ASSUME NEW d \in Domains, NEW day \in Days
             PROVE  /\ IsFiniteSet(ChargedTo(d, day)')
                    /\ usage'[<<d, day>>] = Cardinality(ChargedTo(d, day)')
                    /\ usage'[<<d, day>>] <= DailyLimit[d]
  BY DEF ChargesFinite, UsageCounts, ChargedTo
<1>1. /\ IsFiniteSet(ChargedTo(d, day)) /\ usage[<<d, day>>] = Cardinality(ChargedTo(d, day))
      /\ usage[<<d, day>>] <= DailyLimit[d] /\ usage \in [Domains \X Days -> Nat]
      /\ allocations \in [Orders -> {NoRow} \cup Rows]
  BY DEF ChargesFinite, UsageCounts, ChargedTo, Types, TypeOK, Rows
<1> DEFINE Goal == /\ IsFiniteSet(ChargedTo(d, day)')
                   /\ usage'[<<d, day>>] = Cardinality(ChargedTo(d, day)')
                   /\ usage'[<<d, day>>] <= DailyLimit[d]
<1>2. ASSUME UNCHANGED <<allocations, usage>> PROVE Goal
  <2>1. ChargedTo(d, day)' = ChargedTo(d, day)
    BY <1>2 DEF ChargedTo, RowsOf
  <2>2. QED
    BY <1>1, <1>2, <2>1
<1>3. ASSUME NEW w \in Workers, Commit(w) PROVE Goal
  <2> DEFINE o == task[w].order
             r == task[w].row
  <2>1. /\ o \in Orders /\ r \in Rows /\ r # NoRow /\ allocations[o] = NoRow
        /\ allocations'[o] = r /\ (\A q \in Orders \ {o} : allocations'[q] = allocations[q])
        /\ Sound(o, r) /\ r.mailbox.at \in Domains /\ r.date \in Days
        /\ usage' = [usage EXCEPT ![<<r.mailbox.at, r.date>>] = @ + 1]
    BY <1>3, CommitFields, CommitRow DEF Rows, NoRow
  <2> HIDE DEF o, r
  <2>2. CASE r.mailbox.at = d /\ r.date = day
    <3>1. ChargedTo(d, day)' = ChargedTo(d, day) \cup {o} /\ o \notin ChargedTo(d, day)
      BY <2>1, <2>2 DEF ChargedTo, RowsOf
    <3>2. /\ IsFiniteSet(ChargedTo(d, day)')
          /\ Cardinality(ChargedTo(d, day)') = Cardinality(ChargedTo(d, day)) + 1
      BY <1>1, <3>1, FS_AddElement
    <3>3. usage'[<<d, day>>] = usage[<<d, day>>] + 1 /\ usage[<<d, day>>] \in Nat
      BY <1>1, <2>1, <2>2
    <3>4. usage[<<d, day>>] < DailyLimit[d] /\ DailyLimit[d] \in Nat
      BY <2>1, <2>2 DEF Sound
    <3>5. QED
      BY <1>1, <3>2, <3>3, <3>4
  <2>3. CASE ~(r.mailbox.at = d /\ r.date = day)
    <3>1. ChargedTo(d, day)' = ChargedTo(d, day)
      BY <2>1, <2>3 DEF ChargedTo, RowsOf
    <3>2. usage'[<<d, day>>] = usage[<<d, day>>]
      BY <1>1, <2>1, <2>3
    <3>3. QED
      BY <1>1, <3>1, <3>2
  <2>4. QED
    BY <2>2, <2>3
<1>4. ASSUME NEW o \in Orders, ReleaseByOrder(o) PROVE Goal
  <2>1. ChargedTo(d, day)' = ChargedTo(d, day)
    BY <1>4, ReleaseRow DEF ChargedTo, RowsOf
  <2>2. usage' = usage
    BY <1>4, ReleaseRow
  <2>3. QED
    BY <1>1, <2>1, <2>2
<1>5. ASSUME NEW x \in Domains, Commanded(x) PROVE UNCHANGED <<allocations, usage>>
  BY <1>5, CommandDomain
<1>6. QED
  BY <1>2, <1>3, <1>4, <1>5, StepKinds DEF Aside

----------------------------------------------------------------------------
(* The addresses of orders that are served                                 *)

Kept(o) ==
  LET row == allocations[o] IN
  allocations[o] # NoRow /\ row.status = "allocated" =>
    /\ row.mailbox \in mailboxes
    /\ o \in dropped \/ (/\ Live(row.mailbox) /\ domain[row.mailbox.at].owner = row.owner
                         /\ domain[row.mailbox.at].status # "deleted")

LEMMA KeptIsServed == TypeOK => (ServedAddressKept <=> \A o \in Orders : Kept(o))
<1> SUFFICES ASSUME TypeOK
             PROVE  ServedAddressKept <=> \A o \in Orders : Kept(o)
  OBVIOUS
<1>1. \A o \in Orders : allocations[o] # NoRow => allocations[o].mailbox.at \in Domains
  BY RowFields DEF Rows, Mailboxes
<1>2. ServedAddressKept => \A o \in Orders : Kept(o)
  BY <1>1 DEF ServedAddressKept, Served, RowsOf, Kept
<1>3. (\A o \in Orders : Kept(o)) => ServedAddressKept
  BY DEF ServedAddressKept, Served, RowsOf, Kept
<1>4. QED
  BY <1>2, <1>3

\* A command leaves what is served in its domain, or finds nothing there.
LEMMA CommandKeeps ==
  ASSUME Types, NEW d \in Domains, Commanded(d), NEW o \in Orders, Kept(o)
  PROVE  Kept(o)'
<1>1. /\ \A x \in Domains \ {d} : domain'[x] = domain[x]
      /\ UNCHANGED allocations /\ domain \in [Domains -> DomainRows]
  BY CommandDomain, DomainFields DEF Types
<1>2. /\ \A q \in Orders : allocations[q] # NoRow /\ allocations[q].mailbox \in mailboxes =>
                             allocations[q].mailbox \in mailboxes'
      /\ dropped \subseteq dropped'
  BY CommandRows
<1> SUFFICES ASSUME allocations[o] # NoRow, allocations[o].status = "allocated"
             PROVE  Kept(o)'
  BY <1>1 DEF Kept
<1> DEFINE m == allocations[o].mailbox
<1>3. m \in mailboxes /\ m \in mailboxes' /\ m.at \in Domains
  BY <1>2, RowFields DEF Kept, Types, Rows, Mailboxes
<1>4. CASE o \in dropped'
  BY <1>1, <1>3, <1>4 DEF Kept
<1>5. CASE o \notin dropped'
  <2>1. /\ Live(m) /\ domain[m.at].owner = allocations[o].owner
        /\ domain[m.at].status # "deleted" /\ o \notin dropped
    BY <1>2, <1>5 DEF Kept
  <2>2. CASE m.at # d
    BY <1>1, <1>3, <2>1, <2>2 DEF Kept, Live
  <2>3. CASE m.at = d
    <3>1. o \in Served(d)
      BY <2>3 DEF Served, RowsOf
    <3>2. ~AdminDelete(d) /\ ~RecoverAdmin(d)
      BY <2>1, <2>3, <3>1 DEF AdminDelete, RecoverAdmin
    <3>3. ~PrivateDelete(d)
      BY <1>5, <3>1 DEF PrivateDelete
    <3>4. ASSUME NEW u \in Users PROVE ~Transfer(d, u)
      BY <3>1 DEF Transfer
    <3>5. ASSUME NEW u \in Users, NEW purpose \in Purposes PROVE ~Restore(d, u, purpose)
      BY <2>1, <2>3 DEF Restore
    <3>6. /\ domain'[d].owner = domain[d].owner /\ domain'[d].era = domain[d].era
          /\ domain'[d].status # "deleted"
      <4>1. ASSUME NEW status \in {"normal", "off"}, SetStatus(d, status)
            PROVE  /\ domain'[d].owner = domain[d].owner /\ domain'[d].era = domain[d].era
                   /\ domain'[d].status # "deleted"
        <5>1. domain' = [domain EXCEPT ![d] = [domain[d] EXCEPT !.status = status]]
          BY <1>1, <4>1 DEF SetStatus
        <5>2. QED
          BY <1>1, <5>1 DEF DomainRows
      <4>2. ASSUME NEW purpose \in Purposes, SetPurpose(d, purpose)
            PROVE  /\ domain'[d].owner = domain[d].owner /\ domain'[d].era = domain[d].era
                   /\ domain'[d].status # "deleted"
        <5>1. domain' = [domain EXCEPT ![d] = [domain[d] EXCEPT !.purpose = purpose]]
          BY <1>1, <4>2 DEF SetPurpose
        <5>2. QED
          BY <1>1, <2>1, <2>3, <5>1 DEF DomainRows
      <4>3. QED
        BY <3>2, <3>3, <3>4, <3>5, <4>1, <4>2 DEF Commanded
    <3>7. QED
      BY <1>1, <1>3, <2>1, <2>3, <3>6 DEF Kept, Live
  <2>4. QED
    BY <2>2, <2>3
<1>6. QED
  BY <1>4, <1>5

LEMMA StepKept ==
  ASSUME Types, WrittenSound, ServedAddressKept, [Next]_vars
  PROVE  ServedAddressKept'
<1>1. TypeOK /\ TypeOK' /\ \A o \in Orders : Kept(o)
  BY StepTypes, KeptIsServed DEF Types
<1>2. CASE Aside
  BY <1>1, <1>2, KeptIsServed DEF Aside, ServedAddressKept, Served, RowsOf, Live
<1>3. ASSUME NEW w \in Workers, Commit(w) PROVE \A o \in Orders : Kept(o)'
  <2>1. /\ allocations'[task[w].order] = task[w].row
        /\ \A q \in Orders \ {task[w].order} : allocations'[q] = allocations[q]
        /\ task[w].row.mailbox \in mailboxes'
        /\ mailboxes \subseteq mailboxes' /\ UNCHANGED <<domain, dropped>>
        /\ Sound(task[w].order, task[w].row)
    BY <1>3, CommitFields, CommitRow
  <2>2. ASSUME NEW q \in Orders, q # task[w].order PROVE Kept(q)'
    BY <1>1, <2>1, <2>2 DEF Kept, Live
  <2>3. ASSUME NEW q \in Orders, q = task[w].order PROVE Kept(q)'
    <3>1. allocations'[q] = task[w].row
      BY <2>1, <2>3
    <3>2. /\ task[w].row.mailbox.era = domain[task[w].row.mailbox.at].era
          /\ task[w].row.owner = domain[task[w].row.mailbox.at].owner
          /\ domain[task[w].row.mailbox.at].status # "deleted"
      BY <2>1 DEF Sound
    <3>3. QED
      BY <2>1, <3>1, <3>2 DEF Kept, Live
  <2>4. QED
    BY <2>2, <2>3
<1>4. ASSUME NEW o \in Orders, ReleaseByOrder(o) PROVE \A q \in Orders : Kept(q)'
  BY <1>1, <1>4, ReleaseRow DEF Kept, Live
<1>5. ASSUME NEW d \in Domains, Commanded(d) PROVE \A q \in Orders : Kept(q)'
  BY <1>1, <1>5, CommandKeeps
<1>6. (\A o \in Orders : Kept(o)') => ServedAddressKept'
  BY <1>1 DEF Kept, ServedAddressKept, Served, RowsOf
<1>7. QED
  BY <1>2, <1>3, <1>4, <1>5, <1>6, StepKinds

----------------------------------------------------------------------------
(* The theorems                                                            *)

LEMMA InitInv == Init => AllocationInv
<1> SUFFICES ASSUME Init
             PROVE  AllocationInv
  OBVIOUS
<1>1. Types
  BY InitTypes
<1>2. \A w \in Workers : task[w] = Idle /\ task[w].pc # "written"
  BY DEF Init, Idle
<1>3. RootsApart /\ GuardsApart /\ WrittenSound
  BY <1>2 DEF RootsApart, GuardsApart, WrittenSound
<1>4. \A o \in Orders : allocations[o] = NoRow
  BY DEF Init
<1>5. \A d \in Domains, day \in Days : ChargedTo(d, day) = {}
  BY <1>4 DEF ChargedTo, RowsOf
<1>6. ChargesFinite
  BY <1>5, FS_EmptySet DEF ChargesFinite
<1>7. UsageCounts
  <2>1. \A d \in Domains, day \in Days : usage[<<d, day>>] = 0 /\ 0 <= DailyLimit[d]
    BY DEF Init
  <2>2. QED
    BY <1>5, <2>1, FS_EmptySet DEF UsageCounts, ChargedTo
<1>8. ServedAddressKept
  BY <1>4 DEF ServedAddressKept, Served, RowsOf
<1>9. QED
  BY <1>1, <1>3, <1>6, <1>7, <1>8 DEF AllocationInv

LEMMA StepInv == AllocationInv /\ [Next]_vars => AllocationInv'
<1> SUFFICES ASSUME AllocationInv, [Next]_vars
             PROVE  AllocationInv'
  OBVIOUS
<1>1. /\ Types /\ RootsApart /\ GuardsApart /\ WrittenSound
      /\ ChargesFinite /\ UsageCounts /\ ServedAddressKept
  BY DEF AllocationInv
<1>2. Types' /\ RootsApart' /\ GuardsApart' /\ WrittenSound'
  BY <1>1, StepTypes, StepRootsApart, StepGuardsApart, StepWrittenSound
<1>3. ChargesFinite' /\ UsageCounts'
  BY <1>1, StepUsage
<1>4. ServedAddressKept'
  BY <1>1, StepKept
<1>5. QED
  BY <1>2, <1>3, <1>4 DEF AllocationInv

LEMMA AllocationInvariant == Spec => []AllocationInv
  BY InitInv, StepInv, PTL DEF Spec

\* Rows, transactions and history are what they may be.
THEOREM AllocationTypeCorrect == Spec => []TypeOK
<1>1. AllocationInv => TypeOK
  BY DEF AllocationInv, Types
<1>2. QED
  BY <1>1, AllocationInvariant, PTL

\* A day's usage counts what was charged to it and is within the limit of the
\* domain (EnsureDailyUsageAvailable, ConsumeDailyUsage).
THEOREM UsageCountsCorrect == Spec => []UsageCounts
<1>1. AllocationInv => UsageCounts
  BY DEF AllocationInv
<1>2. QED
  BY <1>1, AllocationInvariant, PTL

\* An order is served from a live mailbox of a domain that is not deleted and
\* has the owner it was allocated from, unless the owner deleted the domain
\* meanwhile (the root lock that allocation and commands share).
THEOREM ServedAddressKeptCorrect == Spec => []ServedAddressKept
<1>1. AllocationInv => ServedAddressKept
  BY DEF AllocationInv
<1>2. QED
  BY <1>1, AllocationInvariant, PTL

----------------------------------------------------------------------------
(* The refinement of AllocationContract                                    *)

Address(r) == <<r.mailbox.at, r.mailbox.local>>
Given == [o \in Orders |-> IF allocations[o] = NoRow THEN {}
            ELSE {<<allocations[o].mailbox.at, allocations[o].mailbox.local>>}]
Ended == {o \in Orders : allocations[o] # NoRow /\ allocations[o].status = "released"}

LEMMA InitContract == Init => Contract!Init
  BY DEF Init, Contract!Init

LEMMA CommitMaps ==
  ASSUME AllocationInv, NEW w \in Workers, Commit(w)
  PROVE  Contract!Next
<1> DEFINE t == task[w]
           r == task[w].row
<1>1. Types /\ WrittenSound /\ allocations \in [Orders -> {NoRow} \cup Rows]
  BY DEF AllocationInv, Types, TypeOK, Rows
<1>2. /\ t.order \in Orders /\ r \in Rows /\ allocations[t.order] = NoRow
      /\ allocations' = [allocations EXCEPT ![t.order] = r] /\ Sound(t.order, r)
  BY <1>1, CommitFields, CommitRow
<1>3. Address(r) \in Domains \X Locals /\ r # NoRow /\ r.status = "allocated"
  BY <1>2 DEF Address, Rows, Mailboxes, NoRow, Sound
<1>4. Given[t.order] = {} /\ Given' = [Given EXCEPT ![t.order] = {Address(r)}]
  BY <1>1, <1>2, <1>3 DEF Given, Address
<1>5. Ended' = Ended
  BY <1>1, <1>2, <1>3 DEF Ended
<1>6. \A q \in Orders : Project[q] = Project[t.order] => Address(r) \notin Given[q]
  BY <1>2 DEF Sound, Historic, Given, Address
<1>7. ASSUME NEW o \in Orders, o = t.order, NEW a \in Domains \X Locals, a = Address(r)
      PROVE  Contract!Give(o, a)
  BY <1>4, <1>5, <1>6, <1>7 DEF Given, Ended, Contract!Give, Contract!Fresh
<1>8. \E o \in Orders, a \in Domains \X Locals : Contract!Give(o, a)
  BY <1>2, <1>3, <1>7, Zenon
<1>9. QED
  BY <1>8 DEF Contract!Next

LEMMA ReleaseMaps ==
  ASSUME AllocationInv, NEW o \in Orders, ReleaseByOrder(o)
  PROVE  Contract!Next
<1>1. Types
  BY DEF AllocationInv
<1>2. /\ allocations[o] # NoRow /\ allocations'[o] # NoRow
      /\ allocations[o].status = "allocated" /\ allocations'[o].status = "released"
      /\ allocations'[o].mailbox = allocations[o].mailbox
      /\ \A q \in Orders \ {o} : allocations'[q] = allocations[q]
  BY <1>1, ReleaseRow
<1>3. Given' = Given /\ Given[o] # {}
  BY <1>2 DEF Given
<1>4. o \notin Ended /\ Ended' = Ended \cup {o}
  BY <1>2 DEF Ended
<1>5. Contract!Return(o)
  BY <1>3, <1>4 DEF Given, Ended, Contract!Return
<1>6. QED
  BY <1>5 DEF Contract!Next

LEMMA StepMaps ==
  AllocationInv /\ [Next]_vars => [Contract!Next]_<<Given, Ended>>
<1> SUFFICES ASSUME AllocationInv, [Next]_vars
             PROVE  [Contract!Next]_<<Given, Ended>>
  OBVIOUS
<1>1. UNCHANGED allocations => UNCHANGED <<Given, Ended>>
  BY DEF Given, Ended
<1>2. ASSUME NEW d \in Domains, Commanded(d) PROVE UNCHANGED allocations
  BY <1>2 DEF Commanded, Command
<1>3. QED
  BY <1>1, <1>2, StepKinds, CommitMaps, ReleaseMaps DEF Aside

\* Every step is one of the contract or none: an order is allocated once, and
\* two orders of one project never get the same address, whatever commands
\* and restorations come between.
THEOREM AllocationImplementsContract == Spec => ImplementsContract
  BY InitContract, StepMaps, AllocationInvariant, PTL
     DEF Spec, ImplementsContract, Contract!Spec, Given, Ended

=============================================================================
