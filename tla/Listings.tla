------------------------------ MODULE Listings ------------------------------
(***************************************************************************)
(* The two paged lists: tasks, newest first, and the state history of one  *)
(* task.  A page costs two statements, the count of the matching rows and  *)
(* the rows at an offset, outside any transaction, while other requests    *)
(* create tasks and move them.                                             *)
(*                                                                         *)
(* Rows are ordered by created_at.  The service stamps a new task and its  *)
(* first history rows before the insert; a later history row carries the   *)
(* time its transaction began, which may be before the row it waited for.  *)
(* So rows become visible in another order than they are listed in.        *)
(***************************************************************************)
EXTENDS Integers, FiniteSets

CONSTANTS
  Slugs,        \* task slugs
  Writers,      \* requests that can be writing at the same time
  Clients,      \* clients that page through a list
  PageSizes,    \* page_size values clients ask for
  MaxPageSize,  \* the largest page_size the service accepts
  None,
  MaxTime,      \* bound: ticks of the clock
  MaxRows       \* bound: rows of the history

WorkStates == {"open", "in_progress", "pending_verification", "completed"}

ASSUME ListingsAssumption ==
  /\ PageSizes \subseteq Int /\ MaxPageSize \in Nat /\ MaxTime \in Nat
  /\ MaxRows \in Nat
  /\ None \notin Slugs /\ None \notin {"work", "financial"}
  /\ None \notin [created : Nat, status : WorkStates, id : Nat]

VARIABLES
  clock,    \* created_at of what is stamped now
  task,     \* task[s]: its row in tasks, or None
  history,  \* the rows of task_state_transitions
  tx,       \* tx[w]: what writer w is about to commit
  walk      \* walk[c]: how far client c has paged

vars == <<clock, task, history, tx, walk>>

Kinds == {"work", "financial"}
Lists == {"tasks", "history"}

IdleTx == [op |-> "idle", slug |-> None, began |-> 0]

IdleWalk == [stage |-> "idle", list |-> "tasks", slug |-> None, filter |-> None,
             size |-> 1, page |-> 0, total |-> 0, rows |-> {},
             seen |-> {}, due |-> {}]

Rows == [kind: Kinds, slug: Slugs, version: 1..4, created: 0..MaxTime, id: Nat]

TypeOK ==
  /\ clock \in 0..MaxTime
  /\ \A s \in Slugs : task[s] # None => /\ task[s].status \in WorkStates
                                        /\ task[s].created \in 0..MaxTime
                                        /\ task[s].id \in Nat \ {0}
  /\ history \subseteq Rows
  /\ \A w \in Writers : /\ tx[w].op \in {"idle", "create", "move"}
                        /\ tx[w].began \in 0..clock
  /\ \A c \in Clients : /\ walk[c].stage \in {"idle", "count", "select", "shown"}
                        /\ walk[c].total \in Nat
                        /\ walk[c].rows \subseteq walk[c].seen

Init ==
  /\ clock = 0
  /\ task = [s \in Slugs |-> None]
  /\ history = {}
  /\ tx = [w \in Writers |-> IdleTx]
  /\ walk = [c \in Clients |-> IdleWalk]

Tick == clock < MaxTime /\ clock' = clock + 1 /\ UNCHANGED <<task, history, tx, walk>>

-----------------------------------------------------------------------------
(* Writers.                                                                *)

Stamped(w, op, s) ==
  /\ tx[w].op = "idle"
  /\ Cardinality(history) < MaxRows
  /\ tx' = [tx EXCEPT ![w] = [op |-> op, slug |-> s, began |-> clock]]
  /\ UNCHANGED <<clock, task, history, walk>>

\* The service stamps the task; its transaction comes after.
CreateCampaign(w, s) == Stamped(w, "create", s)

\* A transition's transaction begins, maybe to wait for the task's row.
BeginTransition(w, s) == task[s] # None /\ Stamped(w, "move", s)

Version(s, k) == Cardinality({h \in history : h.slug = s /\ h.kind = k})

\* The rows of kinds ks that s gets next.
NewRows(s, ks, created) ==
  {[kind |-> k, slug |-> s, version |-> Version(s, k) + 1, created |-> created,
    id |-> Cardinality(history) + (IF k = "work" THEN 1 ELSE Cardinality(ks))]
   : k \in ks}

\* Faulty variant: a campaign is inserted with a state of its own.
CommitCreateDraft(w) ==
  LET s == tx[w].slug
  IN  /\ tx[w].op = "create"
      /\ task[s] = None
      /\ task' = [task EXCEPT ![s] =
           [created |-> tx[w].began, status |-> "draft",
            id |-> 1 + Cardinality({r \in Slugs : task[r] # None})]]
      /\ history' = history \cup NewRows(s, Kinds, tx[w].began)
      /\ tx' = [tx EXCEPT ![w] = IdleTx]
      /\ UNCHANGED <<clock, walk>>

\* One transaction: the row, if the slug is free, and its two history rows.
CommitCreate(w) ==
  LET s == tx[w].slug
  IN  /\ tx[w].op = "create"
      /\ task[s] = None
      /\ task' = [task EXCEPT ![s] =
           [created |-> tx[w].began, status |-> "open",
            id |-> 1 + Cardinality({r \in Slugs : task[r] # None})]]
      /\ history' = history \cup NewRows(s, Kinds, tx[w].began)
      /\ tx' = [tx EXCEPT ![w] = IdleTx]
      /\ UNCHANGED <<clock, walk>>

NextWork ==
  [open |-> "in_progress", in_progress |-> "pending_verification",
   pending_verification |-> "completed"]

\* The lock is granted, the state moves on and its rows are inserted;
\* completion moves the money too.
CommitTransition(w) ==
  LET s == tx[w].slug
  IN  /\ tx[w].op = "move"
      /\ task[s].status \in DOMAIN NextWork
      /\ LET to == NextWork[task[s].status]
         IN  /\ task' = [task EXCEPT ![s].status = to]
             /\ history' = history \cup
                  NewRows(s, IF to = "completed" THEN Kinds ELSE {"work"},
                          tx[w].began)
      /\ tx' = [tx EXCEPT ![w] = IdleTx]
      /\ UNCHANGED <<clock, walk>>

\* A taken slug, a conflict, a failed statement or a crash.
Rollback(w) ==
  /\ tx[w].op # "idle"
  /\ tx' = [tx EXCEPT ![w] = IdleTx]
  /\ UNCHANGED <<clock, task, history, walk>>

-----------------------------------------------------------------------------
(* Readers.                                                                *)

\* The WHERE clauses: a task's status may change, a history row never does.
TaskRows(status) ==
  {[key |-> s, created |-> task[s].created, id |-> task[s].id] :
     s \in {r \in Slugs : task[r] # None /\ status \in {None, task[r].status}}}

HistoryRows(s, kind) ==
  {[key |-> <<h.kind, h.version>>, created |-> h.created, id |-> h.id] :
     h \in {g \in history : g.slug = s /\ kind \in {None, g.kind}}}

Matching(l) ==
  IF l.list = "tasks" THEN TaskRows(l.filter) ELSE HistoryRows(l.slug, l.filter)

KeysOf(rows) == {r.key : r \in rows}

\* ORDER BY created_at DESC, id DESC.
Before(a, b) == \/ a.created > b.created
                \/ a.created = b.created /\ a.id > b.id

\* Faulty variant: pages are numbered from 0.
OnPageFromZero(rows, page, size) ==
  {r \in rows : LET above == Cardinality({q \in rows : Before(q, r)})
                IN  above \in page * size .. (page + 1) * size - 1}

\* LIMIT size OFFSET (page - 1) * size.
OnPage(rows, page, size) ==
  {r \in rows : LET above == Cardinality({q \in rows : Before(q, r)})
                IN  above \in (page - 1) * size .. page * size - 1}

Ask(c, request) ==
  /\ walk[c].stage = "idle"
  /\ request.size \in 1..MaxPageSize
  /\ walk' = [walk EXCEPT ![c] =
       [request EXCEPT !.stage = "count", !.page = 1,
                       !.due = KeysOf(Matching(request))]]
  /\ UNCHANGED <<clock, task, history, tx>>

\* The first page of the tasks, all of them or those in one state.
ListTasks(c, status, size) ==
  /\ status \in {None} \cup WorkStates
  /\ Ask(c, [IdleWalk EXCEPT !.list = "tasks", !.filter = status, !.size = size])

GetTask(s) == task[s] # None

\* The first page of an existing task's history, of one kind or both.
ListStateTransitions(c, s, kind, size) ==
  /\ kind \in {None} \cup Kinds
  /\ GetTask(s)
  /\ Ask(c, [IdleWalk EXCEPT !.list = "history", !.slug = s, !.filter = kind,
                             !.size = size])

\* Faulty variant: the count is taken without the filter.
CountEverything(c) ==
  /\ walk[c].stage = "count"
  /\ walk' = [walk EXCEPT ![c] =
       [@ EXCEPT !.stage = "select",
                 !.total = Cardinality(Matching([walk[c] EXCEPT !.filter = None]))]]
  /\ UNCHANGED <<clock, task, history, tx>>

Count(c) ==
  /\ walk[c].stage = "count"
  /\ walk' = [walk EXCEPT ![c] =
       [@ EXCEPT !.stage = "select", !.total = Cardinality(Matching(walk[c]))]]
  /\ UNCHANGED <<clock, task, history, tx>>

\* The page's rows, and the answer.
Select(c) ==
  LET rows == KeysOf(OnPage(Matching(walk[c]), walk[c].page, walk[c].size))
  IN  /\ walk[c].stage = "select"
      /\ walk' = [walk EXCEPT ![c] =
           [@ EXCEPT !.stage = "shown", !.rows = rows, !.seen = walk[c].seen \cup rows]]
      /\ UNCHANGED <<clock, task, history, tx>>

\* The client asks for the next page while pages still bring rows.
NextPage(c) ==
  /\ walk[c].stage = "shown"
  /\ walk[c].rows # {}
  /\ walk' = [walk EXCEPT ![c] =
       [@ EXCEPT !.stage = "count", !.page = walk[c].page + 1,
                 !.total = 0, !.rows = {}]]
  /\ UNCHANGED <<clock, task, history, tx>>

\* The client has seen enough, or gets an error.
Leave(c) ==
  /\ walk[c].stage # "idle"
  /\ walk' = [walk EXCEPT ![c] = IdleWalk]
  /\ UNCHANGED <<clock, task, history, tx>>

Next ==
  \/ Tick
  \/ \E w \in Writers :
       \/ \E s \in Slugs : CreateCampaign(w, s) \/ BeginTransition(w, s)
       \/ CommitCreate(w) \/ CommitTransition(w) \/ Rollback(w)
  \/ \E c \in Clients :
       \/ \E size \in PageSizes :
            \/ \E status \in {None} \cup WorkStates : ListTasks(c, status, size)
            \/ \E s \in Slugs, kind \in {None} \cup Kinds :
                 ListStateTransitions(c, s, kind, size)
       \/ Count(c) \/ Select(c) \/ NextPage(c) \/ Leave(c)

Spec == Init /\ [][Next]_vars

-----------------------------------------------------------------------------
\* Lists that rows only ever join: a history, and the unfiltered tasks.
Grows(l) == l.list = "history" \/ l.filter = None

\* Whoever pages to the first empty page has seen every row that was there
\* when they began, although rows arrive between pages and are listed above or
\* between those already shown.
WalkMissesNothing ==
  \A c \in Clients :
    walk[c].stage = "shown" /\ walk[c].rows = {} /\ Grows(walk[c]) =>
      walk[c].due \subseteq walk[c].seen

\* A page never holds less than the total it is shown with promises, although
\* count and rows are two statements.
TotalsHonoured ==
  \A c \in Clients :
    LET l == walk[c]
        left == l.total - (l.page - 1) * l.size
    IN  l.stage = "shown" /\ Grows(l) =>
          Cardinality(l.rows) >= IF left < l.size THEN left ELSE l.size
=============================================================================
