-------------------------------- MODULE Crud --------------------------------
(***************************************************************************)
(* CrudFactory (controllers.ts): the pages and the writes of one table,    *)
(* and the DataTables list that walks it page by page.  A request is       *)
(* admitted by the permission its action maps to, dispatched by its action *)
(* name, and ends in one SQL statement; between these steps the statements *)
(* of other requests run.  A row's data is one text column besides the     *)
(* archive date; Null is 0, which sorts first.                             *)
(***************************************************************************)
EXTENDS Integers, FiniteSets

CONSTANTS
    Conns,      \* requests in flight besides the list's own
    Roles, Permits, \* the route's rule: what each role may do
    LastId,     \* bound: ids the table hands out
    LastText,   \* texts are 1..LastText; NullWord is the one spelt "null"
    NullWord,
    Amount,     \* rows that /testdata inserts
    Lengths,    \* page lengths that the list's menu offers
    DefaultLength, MaxLength,
    Options,    \* the tables to look at: options is one of them
    MaxBusy     \* bound: clients that ask or look at an answer, the list's included

ASSUME CrudAssumption ==
    /\ Permits \in [Roles -> SUBSET {"read", "create", "update", "delete"}]
    /\ LastId \in Nat \ {0} /\ LastText \in Nat /\ NullWord \in 1..LastText
    /\ Amount \in Nat \ {0}
    /\ DefaultLength \in Nat \ {0} /\ MaxLength \in Nat \ {0} /\ DefaultLength <= MaxLength
    /\ Lengths \subseteq 1..MaxLength /\ MaxBusy \in Nat
    /\ Options \subseteq [readOnly : BOOLEAN, archivable : BOOLEAN, development : BOOLEAN,
                        downloadableCsv : BOOLEAN]

VARIABLES
    options,    \* as in the source; archivable: there is a deletedAt
    state,      \* state[id]: "absent", "live" or "archived" (deletedAt is set)
    text,       \* text[id]
    req,        \* req[c]: a request
    walk        \* a walk of the list: what it asks for, what it was told
                \* and, for history, the rows that it still owes

table == <<state, text>>
vars == <<options, table, req, walk>>

Ids == 1..LastId
Null == 0
Texts == 0..LastText
States == {"absent", "live", "archived"}
Live == {i \in Ids : state[i] = "live"}

Slugged == {"show", "edit", "update", "delete", "restore"}
Writing == {"new", "create", "testdata", "edit", "update", "delete", "restore"}
Pages == {"list", "columns", "new"}
Actions == Slugged \cup Writing \cup Pages \cup {"csv"}
NoSlug == 0
\* The fields of a form: a text, and the archive date if it is a field.
Fields == [text : Texts, deletedAt : States \cup {"unset"}]

\* Mutant of Permission: restore has no case of its own.
PermissionForgetsRestore(action) ==
    CASE action \in {"new", "create", "testdata"} -> "create"
      [] action \in {"edit", "update"} -> "update"
      [] action = "delete" -> "delete"
      [] OTHER -> "read"

\* CrudFactory.getAction
Permission(action) ==
    CASE action \in {"new", "create", "testdata"} -> "create"
      [] action \in {"edit", "update", "restore"} -> "update"
      [] action = "delete" -> "delete"
      [] OTHER -> "read"

\* The cases of controller() that call denyWriteWhenReadOnly first.
Denied(action) == options.readOnly /\ action \in Writing

\* Mutant of Unlisted: the blacklist forgets the dates.
UnlistedButDates(fields) == fields

\* Object.fromEntries(... blacklist.concat(['id']))
Unlisted(fields) == [fields EXCEPT !.deletedAt = "unset"]

-----------------------------------------------------------------------------

Idle == [stage |-> "idle", action |-> "list", id |-> NoSlug, held |-> {},
         fields |-> [text |-> Null, deletedAt |-> "unset"],
         told |-> "none", left |-> 0, lost |-> 0]

Answer(c, what) == req' = [req EXCEPT ![c] = [Idle EXCEPT !.told = what]]

\* A request arrives, the guard looks its role up once, and controller()
\* dispatches: pages are rendered at once, and what the handlers check
\* before their first await is answered at once.
Dispatch(c, role, action, id, fields) ==
    LET Enter(stage, n) ==
            req' = [req EXCEPT ![c] = [Idle EXCEPT !.stage = stage, !.action = action, !.id = id,
                                        !.held = Permits[role], !.left = n, !.fields = fields]]
    IN  IF \/ Permission(action) \notin Permits[role]
           \/ Denied(action)
           \/ action \in Slugged /\ id = NoSlug
        THEN Answer(c, "error")
        ELSE CASE action \in {"show", "edit"} -> Enter("select", 0)
               [] action = "csv" ->
                     IF options.downloadableCsv THEN Enter("select", 0) ELSE Answer(c, "error")
               [] action \in {"create", "update"} -> Enter("parse", 0)
               [] action = "delete" ->
                     IF options.archivable THEN Enter("write", 1) ELSE Answer(c, "error")
               [] action = "restore" -> Enter("write", 1)
               [] action = "testdata" ->
                     IF options.development THEN Enter("write", Amount) ELSE Answer(c, "error")
               [] OTHER -> Answer(c, "page")

Busy == {c \in Conns : req[c] # Idle}

\* The form of /new holds a text; update is posted by an open edit form.
Arrive(c, role, action, id) ==
    /\ req[c].stage = "idle" /\ action # "update"
    /\ Cardinality(Busy \ {c}) + (IF walk.stage = "off" THEN 0 ELSE 1) < MaxBusy
    /\ action \in Slugged \/ id = NoSlug
    /\ \E t \in 1..LastText : Dispatch(c, role, action, id, [Idle.fields EXCEPT !.text = t])
    /\ UNCHANGED <<options, table, walk>>

\* fetchCrudRecordByIdOrRespond: archived rows are found too.  The edit page
\* puts every column of the row into an input, NULL as the word null.
Fetch(c) ==
    /\ req[c].stage = "select" /\ req[c].action \in Slugged
    /\ LET i == req[c].id
       IN  IF state[i] = "absent" THEN Answer(c, "error")
           ELSE IF req[c].action = "show" THEN Answer(c, "page")
           ELSE req' = [req EXCEPT ![c] =
                  [Idle EXCEPT !.stage = "open", !.id = i,
                     !.fields = [deletedAt |-> state[i],
                                 text |-> IF text[i] = Null THEN NullWord ELSE text[i]]]]
    /\ UNCHANGED <<options, table, walk>>

\* The rows of the list, whatever the page, come as a file.
ExportCsv(c) ==
    /\ req[c].stage = "select" /\ req[c].action = "csv"
    /\ Answer(c, "page")
    /\ UNCHANGED <<options, table, walk>>

SelectFails(c) ==
    /\ req[c].stage = "select"
    /\ Answer(c, "error")
    /\ UNCHANGED <<options, table, walk>>

\* Whoever opened the edit form saves it, in a role of that time, with a
\* text typed into it or not.
Save(c, role, t) ==
    /\ req[c].stage = "open"
    /\ Dispatch(c, role, "update", req[c].id, [req[c].fields EXCEPT !.text = t])
    /\ UNCHANGED <<options, table, walk>>

\* An open form, or whatever was answered, is left.
Leave(c) ==
    /\ req[c].stage \in {"open", "idle"}
    /\ Answer(c, "none")
    /\ UNCHANGED <<options, table, walk>>

\* parseForm resolves, and the fields that a form may not set are dropped.
Parse(c) ==
    /\ req[c].stage = "parse"
    /\ req' = [req EXCEPT ![c] =
                [req[c] EXCEPT !.stage = "write", !.left = 1, !.fields = Unlisted(@)]]
    /\ UNCHANGED <<options, table, walk>>

ParseFails(c) ==
    /\ req[c].stage = "parse"
    /\ Answer(c, "error")
    /\ UNCHANGED <<options, table, walk>>

\* What one statement of the request does to the table.  UPDATE changes the
\* row with that id, if there is one, and succeeds all the same if not.
Insert(t) ==
    \E i \in Ids :
        /\ state[i] = "absent" /\ \A j \in 1..(i - 1) : state[j] # "absent"
        /\ state' = [state EXCEPT ![i] = "live"]
        /\ text' = [text EXCEPT ![i] = t]

SetRow(i, s, t) ==
    IF state[i] = "absent" THEN UNCHANGED table
    ELSE /\ state' = [state EXCEPT ![i] = s]
         /\ text' = [text EXCEPT ![i] = t]

Statement(c) ==
    LET i == req[c].id
        set == req[c].fields
    IN  CASE req[c].action = "create" -> Insert(set.text)
          [] req[c].action = "testdata" -> Insert(LastText)
          [] req[c].action = "update" ->
                SetRow(i, IF set.deletedAt = "unset" THEN state[i] ELSE set.deletedAt, set.text)
          [] req[c].action = "delete" -> SetRow(i, "archived", text[i])
          [] req[c].action = "restore" -> SetRow(i, "live", text[i])

Unknown == -1
NoWalk == [stage |-> "off", order |-> "none", search |-> Null, length |-> 0, offset |-> 0,
           filtered |-> Unknown, gotPage |-> FALSE, owed |-> {}]

\* What the list shows: rows that are not archived and match its search.
Listed(s, t) ==
    {i \in Ids : s[i] = "live" /\ (walk.search # Null => t[i] = walk.search)}

\* A walk is followed no longer when a row leaves what it shows, or comes
\* into it while a request is being answered.
Watch ==
    LET before == Listed(state, text)
        after == Listed(state', text')
    IN  walk' = IF before \subseteq after /\ (walk.stage = "query" => after \subseteq before)
                THEN walk ELSE NoWalk

\* Mutant of Told: success is told when every statement has ended.
ToldWhenEnded(c) == IF req[c].left = 1 THEN "ok" ELSE req[c].told

\* Promise.all: success is told when the last statement has succeeded.
Told(c) == IF req[c].told = "none" /\ req[c].left = 1 THEN "ok" ELSE req[c].told

Settled(c, told, lost) ==
    req' = [req EXCEPT ![c] =
              IF req[c].left = 1
              THEN [Idle EXCEPT !.told = told, !.lost = req[c].lost + lost]
              ELSE [req[c] EXCEPT !.left = @ - 1, !.told = told, !.lost = @ + lost]]

\* A statement of the request commits (restore on a table without the column
\* cannot: its SET is empty).
Commit(c) ==
    /\ req[c].stage = "write"
    /\ req[c].action = "restore" => options.archivable
    /\ Statement(c)
    /\ Watch
    /\ Settled(c, Told(c), 0)
    /\ UNCHANGED options

\* It fails: the first failure is answered at once, while the other inserts
\* of /testdata run on.
Fail(c) ==
    /\ req[c].stage = "write"
    /\ Settled(c, "error", 1)
    /\ UNCHANGED <<options, table, walk>>

\* The connection breaks after the commit: the statement's promise rejects.
CommitUnheard(c) ==
    /\ req[c].stage = "write"
    /\ req[c].action = "restore" => options.archivable
    /\ Statement(c)
    /\ Watch
    /\ Settled(c, "error", 1)
    /\ UNCHANGED options

-----------------------------------------------------------------------------
(* GET .../json, and the DataTables list that asks for one page after the  *)
(* other: the count and the page are statements that a pool runs in any    *)
(* order.                                                                  *)

\* normaliseCrudDataTablesPaging
Limit(length) ==
    LET limit == IF length < 1 THEN DefaultLength ELSE length
    IN  IF limit > MaxLength THEN MaxLength ELSE limit

\* Columns that /columns calls orderable: the id, a text; or no usable order.
Orders == {"asc", "text", "none"}

\* crudJsonBuildOrderBy: without a usable order, the primary key descending.
Before(i, j) ==
    CASE walk.order = "asc" -> i < j
      [] walk.order = "text" -> text[i] < text[j]
      [] OTHER -> j < i

\* ORDER BY leaves rows that tie in any order, and in another one next time.
Rankings(S) ==
    {rank \in [S -> 1..Cardinality(S)] :
        \A i, j \in S : /\ i # j => rank[i] # rank[j]
                        /\ Before(i, j) => rank[i] < rank[j]}

PageOf(rank) ==
    {i \in DOMAIN rank : walk.offset < rank[i] /\ rank[i] <= walk.offset + Limit(walk.length)}

\* recordsFiltered; without a search that is the count of all live rows.
CountFiltered ==
    /\ walk.stage = "query" /\ walk.filtered = Unknown
    /\ walk' = [walk EXCEPT !.filtered = Cardinality(Listed(state, text))]
    /\ UNCHANGED <<options, table, req>>

SelectPage ==
    /\ walk.stage = "query" /\ ~walk.gotPage
    /\ \E rank \in Rankings(Listed(state, text)) :
          walk' = [walk EXCEPT !.gotPage = TRUE, !.owed = @ \ PageOf(rank)]
    /\ UNCHANGED <<options, table, req>>

\* Mutant of AnswerPage: rows are counted for the first page only.
AnswerPageCountedOnce ==
    /\ walk.stage = "query" /\ walk.gotPage
    /\ walk.filtered # Unknown
    /\ walk' = IF walk.offset + walk.length < walk.filtered
               THEN [walk EXCEPT !.stage = "more", !.gotPage = FALSE]
               ELSE [NoWalk EXCEPT !.stage = "end", !.order = walk.order, !.owed = walk.owed]
    /\ UNCHANGED <<options, table, req>>

\* Promise.all has its results; the browser shows the page, and there
\* is a next one while recordsFiltered says so.
AnswerPage ==
    /\ walk.stage = "query" /\ walk.gotPage
    /\ walk.filtered # Unknown
    /\ walk' = IF walk.offset + walk.length < walk.filtered
               THEN [walk EXCEPT !.stage = "more", !.filtered = Unknown, !.gotPage = FALSE]
               ELSE [NoWalk EXCEPT !.stage = "end", !.order = walk.order, !.owed = walk.owed]
    /\ UNCHANGED <<options, table, req>>

\* One of them rejects, status 500; or the browser leaves the list.
ListStops ==
    /\ walk.stage # "off"
    /\ walk' = NoWalk
    /\ UNCHANGED <<options, table, req>>

AskFirst(order, search, length) ==
    /\ walk.stage \in {"off", "end"} /\ Cardinality(Busy) < MaxBusy
    /\ walk' = [NoWalk EXCEPT !.stage = "query", !.order = order, !.search = search,
                 !.length = length,
                 !.owed = {i \in Live : search # Null => text[i] = search}]
    /\ UNCHANGED <<options, table, req>>

AskNext ==
    /\ walk.stage = "more"
    /\ walk' = [walk EXCEPT !.stage = "query", !.offset = @ + walk.length]
    /\ UNCHANGED <<options, table, req>>

-----------------------------------------------------------------------------

Init ==
    /\ options \in Options
    /\ state \in [Ids -> {"absent", "live"}]
    /\ \A i, j \in Ids : i < j /\ state[i] = "absent" => state[j] = "absent"
    /\ text \in [Ids -> Texts]
    /\ \A i \in Ids : state[i] = "absent" => text[i] = Null
    /\ req = [c \in Conns |-> Idle]
    /\ walk = NoWalk

Next ==
    \/ \E c \in Conns, role \in Roles, action \in Actions, id \in Ids \cup {NoSlug} :
          Arrive(c, role, action, id)
    \/ \E c \in Conns :
          \/ Fetch(c) \/ ExportCsv(c) \/ SelectFails(c) \/ Leave(c) \/ Parse(c) \/ ParseFails(c)
          \/ Commit(c) \/ Fail(c) \/ CommitUnheard(c)
    \/ \E c \in Conns, role \in Roles, t \in 1..LastText : Save(c, role, t)
    \/ \E order \in Orders, search \in Texts, length \in Lengths :
          AskFirst(order, search, length)
    \/ CountFiltered \/ SelectPage \/ AnswerPage \/ ListStops \/ AskNext

Spec == Init /\ [][Next]_vars

-----------------------------------------------------------------------------

Writes(c) == req[c].stage = "write" /\ req'[c] # req[c]

\* Inserting a row takes the permission to create, changing a text or
\* reviving a row the one to update, archiving the one to delete, and a
\* read-only table does not change: getAction and controller() are two
\* switches over the same names, and the role is looked up once, before the
\* form is read.
OnlyAsPermitted ==
    [][\A i \in Ids :
          /\ state[i] = "absent" /\ state'[i] # "absent" =>
                \E c \in Conns : Writes(c) /\ "create" \in req[c].held
          /\ state[i] = "live" /\ state'[i] # "live" =>
                \E c \in Conns : Writes(c) /\ "delete" \in req[c].held
          /\ state[i] = "archived" /\ state'[i] # "archived" =>
                \E c \in Conns : Writes(c) /\ "update" \in req[c].held
          /\ state[i] # "absent" /\ text'[i] # text[i] =>
                \E c \in Conns : Writes(c) /\ "update" \in req[c].held
          /\ <<state'[i], text'[i]>> # <<state[i], text[i]>> => ~options.readOnly]_vars

\* A row is archived by delete and revived by restore, each for that row, and
\* by nothing else: an edit form that was opened before the row was archived
\* or restored, and saved after, carries the old date and does not bring it
\* back.  A row never disappears.
ArchiveStands ==
    [][\A i \in Ids :
          /\ state[i] = "live" /\ state'[i] # "live" =>
                \E c \in Conns : Writes(c) /\ req[c].action = "delete" /\ req[c].id = i
          /\ state[i] = "archived" /\ state'[i] # "archived" =>
                \E c \in Conns : Writes(c) /\ req[c].action = "restore" /\ req[c].id = i
          /\ state[i] # "absent" => state'[i] # "absent"]_vars

\* "Test data was generated." is told only when every insert succeeded, though
\* they run at once and any of them may fail first; in the same way no write
\* is confirmed whose statement failed.
ConfirmedIsDone ==
    \A c \in Conns :
        req[c].told = "ok" => req[c].lost = 0 /\ req[c].left = 0

\* A list that pages through the table by primary key shows every row that
\* was listed when it began, unless a row left what it lists, or came into
\* it between the count and the page of one request: rows that are inserted
\* between two requests may repeat others but hide none.
WalkComplete ==
    walk.stage = "end" /\ walk.order # "text" => walk.owed = {}

Requests ==
    [stage : {"idle", "select", "open", "parse", "write"},
     action : Actions, id : Ids \cup {NoSlug},
     held : SUBSET {"read", "create", "update", "delete"},
     fields : Fields, told : {"none", "page", "ok", "error"}, left : Nat, lost : Nat]

Walks ==
    [stage : {"off", "query", "more", "end"}, order : Orders, search : Texts,
     length : Nat, offset : Nat, filtered : Nat \cup {Unknown},
     gotPage : BOOLEAN, owed : SUBSET Ids]

TypeOK ==
    /\ options \in Options
    /\ state \in [Ids -> States] /\ text \in [Ids -> Texts]
    /\ req \in [Conns -> Requests]
    /\ walk \in Walks
=============================================================================
