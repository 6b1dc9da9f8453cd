----------------------------- MODULE Crud_proof -----------------------------
(***************************************************************************)
(* The safety properties of Crud, for any number of requests, roles, rows  *)
(* and texts.  Of the writes the inductive invariant says what is known of *)
(* a request by the step it waits for: one that is about to write has been *)
(* permitted for its action, found the table writable and lost the dates   *)
(* of its form.  Of the list that is read page by page it says that a row  *)
(* owed to the reader still lies behind the offset: how many rows come     *)
(* before it in the order asked for decides which page it is on.           *)
(***************************************************************************)
EXTENDS Crud, FiniteSetTheorems, TLAPS

MayWrite(r) == ~options.readOnly /\ Permission(r.action) \in r.held

\* What is known of a request in each stage.
Sound(r) ==
    /\ r.stage # "idle" => r.told \in {"none", "error"}
    /\ r.told = "none" => r.lost = 0
    /\ r.told = "ok" => r.left = 0 /\ r.lost = 0
    /\ r.stage = "open" => r.id \in Ids
    /\ r.stage = "select" /\ r.action \in Slugged => r.id \in Ids
    /\ r.stage = "parse" =>
          /\ MayWrite(r) /\ r.action \in {"create", "update"}
          /\ r.action = "update" => r.id \in Ids
    /\ r.stage = "write" =>
          /\ MayWrite(r) /\ r.left # 0
          /\ r.action \in {"create", "testdata", "update", "delete", "restore"}
          /\ r.action \in {"update", "delete", "restore"} => r.id \in Ids
          /\ r.action = "update" => r.fields.deletedAt = "unset"

Inv == TypeOK /\ \A c \in Conns : Sound(req[c])

-----------------------------------------------------------------------------
(* Requests, one at a time.                                                *)

\* A request that is answered, or has not come, is sound.
LEMMA IdleIsSound ==
    ASSUME NEW told \in {"none", "page", "ok", "error"}
    PROVE  /\ [Idle EXCEPT !.told = told] \in Requests
           /\ Sound([Idle EXCEPT !.told = told])
  BY CrudAssumption DEF Idle, Requests, Sound, Actions, Pages, Fields, Texts, States, Null, NoSlug

\* A step that replaces one request by a sound one keeps all of them sound.
LEMMA OneRequest ==
    ASSUME Inv, NEW c \in Conns, NEW r, r \in Requests, Sound(r),
           req' = [req EXCEPT ![c] = r], UNCHANGED options
    PROVE  req' \in [Conns -> Requests] /\ \A d \in Conns : Sound(req[d])'
  <1>1. req' \in [Conns -> Requests]
    BY DEF Inv, TypeOK
  <1>2. \A d \in Conns : req'[d] = IF d = c THEN r ELSE req[d]
    BY DEF Inv, TypeOK
  <1>3. \A d \in Conns : Sound(req[d])'
    BY <1>2 DEF Inv, Sound, MayWrite
  <1> QED
    BY <1>1, <1>3

\* Dispatch leaves a sound request, whatever was asked for.
LEMMA DispatchIsSound ==
    ASSUME Inv, NEW c \in Conns, NEW role \in Roles, NEW action \in Actions,
           NEW id \in Ids \cup {NoSlug}, NEW fields \in Fields,
           Dispatch(c, role, action, id, fields), UNCHANGED options
    PROVE  req' \in [Conns -> Requests] /\ \A d \in Conns : Sound(req[d])'
  <1> DEFINE Entered(stage, n) ==
        [Idle EXCEPT !.stage = stage, !.action = action, !.id = id,
                     !.held = Permits[role], !.left = n, !.fields = fields]
  <1>1. CASE \E told \in {"none", "page", "ok", "error"} : Answer(c, told)
    BY <1>1, IdleIsSound, OneRequest DEF Answer
  <1>2. ASSUME ~(\/ Permission(action) \notin Permits[role]
                 \/ Denied(action)
                 \/ action \in Slugged /\ id = NoSlug),
               NEW stage \in {"select", "parse", "write"}, NEW n \in Nat,
               req' = [req EXCEPT ![c] = Entered(stage, n)],
               stage = "parse" => action \in {"create", "update"},
               stage = "write" => n # 0 /\ action \in {"delete", "restore", "testdata"}
        PROVE  req' \in [Conns -> Requests] /\ \A d \in Conns : Sound(req[d])'
    <2>1. Entered(stage, n) \in Requests
      BY CrudAssumption DEF Idle, Requests
    <2>2. Sound(Entered(stage, n))
      BY <1>2, CrudAssumption
      DEF Idle, Sound, MayWrite, Denied, Writing, Slugged, NoSlug
    <2> HIDE DEF Entered
    <2> QED
      BY <1>2, <2>1, <2>2, OneRequest
  <1>3. Amount \in Nat /\ Amount # 0
    BY CrudAssumption
  <1>4. CASE action \in {"show", "edit", "csv"}
    BY <1>1, <1>2, <1>4 DEF Dispatch, Slugged
  <1>5. CASE action \in {"create", "update"}
    BY <1>1, <1>2, <1>5 DEF Dispatch
  <1>6. CASE action \in {"delete", "restore", "testdata"}
    <2> DEFINE refused == \/ Permission(action) \notin Permits[role]
                          \/ Denied(action)
                          \/ action \in Slugged /\ id = NoSlug
               n == IF action = "testdata" THEN Amount ELSE 1
    <2>1. Answer(c, "error") \/ (~refused /\ req' = [req EXCEPT ![c] = Entered("write", n)])
      <3>1. CASE action = "delete"
        BY <3>1 DEF Dispatch
      <3>2. CASE action = "restore"
        BY <3>2 DEF Dispatch
      <3>3. CASE action = "testdata"
        BY <3>3 DEF Dispatch
      <3> QED
        BY <1>6, <3>1, <3>2, <3>3
    <2>2. n \in Nat /\ n # 0
      BY <1>3
    <2> HIDE DEF n, Entered
    <2> QED
      BY <1>1, <1>2, <1>6, <2>1, <2>2
  <1>7. CASE action \notin {"show", "edit", "csv", "create", "update", "delete", "restore", "testdata"}
    BY <1>1, <1>7 DEF Dispatch
  <1> QED
    BY <1>4, <1>5, <1>6, <1>7

\* A statement that has ended leaves a sound request, told what it may be.
LEMMA SettledIsSound ==
    ASSUME Inv, NEW c \in Conns, NEW told \in {"none", "ok", "error"}, NEW lost \in {0, 1},
           req[c].stage = "write", Settled(c, told, lost), UNCHANGED options,
           told = "none" => req[c].told = "none" /\ lost = 0,
           told = "ok" => req[c].told = "none" /\ lost = 0 /\ req[c].left = 1
    PROVE  req' \in [Conns -> Requests] /\ \A d \in Conns : Sound(req[d])'
  <1> DEFINE last == [Idle EXCEPT !.told = told, !.lost = req[c].lost + lost]
             next == [req[c] EXCEPT !.left = @ - 1, !.told = told, !.lost = @ + lost]
  <1>1. req[c] \in Requests /\ Sound(req[c])
    BY DEF Inv, TypeOK
  <1>l. req[c].lost + lost \in Nat
    BY <1>1 DEF Requests
  <1>2. CASE req[c].left = 1
    <2>1. last \in Requests
      <3>1. [Idle EXCEPT !.told = told] \in Requests
        BY IdleIsSound
      <3> QED
        BY <1>l, <3>1 DEF Idle, Requests
    <2>2. Sound(last)
      BY <1>1 DEF Idle, Requests, Sound
    <2>3. req' = [req EXCEPT ![c] = last]
      BY <1>2 DEF Settled
    <2> HIDE DEF last
    <2> QED
      BY <2>1, <2>2, <2>3, OneRequest
  <1>3. CASE req[c].left # 1
    <2>1. req[c].left \in Nat /\ req[c].left # 0
      BY <1>1 DEF Requests, Sound
    <2>2. next \in Requests
      <3>1. req[c].left - 1 \in Nat
        BY <2>1
      <3>2. told \in {"none", "page", "ok", "error"}
        OBVIOUS
      <3> QED
        BY <1>1, <1>l, <3>1, <3>2 DEF Requests
    <2>3. Sound(next)
      BY <1>1, <1>3, <2>1 DEF Requests, Sound, MayWrite
    <2>4. req' = [req EXCEPT ![c] = next]
      BY <1>3 DEF Settled
    <2> HIDE DEF next
    <2> QED
      BY <2>2, <2>3, <2>4, OneRequest
  <1> QED
    BY <1>2, <1>3

-----------------------------------------------------------------------------
(* Rows and the list.                                                      *)

TableOK == state \in [Ids -> States] /\ text \in [Ids -> Texts]

\* What a step may have done to the rows, and by which action of c.
Allowed(c) ==
    \A i \in Ids :
        /\ state[i] = "absent" /\ state'[i] # "absent" => req[c].action \in {"create", "testdata"}
        /\ state[i] = "live" /\ state'[i] # "live" => req[c].action = "delete" /\ req[c].id = i
        /\ state[i] = "archived" /\ state'[i] # "archived" =>
              req[c].action = "restore" /\ req[c].id = i
        /\ state[i] # "absent" => state'[i] # "absent"
        /\ state[i] # "absent" /\ text'[i] # text[i] => req[c].action = "update"

LEMMA StatementIsAllowed ==
    ASSUME Inv, NEW c \in Conns, req[c].stage = "write", Statement(c)
    PROVE  TableOK' /\ Allowed(c)
  <1>1. /\ req[c].action \in {"create", "testdata", "update", "delete", "restore"}
        /\ req[c].action \in {"update", "delete", "restore"} => req[c].id \in Ids
        /\ req[c].action = "update" => req[c].fields.deletedAt = "unset"
        /\ req[c].fields.text \in Texts
    BY DEF Inv, Sound, TypeOK, Requests, Fields
  <1>2. TableOK /\ LastText \in Texts
    BY CrudAssumption DEF Inv, TypeOK, TableOK, Texts
  <1>3. ASSUME NEW t \in Texts, Insert(t), req[c].action \in {"create", "testdata"}
        PROVE  TableOK' /\ Allowed(c)
    BY <1>2, <1>3 DEF Insert, TableOK, Allowed, States
  <1>4. ASSUME NEW i \in Ids, NEW s \in States, NEW t \in Texts, SetRow(i, s, t),
               i = req[c].id,
               \/ req[c].action = "update" /\ s = state[i]
               \/ req[c].action = "delete" /\ s = "archived" /\ t = text[i]
               \/ req[c].action = "restore" /\ s = "live" /\ t = text[i]
        PROVE  TableOK' /\ Allowed(c)
    BY <1>2, <1>4 DEF SetRow, TableOK, Allowed, States, table
  <1>5. CASE req[c].action = "create"
    BY <1>1, <1>3, <1>5 DEF Statement
  <1>6. CASE req[c].action = "testdata"
    BY <1>2, <1>3, <1>6 DEF Statement
  <1>7. CASE req[c].action = "update"
    <2>1. SetRow(req[c].id, state[req[c].id], req[c].fields.text)
      BY <1>1, <1>7 DEF Statement
    <2>2. state[req[c].id] \in States
      BY <1>1, <1>2, <1>7 DEF TableOK
    <2> QED
      BY <1>1, <1>4, <1>7, <2>1, <2>2
  <1>8. CASE req[c].action \in {"delete", "restore"}
    <2>1. text[req[c].id] \in Texts /\ "archived" \in States /\ "live" \in States
      BY <1>1, <1>2, <1>8 DEF TableOK, States
    <2>2. CASE req[c].action = "delete"
      <3>1. SetRow(req[c].id, "archived", text[req[c].id])
        BY <2>2 DEF Statement
      <3> QED
        BY <1>1, <1>4, <2>1, <2>2, <3>1
    <2>3. CASE req[c].action = "restore"
      <3>1. SetRow(req[c].id, "live", text[req[c].id])
        BY <2>3 DEF Statement
      <3> QED
        BY <1>1, <1>4, <2>1, <2>3, <3>1
    <2> QED
      BY <1>8, <2>2, <2>3
  <1> QED
    BY <1>1, <1>5, <1>6, <1>7, <1>8

LEMMA NoWalkIsOne == NoWalk \in Walks
  <1>1. 0 \in Texts
    BY CrudAssumption DEF Texts
  <1> QED
    BY <1>1 DEF NoWalk, Walks, Orders, Null, Unknown

\* The list keeps its type in the steps of its own.
WalkStep ==
    \/ \E order \in Orders, search \in Texts, length \in Lengths : AskFirst(order, search, length)
    \/ CountFiltered \/ SelectPage \/ AnswerPage \/ ListStops \/ AskNext

LEMMA WalkStepKeepsInv ==
    ASSUME Inv, WalkStep
    PROVE  Inv'
  <1>1. walk \in Walks /\ UNCHANGED <<options, table, req>>
    BY DEF Inv, TypeOK, WalkStep, AskFirst, CountFiltered, SelectPage, AnswerPage, ListStops, AskNext
  <1>2. walk' \in Walks
    <2>1. ASSUME NEW order \in Orders, NEW search \in Texts, NEW length \in Lengths,
                 AskFirst(order, search, length)
          PROVE  walk' \in Walks
      <3>1. length \in Nat
        BY CrudAssumption
      <3>2. {i \in Live : search # Null => text[i] = search} \in SUBSET Ids
        BY DEF Live
      <3> QED
        BY <2>1, <3>1, <3>2, NoWalkIsOne DEF AskFirst, NoWalk, Walks
    <2>2. CASE CountFiltered
      <3>1. Cardinality(Listed(state, text)) \in Nat
        <4>1. IsFiniteSet(Ids)
          BY FS_Interval, CrudAssumption DEF Ids
        <4>2. Listed(state, text) \subseteq Ids
          BY DEF Listed
        <4> QED
          BY <4>1, <4>2, FS_Subset, FS_CardinalityType
      <3> HIDE DEF Listed
      <3> QED
        BY <1>1, <2>2, <3>1 DEF CountFiltered, Walks
    <2>3. CASE SelectPage
      BY <1>1, <2>3 DEF SelectPage, Walks
    <2>4. CASE AnswerPage \/ ListStops
      <3>1. \/ walk' = [walk EXCEPT !.stage = "more", !.filtered = Unknown, !.gotPage = FALSE]
            \/ walk' = [NoWalk EXCEPT !.stage = "end", !.order = walk.order, !.owed = walk.owed]
            \/ walk' = NoWalk
        BY <2>4 DEF AnswerPage, ListStops
      <3>2. CASE walk' = [walk EXCEPT !.stage = "more", !.filtered = Unknown, !.gotPage = FALSE]
        BY <1>1, <3>2 DEF Walks
      <3>3. CASE walk' = [NoWalk EXCEPT !.stage = "end", !.order = walk.order, !.owed = walk.owed]
        BY <1>1, <3>3, NoWalkIsOne DEF NoWalk, Walks
      <3> QED
        BY <3>1, <3>2, <3>3, NoWalkIsOne
    <2>5. CASE AskNext
      <3>1. walk.offset + walk.length \in Nat
        BY <1>1 DEF Walks
      <3> QED
        BY <1>1, <2>5, <3>1 DEF AskNext, Walks
    <2> QED
      BY <2>1, <2>2, <2>3, <2>4, <2>5 DEF WalkStep
  <1> QED
    BY <1>1, <1>2 DEF Inv, TypeOK, Sound, MayWrite, table

-----------------------------------------------------------------------------
(* The steps of a request.                                                 *)

\* Steps that only move one request on.
ReqStep(c) ==
    \/ \E role \in Roles, action \in Actions, id \in Ids \cup {NoSlug} : Arrive(c, role, action, id)
    \/ \E role \in Roles, t \in 1..LastText : Save(c, role, t)
    \/ Fetch(c) \/ ExportCsv(c) \/ SelectFails(c) \/ Leave(c) \/ Parse(c) \/ ParseFails(c)

LEMMA ReqStepKeepsInv ==
    ASSUME Inv, NEW c \in Conns, ReqStep(c)
    PROVE  Inv' /\ UNCHANGED <<options, table>>
  <1>1. UNCHANGED <<options, table, walk>>
    BY DEF ReqStep, Arrive, Save, Fetch, ExportCsv, SelectFails, Leave, Parse, ParseFails
  <1>2. req[c] \in Requests /\ Sound(req[c]) /\ TableOK
    BY DEF Inv, TypeOK, TableOK
  <1>3. Idle.fields \in Fields /\ \A t \in 1..LastText : t \in Texts
    BY CrudAssumption DEF Idle, Fields, Texts, Null
  <1>4. req' \in [Conns -> Requests] /\ \A d \in Conns : Sound(req[d])'
    <2>1. ASSUME NEW told \in {"none", "page", "ok", "error"}, Answer(c, told)
          PROVE  req' \in [Conns -> Requests] /\ \A d \in Conns : Sound(req[d])'
      BY <1>1, <2>1, IdleIsSound, OneRequest DEF Answer
    <2>2. ASSUME NEW role \in Roles, NEW action \in Actions, NEW id \in Ids \cup {NoSlug},
                 Arrive(c, role, action, id)
          PROVE  req' \in [Conns -> Requests] /\ \A d \in Conns : Sound(req[d])'
      <3>1. PICK t \in 1..LastText : Dispatch(c, role, action, id, [Idle.fields EXCEPT !.text = t])
        BY <2>2 DEF Arrive
      <3>2. [Idle.fields EXCEPT !.text = t] \in Fields
        BY <1>3 DEF Fields
      <3> QED
        BY <1>1, <3>1, <3>2, DispatchIsSound
    <2>3. ASSUME NEW role \in Roles, NEW t \in 1..LastText, Save(c, role, t)
          PROVE  req' \in [Conns -> Requests] /\ \A d \in Conns : Sound(req[d])'
      <3>1. [req[c].fields EXCEPT !.text = t] \in Fields
        BY <1>2, <1>3 DEF Requests, Fields
      <3>2. req[c].id \in Ids
        BY <1>2, <2>3 DEF Save, Sound
      <3>3. "update" \in Actions
        BY DEF Actions, Slugged
      <3> QED
        BY <1>1, <2>3, <3>1, <3>2, <3>3, DispatchIsSound DEF Save
    <2>4. CASE Fetch(c)
      <3> DEFINE i == req[c].id
                 form == [Idle EXCEPT !.stage = "open", !.id = i,
                            !.fields = [deletedAt |-> state[i],
                                        text |-> IF text[i] = Null THEN NullWord ELSE text[i]]]
      <3>1. Answer(c, "error") \/ Answer(c, "page") \/ req' = [req EXCEPT ![c] = form]
        BY <2>4 DEF Fetch
      <3>2. i \in Ids
        BY <1>2, <2>4 DEF Fetch, Sound
      <3>3. form.fields \in Fields
        BY <1>2, <3>2, CrudAssumption DEF Idle, Fields, TableOK, Texts
      <3>4. form \in Requests /\ Sound(form)
        <4>1. form \in Requests
          BY <3>2, <3>3 DEF Idle, Requests, Actions, Pages
        <4>2. Sound(form)
          BY <3>2 DEF Idle, Sound
        <4> QED
          BY <4>1, <4>2
      <3> HIDE DEF form
      <3> QED
        BY <1>1, <2>1, <3>1, <3>4, OneRequest
    <2>5. CASE ExportCsv(c) \/ SelectFails(c) \/ Leave(c) \/ ParseFails(c)
      BY <2>1, <2>5 DEF ExportCsv, SelectFails, Leave, ParseFails
    <2>6. CASE Parse(c)
      <3> DEFINE next == [req[c] EXCEPT !.stage = "write", !.left = 1, !.fields = Unlisted(@)]
      <3>1. next \in Requests
        BY <1>2 DEF Requests, Fields, Unlisted
      <3>2. Sound(next)
        BY <1>2, <2>6 DEF Parse, Sound, MayWrite, Requests, Fields, Unlisted
      <3>3. req' = [req EXCEPT ![c] = next]
        BY <2>6 DEF Parse
      <3> HIDE DEF next
      <3> QED
        BY <1>1, <3>1, <3>2, <3>3, OneRequest
    <2> QED
      BY <2>2, <2>3, <2>4, <2>5, <2>6 DEF ReqStep
  <1> QED
    BY <1>1, <1>4 DEF Inv, TypeOK, table

\* Steps in which a statement of a request ends.
LEMMA StatementKeepsInv ==
    ASSUME Inv, NEW c \in Conns, Commit(c) \/ Fail(c) \/ CommitUnheard(c)
    PROVE  /\ Inv' /\ UNCHANGED options /\ req[c].stage = "write" /\ req'[c] # req[c]
           /\ UNCHANGED table \/ Allowed(c)
  <1>1. req[c].stage = "write" /\ UNCHANGED options
    BY DEF Commit, Fail, CommitUnheard
  <1>2. req[c] \in Requests /\ Sound(req[c]) /\ TableOK
    BY DEF Inv, TypeOK, TableOK
  <1>3. req' \in [Conns -> Requests] /\ \A d \in Conns : Sound(req[d])'
    <2>1. CASE Commit(c)
      <3>1. Told(c) \in {"none", "ok", "error"}
        BY <1>1, <1>2 DEF Told, Sound
      <3>2. Settled(c, Told(c), 0)
        BY <2>1 DEF Commit
      <3>3. /\ Told(c) = "none" => req[c].told = "none"
            /\ Told(c) = "ok" => req[c].told = "none" /\ req[c].left = 1
        BY <1>1, <1>2 DEF Told, Sound
      <3> HIDE DEF Told
      <3> QED
        BY <1>1, <3>1, <3>2, <3>3, SettledIsSound
    <2>2. CASE Fail(c) \/ CommitUnheard(c)
      BY <1>1, <2>2, SettledIsSound DEF Fail, CommitUnheard
    <2> QED
      BY <2>1, <2>2
  <1>4. TableOK' /\ (UNCHANGED table \/ Allowed(c))
    BY <1>1, <1>2, StatementIsAllowed DEF Commit, Fail, CommitUnheard, TableOK, table
  <1>5. walk' \in Walks
    <2>1. walk' = walk \/ walk' = NoWalk
      BY DEF Commit, Fail, CommitUnheard, Watch
    <2> QED
      BY <2>1, NoWalkIsOne DEF Inv, TypeOK
  <1>6. req'[c] # req[c]
    <2>1. PICK told, lost : Settled(c, told, lost)
      BY DEF Commit, Fail, CommitUnheard
    <2>2. CASE req[c].left = 1
      <3>1. req'[c].stage = "idle"
        BY <1>2, <2>1, <2>2 DEF Settled, Idle, Inv, TypeOK
      <3> QED
        BY <1>1, <3>1
    <2>3. CASE req[c].left # 1
      <3>1. req'[c].left = req[c].left - 1 /\ req[c].left \in Nat
        BY <1>2, <2>1, <2>3 DEF Settled, Inv, TypeOK, Requests
      <3> QED
        BY <3>1
    <2> QED
      BY <2>2, <2>3
  <1> QED
    BY <1>1, <1>3, <1>4, <1>5, <1>6 DEF Inv, TypeOK, TableOK

\* Every step, in the three kinds.
LEMMA NextIsOneOfThree ==
    ASSUME Next
    PROVE  \/ WalkStep
           \/ \E c \in Conns : ReqStep(c)
           \/ \E c \in Conns : Commit(c) \/ Fail(c) \/ CommitUnheard(c)
  BY DEF Next, WalkStep, ReqStep

LEMMA WalkStepWritesNothing ==
    ASSUME WalkStep
    PROVE  UNCHANGED table
  BY DEF WalkStep, AskFirst, CountFiltered, SelectPage, AnswerPage, ListStops, AskNext, table

-----------------------------------------------------------------------------

LEMMA InitIsSound ==
    ASSUME Init
    PROVE  Inv
  <1>1. [Idle EXCEPT !.told = "none"] = Idle
    BY DEF Idle
  <1>2. Idle \in Requests /\ Sound(Idle)
    BY <1>1, IdleIsSound
  <1>3. \A i \in Ids : state[i] \in States
    BY DEF Init, States
  <1> QED
    BY <1>2, <1>3, NoWalkIsOne DEF Init, Inv, TypeOK, States, Sound, MayWrite

LEMMA InvInductive ==
    ASSUME Inv, [Next]_vars
    PROVE  Inv'
  <1>1. CASE Next
    BY <1>1, NextIsOneOfThree, WalkStepKeepsInv, ReqStepKeepsInv, StatementKeepsInv
  <1>2. CASE UNCHANGED vars
    BY <1>2 DEF vars, table, Inv, TypeOK, Sound, MayWrite
  <1> QED
    BY <1>1, <1>2

THEOREM InvHolds == Spec => []Inv
  <1> QED
    BY InitIsSound, InvInductive, PTL DEF Spec

\* The table, the requests and the walk of the list stay in their types for
\* every table size and any number of requests.
THEOREM TypeCorrect == Spec => []TypeOK
  <1>1. Inv => TypeOK
    BY DEF Inv
  <1> QED
    BY <1>1, InvHolds, PTL

\* Success is told only for statements that all succeeded, for any number of
\* test rows inserted at once.
THEOREM Confirmed == Spec => []ConfirmedIsDone
  <1>1. Inv => ConfirmedIsDone
    BY DEF Inv, Sound, ConfirmedIsDone
  <1> QED
    BY <1>1, InvHolds, PTL

-----------------------------------------------------------------------------

\* What a step does to the rows is done by a request that is about to write.
LEMMA NextIsAllowed ==
    ASSUME Inv, [Next]_vars
    PROVE  \/ UNCHANGED <<state, text>>
           \/ \E c \in Conns : Writes(c) /\ Allowed(c) /\ MayWrite(req[c])
  <1>1. CASE WalkStep \/ UNCHANGED vars
    BY <1>1, WalkStepWritesNothing DEF vars, table
  <1>2. ASSUME NEW c \in Conns, ReqStep(c)
        PROVE  UNCHANGED <<state, text>>
    BY <1>2, ReqStepKeepsInv DEF table
  <1>3. ASSUME NEW c \in Conns, Commit(c) \/ Fail(c) \/ CommitUnheard(c)
        PROVE  UNCHANGED <<state, text>> \/ (Writes(c) /\ Allowed(c) /\ MayWrite(req[c]))
    BY <1>3, StatementKeepsInv DEF table, Writes, Inv, Sound
  <1> QED
    BY <1>1, <1>2, <1>3, NextIsOneOfThree

\* Rows change only in the hands of a request that holds the permission for
\* what happens to them, and never in a read-only table, for any rule of
\* permissions and any interleaving: getAction and controller() agree.
THEOREM WritesArePermitted == Spec => OnlyAsPermitted
  <1> DEFINE Step ==
        \A i \in Ids :
          /\ state[i] = "absent" /\ state'[i] # "absent" =>
                \E c \in Conns : Writes(c) /\ "create" \in req[c].held
          /\ state[i] = "live" /\ state'[i] # "live" =>
                \E c \in Conns : Writes(c) /\ "delete" \in req[c].held
          /\ state[i] = "archived" /\ state'[i] # "archived" =>
                \E c \in Conns : Writes(c) /\ "update" \in req[c].held
          /\ state[i] # "absent" /\ text'[i] # text[i] =>
                \E c \in Conns : Writes(c) /\ "update" \in req[c].held
          /\ <<state'[i], text'[i]>> # <<state[i], text[i]>> => ~options.readOnly
  <1>1. Inv /\ [Next]_vars => [Step]_vars
    <2> SUFFICES ASSUME Inv, [Next]_vars PROVE Step
      OBVIOUS
    <2>1. CASE UNCHANGED <<state, text>>
      BY <2>1
    <2>2. ASSUME NEW c \in Conns, Writes(c), Allowed(c), MayWrite(req[c])
          PROVE  Step
      <3>1. /\ req[c].action \in {"create", "testdata"} => "create" \in req[c].held
            /\ req[c].action = "delete" => "delete" \in req[c].held
            /\ req[c].action \in {"update", "restore"} => "update" \in req[c].held
        BY <2>2 DEF MayWrite, Permission
      <3>2. ~options.readOnly
        BY <2>2 DEF MayWrite
      <3> QED
        BY <2>2, <3>1, <3>2 DEF Allowed
    <2> QED
      BY <2>1, <2>2, NextIsAllowed
  <1> QED
    BY <1>1, InvHolds, PTL DEF Spec, OnlyAsPermitted

\* Only a delete of that row archives it and only a restore of that row
\* revives it, however many edit forms with old dates are saved meanwhile,
\* and no row ever disappears.
THEOREM ArchivesStand == Spec => ArchiveStands
  <1> DEFINE Step ==
        \A i \in Ids :
          /\ state[i] = "live" /\ state'[i] # "live" =>
                \E c \in Conns : Writes(c) /\ req[c].action = "delete" /\ req[c].id = i
          /\ state[i] = "archived" /\ state'[i] # "archived" =>
                \E c \in Conns : Writes(c) /\ req[c].action = "restore" /\ req[c].id = i
          /\ state[i] # "absent" => state'[i] # "absent"
  <1>1. Inv /\ [Next]_vars => [Step]_vars
    <2> SUFFICES ASSUME Inv, [Next]_vars PROVE Step
      OBVIOUS
    <2> QED
      BY NextIsAllowed DEF Allowed
  <1> QED
    BY <1>1, InvHolds, PTL DEF Spec, ArchiveStands

-----------------------------------------------------------------------------
(* The list, page by page.  Where rows are ordered by their id, the rank of  *)
(* a row is one more than the number of rows before it.  A row that is still *)
(* owed has the rows of all pages so far before it: inserted rows can only   *)
(* push it further back.                                                     *)

Earlier(i) == {j \in Listed(state, text) : Before(j, i)}

ToCome(n) == \A i \in walk.owed : n <= Cardinality(Earlier(i))

WalkInv ==
    walk.order # "text" =>
        /\ walk.stage \in {"query", "more"} =>
              walk.length \in Lengths /\ walk.owed \subseteq Listed(state, text)
        /\ walk.stage = "query" => ToCome(walk.offset)
        /\ walk.stage = "more" \/ walk.gotPage => ToCome(walk.offset + walk.length)
        /\ walk.filtered # Unknown => walk.filtered = Cardinality(Listed(state, text))
        /\ walk.filtered # Unknown \/ walk.gotPage => walk.stage = "query"
        /\ walk.stage \in {"off", "end"} => walk.owed = {}

LEMMA IdsAreFinite ==
    \A S \in SUBSET Ids : IsFiniteSet(S) /\ Cardinality(S) \in Nat
  <1>1. IsFiniteSet(Ids)
    BY FS_Interval, CrudAssumption DEF Ids
  <1> QED
    BY <1>1, FS_Subset, FS_CardinalityType

\* Ids are ordered strictly and totally, up or down.
LEMMA IdsAreOrdered ==
    ASSUME walk.order # "text"
    PROVE  \A i, j \in Ids : ~Before(i, i) /\ (i # j => Before(i, j) \/ Before(j, i))
  BY CrudAssumption DEF Before, Ids

LEMMA EarlierAreFewer ==
    ASSUME walk.order # "text", NEW i \in Listed(state, text)
    PROVE  Cardinality(Earlier(i)) < Cardinality(Listed(state, text))
  <1> DEFINE S == Listed(state, text)
  <1>1. S \subseteq Ids /\ IsFiniteSet(S) /\ Cardinality(S) \in Nat
    BY IdsAreFinite DEF Listed
  <1>2. IsFiniteSet(S \ {i}) /\ Cardinality(S \ {i}) = Cardinality(S) - 1
    BY <1>1, FS_RemoveElement
  <1>3. Earlier(i) \in SUBSET (S \ {i})
    <2>1. ~Before(i, i)
      BY <1>1, IdsAreOrdered
    <2> QED
      BY <2>1 DEF Earlier
  <1>4. Cardinality(Earlier(i)) \in Nat /\ Cardinality(Earlier(i)) <= Cardinality(S \ {i})
    BY <1>1, <1>2, <1>3, IdsAreFinite, FS_Subset
  <1> HIDE DEF S
  <1> QED
    BY <1>1, <1>2, <1>4 DEF S

\* The rank of a row counts the rows before it, however ties would be broken.
LEMMA RankCounts ==
    ASSUME walk.order # "text",
           NEW rank \in Rankings(Listed(state, text)), NEW i \in Listed(state, text)
    PROVE  rank[i] = Cardinality(Earlier(i)) + 1
  <1> DEFINE S == Listed(state, text)
             n == Cardinality(S)
             E == Earlier(i)
             g == [j \in E |-> rank[j]]
  <1>1. IsFiniteSet(S) /\ n \in Nat /\ S \subseteq Ids
    BY IdsAreFinite DEF Listed
  <1>2. IsFiniteSet(1..n) /\ Cardinality(1..n) = n
    BY <1>1, FS_Interval
  <1>3. /\ rank \in [S -> 1..n]
        /\ \A j, k \in S : /\ j # k => rank[j] # rank[k]
                           /\ Before(j, k) => rank[j] < rank[k]
    BY DEF Rankings
  <1>4. rank \in Surjection(S, 1..n)
    <2>1. rank \in Injection(S, 1..n)
      BY <1>3 DEF Injection, IsInjective
    <2>2. IsFiniteSet(1..n) /\ Cardinality(S) = Cardinality(1..n)
      BY <1>2
    <2> HIDE DEF S, n
    <2> QED
      BY <2>1, <2>2, FS_Injection
  <1>5. E \subseteq S /\ IsFiniteSet(E) /\ Cardinality(E) \in Nat
    BY <1>1, IdsAreFinite DEF Earlier
  <1>6. rank[i] \in 1..n
    BY <1>3
  <1>7. g \in Bijection(E, 1..(rank[i] - 1))
    <2>1. g \in [E -> 1..(rank[i] - 1)]
      BY <1>1, <1>3, <1>5, <1>6 DEF Earlier
    <2>2. \A j, k \in E : j # k => g[j] # g[k]
      BY <1>3, <1>5
    <2>3. ASSUME NEW m \in 1..(rank[i] - 1)
          PROVE  \E j \in E : g[j] = m
      <3>1. PICK j \in S : rank[j] = m
        <4>1. m \in 1..n
          BY <1>1, <1>6
        <4> HIDE DEF S, n
        <4> QED
          BY <1>4, <4>1 DEF Surjection
      <3>2. rank[j] < rank[i] /\ j # i
        BY <1>6, <3>1
      <3>3. Before(j, i)
        <4>1. ~Before(i, j)
          BY <1>3, <1>6, <3>1, <3>2
        <4>2. i \in Ids /\ j \in Ids
          BY <1>1
        <4> QED
          BY <3>2, <4>1, <4>2, IdsAreOrdered
      <3> QED
        BY <3>1, <3>3 DEF Earlier
    <2> HIDE DEF E, g
    <2> QED
      BY <2>1, <2>2, <2>3 DEF Bijection, Injection, IsInjective, Surjection
  <1>8. Cardinality(E) = rank[i] - 1
    <2>1. Cardinality(1..(rank[i] - 1)) = rank[i] - 1
      <3>1. rank[i] - 1 \in Nat
        BY <1>1, <1>6
      <3> QED
        BY <3>1, FS_Interval
    <2> HIDE DEF E, g
    <2> QED
      BY <1>5, <1>7, <2>1, FS_Bijection DEF ExistsBijection
  <1> QED
    BY <1>1, <1>6, <1>8

\* What is behind the rows of one page is behind all rows of that page.
LEMMA PageIsSkipped ==
    ASSUME Inv, WalkInv, walk.order # "text", SelectPage
    PROVE  \A i \in walk'.owed : walk.offset + walk.length <= Cardinality(Earlier(i))
  <1>1. walk.stage = "query" /\ walk \in Walks /\ ToCome(walk.offset)
    BY DEF SelectPage, WalkInv, Inv, TypeOK
  <1>2. PICK rank \in Rankings(Listed(state, text)) :
           walk' = [walk EXCEPT !.gotPage = TRUE, !.owed = @ \ PageOf(rank)]
    BY DEF SelectPage
  <1> SUFFICES ASSUME NEW i \in walk'.owed
               PROVE  walk.offset + walk.length <= Cardinality(Earlier(i))
    OBVIOUS
  <1>3. i \in walk.owed /\ i \notin PageOf(rank) /\ i \in Listed(state, text)
    BY <1>1, <1>2 DEF Walks, WalkInv
  <1>4. rank[i] = Cardinality(Earlier(i)) + 1
    BY <1>3, RankCounts
  <1>5. Cardinality(Earlier(i)) \in Nat /\ walk.offset <= Cardinality(Earlier(i))
    BY <1>1, <1>3, IdsAreFinite DEF ToCome, Earlier, Listed
  <1>6. walk.offset \in Nat /\ walk.length \in Nat /\ Limit(walk.length) = walk.length
    BY <1>1, CrudAssumption DEF WalkInv, Walks, Limit
  <1>7. ~(walk.offset < rank[i] /\ rank[i] <= walk.offset + walk.length)
    <2>1. DOMAIN rank = Listed(state, text)
      BY DEF Rankings
    <2> QED
      BY <1>3, <1>6, <2>1 DEF PageOf
  <1> QED
    BY <1>4, <1>5, <1>6, <1>7

\* What the list shows in the next state, when the table and what the list
\* asks for are the same.
LEMMA SameList ==
    ASSUME UNCHANGED <<state, text>>, walk'.order = walk.order, walk'.search = walk.search
    PROVE  /\ Listed(state, text)' = Listed(state, text)
           /\ \A i : Earlier(i)' = Earlier(i)
  BY DEF Listed, Earlier, Before

LEMMA WalkInvByWalk ==
    ASSUME Inv, WalkInv, WalkStep
    PROVE  WalkInv'
  <1>1. walk \in Walks /\ UNCHANGED <<options, table, req>> /\ UNCHANGED <<state, text>>
    BY DEF Inv, TypeOK, WalkStep, AskFirst, CountFiltered, SelectPage, AnswerPage, ListStops, AskNext, table
  <1>2. ASSUME walk' = NoWalk
        PROVE  WalkInv'
    BY <1>2 DEF WalkInv, NoWalk
  <1>3. ASSUME NEW order \in Orders, NEW search \in Texts, NEW length \in Lengths,
               AskFirst(order, search, length)
        PROVE  WalkInv'
    <2>1. /\ walk'.stage = "query" /\ walk'.search = search /\ walk'.length = length
          /\ walk'.offset = 0 /\ walk'.gotPage = FALSE /\ walk'.filtered = Unknown
          /\ walk'.owed = {i \in Live : search # Null => text[i] = search}
      BY <1>3 DEF AskFirst, NoWalk
    <2>2. walk'.owed \subseteq Listed(state, text)'
      BY <1>1, <2>1 DEF Listed, Live
    <2>3. ToCome(walk.offset)'
      <3>1. \A i : Earlier(i)' \in SUBSET Ids
        BY DEF Earlier, Listed
      <3>2. \A i : Cardinality(Earlier(i)') \in Nat
        BY <3>1, IdsAreFinite
      <3> QED
        BY <2>1, <3>2 DEF ToCome
    <2> QED
      BY <2>1, <2>2, <2>3 DEF WalkInv
  <1>4. CASE walk.order = "text"
    <2>1. CASE CountFiltered \/ SelectPage \/ AskNext
      BY <1>1, <1>4, <2>1 DEF CountFiltered, SelectPage, AskNext, Walks, WalkInv
    <2>2. CASE AnswerPage
      BY <1>1, <1>2, <1>4, <2>2 DEF AnswerPage, Walks, WalkInv
    <2>3. CASE ListStops
      BY <1>2, <2>3 DEF ListStops
    <2> QED
      BY <1>3, <2>1, <2>2, <2>3 DEF WalkStep
  <1>5. CASE walk.order # "text"
    <2>1. CASE CountFiltered
      <3>1. walk' = [walk EXCEPT !.filtered = Cardinality(Listed(state, text))]
        BY <2>1 DEF CountFiltered
      <3>2. /\ walk'.order = walk.order /\ walk'.search = walk.search
            /\ walk'.stage = "query" /\ walk.stage = "query"
            /\ walk'.length = walk.length /\ walk'.offset = walk.offset
            /\ walk'.gotPage = walk.gotPage /\ walk'.owed = walk.owed
            /\ walk'.filtered = Cardinality(Listed(state, text))
        BY <1>1, <2>1, <3>1 DEF CountFiltered, Walks
      <3> QED
        BY <1>1, <1>5, <3>2, SameList DEF WalkInv, ToCome
    <2>2. CASE SelectPage
      <3>1. /\ walk'.order = walk.order /\ walk'.search = walk.search
            /\ walk'.stage = "query" /\ walk.stage = "query"
            /\ walk'.length = walk.length /\ walk'.offset = walk.offset
            /\ walk'.gotPage = TRUE /\ walk'.owed \subseteq walk.owed
            /\ walk'.filtered = walk.filtered
        BY <1>1, <2>2 DEF SelectPage, Walks
      <3>2. \A i \in walk'.owed : walk.offset + walk.length <= Cardinality(Earlier(i))
        BY <1>5, <2>2, PageIsSkipped
      <3> QED
        BY <1>1, <1>5, <3>1, <3>2, SameList DEF WalkInv, ToCome
    <2>3. CASE AskNext
      <3>1. /\ walk'.order = walk.order /\ walk'.search = walk.search
            /\ walk'.stage = "query" /\ walk.stage = "more"
            /\ walk'.length = walk.length /\ walk'.offset = walk.offset + walk.length
            /\ walk'.gotPage = walk.gotPage /\ walk'.owed = walk.owed
            /\ walk'.filtered = walk.filtered
        BY <1>1, <2>3 DEF AskNext, Walks
      <3> QED
        BY <1>1, <1>5, <3>1, SameList DEF WalkInv, ToCome
    <2>4. CASE AnswerPage
      <3>1. /\ walk.stage = "query" /\ walk.gotPage
            /\ walk.filtered = Cardinality(Listed(state, text))
            /\ walk.owed \subseteq Listed(state, text)
            /\ ToCome(walk.offset + walk.length)
        BY <1>5, <2>4 DEF AnswerPage, WalkInv
      <3>2. CASE walk.offset + walk.length < walk.filtered
        <4>1. /\ walk'.order = walk.order /\ walk'.search = walk.search
              /\ walk'.stage = "more" /\ walk'.gotPage = FALSE /\ walk'.filtered = Unknown
              /\ walk'.length = walk.length /\ walk'.offset = walk.offset
              /\ walk'.owed = walk.owed
          BY <1>1, <2>4, <3>2 DEF AnswerPage, Walks
        <4> QED
          BY <1>1, <1>5, <3>1, <4>1, SameList DEF WalkInv, ToCome
      <3>3. CASE ~(walk.offset + walk.length < walk.filtered)
        <4>1. /\ walk'.stage = "end" /\ walk'.gotPage = FALSE /\ walk'.filtered = Unknown
              /\ walk'.owed = walk.owed
          BY <2>4, <3>3 DEF AnswerPage, NoWalk
        <4>2. walk.owed = {}
          <5> SUFFICES ASSUME NEW i \in walk.owed PROVE FALSE
            OBVIOUS
          <5>1. i \in Listed(state, text) /\ walk.offset + walk.length <= Cardinality(Earlier(i))
            BY <3>1 DEF ToCome
          <5>2. Cardinality(Earlier(i)) < Cardinality(Listed(state, text))
            BY <1>5, <5>1, EarlierAreFewer
          <5>3. Cardinality(Earlier(i)) \in Nat /\ Cardinality(Listed(state, text)) \in Nat
            BY IdsAreFinite DEF Earlier, Listed
          <5> QED
            BY <1>1, <3>1, <3>3, <5>1, <5>2, <5>3 DEF Walks
        <4> QED
          BY <4>1, <4>2 DEF WalkInv
      <3> QED
        BY <3>2, <3>3
    <2>5. CASE ListStops
      BY <1>2, <2>5 DEF ListStops
    <2> QED
      BY <1>3, <2>1, <2>2, <2>3, <2>4, <2>5 DEF WalkStep
  <1> QED
    BY <1>4, <1>5

\* A statement of another request adds rows to the list, between two requests
\* of the walk, or takes the walk off.
LEMMA WalkInvByStatement ==
    ASSUME Inv, WalkInv, Watch
    PROVE  WalkInv'
  <1>1. CASE walk' = NoWalk
    BY <1>1 DEF WalkInv, NoWalk
  <1>2. CASE walk' # NoWalk
    <2>1. /\ walk' = walk
          /\ Listed(state, text) \subseteq Listed(state, text)'
          /\ walk.stage = "query" => Listed(state, text)' = Listed(state, text)
      BY <1>2 DEF Watch, Listed
    <2>2. CASE walk.order = "text"
      BY <2>1, <2>2 DEF WalkInv
    <2>3. CASE walk.order # "text"
      <3>1. ASSUME NEW i
            PROVE  /\ Cardinality(Earlier(i)) <= Cardinality(Earlier(i)')
                   /\ Cardinality(Earlier(i)) \in Nat /\ Cardinality(Earlier(i)') \in Nat
        <4>1. Earlier(i) \subseteq Earlier(i)'
          BY <2>1, <2>3 DEF Earlier, Before
        <4>2. Earlier(i) \in SUBSET Ids /\ Earlier(i)' \in SUBSET Ids
          BY DEF Earlier, Listed
        <4>3. /\ IsFiniteSet(Earlier(i)') /\ Cardinality(Earlier(i)') \in Nat
              /\ Cardinality(Earlier(i)) \in Nat
          BY <4>2, IdsAreFinite
        <4> QED
          BY <4>1, <4>3, FS_Subset
      <3>2. walk.offset \in Nat /\ (walk.length \in Lengths => walk.length \in Nat)
        BY CrudAssumption DEF Inv, TypeOK, Walks
      <3>3. ASSUME NEW n \in Nat, ToCome(n)
            PROVE  \A i \in walk.owed : n <= Cardinality(Earlier(i)')
        BY <3>1, <3>3 DEF ToCome
      <3>4. walk.length \in Nat /\ walk.offset + walk.length \in Nat
        BY DEF Inv, TypeOK, Walks
      <3> QED
        BY <2>1, <2>3, <3>2, <3>3, <3>4 DEF WalkInv, ToCome
    <2> QED
      BY <2>2, <2>3
  <1> QED
    BY <1>1, <1>2

LEMMA WalkInvInductive ==
    ASSUME Inv, WalkInv, [Next]_vars
    PROVE  WalkInv'
  <1>1. ASSUME UNCHANGED <<table, walk>>
        PROVE  WalkInv'
    BY <1>1 DEF table, WalkInv, ToCome, Earlier, Listed, Before
  <1>2. ASSUME NEW c \in Conns, ReqStep(c)
        PROVE  UNCHANGED <<table, walk>>
    BY <1>2 DEF ReqStep, Arrive, Save, Fetch, ExportCsv, SelectFails, Leave, Parse, ParseFails
  <1>3. ASSUME NEW c \in Conns, Commit(c) \/ Fail(c) \/ CommitUnheard(c)
        PROVE  Watch \/ UNCHANGED <<table, walk>>
    BY <1>3 DEF Commit, Fail, CommitUnheard
  <1>4. CASE Next
    BY <1>1, <1>2, <1>3, <1>4, WalkInvByWalk, WalkInvByStatement, NextIsOneOfThree
  <1> QED
    BY <1>1, <1>4 DEF vars

\* A list that pages by primary key shows every row that was listed all the
\* time, for any number of rows and page lengths, whatever is inserted while
\* it is read.
THEOREM WalkIsComplete == Spec => []WalkComplete
  <1>1. Init => WalkInv
    BY DEF Init, WalkInv, NoWalk
  <1>2. WalkInv => WalkComplete
    BY DEF WalkInv, WalkComplete
  <1> QED
    BY <1>1, <1>2, InvHolds, WalkInvInductive, PTL DEF Spec
=============================================================================
