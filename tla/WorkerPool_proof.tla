-------------------------- MODULE WorkerPool_proof --------------------------
(***************************************************************************)
(* The safety of WorkerPool for any number of workers and jobs: its        *)
(* counters are exact, the failure limits hold up to the jobs in flight,   *)
(* no job runs twice, run() resolves only when all is done, and with a     *)
(* pause between jobs the pool is the one JobPool describes.               *)
(*                                                                         *)
(* A worker has at most one microtask, so most of the argument is about    *)
(* the set of queued tasks (Todo) and not about their order.  The order    *)
(* matters where the pool shuts itself (Behind).                           *)
(***************************************************************************)
EXTENDS WorkerPool, FiniteSetTheorems, SequenceTheorems, TLAPS

Stages == {"new", "waiting", "handed", "running", "settling", "pausing", "exited"}

Todo(m) == {m[i] : i \in 1..Len(m)}

\* Where a worker is while its task is queued.
Agrees(t, p) ==
    /\ t.kind = "start" => p[t.w] = "handed"
    /\ t.kind = "work" => p[t.w] = "running"
    /\ t.kind \in {"then", "catch", "finally"} => p[t.w] = "settling"

\* One task per worker, each at its stage.
Fits(m, p) ==
    /\ m \in Seq(Tasks)
    /\ \A i, k \in 1..Len(m) : m[i].w = m[k].w => i = k
    /\ \A t \in Todo(m) : Agrees(t, p)

USE WorkerPoolAssumption

-----------------------------------------------------------------------------
(* Tasks and sequences of them.                                            *)

\* What a task is, by its kind.
LEMMA TaskKinds ==
    ASSUME NEW t \in Tasks
    PROVE  /\ t.w \in Workers
           /\ t.kind \in {"start", "work", "then", "catch", "finally"}
           /\ t.kind = "start" => t.job \in Jobs \cup {NoJob}
           /\ t.kind = "work" => t.ok \in BOOLEAN /\ t.hops \in 0..MaxHops /\ t.at \in Nat \ {0}
           /\ t.kind \in {"then", "catch", "finally"} => t.ok \in BOOLEAN
BY DEF Tasks

LEMMA StartIsTask ==
    ASSUME NEW w \in Workers, NEW j \in Jobs \cup {NoJob}
    PROVE  /\ Start(w, j) \in Tasks
           /\ Start(w, j).kind = "start" /\ Start(w, j).w = w /\ Start(w, j).job = j
BY DEF Start, Tasks

\* The tasks of a job, one after the other.
LEMMA NextTask ==
    ASSUME NEW t \in Tasks
    PROVE  /\ t.kind = "work" =>
                /\ t.hops > 0 => /\ [t EXCEPT !.hops = @ - 1] \in Tasks
                                 /\ [t EXCEPT !.hops = @ - 1].kind = "work"
                                 /\ [t EXCEPT !.hops = @ - 1].w = t.w
                                 /\ [t EXCEPT !.hops = @ - 1].at = t.at
                /\ [t EXCEPT !.at = @ + 1] \in Tasks
                /\ [t EXCEPT !.at = @ + 1].kind = "work"
                /\ [t EXCEPT !.at = @ + 1].w = t.w
                /\ [t EXCEPT !.at = @ + 1].at = t.at + 1
                /\ [kind |-> "then", w |-> t.w, ok |-> t.ok] \in Tasks
           /\ t.kind \in {"then", "catch"} => \A k \in {"catch", "finally"} :
                /\ [t EXCEPT !.kind = k] \in Tasks
                /\ [t EXCEPT !.kind = k].kind = k
                /\ [t EXCEPT !.kind = k].w = t.w
                /\ [t EXCEPT !.kind = k].ok = t.ok
<1>1. CASE t.kind = "work"
  <2>1. t \in [kind : {"work"}, w : Workers, ok : BOOLEAN, hops : 0..MaxHops, at : Nat \ {0}]
    BY <1>1 DEF Tasks
  <2>2. t.hops > 0 => t.hops - 1 \in 0..MaxHops
    BY <2>1
  <2>3. [kind |-> "then", w |-> t.w, ok |-> t.ok]
          \in [kind : {"then", "catch", "finally"}, w : Workers, ok : BOOLEAN]
    BY <2>1
  <2>4. t.at + 1 \in Nat \ {0}
    BY <2>1
  <2>5. t.hops > 0 => [t EXCEPT !.hops = @ - 1]
          \in [kind : {"work"}, w : Workers, ok : BOOLEAN, hops : 0..MaxHops, at : Nat \ {0}]
    BY <2>1, <2>2
  <2>6. [t EXCEPT !.at = @ + 1]
          \in [kind : {"work"}, w : Workers, ok : BOOLEAN, hops : 0..MaxHops, at : Nat \ {0}]
    BY <2>1, <2>4
  <2>7. /\ [t EXCEPT !.hops = @ - 1].w = t.w /\ [t EXCEPT !.hops = @ - 1].at = t.at
        /\ [t EXCEPT !.hops = @ - 1].kind = "work"
        /\ [t EXCEPT !.at = @ + 1].w = t.w /\ [t EXCEPT !.at = @ + 1].kind = "work"
        /\ [t EXCEPT !.at = @ + 1].at = t.at + 1
    BY <1>1, <2>1
  <2> QED BY <1>1, <2>3, <2>5, <2>6, <2>7 DEF Tasks
<1>2. CASE t.kind \in {"then", "catch"}
  <2>1. t \in [kind : {"then", "catch", "finally"}, w : Workers, ok : BOOLEAN]
    BY <1>2 DEF Tasks
  <2>2. ASSUME NEW k \in {"catch", "finally"}
        PROVE  /\ [t EXCEPT !.kind = k]
                    \in [kind : {"then", "catch", "finally"}, w : Workers, ok : BOOLEAN]
               /\ [t EXCEPT !.kind = k].kind = k
               /\ [t EXCEPT !.kind = k].w = t.w
               /\ [t EXCEPT !.kind = k].ok = t.ok
    BY <2>1
  <2> QED BY <1>2, <2>2 DEF Tasks
<1> QED BY <1>1, <1>2

\* The first task leaves the queue.
LEMMA FirstLeaves ==
    ASSUME NEW m, NEW p, Fits(m, p), m # <<>>
    PROVE  /\ Head(m) \in Todo(m) /\ Head(m) \in Tasks
           /\ Fits(Tail(m), p)
           /\ Todo(Tail(m)) = Todo(m) \ {Head(m)}
           /\ \A t \in Todo(Tail(m)) : t.w # Head(m).w
<1>1. m \in Seq(Tasks) /\ Len(m) \in Nat \ {0} /\ Head(m) = m[1]
  BY DEF Fits
<1>2. /\ Tail(m) \in Seq(Tasks) /\ Len(Tail(m)) = Len(m) - 1
      /\ \A i \in 1..(Len(m) - 1) : Tail(m)[i] = m[i + 1]
  BY <1>1
<1>3. \A i, k \in 1..Len(m) : m[i].w = m[k].w => i = k
  BY DEF Fits
<1>4. Head(m) \in Todo(m) /\ Head(m) \in Tasks
  BY <1>1 DEF Todo
<1>5. \A t \in Todo(Tail(m)) : \E i \in 2..Len(m) : t = m[i]
  <2>1. TAKE t \in Todo(Tail(m))
  <2>2. PICK i \in 1..(Len(m) - 1) : t = Tail(m)[i]
    BY <1>2 DEF Todo
  <2>3. i + 1 \in 2..Len(m) /\ t = m[i + 1]
    BY <1>1, <1>2, <2>2
  <2> QED BY <2>3
<1>6. \A t \in Todo(Tail(m)) : t \in Todo(m) /\ t.w # Head(m).w
  BY <1>1, <1>3, <1>5 DEF Todo
<1>7. \A t \in Todo(m) : t # Head(m) => t \in Todo(Tail(m))
  <2>1. TAKE t \in Todo(m)
  <2>2. HAVE t # Head(m)
  <2>3. PICK i \in 1..Len(m) : t = m[i]
    BY DEF Todo
  <2>4. i - 1 \in 1..(Len(m) - 1) /\ Tail(m)[i - 1] = t
    BY <1>1, <1>2, <2>2, <2>3
  <2> QED BY <1>2, <2>4 DEF Todo
<1>8. \A i, k \in 1..Len(Tail(m)) : Tail(m)[i].w = Tail(m)[k].w => i = k
  <2>1. TAKE i, k \in 1..Len(Tail(m))
  <2>2. i + 1 \in 1..Len(m) /\ k + 1 \in 1..Len(m)
    BY <1>1, <1>2
  <2>3. Tail(m)[i] = m[i + 1] /\ Tail(m)[k] = m[k + 1]
    BY <1>2, <2>1
  <2> QED BY <1>3, <2>2, <2>3
<1>9. Fits(Tail(m), p)
  BY <1>2, <1>6, <1>8 DEF Fits
<1> QED BY <1>4, <1>6, <1>7, <1>9

\* A task is queued for a worker that has none.
LEMMA OneMore ==
    ASSUME NEW m, NEW p, NEW q, Fits(m, p), NEW t \in Tasks,
           \A u \in Todo(m) : u.w # t.w /\ q[u.w] = p[u.w],
           Agrees(t, q)
    PROVE  /\ Fits(Append(m, t), q)
           /\ Todo(Append(m, t)) = Todo(m) \cup {t}
<1>1. m \in Seq(Tasks) /\ Len(m) \in Nat
  BY DEF Fits
<1>2. /\ Append(m, t) \in Seq(Tasks) /\ Len(Append(m, t)) = Len(m) + 1
      /\ \A i \in 1..Len(m) : Append(m, t)[i] = m[i]
      /\ Append(m, t)[Len(m) + 1] = t
  BY <1>1
<1>3. Todo(Append(m, t)) = Todo(m) \cup {t}
  <2>1. \A i \in 1..(Len(m) + 1) : i \in 1..Len(m) \/ i = Len(m) + 1
    BY <1>1
  <2>2. Todo(Append(m, t)) \subseteq Todo(m) \cup {t}
    BY <1>2, <2>1 DEF Todo
  <2>3. \A i \in 1..Len(m) : i \in 1..(Len(m) + 1)
    BY <1>1
  <2>4. Len(m) + 1 \in 1..(Len(m) + 1)
    BY <1>1
  <2> QED BY <1>2, <2>2, <2>3, <2>4 DEF Todo
<1>4. \A i, k \in 1..Len(Append(m, t)) :
         Append(m, t)[i].w = Append(m, t)[k].w => i = k
  <2>1. \A i \in 1..Len(m) : m[i].w # t.w
    BY DEF Todo
  <2>2. \A i, k \in 1..Len(m) : m[i].w = m[k].w => i = k
    BY DEF Fits
  <2> TAKE i, k \in 1..Len(Append(m, t))
  <2> HAVE Append(m, t)[i].w = Append(m, t)[k].w
  <2>3. \A n \in 1..Len(Append(m, t)) : n \in 1..Len(m) \/ n = Len(m) + 1
    BY <1>1, <1>2
  <2>4. CASE i \in 1..Len(m) /\ k \in 1..Len(m)
    BY <1>2, <2>2, <2>4
  <2>5. CASE i \in 1..Len(m) /\ k = Len(m) + 1
    BY <1>2, <2>1, <2>5
  <2>6. CASE i = Len(m) + 1 /\ k \in 1..Len(m)
    BY <1>2, <2>1, <2>6
  <2> QED BY <2>3, <2>4, <2>5, <2>6
<1>5. \A u \in Todo(m) : Agrees(u, q)
  BY DEF Fits, Agrees
<1> QED BY <1>2, <1>3, <1>4, <1>5 DEF Fits

\* Waiting workers are woken with null.
Nulls(ws) == [i \in 1..Len(ws) |-> Start(ws[i], NoJob)]

LEMMA Woken ==
    ASSUME NEW m, NEW p, NEW q, Fits(m, p), NEW ws \in Seq(Workers),
           \A i, k \in 1..Len(ws) : ws[i] = ws[k] => i = k,
           \A i \in 1..Len(ws) : q[ws[i]] = "handed",
           \A u \in Todo(m) : q[u.w] = p[u.w],
           \A u \in Todo(m) : \A i \in 1..Len(ws) : u.w # ws[i]
    PROVE  /\ Fits(m \o Nulls(ws), q)
           /\ Todo(m) \subseteq Todo(m \o Nulls(ws))
           /\ \A t \in Todo(m \o Nulls(ws)) : t \in Todo(m) \/ (t.kind = "start" /\ t.job = NoJob)
<1> DEFINE s == Nulls(ws)
           n == m \o s
<1>1. m \in Seq(Tasks) /\ Len(m) \in Nat /\ Len(ws) \in Nat
  BY DEF Fits
<1>2. \A i \in 1..Len(ws) : /\ Start(ws[i], NoJob) \in Tasks
                            /\ Start(ws[i], NoJob).kind = "start"
                            /\ Start(ws[i], NoJob).w = ws[i]
  BY StartIsTask
<1>3. s \in Seq(Tasks) /\ Len(s) = Len(ws) /\ \A i \in 1..Len(ws) : s[i] = Start(ws[i], NoJob)
  <2>1. s \in [1..Len(ws) -> Tasks]
    BY <1>2 DEF Nulls
  <2>2. s \in Seq(Tasks)
    BY <1>1, <2>1, SeqDef
  <2>3. DOMAIN s = 1..Len(ws) /\ Len(s) = Len(ws)
    BY <1>1, <2>2, LenProperties DEF Nulls
  <2> QED BY <1>1, <2>2, <2>3 DEF Nulls
<1> HIDE DEF s
<1>4. /\ n \in Seq(Tasks) /\ Len(n) = Len(m) + Len(ws)
      /\ \A i \in 1..Len(m) : n[i] = m[i]
      /\ \A i \in 1..Len(n) : i \notin 1..Len(m) => i - Len(m) \in 1..Len(ws)
                                                 /\ n[i] = Start(ws[i - Len(m)], NoJob)
  <2>2. /\ n \in Seq(Tasks) /\ Len(n) = Len(m) + Len(s)
        /\ \A i \in 1..(Len(m) + Len(s)) : n[i] = IF i <= Len(m) THEN m[i] ELSE s[i - Len(m)]
    <3>1. s \in Seq(Tasks) /\ m \in Seq(Tasks)
      BY <1>1, <1>3
    <3> QED BY ONLY <3>1, ConcatProperties
  <2>3. \A i \in 1..(Len(m) + Len(ws)) : i \notin 1..Len(m) =>
           i - Len(m) \in 1..Len(ws) /\ ~(i <= Len(m))
    BY <1>1
  <2>4. \A i \in 1..Len(m) : i <= Len(m) /\ i \in 1..(Len(m) + Len(ws))
    BY <1>1
  <2> QED BY <1>3, <2>2, <2>3, <2>4
<1> HIDE DEF n
<1>5. \A i \in 1..Len(ws) : /\ Len(m) + i \in 1..Len(n)
                            /\ n[Len(m) + i] = Start(ws[i], NoJob)
  <2> TAKE i \in 1..Len(ws)
  <2>1. /\ Len(m) + i \in 1..Len(n) /\ Len(m) + i \notin 1..Len(m)
        /\ (Len(m) + i) - Len(m) = i
    BY <1>1, <1>4
  <2> QED BY <1>4, <2>1
<1>6. Todo(n) = Todo(m) \cup {Start(ws[i], NoJob) : i \in 1..Len(ws)}
  <2>1. ASSUME NEW t \in Todo(n)
        PROVE  t \in Todo(m) \/ \E i \in 1..Len(ws) : t = Start(ws[i], NoJob)
    <3>1. PICK i \in 1..Len(n) : t = n[i]
      BY DEF Todo
    <3>2. CASE i \in 1..Len(m)
      BY <1>4, <3>1, <3>2 DEF Todo
    <3>3. CASE i \notin 1..Len(m)
      BY <1>4, <3>1, <3>3
    <3> QED BY <3>2, <3>3
  <2>2. \A i \in 1..Len(m) : i \in 1..Len(n)
    BY <1>1, <1>4
  <2>3. \A t \in Todo(m) : t \in Todo(n)
    BY <1>4, <2>2 DEF Todo
  <2>4. \A i \in 1..Len(ws) : Start(ws[i], NoJob) \in Todo(n)
    BY <1>3, <1>5 DEF Todo
  <2> QED BY <2>1, <2>3, <2>4
<1>7. \A i, k \in 1..Len(n) : n[i].w = n[k].w => i = k
  <2>1. \A i \in 1..Len(m) : \A k \in 1..Len(ws) : m[i].w # ws[k]
    BY DEF Todo
  <2>2. \A i, k \in 1..Len(m) : m[i].w = m[k].w => i = k
    BY DEF Fits
  <2> TAKE i, k \in 1..Len(n)
  <2> HAVE n[i].w = n[k].w
  <2>3. CASE i \in 1..Len(m) /\ k \in 1..Len(m)
    BY <1>4, <2>2, <2>3
  <2>4. CASE i \in 1..Len(m) /\ k \notin 1..Len(m)
    <3>1. n[k].w = ws[k - Len(m)] /\ k - Len(m) \in 1..Len(ws)
      BY <1>2, <1>3, <1>4, <2>4
    <3> QED BY <1>4, <2>1, <2>4, <3>1
  <2>5. CASE i \notin 1..Len(m) /\ k \in 1..Len(m)
    <3>1. n[i].w = ws[i - Len(m)] /\ i - Len(m) \in 1..Len(ws)
      BY <1>2, <1>3, <1>4, <2>5
    <3>2. m[k].w # ws[i - Len(m)] /\ n[k] = m[k]
      BY <1>4, <2>1, <2>5, <3>1
    <3> QED BY <3>1, <3>2
  <2>6. CASE i \notin 1..Len(m) /\ k \notin 1..Len(m)
    <3>1. /\ n[i].w = ws[i - Len(m)] /\ i - Len(m) \in 1..Len(ws)
          /\ n[k].w = ws[k - Len(m)] /\ k - Len(m) \in 1..Len(ws)
      BY <1>2, <1>3, <1>4, <2>6
    <3>2. i - Len(m) = k - Len(m)
      BY <3>1
    <3> QED BY <1>1, <3>2
  <2> QED BY <2>3, <2>4, <2>5, <2>6
<1>8. \A u \in Todo(m) : Agrees(u, q)
  BY DEF Fits, Agrees
<1>9. \A i \in 1..Len(ws) : Agrees(Start(ws[i], NoJob), q)
  BY <1>2 DEF Agrees
<1>10. \A t \in Todo(n) : Agrees(t, q)
  BY <1>6, <1>8, <1>9
<1>11. \A i \in 1..Len(ws) : Start(ws[i], NoJob).job = NoJob
  BY StartIsTask
<1>12. Todo(m) \subseteq Todo(n)
  BY <1>6
<1>13. \A t \in Todo(n) : t \in Todo(m) \/ (t.kind = "start" /\ t.job = NoJob)
  BY <1>2, <1>6, <1>11
<1>14. Fits(n, q)
  BY <1>4, <1>7, <1>10 DEF Fits
<1> QED BY <1>12, <1>13, <1>14 DEF n, s

-----------------------------------------------------------------------------
(* The pool's methods, on the tasks that are queued when they are called.   *)

\* Those who wait are at the waiting stage.
Waits(ws, p) ==
    /\ ws \in Seq(Workers)
    /\ \A i, k \in 1..Len(ws) : ws[i] = ws[k] => i = k
    /\ \A i \in 1..Len(ws) : p[ws[i]] = "waiting"

Fields ==
    /\ queue \in Seq(Jobs) /\ pc \in [Workers -> Stages]
    /\ Waits(waiters, pc)

\* A worker without a task is not handed, running or settling, and the other
\* way round.
LEMMA BusyStages ==
    ASSUME NEW m, NEW p, Fits(m, p), NEW t \in Todo(m)
    PROVE  t \in Tasks /\ t.w \in Workers /\ p[t.w] \in {"handed", "running", "settling"}
<1>1. t \in Tasks
  BY DEF Fits, Todo
<1> QED BY <1>1, TaskKinds DEF Fits, Agrees

PushEffect(j, rest) ==
    \/ /\ closed /\ Todo(micro') = Todo(rest)
       /\ UNCHANGED <<queue, pc, accepted>>
    \/ /\ ~closed /\ accepted' = accepted \cup {j} /\ queue' = queue
       /\ \E w \in Workers :
            /\ pc[w] = "waiting" /\ pc' = [pc EXCEPT ![w] = "handed"]
            /\ Todo(micro') = Todo(rest) \cup {Start(w, j)}
    \/ /\ ~closed /\ accepted' = accepted \cup {j} /\ queue' = Append(queue, j)
       /\ pc' = pc /\ Todo(micro') = Todo(rest)

LEMMA PushFits ==
    ASSUME Fields, NEW j \in Jobs, NEW rest, Fits(rest, pc), Push(j, rest)
    PROVE  /\ Fields' /\ Fits(micro', pc')
           /\ PushEffect(j, rest)
<1> USE DEF Fields, PushEffect
<1>1. CASE closed
  <2>1. micro' = rest /\ UNCHANGED <<queue, waiters, pc, accepted>>
    BY <1>1 DEF Push
  <2> QED BY <1>1, <2>1
<1>2. CASE ~closed /\ waiters = <<>>
  <2>1. /\ micro' = rest /\ queue' = Append(queue, j) /\ UNCHANGED <<waiters, pc>>
        /\ accepted' = accepted \cup {j}
    BY <1>2 DEF Push
  <2> QED BY <1>2, <2>1
<1>3. CASE ~closed /\ waiters # <<>>
  <2> DEFINE w == Head(waiters)
  <2>1. /\ waiters \in Seq(Workers) /\ Len(waiters) \in Nat \ {0} /\ w = waiters[1]
        /\ w \in Workers /\ pc[w] = "waiting"
    BY <1>3 DEF Waits
  <2>2. /\ micro' = Append(rest, Start(w, j)) /\ waiters' = Tail(waiters)
        /\ pc' = [pc EXCEPT ![w] = "handed"] /\ queue' = queue /\ accepted' = accepted \cup {j}
    BY <1>3 DEF Push
  <2> HIDE DEF w
  <2>4. /\ Start(w, j) \in Tasks /\ Start(w, j).kind = "start" /\ Start(w, j).w = w
        /\ pc'[w] = "handed"
    BY <2>1, <2>2, StartIsTask
  <2>3. \A u \in Todo(rest) : u.w # Start(w, j).w /\ pc'[u.w] = pc[u.w]
    BY <2>1, <2>2, <2>4, BusyStages
  <2>5. Agrees(Start(w, j), pc')
    BY <2>4 DEF Agrees
  <2>6. Fits(micro', pc') /\ Todo(micro') = Todo(rest) \cup {Start(w, j)}
    <3>1. Start(w, j) \in Tasks
      BY <2>4
    <3>2. /\ Fits(Append(rest, Start(w, j)), pc')
          /\ Todo(Append(rest, Start(w, j))) = Todo(rest) \cup {Start(w, j)}
      BY ONLY Fits(rest, pc), <2>3, <2>5, <3>1, OneMore
    <3> QED BY <2>2, <3>2
  <2>7. /\ waiters' \in Seq(Workers) /\ Len(waiters') = Len(waiters) - 1
        /\ \A i \in 1..Len(waiters') : i + 1 \in 1..Len(waiters) /\ waiters'[i] = waiters[i + 1]
    BY <2>1, <2>2
  <2>8. Waits(waiters', pc')
    <3>1. \A i, k \in 1..Len(waiters) : waiters[i] = waiters[k] => i = k
      BY DEF Waits
    <3>2. ASSUME NEW i \in 1..Len(waiters'), NEW k \in 1..Len(waiters'),
                 waiters'[i] = waiters'[k]
          PROVE  i = k
      <4>1. i + 1 = k + 1
        BY <2>7, <3>1, <3>2
      <4> QED BY <4>1
    <3>3. ASSUME NEW i \in 1..Len(waiters') PROVE pc'[waiters'[i]] = "waiting"
      <4>1. i + 1 \in 1..Len(waiters) /\ 1 \in 1..Len(waiters) /\ i + 1 # 1
        BY <2>1, <2>7
      <4>2. waiters[i + 1] # w /\ waiters[i + 1] \in Workers /\ pc[waiters[i + 1]] = "waiting"
        BY <2>1, <3>1, <4>1 DEF Waits
      <4> QED BY <2>2, <2>7, <4>2
    <3> QED BY <2>7, <3>2, <3>3 DEF Waits
  <2>9. pc' \in [Workers -> Stages] /\ queue' \in Seq(Jobs)
    BY <2>1, <2>2 DEF Stages
  <2> QED BY <1>3, <2>1, <2>2, <2>6, <2>8, <2>9
<1> QED BY <1>1, <1>2, <1>3

GetEffect(w, rest) ==
    \/ /\ queue # <<>> /\ queue' = Tail(queue)
       /\ pc' = [pc EXCEPT ![w] = "handed"]
       /\ Todo(micro') = Todo(rest) \cup {Start(w, Head(queue))}
    \/ /\ queue = <<>> /\ closed /\ queue' = queue
       /\ pc' = [pc EXCEPT ![w] = "handed"]
       /\ Todo(micro') = Todo(rest) \cup {Start(w, NoJob)}
    \/ /\ queue = <<>> /\ ~closed /\ queue' = queue
       /\ pc' = [pc EXCEPT ![w] = "waiting"]
       /\ Todo(micro') = Todo(rest)

LEMMA GetNextFits ==
    ASSUME Fields, NEW w \in Workers, NEW rest, Fits(rest, pc),
           pc[w] \in {"pausing", "settling"}, \A t \in Todo(rest) : t.w # w,
           GetNext(w, rest)
    PROVE  /\ Fields' /\ Fits(micro', pc')
           /\ GetEffect(w, rest)
<1> USE DEF Fields, GetEffect
<1>1. ASSUME NEW j \in Jobs \cup {NoJob}, micro' = Append(rest, Start(w, j)),
             pc' = [pc EXCEPT ![w] = "handed"], waiters' = waiters, queue' \in Seq(Jobs)
      PROVE  Fields' /\ Fits(micro', pc') /\ Todo(micro') = Todo(rest) \cup {Start(w, j)}
  <2>2. /\ Start(w, j) \in Tasks /\ Start(w, j).kind = "start" /\ Start(w, j).w = w
        /\ pc'[w] = "handed"
    BY <1>1, StartIsTask
  <2>1. \A u \in Todo(rest) : u.w # Start(w, j).w /\ pc'[u.w] = pc[u.w]
    BY <1>1, <2>2, BusyStages
  <2>3. Agrees(Start(w, j), pc')
    BY <2>2 DEF Agrees
  <2>4. Fits(micro', pc') /\ Todo(micro') = Todo(rest) \cup {Start(w, j)}
    <3>1. Start(w, j) \in Tasks
      BY <2>2
    <3>2. /\ Fits(Append(rest, Start(w, j)), pc')
          /\ Todo(Append(rest, Start(w, j))) = Todo(rest) \cup {Start(w, j)}
      BY ONLY Fits(rest, pc), <2>1, <2>3, <3>1, OneMore
    <3> QED BY <1>1, <3>2
  <2>5. \A i \in 1..Len(waiters) : waiters[i] \in Workers /\ waiters[i] # w
    BY DEF Waits
  <2>6. Waits(waiters', pc')
    BY <1>1, <2>5 DEF Waits
  <2>7. pc' \in [Workers -> Stages]
    BY <1>1 DEF Stages
  <2> QED BY <1>1, <2>4, <2>6, <2>7
<1>2. CASE queue # <<>>
  <2>1. Head(queue) \in Jobs /\ Tail(queue) \in Seq(Jobs)
    BY <1>2
  <2> QED BY <1>1, <1>2, <2>1 DEF GetNext
<1>3. CASE queue = <<>> /\ closed
  BY <1>1, <1>3 DEF GetNext
<1>4. CASE queue = <<>> /\ ~closed
  <2>1. /\ micro' = rest /\ pc' = [pc EXCEPT ![w] = "waiting"] /\ queue' = queue
        /\ waiters' = Append(waiters, w)
    BY <1>4 DEF GetNext
  <2>2. \A u \in Todo(rest) : u.w # w /\ pc'[u.w] = pc[u.w]
    BY <2>1, BusyStages
  <2>3. Fits(micro', pc')
    BY <2>1, <2>2 DEF Fits, Agrees
  <2>4. pc' \in [Workers -> Stages]
    BY <2>1 DEF Stages
  <2>5. /\ waiters \in Seq(Workers) /\ Len(waiters) \in Nat
        /\ \A i \in 1..Len(waiters) : waiters[i] \in Workers /\ waiters[i] # w
    BY DEF Waits
  <2>6. /\ waiters' \in Seq(Workers) /\ Len(waiters') = Len(waiters) + 1
        /\ \A i \in 1..Len(waiters) : waiters'[i] = waiters[i]
        /\ waiters'[Len(waiters) + 1] = w
    BY <2>1, <2>5
  <2>7. \A i \in 1..Len(waiters') : i \in 1..Len(waiters) \/ i = Len(waiters) + 1
    BY <2>5, <2>6
  <2>8. \A i, k \in 1..Len(waiters') : waiters'[i] = waiters'[k] => i = k
    <3> TAKE i, k \in 1..Len(waiters')
    <3>1. CASE i \in 1..Len(waiters) /\ k \in 1..Len(waiters)
      BY <2>6, <3>1 DEF Waits
    <3>2. CASE i = Len(waiters) + 1 \/ k = Len(waiters) + 1
      BY <2>5, <2>6, <2>7, <3>2
    <3> QED BY <2>7, <3>1, <3>2
  <2>9. \A i \in 1..Len(waiters') : pc'[waiters'[i]] = "waiting"
    BY <2>1, <2>5, <2>6, <2>7 DEF Waits
  <2> QED BY <1>4, <2>1, <2>3, <2>4, <2>6, <2>8, <2>9 DEF Waits
<1> QED BY <1>2, <1>3, <1>4

ShutEffect(q, rest) ==
    /\ Todo(rest) \subseteq Todo(micro')
    /\ \A t \in Todo(micro') : t \in Todo(rest) \/ (t.kind = "start" /\ t.job = NoJob)
    /\ q # <<>> => Todo(micro') = Todo(rest) /\ pc' = pc
    /\ \A w \in Workers : pc'[w] = pc[w] \/ (pc[w] = "waiting" /\ pc'[w] = "handed")

LEMMA ShutFits ==
    ASSUME Fields, NEW q \in Seq(Jobs), NEW rest, Fits(rest, pc), Shut(q, rest)
    PROVE  /\ Fields' /\ Fits(micro', pc') /\ closed' = TRUE /\ queue' = q
           /\ ShutEffect(q, rest)
<1> USE DEF Fields, ShutEffect
<1>1. CASE q # <<>>
  BY <1>1 DEF Shut
<1>2. CASE q = <<>>
  <2>1. /\ micro' = rest \o [i \in 1..Len(waiters) |-> Start(waiters[i], NoJob)]
        /\ waiters' = <<>> /\ queue' = q /\ closed' = TRUE
        /\ pc' = [w \in Workers |-> IF pc[w] = "waiting" THEN "handed" ELSE pc[w]]
    BY <1>2 DEF Shut
  <2>2. waiters \in Seq(Workers) /\ \A i \in 1..Len(waiters) : waiters[i] \in Workers
    BY DEF Waits
  <2>3. \A u \in Todo(rest) : u.w \in Workers /\ pc'[u.w] = pc[u.w] /\ pc[u.w] # "waiting"
    BY <2>1, BusyStages
  <2>4. \A i \in 1..Len(waiters) :
           pc'[waiters[i]] = "handed" /\ \A u \in Todo(rest) : u.w # waiters[i]
    BY <2>1, <2>2, <2>3 DEF Waits
  <2>5. \A i, k \in 1..Len(waiters) : waiters[i] = waiters[k] => i = k
    BY DEF Waits
  <2>6. /\ Fits(micro', pc') /\ Todo(rest) \subseteq Todo(micro')
        /\ \A t \in Todo(micro') : t \in Todo(rest) \/ (t.kind = "start" /\ t.job = NoJob)
    <3>1. waiters \in Seq(Workers) /\ \A i \in 1..Len(waiters) : pc'[waiters[i]] = "handed"
      BY <2>2, <2>4
    <3>2. micro' = rest \o Nulls(waiters)
      BY <2>1 DEF Nulls
    <3>3. \A u \in Todo(rest) : pc'[u.w] = pc[u.w]
      BY <2>3
    <3>4. \A u \in Todo(rest) : \A i \in 1..Len(waiters) : u.w # waiters[i]
      BY <2>4
    <3>5. /\ Fits(rest \o Nulls(waiters), pc')
          /\ Todo(rest) \subseteq Todo(rest \o Nulls(waiters))
          /\ \A t \in Todo(rest \o Nulls(waiters)) :
                t \in Todo(rest) \/ (t.kind = "start" /\ t.job = NoJob)
      BY ONLY Fits(rest, pc), <2>5, <3>1, <3>3, <3>4, Woken
    <3> QED BY ONLY <3>2, <3>5
  <2>8. Waits(waiters', pc')
    BY <2>1 DEF Waits
  <2>9. pc' \in [Workers -> Stages]
    BY <2>1 DEF Stages
  <2> QED BY <1>2, <2>1, <2>6, <2>8, <2>9
<1> QED BY <1>1, <1>2

-----------------------------------------------------------------------------
(* Shape: every task has its worker, every worker at most one task.         *)

Types ==
    /\ delayed \in Delays /\ closed \in BOOLEAN /\ halted \in BOOLEAN
    /\ failureCount \in Nat /\ consecutiveFailures \in Nat
    /\ done \in {"no", "finished", "halted"}
    /\ job \in [Workers -> Jobs \cup {NoJob}]
    /\ \A w \in Workers : pc[w] = "running" => job[w] \in Jobs
    /\ timers \subseteq Later /\ closeCalled \in BOOLEAN
    /\ offered \subseteq Jobs /\ accepted \subseteq Jobs
    /\ runs \in [Jobs -> Nat]

\* run() asks for all workers at once.
Together == (\E w \in Workers : pc[w] = "new") => \A w \in Workers : pc[w] = "new"

Shape == Fields /\ Fits(micro, pc) /\ Types /\ Together

\* The first task is replaced by another of the same worker, at once or at
\* the end of the queue.
LEMMA FirstStays ==
    ASSUME NEW m, NEW p, Fits(m, p), m # <<>>, NEW t \in Tasks, t.w = Head(m).w, Agrees(t, p)
    PROVE  /\ Fits([m EXCEPT ![1] = t], p)
           /\ Todo([m EXCEPT ![1] = t]) = (Todo(m) \ {Head(m)}) \cup {t}
<1> DEFINE n == [m EXCEPT ![1] = t]
<1>1. m \in Seq(Tasks) /\ Len(m) \in Nat \ {0} /\ Head(m) = m[1]
  BY DEF Fits
<1>2. /\ n \in Seq(Tasks) /\ Len(n) = Len(m) /\ n[1] = t
      /\ \A i \in 1..Len(m) : i # 1 => n[i] = m[i]
  BY <1>1
<1> HIDE DEF n
<1>3. \A i, k \in 1..Len(m) : m[i].w = m[k].w => i = k
  BY DEF Fits
<1>4. \A i \in 1..Len(n) : n[i].w = m[i].w
  BY <1>1, <1>2
<1>5. \A i, k \in 1..Len(n) : n[i].w = n[k].w => i = k
  BY <1>2, <1>3, <1>4
<1>6. Todo(n) = (Todo(m) \ {Head(m)}) \cup {t}
  <2>1. 1 \in 1..Len(m)
    BY <1>1
  <2>2. \A i \in 1..Len(m) : i # 1 => m[i] # m[1]
    BY <1>3, <2>1
  <2>3. \A u \in Todo(n) : u = t \/ (u \in Todo(m) /\ u # Head(m))
    BY <1>1, <1>2, <2>2 DEF Todo
  <2>4. t \in Todo(n)
    BY <1>2, <2>1 DEF Todo
  <2>5. \A u \in Todo(m) : u # Head(m) => u \in Todo(n)
    BY <1>1, <1>2 DEF Todo
  <2> QED BY <2>3, <2>4, <2>5
<1>7. \A u \in Todo(n) : Agrees(u, p)
  BY <1>6 DEF Fits
<1> QED BY <1>2, <1>5, <1>6, <1>7 DEF n, Fits

LEMMA OnwardFits ==
    ASSUME Fits(micro, pc), micro # <<>>, Head(micro).kind \in {"then", "catch"},
           NEW k \in {"catch", "finally"}
    PROVE  /\ Fits(Onward(k), pc)
           /\ Todo(Onward(k))
                = (Todo(micro) \ {Head(micro)}) \cup {[Head(micro) EXCEPT !.kind = k]}
           /\ [Head(micro) EXCEPT !.kind = k].kind = k
           /\ [Head(micro) EXCEPT !.kind = k].w = Head(micro).w
           /\ [Head(micro) EXCEPT !.kind = k].ok = Head(micro).ok
<1> DEFINE t == [Head(micro) EXCEPT !.kind = k]
<1>1. /\ Head(micro) \in Todo(micro) /\ Head(micro) \in Tasks
      /\ Fits(Tail(micro), pc) /\ Todo(Tail(micro)) = Todo(micro) \ {Head(micro)}
      /\ \A u \in Todo(Tail(micro)) : u.w # Head(micro).w
  BY FirstLeaves
<1>2. t \in Tasks /\ t.kind = k /\ t.w = Head(micro).w /\ t.ok = Head(micro).ok
  BY <1>1, NextTask
<1>3. pc[Head(micro).w] = "settling"
  BY <1>1 DEF Fits, Agrees
<1>4. Onward(k) = Append(Tail(micro), t)
  BY DEF Onward
<1> HIDE DEF t
<1>5. Agrees(t, pc) /\ \A u \in Todo(Tail(micro)) : u.w # t.w /\ pc[u.w] = pc[u.w]
  BY <1>1, <1>2, <1>3 DEF Agrees
<1>6. Fits(Append(Tail(micro), t), pc) /\ Todo(Append(Tail(micro), t)) = Todo(Tail(micro)) \cup {t}
  BY ONLY <1>1, <1>2, <1>5, OneMore
<1> QED BY <1>1, <1>2, <1>4, <1>6 DEF t

-----------------------------------------------------------------------------
(* Each action keeps the shape; the lemma also says what it does to the     *)
(* set of tasks, which is what the later invariants are about.              *)

\* Nobody starts before run().
NobodyNew == \A w \in Workers : pc'[w] = "new" <=> pc[w] = "new"

\* How many jobs run() hands out, and to how many workers it gives something.
First == IF Len(queue) < NumWorkers THEN Len(queue) ELSE NumWorkers
Asking == IF closed THEN NumWorkers ELSE First

LEMMA RunStep ==
    ASSUME Shape, Run, delayed' = delayed
    PROVE  /\ Shape' /\ micro = <<>>
           /\ \A w \in Workers : pc[w] = "new" /\ pc'[w] \in {"handed", "waiting"}
           /\ First \in 0..NumWorkers /\ First \in 0..Len(queue) /\ Len(queue') = Len(queue) - First
           /\ \A i \in 1..Len(queue') : queue'[i] = queue[First + i]
           /\ \A t \in Todo(micro') :
                /\ t.kind = "start"
                /\ t.job = NoJob => closed /\ queue' = <<>>
                /\ t.job # NoJob => t.w \in 1..First /\ t.job = queue[t.w]
           /\ \A i \in 1..First : \E t \in Todo(micro') : t.kind = "start" /\ t.job = queue[i]
<1> DEFINE a == Asking
           f(w) == IF w <= First THEN queue[w] ELSE NoJob
<1>1. /\ micro' = [w \in 1..a |-> Start(w, f(w))]
      /\ queue' = SubSeq(queue, First + 1, Len(queue))
      /\ waiters' = [i \in 1..(NumWorkers - a) |-> a + i]
      /\ pc' = [w \in Workers |-> IF w <= a THEN "handed" ELSE "waiting"]
      /\ UNCHANGED <<closed, halted, failureCount, consecutiveFailures, done, timers, job,
                     closeCalled, offered, accepted, runs>>
      /\ \A w \in Workers : pc[w] = "new"
      /\ micro = <<>>
  BY DEF Run, First, Asking, Quiet
<1>2. queue \in Seq(Jobs) /\ Len(queue) \in Nat
  BY DEF Shape, Fields
<1>3. /\ First \in Nat /\ First <= NumWorkers /\ First <= Len(queue)
      /\ a \in Nat /\ a <= NumWorkers /\ First <= a
      /\ a > First => closed /\ First = Len(queue)
  BY <1>2 DEF First, Asking
<1> HIDE DEF a
<1>4. /\ queue' \in Seq(Jobs) /\ Len(queue') = Len(queue) - First
      /\ \A i \in 1..Len(queue') : queue'[i] = queue[First + i]
  <2>1. \A i \in (First + 1)..Len(queue) : queue[i] \in Jobs
    BY <1>2, <1>3
  <2>2. /\ SubSeq(queue, First + 1, Len(queue)) \in Seq(Jobs)
        /\ Len(SubSeq(queue, First + 1, Len(queue))) = Len(queue) - First
        /\ \A i \in 1..(Len(queue) - First) :
              SubSeq(queue, First + 1, Len(queue))[i] = queue[First + i]
    BY <1>2, <1>3, <2>1, SubSeqProperties
  <2> QED BY <1>1, <2>2
<1>5. \A w \in 1..a : /\ w \in Workers /\ f(w) \in Jobs \cup {NoJob}
                      /\ Start(w, f(w)) \in Tasks
                      /\ Start(w, f(w)).kind = "start" /\ Start(w, f(w)).w = w
                      /\ Start(w, f(w)).job = f(w)
  <2> TAKE w \in 1..a
  <2>1. w \in Workers
    BY <1>3 DEF Workers
  <2>2. f(w) \in Jobs \cup {NoJob}
    BY <1>2, <1>3, <2>1 DEF Workers
  <2> HIDE DEF f
  <2> QED BY <2>1, <2>2, StartIsTask
<1>6. \A w \in 1..a : (f(w) = NoJob => closed /\ queue' = <<>>) /\ (f(w) # NoJob => w \in 1..First /\ f(w) = queue[w])
  <2> TAKE w \in 1..a
  <2>1. CASE w <= First
    <3>1. queue[w] \in Jobs /\ w \in 1..First
      BY <1>2, <1>3, <2>1
    <3> QED BY <2>1, <3>1
  <2>2. CASE ~(w <= First)
    <3>1. a > First
      BY <1>3, <2>2
    <3>2. Len(queue') = 0
      BY <1>2, <1>3, <1>4, <3>1
    <3> QED BY <1>3, <1>4, <2>2, <3>1, <3>2
  <2> QED BY <2>1, <2>2
<1>7. \A w \in 1..First : w \in 1..a /\ f(w) = queue[w]
  BY <1>3
<1> HIDE DEF f
<1>8. /\ micro' \in Seq(Tasks) /\ Len(micro') = a
      /\ \A w \in 1..a : micro'[w] = Start(w, f(w))
  <2>1. micro' \in [1..a -> Tasks]
    BY <1>1, <1>5
  <2>2. micro' \in Seq(Tasks)
    BY <1>3, <2>1, SeqDef
  <2>3. Len(micro') = a
    BY <1>1, <1>3, <2>2, LenProperties
  <2> QED BY <1>1, <2>2, <2>3
<1>9. \A w \in Workers : pc'[w] = IF w <= a THEN "handed" ELSE "waiting"
  BY <1>1
<1>10. Fits(micro', pc')
  <2>1. \A i, k \in 1..Len(micro') : micro'[i].w = micro'[k].w => i = k
    BY <1>5, <1>8
  <2>2. \A w \in 1..a : w <= a
    BY <1>3
  <2>3. \A w \in 1..a : Agrees(Start(w, f(w)), pc')
    BY <1>5, <1>9, <2>2 DEF Agrees
  <2>4. \A t \in Todo(micro') : \E w \in 1..a : t = Start(w, f(w))
    BY <1>8 DEF Todo
  <2>5. \A t \in Todo(micro') : Agrees(t, pc')
    BY <2>3, <2>4
  <2> QED BY <1>8, <2>1, <2>5 DEF Fits
<1>11. Waits(waiters', pc')
  <2>1. \A i \in 1..(NumWorkers - a) : a + i \in Workers /\ ~(a + i <= a)
    BY <1>3 DEF Workers
  <2>2. waiters' \in [1..(NumWorkers - a) -> Workers] /\ NumWorkers - a \in Nat
    <3>1. NumWorkers - a \in Nat
      BY <1>3
    <3>2. waiters' = [i \in 1..(NumWorkers - a) |-> a + i]
      BY <1>1
    <3> QED BY ONLY <2>1, <3>1, <3>2
  <2>3. waiters' \in Seq(Workers)
    BY <2>2, SeqDef
  <2>4. Len(waiters') = NumWorkers - a
    BY <1>1, <2>2, <2>3, LenProperties
  <2>5. \A i \in 1..Len(waiters') : waiters'[i] = a + i
    BY <1>1, <2>4
  <2>6. \A i, k \in 1..Len(waiters') : waiters'[i] = waiters'[k] => i = k
    BY <1>3, <2>2, <2>4, <2>5
  <2>7. \A i \in 1..Len(waiters') : pc'[waiters'[i]] = "waiting"
    BY <1>9, <2>1, <2>4, <2>5
  <2> QED BY <2>3, <2>6, <2>7 DEF Waits
<1>12. pc' \in [Workers -> Stages]
  BY <1>1 DEF Stages
<1>13. \A w \in Workers : pc'[w] \in {"handed", "waiting"}
  BY <1>9
<1>14. Types'
  BY <1>1, <1>13 DEF Shape, Types
<1>15. Shape'
  BY <1>4, <1>10, <1>11, <1>12, <1>13, <1>14 DEF Shape, Fields, Together
<1>16. \A t \in Todo(micro') : \E w \in 1..a : t = Start(w, f(w))
  BY <1>8 DEF Todo
<1>17. \A t \in Todo(micro') : /\ t.kind = "start"
                               /\ t.job = NoJob => closed /\ queue' = <<>>
                               /\ t.job # NoJob => t.w \in 1..First /\ t.job = queue[t.w]
  BY <1>5, <1>6, <1>16
<1>18. ASSUME NEW i \in 1..First
       PROVE  \E t \in Todo(micro') : t.kind = "start" /\ t.job = queue[i]
  <2>1. i \in 1..a /\ f(i) = queue[i]
    BY <1>7
  <2>2. Start(i, f(i)) \in Todo(micro')
    BY <1>8, <2>1 DEF Todo
  <2> QED BY <1>5, <2>1, <2>2
<1>19. First \in 0..NumWorkers /\ First \in 0..Len(queue)
  BY <1>2, <1>3
<1> QED BY <1>1, <1>4, <1>13, <1>15, <1>17, <1>18, <1>19

\* Together survives when nobody starts.
LEMMA TogetherStays ==
    ASSUME Together, NobodyNew
    PROVE  Together'
BY DEF Together, NobodyNew

\* A push by the user, a timer or a job.
LEMMA PushStep ==
    ASSUME Shape, NEW j \in Jobs, NEW rest, Fits(rest, pc), Push(j, rest),
           timers' \subseteq Later,
           UNCHANGED <<delayed, closed, halted, failureCount, consecutiveFailures, done, job,
                       closeCalled, runs>>
    PROVE  Shape' /\ NobodyNew /\ PushEffect(j, rest) /\ offered' = offered \cup {j}
<1>1. Fields' /\ Fits(micro', pc') /\ PushEffect(j, rest)
  BY PushFits DEF Shape
<1>2. offered' = offered \cup {j}
  BY DEF Push
<1>3. accepted' \subseteq accepted \cup {j}
  BY <1>1 DEF PushEffect
<1>4. pc \in [Workers -> Stages] /\ pc' \in [Workers -> Stages]
  BY <1>1 DEF Shape, Fields
<1>5. \A v \in Workers : pc'[v] = pc[v] \/ (pc[v] = "waiting" /\ pc'[v] = "handed")
  BY <1>1, <1>4 DEF PushEffect
<1>6. Types'
  BY <1>2, <1>3, <1>5 DEF Shape, Types
<1>7. NobodyNew
  BY <1>5 DEF NobodyNew
<1> QED BY <1>1, <1>2, <1>6, <1>7, TogetherStays DEF Shape

\* close(), or a settling job that closes the pool.
LEMMA ShutStep ==
    ASSUME Shape, NEW q \in Seq(Jobs), NEW rest, Fits(rest, pc), Shut(q, rest),
           failureCount' \in Nat, consecutiveFailures' \in Nat, halted' \in BOOLEAN,
           closeCalled' \in BOOLEAN,
           UNCHANGED <<delayed, done, job, timers, offered, accepted, runs>>
    PROVE  Shape' /\ NobodyNew /\ ShutEffect(q, rest) /\ closed' = TRUE /\ queue' = q
<1>1. Fields' /\ Fits(micro', pc') /\ ShutEffect(q, rest) /\ closed' = TRUE /\ queue' = q
  BY ShutFits DEF Shape
<1>2. \A v \in Workers : pc'[v] = pc[v] \/ (pc[v] = "waiting" /\ pc'[v] = "handed")
  BY <1>1 DEF ShutEffect
<1>3. Types'
  BY <1>1, <1>2 DEF Shape, Types
<1>4. NobodyNew
  BY <1>2 DEF NobodyNew
<1> QED BY <1>1, <1>3, <1>4, TogetherStays DEF Shape

\* A worker asks for its next job.
LEMMA GetStep ==
    ASSUME Shape, NEW w \in Workers, NEW rest, Fits(rest, pc),
           pc[w] \in {"pausing", "settling"}, \A t \in Todo(rest) : t.w # w,
           GetNext(w, rest),
           UNCHANGED <<delayed, closed, halted, failureCount, consecutiveFailures, done, job,
                       timers, closeCalled, offered, accepted, runs>>
    PROVE  Shape' /\ NobodyNew /\ GetEffect(w, rest)
<1>1. Fields' /\ Fits(micro', pc') /\ GetEffect(w, rest)
  BY GetNextFits DEF Shape
<1>2. \A v \in Workers : v # w => pc'[v] = pc[v]
  BY <1>1 DEF GetEffect, Shape, Fields
<1>3. pc'[w] \in {"handed", "waiting"}
  BY <1>1 DEF GetEffect, Shape, Fields
<1>4. Types'
  BY <1>2, <1>3 DEF Shape, Types
<1>5. NobodyNew
  BY <1>2, <1>3 DEF NobodyNew
<1> QED BY <1>1, <1>4, <1>5, TogetherStays DEF Shape

\* Waits, like Fits, is about the stages of the workers concerned only.
LEMMA Elsewhere ==
    ASSUME NEW m, NEW p, NEW q, Fits(m, p), \A t \in Todo(m) : q[t.w] = p[t.w]
    PROVE  Fits(m, q)
BY DEF Fits, Agrees

LEMMA WaitsElsewhere ==
    ASSUME NEW ws, NEW p, Waits(ws, p), NEW w \in Workers, p[w] # "waiting", NEW x,
           p \in [Workers -> Stages]
    PROVE  Waits(ws, [p EXCEPT ![w] = x])
<1>1. \A i \in 1..Len(ws) : ws[i] \in Workers /\ ws[i] # w
  BY DEF Waits
<1> QED BY <1>1 DEF Waits

\* The first task, and what is left without it.
LEMMA TakesFirst ==
    ASSUME Shape, micro # <<>>
    PROVE  /\ Head(micro) \in Todo(micro) /\ Head(micro) \in Tasks /\ Head(micro).w \in Workers
           /\ Agrees(Head(micro), pc)
           /\ Fits(Tail(micro), pc)
           /\ Todo(Tail(micro)) = Todo(micro) \ {Head(micro)}
           /\ \A t \in Todo(Tail(micro)) : t.w # Head(micro).w
           /\ \A x : Fits(Tail(micro), [pc EXCEPT ![Head(micro).w] = x])
<1>1. Fits(micro, pc) /\ pc \in [Workers -> Stages]
  BY DEF Shape, Fields
<1>2. /\ Head(micro) \in Todo(micro) /\ Head(micro) \in Tasks
      /\ Fits(Tail(micro), pc)
      /\ Todo(Tail(micro)) = Todo(micro) \ {Head(micro)}
      /\ \A t \in Todo(Tail(micro)) : t.w # Head(micro).w
  BY <1>1, FirstLeaves
<1>3. Head(micro).w \in Workers /\ Agrees(Head(micro), pc)
  BY <1>1, <1>2, TaskKinds DEF Fits
<1>4. ASSUME NEW x PROVE Fits(Tail(micro), [pc EXCEPT ![Head(micro).w] = x])
  <2>1. \A t \in Todo(Tail(micro)) : [pc EXCEPT ![Head(micro).w] = x][t.w] = pc[t.w]
    BY <1>1, <1>2, BusyStages
  <2> QED BY ONLY <1>2, <2>1, Elsewhere
<1> QED BY <1>2, <1>3, <1>4

LEMMA StartsStep ==
    ASSUME Shape, Starts, delayed' = delayed
    PROVE  /\ Shape' /\ NobodyNew /\ Todo(micro') = Todo(micro) \ {Head(micro)}
           /\ \A t \in Todo(micro') : t.w # Head(micro).w
           /\ Head(micro) \in Todo(micro) /\ Head(micro).kind = "start" /\ Head(micro).job \in Jobs
           /\ Head(micro).w \in Workers /\ pc[Head(micro).w] = "handed"
           /\ pc' = [pc EXCEPT ![Head(micro).w] = "running"]
           /\ job' = [job EXCEPT ![Head(micro).w] = Head(micro).job]
           /\ runs' = [runs EXCEPT ![Head(micro).job] = @ + 1]
<1> DEFINE t == Head(micro)
<1>1. /\ micro # <<>> /\ t.kind = "start" /\ t.job # NoJob /\ micro' = Tail(micro)
      /\ pc' = [pc EXCEPT ![t.w] = "running"] /\ job' = [job EXCEPT ![t.w] = t.job]
      /\ runs' = [runs EXCEPT ![t.job] = @ + 1]
      /\ UNCHANGED <<queue, waiters, closed, halted, failureCount, consecutiveFailures, done,
                     timers, closeCalled, offered, accepted>>
  BY DEF Starts, Task
<1>2. /\ t \in Todo(micro) /\ t \in Tasks /\ t.w \in Workers /\ Agrees(t, pc)
      /\ Todo(Tail(micro)) = Todo(micro) \ {t} /\ \A u \in Todo(Tail(micro)) : u.w # t.w
      /\ Fits(Tail(micro), [pc EXCEPT ![t.w] = "running"])
  BY <1>1, TakesFirst
<1>3. t.job \in Jobs /\ pc[t.w] = "handed"
  BY <1>1, <1>2, TaskKinds DEF Agrees
<1> HIDE DEF t
<1>4. Waits(waiters, [pc EXCEPT ![t.w] = "running"])
  BY <1>2, <1>3, WaitsElsewhere DEF Shape, Fields
<1>5. Fields' /\ Fits(micro', pc')
  BY <1>1, <1>2, <1>4 DEF Shape, Fields, Stages
<1>6. Types'
  BY <1>1, <1>2, <1>3 DEF Shape, Types, Fields
<1>7. NobodyNew
  BY <1>1, <1>2, <1>3 DEF NobodyNew, Shape, Fields
<1>8. Shape'
  BY <1>5, <1>6, <1>7, TogetherStays DEF Shape
<1> QED BY <1>1, <1>2, <1>3, <1>7, <1>8 DEF t

LEMMA LeavesStep ==
    ASSUME Shape, Leaves, delayed' = delayed
    PROVE  /\ Shape' /\ NobodyNew /\ Todo(micro') = Todo(micro) \ {Head(micro)}
           /\ Head(micro) \in Todo(micro) /\ Head(micro).kind = "start" /\ Head(micro).job = NoJob
           /\ Head(micro).w \in Workers /\ pc[Head(micro).w] = "handed"
           /\ pc' = [pc EXCEPT ![Head(micro).w] = "exited"]
<1> DEFINE t == Head(micro)
<1>1. /\ micro # <<>> /\ t.kind = "start" /\ t.job = NoJob /\ micro' = Tail(micro)
      /\ pc' = [pc EXCEPT ![t.w] = "exited"]
      /\ UNCHANGED <<queue, waiters, closed, halted, failureCount, consecutiveFailures,
                     timers, job, closeCalled, offered, accepted, runs>>
      /\ done' \in {done, "halted", "finished"}
  BY DEF Leaves, Task
<1>2. /\ t \in Todo(micro) /\ t \in Tasks /\ t.w \in Workers /\ Agrees(t, pc)
      /\ Todo(Tail(micro)) = Todo(micro) \ {t}
      /\ Fits(Tail(micro), [pc EXCEPT ![t.w] = "exited"])
  BY <1>1, TakesFirst
<1>3. pc[t.w] = "handed"
  BY <1>1, <1>2 DEF Agrees
<1> HIDE DEF t
<1>4. Waits(waiters, [pc EXCEPT ![t.w] = "exited"])
  BY <1>2, <1>3, WaitsElsewhere DEF Shape, Fields
<1>5. Fields' /\ Fits(micro', pc')
  BY <1>1, <1>2, <1>4 DEF Shape, Fields, Stages
<1>6. Types'
  BY <1>1, <1>2, <1>3 DEF Shape, Types, Fields
<1>7. NobodyNew
  BY <1>1, <1>2, <1>3 DEF NobodyNew, Shape, Fields
<1>8. Shape'
  BY <1>5, <1>6, <1>7, TogetherStays DEF Shape
<1> QED BY <1>1, <1>2, <1>3, <1>7, <1>8 DEF t

LEMMA JobResumesStep ==
    ASSUME Shape, NEW w \in Workers, NEW ok \in BOOLEAN, NEW h \in 0..MaxHops,
           JobResumes(w, ok, h), delayed' = delayed
    PROVE  /\ Shape' /\ NobodyNew /\ pc' = pc /\ pc[w] = "running"
           /\ \A t \in Todo(micro) : t.w # w
           /\ \E t \in Tasks : /\ t.kind = "work" /\ t.w = w /\ t.at = 1
                               /\ Todo(micro') = Todo(micro) \cup {t}
<1> DEFINE t == [kind |-> "work", w |-> w, ok |-> ok, hops |-> h, at |-> 1]
<1>1. /\ pc[w] = "running" /\ ~Working(w) /\ micro' = Append(micro, t)
      /\ UNCHANGED <<queue, waiters, closed, halted, failureCount, consecutiveFailures, done, pc,
                     timers, job, closeCalled, offered, accepted, runs>>
  BY DEF JobResumes, pool
<1>2. t \in Tasks /\ t.kind = "work" /\ t.w = w /\ t.at = 1
  <2>1. t \in [kind : {"work"}, w : Workers, ok : BOOLEAN, hops : 0..MaxHops, at : Nat \ {0}]
    OBVIOUS
  <2> QED BY <2>1 DEF Tasks
<1> HIDE DEF t
<1>3. Fits(micro, pc)
  BY DEF Shape
<1>4. \A u \in Todo(micro) : u.w # w
  <2> SUFFICES ASSUME NEW u \in Todo(micro), u.w = w PROVE FALSE
    OBVIOUS
  <2>1. u \in Tasks /\ Agrees(u, pc)
    BY <1>3, BusyStages DEF Fits
  <2>2. u.kind = "work"
    BY <1>1, <2>1, TaskKinds DEF Agrees
  <2> QED BY <1>1, <2>2 DEF Working, Todo
<1>5. Agrees(t, pc) /\ \A u \in Todo(micro) : u.w # t.w /\ pc[u.w] = pc[u.w]
  BY <1>1, <1>2, <1>4 DEF Agrees
<1>6. Fits(micro', pc) /\ Todo(micro') = Todo(micro) \cup {t}
  <2>1. Fits(Append(micro, t), pc) /\ Todo(Append(micro, t)) = Todo(micro) \cup {t}
    BY ONLY <1>2, <1>3, <1>5, OneMore
  <2> QED BY <1>1, <2>1
<1>7. Fields' /\ Types'
  BY <1>1 DEF Shape, Fields, Types
<1>8. NobodyNew
  BY <1>1 DEF NobodyNew
<1>9. Shape'
  BY <1>1, <1>6, <1>7, <1>8, TogetherStays DEF Shape
<1> QED BY <1>1, <1>2, <1>4, <1>6, <1>8, <1>9

\* The task that a job's task is replaced by.
Replaces(u, m) == Todo(m) = (Todo(micro) \ {Head(micro)}) \cup {u}

LEMMA WorksStep ==
    ASSUME Shape, Works, delayed' = delayed
    PROVE  /\ Shape' /\ NobodyNew
           /\ Head(micro) \in Todo(micro) /\ Head(micro).kind = "work" /\ Head(micro).w \in Workers
           /\ Head(micro).at \in Nat \ {0} /\ pc[Head(micro).w] = "running"
           /\ \/ /\ UNCHANGED <<queue, pc, offered, accepted>>
                 /\ \E u \in Tasks : /\ u.kind = "work" /\ u.w = Head(micro).w
                                     /\ u.at = Head(micro).at /\ Replaces(u, micro')
              \/ /\ Head(micro).at \in 1..Len(Children[job[Head(micro).w]])
                 /\ offered' = offered \cup {Children[job[Head(micro).w]][Head(micro).at]}
                 /\ \E rest : \E u \in Tasks :
                       /\ u.kind = "work" /\ u.w = Head(micro).w /\ u.at = Head(micro).at + 1
                       /\ Replaces(u, rest)
                       /\ PushEffect(Children[job[Head(micro).w]][Head(micro).at], rest)
              \/ /\ UNCHANGED <<queue, offered, accepted>>
                 /\ pc' = [pc EXCEPT ![Head(micro).w] = "settling"]
                 /\ \E u \in Tasks : u.kind = "then" /\ u.w = Head(micro).w /\ Replaces(u, micro')
<1> DEFINE t == Head(micro)
           c == Children[job[t.w]]
           hop == [t EXCEPT !.hops = @ - 1]
           next == [t EXCEPT !.at = @ + 1]
           settle == [kind |-> "then", w |-> t.w, ok |-> t.ok]
<1>1. /\ micro # <<>> /\ t.kind = "work"
      /\ UNCHANGED <<closed, halted, failureCount, consecutiveFailures, done, timers, job,
                     closeCalled, runs>>
  BY DEF Works, Task
<1>2. /\ t \in Todo(micro) /\ t \in Tasks /\ t.w \in Workers /\ Agrees(t, pc)
      /\ Todo(Tail(micro)) = Todo(micro) \ {t} /\ \A u \in Todo(Tail(micro)) : u.w # t.w
      /\ Fits(Tail(micro), pc)
      /\ Fits(Tail(micro), [pc EXCEPT ![t.w] = "settling"])
  BY <1>1, TakesFirst
<1>3. pc[t.w] = "running" /\ t.at \in Nat \ {0} /\ t.hops \in 0..MaxHops
  BY <1>1, <1>2, TaskKinds DEF Agrees
<1>4. job[t.w] \in Jobs /\ c \in Seq(Jobs)
  BY <1>2, <1>3 DEF Shape, Types
<1>5. /\ t.hops > 0 => hop \in Tasks /\ hop.kind = "work" /\ hop.w = t.w /\ hop.at = t.at
      /\ next \in Tasks /\ next.kind = "work" /\ next.w = t.w /\ next.at = t.at + 1
      /\ settle \in Tasks /\ settle.kind = "then" /\ settle.w = t.w
  BY <1>1, <1>2, NextTask
<1>6. CASE t.hops > 0
  <2>1. micro' = Append(Tail(micro), hop) /\ UNCHANGED <<queue, waiters, pc, offered, accepted>>
    BY <1>6 DEF Works
  <2>2. Agrees(hop, pc) /\ hop.w = t.w /\ hop \in Tasks /\ hop.kind = "work" /\ hop.at = t.at
    BY <1>3, <1>5, <1>6 DEF Agrees
  <2> HIDE DEF hop, next, settle, c, t
  <2>3. \A u \in Todo(Tail(micro)) : u.w # hop.w /\ pc[u.w] = pc[u.w]
    BY <1>2, <2>2
  <2>4. Fits(Append(Tail(micro), hop), pc)
        /\ Todo(Append(Tail(micro), hop)) = Todo(Tail(micro)) \cup {hop}
    BY ONLY <1>2, <2>2, <2>3, OneMore
  <2>5. Fields' /\ Fits(micro', pc') /\ Types' /\ NobodyNew
    BY <1>1, <2>1, <2>4 DEF Shape, Fields, Types, NobodyNew
  <2>6. Shape'
    BY <2>5, TogetherStays DEF Shape
  <2>7. Replaces(hop, micro')
    BY <1>2, <2>1, <2>4 DEF Replaces, t
  <2> QED BY <1>1, <1>2, <1>3, <2>1, <2>2, <2>5, <2>6, <2>7 DEF t
<1>7. CASE ~(t.hops > 0) /\ t.ok /\ t.at <= Len(c)
  <2> DEFINE rest == [micro EXCEPT ![1] = next]
             j == c[t.at]
  <2>1. t.at \in 1..Len(c) /\ j \in Jobs
    BY <1>3, <1>4, <1>7
  <2>2. [micro EXCEPT ![1].at = @ + 1] = rest
    <3>1. micro[1] = t
      BY <1>1 DEF Shape, Fits
    <3>2. [micro EXCEPT ![1].at = @ + 1] = [micro EXCEPT ![1] = [micro[1] EXCEPT !.at = @ + 1]]
      OBVIOUS
    <3> QED BY ONLY <3>1, <3>2
  <2>3. Push(j, rest)
    BY <1>7, <2>2 DEF Works
  <2>4. Agrees(next, pc)
    BY <1>3, <1>5 DEF Agrees
  <2>5. Fits(rest, pc) /\ Todo(rest) = (Todo(micro) \ {t}) \cup {next}
    <3>1. Fits(micro, pc)
      BY DEF Shape
    <3> HIDE DEF next
    <3>2. next \in Tasks /\ next.w = Head(micro).w /\ Agrees(next, pc)
      BY <1>5, <2>4
    <3> QED BY ONLY <1>1, <3>1, <3>2, FirstStays
  <2> HIDE DEF rest, j, next, hop, settle
  <2>6. timers' \subseteq Later
    BY <1>1 DEF Shape, Types
  <2>7. Shape' /\ NobodyNew /\ PushEffect(j, rest) /\ offered' = offered \cup {j}
    BY <1>1, <2>1, <2>3, <2>5, <2>6, PushStep
  <2>8. Replaces(next, rest)
    BY <2>5 DEF Replaces
  <2> QED BY <1>1, <1>2, <1>3, <1>5, <2>1, <2>7, <2>8 DEF j
<1>8. CASE ~(t.hops > 0) /\ ~(t.ok /\ t.at <= Len(c))
  <2> DEFINE p == [pc EXCEPT ![t.w] = "settling"]
  <2>1. /\ micro' = Append(Tail(micro), settle) /\ pc' = p
        /\ UNCHANGED <<queue, waiters, offered, accepted>>
    BY <1>8 DEF Works
  <2>2. p[t.w] = "settling"
    BY <1>2 DEF Shape, Fields
  <2>3. Agrees(settle, p) /\ settle.w = t.w /\ settle \in Tasks /\ settle.kind = "then"
    BY <1>5, <2>2 DEF Agrees
  <2>4. Waits(waiters, p)
    BY <1>2, <1>3, WaitsElsewhere DEF Shape, Fields
  <2>5. Fits(Tail(micro), p)
    BY <1>2
  <2>6. p \in [Workers -> Stages] /\ \A v \in Workers : p[v] = "new" <=> pc[v] = "new"
    BY <1>2, <1>3 DEF Shape, Fields, Stages
  <2>7. \A v \in Workers : p[v] = "running" => pc[v] = "running"
    BY <1>2, <1>3 DEF Shape, Fields
  <2> HIDE DEF hop, next, settle, c, t, p
  <2>8. \A u \in Todo(Tail(micro)) : u.w # settle.w /\ p[u.w] = p[u.w]
    BY <1>2, <2>3
  <2>9. Fits(Append(Tail(micro), settle), p)
        /\ Todo(Append(Tail(micro), settle)) = Todo(Tail(micro)) \cup {settle}
    BY ONLY <2>3, <2>5, <2>8, OneMore
  <2>10. Fields' /\ Fits(micro', pc') /\ NobodyNew
    BY <1>1, <2>1, <2>4, <2>6, <2>9 DEF Shape, Fields, NobodyNew
  <2>11. Types'
    BY <1>1, <2>1, <2>7 DEF Shape, Types
  <2>12. Shape'
    BY <2>10, <2>11, TogetherStays DEF Shape
  <2>13. Replaces(settle, micro')
    BY <1>2, <2>1, <2>9 DEF Replaces, t
  <2> QED BY <1>1, <1>2, <1>3, <2>1, <2>3, <2>10, <2>12, <2>13 DEF t, p
<1> QED BY <1>6, <1>7, <1>8

LEMMA FulfilledStep ==
    ASSUME Shape, Fulfilled, delayed' = delayed
    PROVE  /\ Shape' /\ NobodyNew /\ queue' = queue
           /\ Head(micro) \in Todo(micro) /\ Head(micro).kind = "then" /\ Head(micro).ok
           /\ Head(micro).w \in Workers /\ pc[Head(micro).w] = "settling"
           /\ \E u, rest : /\ u.kind = "catch" /\ u.ok /\ u.w = Head(micro).w /\ Replaces(u, rest)
                           /\ \/ ShutEffect(queue, rest) /\ closed' = TRUE
                              \/ Todo(micro') = Todo(rest) /\ closed' = closed /\ pc' = pc
<1> DEFINE t == Head(micro)
           u == [t EXCEPT !.kind = "catch"]
           rest == Onward("catch")
<1>1. /\ micro # <<>> /\ t.kind = "then" /\ t.ok /\ consecutiveFailures' = 0
      /\ UNCHANGED <<halted, failureCount, done, timers, job, closeCalled, offered, accepted, runs>>
      /\ \/ Shut(queue, rest)
         \/ micro' = rest /\ UNCHANGED <<queue, waiters, closed, pc>>
  BY DEF Fulfilled, Task
<1>2. t \in Todo(micro) /\ t.w \in Workers /\ pc[t.w] = "settling"
  BY <1>1, TakesFirst DEF Agrees
<1>3. Fits(rest, pc) /\ Replaces(u, rest) /\ u.kind = "catch" /\ u.w = t.w /\ u.ok
  BY <1>1, OnwardFits DEF Shape, Replaces
<1> HIDE DEF u, rest, t
<1>4. CASE Shut(queue, rest)
  <2>1. queue \in Seq(Jobs) /\ closeCalled' \in BOOLEAN /\ failureCount' \in Nat
        /\ consecutiveFailures' \in Nat /\ halted' \in BOOLEAN
    BY <1>1 DEF Shape, Fields, Types
  <2>2. Shape' /\ NobodyNew /\ ShutEffect(queue, rest) /\ closed' = TRUE /\ queue' = queue
    BY <1>1, <1>3, <1>4, <2>1, ShutStep
  <2> QED BY <1>1, <1>2, <1>3, <2>2 DEF t
<1>5. CASE micro' = rest /\ UNCHANGED <<queue, waiters, closed, pc>>
  <2>1. Fields' /\ Types' /\ Fits(micro', pc') /\ NobodyNew
    BY <1>1, <1>3, <1>5 DEF Shape, Fields, Types, NobodyNew
  <2>2. Shape'
    BY <2>1, TogetherStays DEF Shape
  <2> QED BY <1>1, <1>2, <1>3, <1>5, <2>1, <2>2 DEF t
<1> QED BY <1>1, <1>4, <1>5

LEMMA RejectedStep ==
    ASSUME Shape, Rejected, delayed' = delayed
    PROVE  /\ Shape' /\ NobodyNew /\ queue' = (IF ShouldStop THEN <<>> ELSE queue)
           /\ Head(micro) \in Todo(micro) /\ Head(micro).kind = "catch" /\ ~Head(micro).ok
           /\ Head(micro).w \in Workers /\ pc[Head(micro).w] = "settling"
           /\ \E u, rest : /\ u.kind = "finally" /\ u.w = Head(micro).w /\ Replaces(u, rest)
                           /\ \/ ShutEffect(queue', rest) /\ closed' = TRUE
                              \/ /\ Todo(micro') = Todo(rest) /\ closed' = closed /\ pc' = pc
                                 /\ ~ShouldStop
<1> DEFINE t == Head(micro)
           u == [t EXCEPT !.kind = "finally"]
           rest == Onward("finally")
           q == IF ShouldStop THEN <<>> ELSE queue
<1>1. /\ micro # <<>> /\ t.kind = "catch" /\ ~t.ok
      /\ failureCount' = failureCount + 1 /\ consecutiveFailures' = consecutiveFailures + 1
      /\ halted' = (halted \/ ShouldStop)
      /\ UNCHANGED <<done, timers, job, closeCalled, offered, accepted, runs>>
      /\ \/ Shut(q, rest)
         \/ ~ShouldStop /\ micro' = rest /\ UNCHANGED <<queue, waiters, closed, pc>>
  BY DEF Rejected, Task
<1>2. t \in Todo(micro) /\ t.w \in Workers /\ pc[t.w] = "settling"
  BY <1>1, TakesFirst DEF Agrees
<1>3. Fits(rest, pc) /\ Replaces(u, rest) /\ u.kind = "finally" /\ u.w = t.w
  BY <1>1, OnwardFits DEF Shape, Replaces
<1>4. q \in Seq(Jobs) /\ (~ShouldStop => q = queue)
  BY DEF Shape, Fields
<1>5. closeCalled' \in BOOLEAN /\ failureCount' \in Nat
      /\ consecutiveFailures' \in Nat /\ halted' \in BOOLEAN
  BY <1>1 DEF Shape, Types
<1> HIDE DEF u, rest, t
<1>6. CASE Shut(q, rest)
  <2> HIDE DEF q
  <2>1. Shape' /\ NobodyNew /\ ShutEffect(q, rest) /\ closed' = TRUE /\ queue' = q
    BY <1>1, <1>3, <1>4, <1>5, <1>6, ShutStep
  <2> QED BY <1>1, <1>2, <1>3, <2>1 DEF t, q
<1>7. CASE ~ShouldStop /\ micro' = rest /\ UNCHANGED <<queue, waiters, closed, pc>>
  <2>1. Fields' /\ Types' /\ Fits(micro', pc') /\ NobodyNew
    BY <1>1, <1>3, <1>5, <1>7 DEF Shape, Fields, Types, NobodyNew
  <2>2. Shape'
    BY <2>1, TogetherStays DEF Shape
  <2> QED BY <1>1, <1>2, <1>3, <1>7, <2>1, <2>2 DEF t
<1> QED BY <1>1, <1>6, <1>7

LEMMA PassesOnStep ==
    ASSUME Shape, PassesOn, delayed' = delayed
    PROVE  /\ Shape' /\ NobodyNew /\ pc' = pc
           /\ Head(micro) \in Todo(micro)
           /\ \E u : /\ u.w = Head(micro).w /\ Replaces(u, micro')
                     /\ \/ Head(micro).kind = "then" /\ ~Head(micro).ok /\ u.kind = "catch" /\ ~u.ok
                        \/ Head(micro).kind = "catch" /\ Head(micro).ok /\ u.kind = "finally"
<1>1. /\ micro # <<>>
      /\ UNCHANGED <<queue, waiters, closed, halted, failureCount, consecutiveFailures, done, pc,
                     timers, job, closeCalled, offered, accepted, runs>>
  BY DEF PassesOn, Task, pool
<1>2. Head(micro) \in Todo(micro)
  BY <1>1, TakesFirst
<1>3. PICK k \in {"catch", "finally"} :
         /\ micro' = Onward(k)
         /\ \/ Head(micro).kind = "then" /\ ~Head(micro).ok /\ k = "catch"
            \/ Head(micro).kind = "catch" /\ Head(micro).ok /\ k = "finally"
  BY DEF PassesOn, Task
<1> DEFINE u == [Head(micro) EXCEPT !.kind = k]
<1>4. /\ Fits(Onward(k), pc) /\ Replaces(u, Onward(k))
      /\ u.kind = k /\ u.w = Head(micro).w /\ u.ok = Head(micro).ok
  BY <1>1, <1>3, OnwardFits DEF Shape, Replaces
<1> HIDE DEF u
<1>5. Fields' /\ Types' /\ Fits(micro', pc') /\ NobodyNew
  BY <1>1, <1>3, <1>4 DEF Shape, Fields, Types, NobodyNew
<1>6. Shape'
  BY <1>5, TogetherStays DEF Shape
<1> QED BY <1>1, <1>2, <1>3, <1>4, <1>5, <1>6

LEMMA FinallyStep ==
    ASSUME Shape, Finally, delayed' = delayed
    PROVE  /\ Shape' /\ NobodyNew
           /\ Head(micro) \in Todo(micro) /\ Head(micro).kind = "finally"
           /\ Head(micro).w \in Workers /\ pc[Head(micro).w] = "settling"
           /\ \E rest : /\ Todo(rest) = Todo(micro) \ {Head(micro)}
                        /\ \/ GetEffect(Head(micro).w, rest)
                           \/ /\ Todo(micro') = Todo(rest) /\ queue' = queue
                              /\ pc' = [pc EXCEPT ![Head(micro).w] = "pausing"]
<1> DEFINE t == Head(micro)
<1>1. /\ micro # <<>> /\ t.kind = "finally"
      /\ UNCHANGED <<closed, halted, failureCount, consecutiveFailures, done, timers, job,
                     closeCalled, offered, accepted, runs>>
      /\ \/ /\ pc' = [pc EXCEPT ![t.w] = "pausing"] /\ micro' = Tail(micro)
            /\ UNCHANGED <<queue, waiters>>
         \/ GetNext(t.w, Tail(micro))
  BY DEF Finally, Task
<1>2. /\ t \in Todo(micro) /\ t \in Tasks /\ t.w \in Workers /\ pc[t.w] = "settling"
      /\ Todo(Tail(micro)) = Todo(micro) \ {t} /\ \A u \in Todo(Tail(micro)) : u.w # t.w
      /\ Fits(Tail(micro), pc)
      /\ Fits(Tail(micro), [pc EXCEPT ![t.w] = "pausing"])
  BY <1>1, TakesFirst DEF Agrees
<1> HIDE DEF t
<1>3. CASE GetNext(t.w, Tail(micro))
  <2>1. Shape' /\ NobodyNew /\ GetEffect(t.w, Tail(micro))
    BY <1>1, <1>2, <1>3, GetStep
  <2> QED BY <1>1, <1>2, <2>1 DEF t
<1>4. CASE /\ pc' = [pc EXCEPT ![t.w] = "pausing"] /\ micro' = Tail(micro)
           /\ UNCHANGED <<queue, waiters>>
  <2>1. Waits(waiters, [pc EXCEPT ![t.w] = "pausing"])
    BY <1>2, WaitsElsewhere DEF Shape, Fields
  <2>2. Fields' /\ Fits(micro', pc')
    BY <1>1, <1>2, <1>4, <2>1 DEF Shape, Fields, Stages
  <2>3. Types'
    BY <1>1, <1>2, <1>4 DEF Shape, Types, Fields
  <2>4. NobodyNew
    BY <1>2, <1>4 DEF NobodyNew, Shape, Fields
  <2>5. Shape'
    BY <2>2, <2>3, <2>4, TogetherStays DEF Shape
  <2> QED BY <1>1, <1>2, <1>4, <2>4, <2>5 DEF t
<1> QED BY <1>1, <1>3, <1>4

-----------------------------------------------------------------------------
(* The flow of jobs: sent to a worker, in flight, ended.                    *)

\* The tasks of a job that has settled and is not yet taken off activeCount.
Flying(t) == t.kind = "then" \/ (t.kind = "catch" /\ ~t.ok)

Flies(w) == pc[w] = "running" \/ \E t \in Todo(micro) : Flying(t) /\ t.w = w
IsSent(w) == \E t \in Todo(micro) : t.kind = "start" /\ t.job # NoJob /\ t.w = w

InFlight == {w \in Workers : Flies(w)}
Sent == {w \in Workers : IsSent(w)}
Sends == {t \in Todo(micro) : t.kind = "start" /\ t.job # NoJob}
Staying == {w \in Workers : pc[w] # "exited"}
Unstarted == \A w \in Workers : pc[w] = "new"

NobodyLeaves == \A w \in Workers : pc'[w] = "exited" <=> pc[w] = "exited"

LEMMA OneTask ==
    ASSUME NEW m, NEW p, Fits(m, p)
    PROVE  \A t, u \in Todo(m) : t.w = u.w => t = u
BY DEF Fits, Todo

LEMMA SameFlight ==
    ASSUME \A w \in Workers : Flies(w)' <=> Flies(w)
    PROVE  InFlight' = InFlight
BY DEF InFlight

LEMMA SameSent ==
    ASSUME \A w \in Workers : IsSent(w)' <=> IsSent(w)
    PROVE  Sent' = Sent
BY DEF Sent

\* A push flies nobody, and sends something only when the pool is open.
LEMMA PushFlow ==
    ASSUME Shape, NEW j \in Jobs, NEW rest, PushEffect(j, rest),
           \A t : t.kind # "work" => (t \in Todo(rest) <=> t \in Todo(micro))
    PROVE  InFlight' = InFlight /\ NobodyLeaves /\ (closed => Sent' = Sent /\ queue' = queue)
<1>1. pc \in [Workers -> Stages]
  BY DEF Shape, Fields
<1>2. \A w \in Workers : pc'[w] = pc[w] \/ (pc[w] = "waiting" /\ pc'[w] = "handed")
  BY <1>1 DEF PushEffect
<1>3. \A t : Flying(t) => t.kind # "work" /\ t.kind # "start"
  BY DEF Flying
<1>4. \A t : t.kind \notin {"work", "start"} => (t \in Todo(micro') <=> t \in Todo(micro))
  <2>1. \A w \in Workers : Start(w, j).kind = "start"
    BY StartIsTask
  <2> QED BY <2>1 DEF PushEffect
<1>5. \A w \in Workers : Flies(w)' <=> Flies(w)
  <2> TAKE w \in Workers
  <2>1. pc'[w] = "running" <=> pc[w] = "running"
    BY <1>2
  <2>2. \A t : Flying(t) => (t \in Todo(micro') <=> t \in Todo(micro))
    BY <1>3, <1>4
  <2> QED BY <2>1, <2>2 DEF Flies, Flying
<1>6. InFlight' = InFlight
  BY <1>5, SameFlight
<1>7. NobodyLeaves
  BY <1>2 DEF NobodyLeaves
<1>8. ASSUME closed PROVE Sent' = Sent /\ queue' = queue
  <2>1. Todo(micro') = Todo(rest) /\ queue' = queue
    BY <1>8 DEF PushEffect
  <2>2. \A w \in Workers : IsSent(w)' <=> IsSent(w)
    BY <2>1 DEF IsSent
  <2> QED BY <2>1, <2>2, SameSent
<1> QED BY <1>6, <1>7, <1>8

\* Neither does a worker that asks for its next job.
LEMMA GetFlow ==
    ASSUME Shape, NEW w \in Workers, NEW rest, GetEffect(w, rest), pc[w] \in {"pausing", "settling"},
           \A t : t.kind # "finally" => (t \in Todo(rest) <=> t \in Todo(micro))
    PROVE  InFlight' = InFlight /\ NobodyLeaves /\ (queue = <<>> => Sent' = Sent /\ queue' = <<>>)
<1>1. pc \in [Workers -> Stages] /\ queue \in Seq(Jobs)
  BY DEF Shape, Fields
<1>2. \A v \in Workers : pc'[v] = pc[v]
                         \/ (pc[v] \in {"pausing", "settling"} /\ pc'[v] \in {"handed", "waiting"})
  BY <1>1 DEF GetEffect
<1>3. \A t : Flying(t) => t.kind # "finally" /\ t.kind # "start"
  BY DEF Flying
<1>4. \A t : t.kind \notin {"finally", "start"} => (t \in Todo(micro') <=> t \in Todo(micro))
  <2>1. Start(w, NoJob).kind = "start" /\ (queue # <<>> => Start(w, Head(queue)).kind = "start")
    BY <1>1, StartIsTask
  <2> QED BY <2>1 DEF GetEffect
<1>5. \A v \in Workers : Flies(v)' <=> Flies(v)
  <2> TAKE v \in Workers
  <2>1. pc'[v] = "running" <=> pc[v] = "running"
    BY <1>2
  <2>2. \A t : Flying(t) => (t \in Todo(micro') <=> t \in Todo(micro))
    BY <1>3, <1>4
  <2> QED BY <2>1, <2>2 DEF Flies, Flying
<1>6. InFlight' = InFlight
  BY <1>5, SameFlight
<1>7. NobodyLeaves
  BY <1>2 DEF NobodyLeaves
<1>8. ASSUME queue = <<>> PROVE Sent' = Sent /\ queue' = <<>>
  <2>1. Start(w, NoJob).job = NoJob
    BY StartIsTask
  <2>2. queue' = <<>> /\ (Todo(micro') = Todo(rest) \/ Todo(micro') = Todo(rest) \cup {Start(w, NoJob)})
    BY <1>8 DEF GetEffect
  <2>3. \A t : t.kind = "start" /\ t.job # NoJob => (t \in Todo(micro') <=> t \in Todo(micro))
    BY <2>1, <2>2
  <2>4. \A v \in Workers : IsSent(v)' <=> IsSent(v)
    BY <2>3 DEF IsSent
  <2> QED BY <2>2, <2>4, SameSent
<1> QED BY <1>6, <1>7, <1>8

\* A job is over: its worker's flying task is followed by one that is not.
LEMMA EndFlow ==
    ASSUME Shape, Shape', NEW t \in Todo(micro), t.w \in Workers, Flying(t),
           NEW u, u.w = t.w, u.kind # "start", ~Flying(u),
           NEW rest, Todo(rest) = (Todo(micro) \ {t}) \cup {u},
           NEW q, ShutEffect(q, rest) \/ (Todo(micro') = Todo(rest) /\ pc' = pc)
    PROVE  /\ t.w \in InFlight /\ t.w \notin Sent
           /\ InFlight' = InFlight \ {t.w} /\ Sent' = Sent /\ NobodyLeaves
<1>1. Fits(micro, pc) /\ Fits(micro', pc')
  BY DEF Shape
<1>2. \A x, y \in Todo(micro) : x.w = y.w => x = y
  BY <1>1, OneTask
<1>3. t.kind \in {"then", "catch"} /\ pc[t.w] = "settling"
  BY <1>1 DEF Flying, Fits, Agrees
<1>4. \A w \in Workers : pc'[w] = pc[w] \/ (pc[w] = "waiting" /\ pc'[w] = "handed")
  BY DEF ShutEffect
<1>5. \A x \in Todo(micro') : x \in Todo(micro) \/ x = u \/ (x.kind = "start" /\ x.job = NoJob)
  BY DEF ShutEffect
<1>6. \A x \in Todo(micro) : x # t => x \in Todo(micro')
  BY DEF ShutEffect
<1>7. u \in Todo(micro')
  BY DEF ShutEffect
<1>8. \A x \in Todo(micro') : x.w = t.w => x = u
  BY <1>1, <1>7, OneTask
<1>9. \A w \in Workers : Flies(w)' <=> (Flies(w) /\ w # t.w)
  <2> TAKE w \in Workers
  <2>1. pc'[w] = "running" <=> pc[w] = "running"
    BY <1>4
  <2>2. CASE w = t.w
    BY <1>3, <1>8, <2>1, <2>2 DEF Flies, Flying
  <2>3. CASE w # t.w
    <3>1. \A x : Flying(x) /\ x.w = w => (x \in Todo(micro') <=> x \in Todo(micro))
      BY <1>5, <1>6, <2>3 DEF Flying
    <3> QED BY <2>1, <2>3, <3>1 DEF Flies, Flying
  <2> QED BY <2>2, <2>3
<1>10. InFlight' = InFlight \ {t.w}
  BY <1>9 DEF InFlight
<1>11. t.w \in InFlight
  BY DEF InFlight, Flies
<1>12. t.w \notin Sent
  BY <1>2, <1>3 DEF Sent, IsSent
<1>13. \A w \in Workers : IsSent(w)' <=> IsSent(w)
  BY <1>3, <1>5, <1>6 DEF IsSent
<1>14. Sent' = Sent
  BY <1>13, SameSent
<1>15. NobodyLeaves
  BY <1>4 DEF NobodyLeaves
<1> QED BY <1>10, <1>11, <1>12, <1>14, <1>15

\* A job goes on: its task is replaced by one that flies as it did.
LEMMA GoOnFlow ==
    ASSUME Shape, Shape', NEW t \in Todo(micro), t.w \in Workers, t.kind # "start",
           NEW u, u.w = t.w, u.kind # "start",
           Todo(micro') = (Todo(micro) \ {t}) \cup {u},
           Flying(u) \/ pc'[t.w] = "running" <=> Flying(t) \/ pc[t.w] = "running",
           \A w \in Workers : w # t.w => pc'[w] = pc[w],
           pc[t.w] # "exited" /\ pc'[t.w] # "exited"
    PROVE  InFlight' = InFlight /\ Sent' = Sent /\ NobodyLeaves
<1>1. \A x, y \in Todo(micro) : x.w = y.w => x = y
  BY OneTask DEF Shape
<1>2. \A x, y \in Todo(micro') : x.w = y.w => x = y
  BY OneTask DEF Shape
<1>3. \A w \in Workers : Flies(w)' <=> Flies(w)
  <2> TAKE w \in Workers
  <2>1. CASE w = t.w
    <3>1. Flies(w) <=> (pc[t.w] = "running" \/ Flying(t))
      BY <1>1, <2>1 DEF Flies
    <3>2. Flies(w)' <=> (pc'[t.w] = "running" \/ Flying(u))
      BY <1>2, <2>1 DEF Flies, Flying
    <3> QED BY <3>1, <3>2
  <2>2. CASE w # t.w
    <3>1. \A x : x.w = w => (x \in Todo(micro') <=> x \in Todo(micro))
      BY <2>2
    <3> QED BY <2>2, <3>1 DEF Flies, Flying
  <2> QED BY <2>1, <2>2
<1>4. \A w \in Workers : IsSent(w)' <=> IsSent(w)
  BY DEF IsSent
<1>5. NobodyLeaves
  BY DEF NobodyLeaves
<1> QED BY <1>3, <1>4, <1>5, SameFlight, SameSent

\* What a step does to the jobs on their way, and to the counters.
Steady ==
    /\ InFlight' = InFlight /\ UNCHANGED <<activeCount, failureCount, halted>>
    /\ (closed /\ queue = <<>>) => Sent' = Sent /\ queue' = <<>>
Begins ==
    /\ \E w \in Sent : w \notin InFlight /\ InFlight' = InFlight \cup {w} /\ Sent' = Sent \ {w}
    /\ activeCount' = activeCount + 1 /\ UNCHANGED <<failureCount, halted, queue>>
Ends ==
    /\ \E w \in InFlight : w \notin Sent /\ InFlight' = InFlight \ {w}
    /\ Sent' = Sent /\ activeCount' = activeCount - 1
    /\ \/ UNCHANGED <<failureCount, halted, queue>>
       \/ /\ failureCount' = failureCount + 1 /\ halted' = (halted \/ ShouldStop)
          /\ queue' = (IF ShouldStop THEN <<>> ELSE queue) /\ (ShouldStop => closed')

\* What a step does to the workers.
Stays == NobodyNew /\ NobodyLeaves /\ workerCount' = workerCount
Parts ==
    /\ NobodyNew /\ workerCount' = workerCount - 1
    /\ \E w \in Workers : pc[w] = "handed" /\ pc' = [pc EXCEPT ![w] = "exited"]
Arrives ==
    /\ workerCount' = NumWorkers
    /\ \A w \in Workers : pc[w] = "new" /\ pc'[w] \notin {"new", "exited"}

Flow ==
    /\ Shape' /\ (closed => closed')
    /\ Steady \/ Begins \/ Ends
    /\ Stays \/ Parts \/ Arrives

LEMMA StartsFlow ==
    ASSUME Shape, Starts, delayed' = delayed
    PROVE  /\ Flow /\ Head(micro).w \notin InFlight
           /\ InFlight' = InFlight \cup {Head(micro).w}
<1> DEFINE t == Head(micro)
<1>1. /\ Shape' /\ NobodyNew /\ Todo(micro') = Todo(micro) \ {t}
      /\ \A u \in Todo(micro') : u.w # t.w
      /\ t \in Todo(micro) /\ t.kind = "start" /\ t.job \in Jobs /\ t.w \in Workers
      /\ pc[t.w] = "handed" /\ pc' = [pc EXCEPT ![t.w] = "running"]
  BY StartsStep
<1>2. /\ activeCount' = activeCount + 1
      /\ UNCHANGED <<closed, workerCount, failureCount, halted, queue>>
  BY DEF Starts
<1> HIDE DEF t
<1>3. \A x, y \in Todo(micro) : x.w = y.w => x = y
  BY OneTask DEF Shape
<1>4. \A w \in Workers : w # t.w => pc'[w] = pc[w]
  BY <1>1 DEF Shape, Fields
<1>5. pc'[t.w] = "running"
  BY <1>1 DEF Shape, Fields
<1>6. t.job # NoJob
  BY <1>1
<1>7. \A w \in Workers : Flies(w)' <=> (Flies(w) \/ w = t.w)
  <2> TAKE w \in Workers
  <2>1. \A x : Flying(x) => (x \in Todo(micro') <=> x \in Todo(micro))
    BY <1>1 DEF Flying
  <2> QED BY <1>4, <1>5, <2>1 DEF Flies, Flying
<1>8. \A w \in Workers : IsSent(w)' <=> (IsSent(w) /\ w # t.w)
  BY <1>1 DEF IsSent
<1>9. t.w \in Sent /\ t.w \notin InFlight
  BY <1>1, <1>3, <1>6 DEF Sent, IsSent, InFlight, Flies, Flying
<1>10. InFlight' = InFlight \cup {t.w} /\ Sent' = Sent \ {t.w}
  BY <1>1, <1>7, <1>8 DEF InFlight, Sent
<1>11. NobodyLeaves
  BY <1>1, <1>4, <1>5 DEF NobodyLeaves
<1> QED BY <1>1, <1>2, <1>9, <1>10, <1>11 DEF Flow, Begins, Stays, t

LEMMA LeavesFlow ==
    ASSUME Shape, Leaves, delayed' = delayed
    PROVE  Flow
<1> DEFINE t == Head(micro)
<1>1. /\ Shape' /\ NobodyNew /\ Todo(micro') = Todo(micro) \ {t}
      /\ t \in Todo(micro) /\ t.kind = "start" /\ t.job = NoJob /\ t.w \in Workers
      /\ pc[t.w] = "handed" /\ pc' = [pc EXCEPT ![t.w] = "exited"]
  BY LeavesStep
<1>2. /\ workerCount' = workerCount - 1
      /\ UNCHANGED <<closed, activeCount, failureCount, halted, queue>>
  BY DEF Leaves
<1> HIDE DEF t
<1>3. \A w \in Workers : pc'[w] = "running" <=> pc[w] = "running"
  BY <1>1 DEF Shape, Fields
<1>4. \A w \in Workers : Flies(w)' <=> Flies(w)
  BY <1>1, <1>3 DEF Flies, Flying
<1>5. \A w \in Workers : IsSent(w)' <=> IsSent(w)
  BY <1>1 DEF IsSent
<1> QED BY <1>1, <1>2, <1>4, <1>5, SameFlight, SameSent DEF Flow, Steady, Parts

LEMMA WorksFlow ==
    ASSUME Shape, Works, delayed' = delayed
    PROVE  Flow
<1> DEFINE t == Head(micro)
           j == Children[job[t.w]][t.at]
<1>1. /\ Shape' /\ NobodyNew
      /\ t \in Todo(micro) /\ t.kind = "work" /\ t.w \in Workers /\ pc[t.w] = "running"
      /\ \/ /\ UNCHANGED <<queue, pc>>
            /\ \E u \in Tasks : u.kind = "work" /\ u.w = t.w /\ Replaces(u, micro')
         \/ /\ t.at \in 1..Len(Children[job[t.w]])
            /\ \E rest : \E u \in Tasks :
                  u.kind = "work" /\ u.w = t.w /\ Replaces(u, rest) /\ PushEffect(j, rest)
         \/ /\ UNCHANGED queue /\ pc' = [pc EXCEPT ![t.w] = "settling"]
            /\ \E u \in Tasks : u.kind = "then" /\ u.w = t.w /\ Replaces(u, micro')
  BY WorksStep
<1>2. UNCHANGED <<closed, activeCount, workerCount, failureCount, halted>>
  BY DEF Works
<1>3. job[t.w] \in Jobs
  BY <1>1 DEF Shape, Types
<1> HIDE DEF t
<1>4. ASSUME NEW u, u.kind \in {"work", "then"}, u.w = t.w, Replaces(u, micro'), queue' = queue,
             \/ pc' = pc /\ u.kind = "work"
             \/ pc' = [pc EXCEPT ![t.w] = "settling"] /\ u.kind = "then"
      PROVE  Flow
  <2>1. pc \in [Workers -> Stages]
    BY DEF Shape, Fields
  <2>2. \A w \in Workers : w # t.w => pc'[w] = pc[w]
    BY <1>1, <1>4, <2>1
  <2>3. \/ pc'[t.w] = "running" /\ u.kind = "work"
        \/ pc'[t.w] = "settling" /\ u.kind = "then"
    BY <1>1, <1>4, <2>1
  <2>4. ~Flying(t) /\ (Flying(u) <=> u.kind = "then")
    BY <1>1, <1>4 DEF Flying
  <2>5. Todo(micro') = (Todo(micro) \ {t}) \cup {u}
    BY <1>4 DEF Replaces, t
  <2>6. /\ t.kind # "start" /\ u.kind # "start"
        /\ Flying(u) \/ pc'[t.w] = "running" <=> Flying(t) \/ pc[t.w] = "running"
        /\ pc[t.w] # "exited" /\ pc'[t.w] # "exited"
    BY <1>1, <1>4, <2>3, <2>4
  <2>7. InFlight' = InFlight /\ Sent' = Sent /\ NobodyLeaves
    BY ONLY Shape, <1>1, <1>4, <2>2, <2>5, <2>6, GoOnFlow
  <2> QED BY <1>1, <1>2, <1>4, <2>7 DEF Flow, Steady, Stays
<1>5. CASE \E u \in Tasks : u.kind = "work" /\ u.w = t.w /\ Replaces(u, micro') /\ UNCHANGED <<queue, pc>>
  BY <1>4, <1>5
<1>6. CASE /\ UNCHANGED queue /\ pc' = [pc EXCEPT ![t.w] = "settling"]
           /\ \E u \in Tasks : u.kind = "then" /\ u.w = t.w /\ Replaces(u, micro')
  BY <1>4, <1>6
<1>7. CASE /\ t.at \in 1..Len(Children[job[t.w]])
           /\ \E rest : \E u \in Tasks :
                 u.kind = "work" /\ u.w = t.w /\ Replaces(u, rest) /\ PushEffect(j, rest)
  <2>1. PICK rest, u : u.kind = "work" /\ Replaces(u, rest) /\ PushEffect(j, rest)
    BY <1>7
  <2>2. j \in Jobs
    BY <1>3, <1>7
  <2> HIDE DEF j
  <2>3. \A x : x.kind # "work" => (x \in Todo(rest) <=> x \in Todo(micro))
    BY <1>1, <2>1 DEF Replaces, t
  <2>4. InFlight' = InFlight /\ NobodyLeaves /\ (closed => Sent' = Sent /\ queue' = queue)
    BY ONLY Shape, <2>1, <2>2, <2>3, PushFlow
  <2> QED BY <1>1, <1>2, <2>4 DEF Flow, Steady, Stays
<1> QED BY <1>1, <1>5, <1>6, <1>7

LEMMA FulfilledFlow ==
    ASSUME Shape, Fulfilled, delayed' = delayed
    PROVE  /\ Flow /\ Head(micro).w \in InFlight
           /\ InFlight' = InFlight \ {Head(micro).w} /\ Sends' = Sends
<1> DEFINE t == Head(micro)
<1>1. /\ Shape' /\ NobodyNew /\ queue' = queue
      /\ t \in Todo(micro) /\ t.kind = "then" /\ t.ok /\ t.w \in Workers
  BY FulfilledStep
<1>2. PICK u, rest : /\ u.kind = "catch" /\ u.ok /\ u.w = t.w /\ Replaces(u, rest)
                     /\ \/ ShutEffect(queue, rest) /\ closed' = TRUE
                        \/ Todo(micro') = Todo(rest) /\ closed' = closed /\ pc' = pc
  BY FulfilledStep
<1>3. activeCount' = activeCount - 1 /\ UNCHANGED <<workerCount, failureCount, halted>>
  BY DEF Fulfilled, OneLess
<1>4. Todo(rest) = (Todo(micro) \ {t}) \cup {u} /\ (closed => closed')
  BY <1>2 DEF Replaces
<1> HIDE DEF t
<1>5. Flying(t) /\ ~Flying(u) /\ u.kind # "start"
  BY <1>1, <1>2 DEF Flying
<1>6. /\ t.w \in InFlight /\ t.w \notin Sent
      /\ InFlight' = InFlight \ {t.w} /\ Sent' = Sent /\ NobodyLeaves
  BY ONLY Shape, <1>1, <1>2, <1>4, <1>5, EndFlow
<1>7. Sends' = Sends
  BY <1>1, <1>2, <1>4, <1>5 DEF Sends, ShutEffect
<1> QED BY <1>1, <1>3, <1>4, <1>6, <1>7 DEF Flow, Ends, Stays, t

LEMMA RejectedFlow ==
    ASSUME Shape, Rejected, delayed' = delayed
    PROVE  /\ Flow /\ Head(micro).w \in InFlight
           /\ InFlight' = InFlight \ {Head(micro).w} /\ Sends' = Sends
<1> DEFINE t == Head(micro)
<1>1. /\ Shape' /\ NobodyNew /\ queue' = (IF ShouldStop THEN <<>> ELSE queue)
      /\ t \in Todo(micro) /\ t.kind = "catch" /\ ~t.ok /\ t.w \in Workers
  BY RejectedStep
<1>2. PICK u, rest : /\ u.kind = "finally" /\ u.w = t.w /\ Replaces(u, rest)
                     /\ \/ ShutEffect(queue', rest) /\ closed' = TRUE
                        \/ /\ Todo(micro') = Todo(rest) /\ closed' = closed /\ pc' = pc
                           /\ ~ShouldStop
  BY RejectedStep
<1>3. /\ activeCount' = activeCount - 1 /\ failureCount' = failureCount + 1
      /\ halted' = (halted \/ ShouldStop) /\ workerCount' = workerCount
  BY DEF Rejected, OneLess
<1>4. /\ Todo(rest) = (Todo(micro) \ {t}) \cup {u}
      /\ (closed => closed') /\ (ShouldStop => closed')
  BY <1>2 DEF Replaces
<1> HIDE DEF t
<1>5. Flying(t) /\ ~Flying(u) /\ u.kind # "start"
  BY <1>1, <1>2 DEF Flying
<1>6. /\ t.w \in InFlight /\ t.w \notin Sent
      /\ InFlight' = InFlight \ {t.w} /\ Sent' = Sent /\ NobodyLeaves
  BY ONLY Shape, <1>1, <1>2, <1>4, <1>5, EndFlow
<1>7. Sends' = Sends
  BY <1>1, <1>2, <1>4, <1>5 DEF Sends, ShutEffect
<1> QED BY <1>1, <1>3, <1>4, <1>6, <1>7 DEF Flow, Ends, Stays, t

LEMMA PassesOnFlow ==
    ASSUME Shape, PassesOn, delayed' = delayed
    PROVE  Flow
<1> DEFINE t == Head(micro)
<1>1. Shape' /\ NobodyNew /\ pc' = pc /\ t \in Todo(micro)
  BY PassesOnStep
<1>2. PICK u : /\ u.w = t.w /\ Replaces(u, micro')
               /\ \/ t.kind = "then" /\ ~t.ok /\ u.kind = "catch" /\ ~u.ok
                  \/ t.kind = "catch" /\ t.ok /\ u.kind = "finally"
  BY PassesOnStep
<1>3. UNCHANGED <<closed, activeCount, workerCount, failureCount, halted, queue>>
  BY DEF PassesOn, pool
<1>4. Todo(micro') = (Todo(micro) \ {t}) \cup {u}
  BY <1>2 DEF Replaces
<1>5. t.w \in Workers /\ pc[t.w] \in {"handed", "running", "settling"}
  BY <1>1, BusyStages DEF Shape
<1> HIDE DEF t
<1>6. /\ Flying(u) \/ pc'[t.w] = "running" <=> Flying(t) \/ pc[t.w] = "running"
      /\ t.kind # "start" /\ u.kind # "start"
      /\ pc[t.w] # "exited" /\ pc'[t.w] # "exited" /\ \A w \in Workers : w # t.w => pc'[w] = pc[w]
  BY <1>1, <1>2, <1>5 DEF Flying
<1>7. InFlight' = InFlight /\ Sent' = Sent /\ NobodyLeaves
  BY ONLY Shape, <1>1, <1>2, <1>4, <1>5, <1>6, GoOnFlow
<1> QED BY <1>1, <1>3, <1>7 DEF Flow, Steady, Stays

LEMMA FinallyFlow ==
    ASSUME Shape, Finally, delayed' = delayed
    PROVE  Flow
<1> DEFINE t == Head(micro)
<1>1. /\ Shape' /\ NobodyNew
      /\ t \in Todo(micro) /\ t.kind = "finally" /\ t.w \in Workers /\ pc[t.w] = "settling"
  BY FinallyStep
<1>2. PICK rest : /\ Todo(rest) = Todo(micro) \ {t}
                  /\ \/ GetEffect(t.w, rest)
                     \/ /\ Todo(micro') = Todo(rest) /\ queue' = queue
                        /\ pc' = [pc EXCEPT ![t.w] = "pausing"]
  BY FinallyStep
<1>3. UNCHANGED <<closed, activeCount, workerCount, failureCount, halted>>
  BY DEF Finally
<1> HIDE DEF t
<1>4. \A x : x.kind # "finally" => (x \in Todo(rest) <=> x \in Todo(micro))
  BY <1>1, <1>2
<1>5. CASE GetEffect(t.w, rest)
  <2>1. InFlight' = InFlight /\ NobodyLeaves /\ (queue = <<>> => Sent' = Sent /\ queue' = <<>>)
    BY <1>1, <1>4, <1>5, GetFlow
  <2> QED BY <1>1, <1>3, <2>1 DEF Flow, Steady, Stays
<1>6. CASE /\ Todo(micro') = Todo(rest) /\ queue' = queue
           /\ pc' = [pc EXCEPT ![t.w] = "pausing"]
  <2>1. \A w \in Workers : pc'[w] = pc[w] \/ (pc[w] = "settling" /\ pc'[w] = "pausing")
    BY <1>1, <1>6 DEF Shape, Fields
  <2>2. \A x : Flying(x) => (x \in Todo(micro') <=> x \in Todo(micro))
    BY <1>4, <1>6 DEF Flying
  <2>3. \A w \in Workers : Flies(w)' <=> Flies(w)
    BY <2>1, <2>2 DEF Flies, Flying
  <2>4. \A w \in Workers : IsSent(w)' <=> IsSent(w)
    BY <1>4, <1>6 DEF IsSent
  <2>5. NobodyLeaves
    BY <2>1 DEF NobodyLeaves
  <2> QED BY <1>1, <1>3, <1>6, <2>3, <2>4, <2>5, SameFlight, SameSent DEF Flow, Steady, Stays
<1> QED BY <1>2, <1>5, <1>6

LEMMA PushesFlow ==
    ASSUME Shape, NEW j \in Jobs, Outside(j), delayed' = delayed
    PROVE  Flow
<1>1. CASE UserPushes(j) \/ PushTimerFires(j)
  <2>1. /\ Push(j, micro) /\ timers' \subseteq timers
        /\ UNCHANGED <<delayed, closed, halted, activeCount, workerCount, failureCount,
                       consecutiveFailures, done, job, closeCalled, runs>>
    BY <1>1 DEF UserPushes, PushTimerFires
  <2>2. Fits(micro, pc) /\ timers' \subseteq Later
    BY <2>1 DEF Shape, Types
  <2>3. Shape' /\ NobodyNew /\ PushEffect(j, micro)
    BY <2>1, <2>2, PushStep
  <2>4. InFlight' = InFlight /\ NobodyLeaves /\ (closed => Sent' = Sent /\ queue' = queue)
    BY <2>3, PushFlow
  <2> QED BY <2>1, <2>3, <2>4 DEF Flow, Steady, Stays
<1>2. CASE UserPushesLater(j)
  <2>1. /\ timers' = timers \cup {j} /\ j \in Later
        /\ UNCHANGED <<delayed, pool, micro, pc, job, closeCalled, offered, accepted, runs>>
    BY <1>2 DEF UserPushesLater
  <2>2. Shape' /\ NobodyNew /\ NobodyLeaves
    BY <2>1 DEF Shape, Fields, Types, Together, NobodyNew, NobodyLeaves, pool
  <2>3. InFlight' = InFlight /\ Sent' = Sent
    BY <2>1 DEF InFlight, Sent, Flies, IsSent, Flying
  <2> QED BY <2>1, <2>2, <2>3 DEF Flow, Steady, Stays, pool
<1> QED BY <1>1, <1>2 DEF Outside

LEMMA UserClosesFlow ==
    ASSUME Shape, UserCloses, delayed' = delayed
    PROVE  Flow /\ closed' = TRUE /\ queue' = queue /\ ShutEffect(queue, micro)
<1>1. /\ Shut(queue, micro) /\ closeCalled' = TRUE
      /\ UNCHANGED <<halted, activeCount, workerCount, failureCount, consecutiveFailures,
                     done, job, timers, offered, accepted, runs>>
  BY DEF UserCloses
<1>2. /\ Fits(micro, pc) /\ queue \in Seq(Jobs) /\ failureCount' \in Nat
      /\ consecutiveFailures' \in Nat /\ halted' \in BOOLEAN /\ closeCalled' \in BOOLEAN
  BY <1>1 DEF Shape, Fields, Types
<1>3. Shape' /\ NobodyNew /\ ShutEffect(queue, micro) /\ closed' = TRUE /\ queue' = queue
  BY <1>1, <1>2, ShutStep
<1>4. \A w \in Workers : pc'[w] = pc[w] \/ (pc[w] = "waiting" /\ pc'[w] = "handed")
  BY <1>3 DEF ShutEffect
<1>5. \A x : Flying(x) \/ (x.kind = "start" /\ x.job # NoJob)
             => (x \in Todo(micro') <=> x \in Todo(micro))
  BY <1>3 DEF Flying, ShutEffect
<1>6. \A w \in Workers : Flies(w)' <=> Flies(w)
  BY <1>4, <1>5 DEF Flies, Flying
<1>7. \A w \in Workers : IsSent(w)' <=> IsSent(w)
  BY <1>5 DEF IsSent
<1>8. NobodyLeaves
  BY <1>4 DEF NobodyLeaves
<1> QED BY <1>1, <1>3, <1>6, <1>7, <1>8, SameFlight, SameSent DEF Flow, Steady, Stays

LEMMA DelayOverFlow ==
    ASSUME Shape, NEW w \in Workers, DelayOver(w), delayed' = delayed
    PROVE  Flow /\ NobodyNew /\ GetEffect(w, micro) /\ pc[w] = "pausing"
<1>1. /\ GetNext(w, micro) /\ pc[w] = "pausing"
      /\ UNCHANGED <<closed, halted, activeCount, workerCount, failureCount,
                     consecutiveFailures, done, timers, job, closeCalled, offered, accepted, runs>>
  BY DEF DelayOver
<1>2. Fits(micro, pc) /\ \A t \in Todo(micro) : t.w # w
  BY <1>1, BusyStages DEF Shape
<1>3. Shape' /\ NobodyNew /\ GetEffect(w, micro)
  BY <1>1, <1>2, GetStep
<1>4. InFlight' = InFlight /\ NobodyLeaves /\ (queue = <<>> => Sent' = Sent /\ queue' = <<>>)
  BY <1>1, <1>3, GetFlow
<1> QED BY <1>1, <1>3, <1>4 DEF Flow, Steady, Stays

LEMMA JobEndsFlow ==
    ASSUME Shape, NEW w \in Workers, JobEnds(w), delayed' = delayed
    PROVE  Flow
<1>1. PICK ok \in BOOLEAN, h \in 0..MaxHops : JobResumes(w, ok, h)
  BY DEF JobEnds
<1>2. Shape' /\ NobodyNew /\ pc' = pc
  BY <1>1, JobResumesStep
<1>3. PICK t \in Tasks : t.kind = "work" /\ Todo(micro') = Todo(micro) \cup {t}
  BY <1>1, JobResumesStep
<1>4. UNCHANGED <<closed, activeCount, workerCount, failureCount, halted, queue>>
  BY <1>1 DEF JobResumes, pool
<1>5. \A v \in Workers : Flies(v)' <=> Flies(v)
  BY <1>2, <1>3 DEF Flies, Flying
<1>6. \A v \in Workers : IsSent(v)' <=> IsSent(v)
  BY <1>3 DEF IsSent
<1>7. NobodyLeaves
  BY <1>2 DEF NobodyLeaves
<1> QED BY <1>2, <1>4, <1>5, <1>6, <1>7, SameFlight, SameSent DEF Flow, Steady, Stays

LEMMA RunFlow ==
    ASSUME Shape, Run, delayed' = delayed
    PROVE  Flow
<1>1. /\ Shape' /\ micro = <<>>
      /\ \A w \in Workers : pc[w] = "new" /\ pc'[w] \in {"handed", "waiting"}
      /\ First \in 0..NumWorkers /\ First \in 0..Len(queue) /\ Len(queue') = Len(queue) - First
      /\ \A t \in Todo(micro') : t.kind = "start" /\ (t.job # NoJob => t.w \in 1..First)
  BY RunStep
<1>2. workerCount' = NumWorkers /\ UNCHANGED <<closed, activeCount, failureCount, halted>>
  BY DEF Run
<1>3. Todo(micro) = {}
  BY <1>1 DEF Todo
<1>4. \A w \in Workers : ~Flies(w) /\ ~(Flies(w)')
  BY <1>1, <1>3 DEF Flies, Flying
<1>5. InFlight' = InFlight
  BY <1>4, SameFlight
<1>6. ASSUME queue = <<>> PROVE Sent' = Sent /\ queue' = <<>>
  <2>1. First = 0
    BY <1>1, <1>6
  <2>2. \A w \in Workers : IsSent(w)' <=> IsSent(w)
    BY <1>1, <1>3, <2>1 DEF IsSent
  <2>3. queue' = <<>>
    BY <1>1, <1>6, <2>1 DEF Shape, Fields
  <2> QED BY <2>2, <2>3, SameSent
<1> QED BY <1>1, <1>2, <1>5, <1>6 DEF Flow, Steady, Arrives

LEMMA FlowHolds ==
    ASSUME Shape, [Next]_vars
    PROVE  Flow \/ (Shape' /\ UNCHANGED vars)
<1>1. CASE UNCHANGED vars
  <2>1. Shape'
    BY <1>1 DEF vars, pool, Shape, Fields, Types, Together
  <2> QED BY <1>1, <2>1
<1>2. CASE Next
  <2>1. delayed' = delayed
    BY <1>2 DEF Next
  <2> QED BY <1>2, <2>1, RunFlow, UserClosesFlow, PushesFlow, DelayOverFlow, JobEndsFlow,
             StartsFlow, LeavesFlow, WorksFlow, FulfilledFlow, RejectedFlow, PassesOnFlow,
             FinallyFlow DEF Next, Microtask
<1> QED BY <1>1, <1>2

-----------------------------------------------------------------------------
(* The counters.                                                            *)

\* activeCount is the jobs in flight, workerCount the workers still there.
Counts ==
    /\ activeCount = Cardinality(InFlight)
    /\ workerCount = IF Unstarted THEN 0 ELSE Cardinality(Staying)

\* A failure takes a job off those on their way, and after a halt no job is
\* sent: the sum of both never grows again.
Failing ==
    /\ halted => closed /\ queue = <<>>
    /\ halted \/ failureCount < MaxFailures
    /\ failureCount + Cardinality(InFlight \cup Sent) < MaxFailures + NumWorkers

LEMMA FiniteWorkers ==
    /\ IsFiniteSet(Workers) /\ Cardinality(Workers) = NumWorkers
    /\ \A S \in SUBSET Workers :
          /\ IsFiniteSet(S) /\ Cardinality(S) \in 0..NumWorkers
          /\ \A w \in Workers : w \notin S => Cardinality(S \cup {w}) = Cardinality(S) + 1
          /\ \A w \in S : Cardinality(S \ {w}) = Cardinality(S) - 1
<1>1. IsFiniteSet(Workers) /\ Cardinality(Workers) = NumWorkers
  <2>1. NumWorkers \in Int /\ 1 \in Int
    OBVIOUS
  <2> QED BY <2>1, FS_Interval DEF Workers
<1>2. ASSUME NEW S \in SUBSET Workers
      PROVE  IsFiniteSet(S) /\ Cardinality(S) \in 0..NumWorkers
  <2>1. IsFiniteSet(S) /\ Cardinality(S) <= NumWorkers
    BY <1>1, FS_Subset
  <2> QED BY <2>1, FS_CardinalityType
<1>3. ASSUME NEW S \in SUBSET Workers, NEW w \in Workers, w \notin S
      PROVE  Cardinality(S \cup {w}) = Cardinality(S) + 1
  BY <1>2, <1>3, FS_AddElement
<1>4. ASSUME NEW S \in SUBSET Workers, NEW w \in S
      PROVE  Cardinality(S \ {w}) = Cardinality(S) - 1
  BY <1>2, FS_RemoveElement
<1> QED BY <1>1, <1>2, <1>3, <1>4

LEMMA CountsStep ==
    ASSUME Shape, Counts, Flow
    PROVE  Counts'
<1>1. /\ InFlight \subseteq Workers /\ Sent \subseteq Workers /\ Staying \subseteq Workers
      /\ Workers # {} /\ NumWorkers \in Nat
  <2>1. 1 \in Workers
    BY DEF Workers
  <2> QED BY <2>1 DEF InFlight, Sent, Staying
<1>2. activeCount' = Cardinality(InFlight')
  <2>1. CASE Steady
    BY <2>1 DEF Steady, Counts
  <2>2. CASE Begins
    <3>1. PICK w \in Sent : w \notin InFlight /\ InFlight' = InFlight \cup {w}
      BY <2>2 DEF Begins
    <3> QED BY <1>1, <2>2, <3>1, FiniteWorkers DEF Begins, Counts
  <2>3. CASE Ends
    <3>1. PICK w \in InFlight : InFlight' = InFlight \ {w}
      BY <2>3 DEF Ends
    <3> QED BY <1>1, <2>3, <3>1, FiniteWorkers DEF Ends, Counts
  <2> QED BY <2>1, <2>2, <2>3 DEF Flow
<1>3. workerCount' = IF Unstarted' THEN 0 ELSE Cardinality(Staying')
  <2>1. CASE Stays
    <3>1. Staying' = Staying /\ (Unstarted' <=> Unstarted)
      BY <2>1 DEF Stays, NobodyNew, NobodyLeaves, Staying, Unstarted
    <3> QED BY <2>1, <3>1 DEF Stays, Counts
  <2>2. CASE Parts
    <3>1. PICK w \in Workers : pc[w] = "handed" /\ pc' = [pc EXCEPT ![w] = "exited"]
      BY <2>2 DEF Parts
    <3>2. /\ ~Unstarted /\ ~Unstarted' /\ w \in Staying
          /\ Staying' = Staying \ {w}
      BY <3>1 DEF Unstarted, Staying, Shape, Fields
    <3> QED BY <1>1, <2>2, <3>2, FiniteWorkers DEF Parts, Counts
  <2>3. CASE Arrives
    <3>1. ~Unstarted' /\ Staying' = Workers
      BY <1>1, <2>3 DEF Arrives, Unstarted, Staying
    <3> QED BY <2>3, <3>1, FiniteWorkers DEF Arrives
  <2> QED BY <2>1, <2>2, <2>3 DEF Flow
<1> QED BY <1>2, <1>3 DEF Counts

LEMMA FailingStep ==
    ASSUME Shape, Failing, Flow
    PROVE  Failing'
<1>1. /\ InFlight \subseteq Workers /\ Sent \subseteq Workers
      /\ InFlight' \subseteq Workers /\ Sent' \subseteq Workers
  BY DEF InFlight, Sent
<1>2. Cardinality(InFlight' \cup Sent') \in 0..NumWorkers
      /\ Cardinality(InFlight \cup Sent) \in 0..NumWorkers
  BY <1>1, FiniteWorkers
<1>3. failureCount \in Nat /\ MaxFailures \in Nat \ {0} /\ NumWorkers \in Nat \ {0}
  BY DEF Shape, Types
<1>4. closed => closed'
  BY DEF Flow
<1>5. CASE Steady
  <2>1. UNCHANGED <<failureCount, halted>>
    BY <1>5 DEF Steady
  <2>2. CASE halted
    <3>1. InFlight' \cup Sent' = InFlight \cup Sent /\ queue' = <<>>
      BY <1>5, <2>2 DEF Steady, Failing
    <3> QED BY <1>4, <2>1, <2>2, <3>1 DEF Failing
  <2>3. CASE ~halted
    BY <1>2, <1>3, <2>1, <2>3 DEF Failing
  <2> QED BY <2>2, <2>3
<1>6. CASE Begins
  <2>1. InFlight' \cup Sent' = InFlight \cup Sent /\ UNCHANGED <<failureCount, halted, queue>>
    BY <1>6 DEF Begins
  <2> QED BY <1>4, <2>1 DEF Failing
<1>7. CASE Ends
  <2>1. PICK w \in InFlight : w \notin Sent /\ InFlight' = InFlight \ {w} /\ Sent' = Sent
    BY <1>7 DEF Ends
  <2>2. InFlight' \cup Sent' = (InFlight \cup Sent) \ {w} /\ w \in InFlight \cup Sent
    BY <2>1
  <2>3. Cardinality(InFlight' \cup Sent') = Cardinality(InFlight \cup Sent) - 1
    BY <1>1, <2>2, FiniteWorkers
  <2>4. CASE UNCHANGED <<failureCount, halted, queue>>
    BY <1>2, <1>3, <1>4, <2>3, <2>4 DEF Failing
  <2>5. CASE /\ failureCount' = failureCount + 1 /\ halted' = (halted \/ ShouldStop)
             /\ queue' = (IF ShouldStop THEN <<>> ELSE queue) /\ (ShouldStop => closed')
    <3>1. halted' => closed' /\ queue' = <<>>
      BY <1>4, <2>5 DEF Failing
    <3>2. halted' \/ failureCount' < MaxFailures
      <4>1. CASE ShouldStop
        BY <2>5, <4>1
      <4>2. CASE ~ShouldStop
        <5>1. failureCount + 1 < MaxFailures
          BY <1>3, <4>2 DEF ShouldStop
        <5> QED BY <2>5, <5>1
      <4> QED BY <4>1, <4>2
    <3>3. failureCount' + Cardinality(InFlight' \cup Sent') < MaxFailures + NumWorkers
      BY <1>2, <1>3, <2>3, <2>5 DEF Failing
    <3> QED BY <3>1, <3>2, <3>3 DEF Failing
  <2> QED BY <1>7, <2>4, <2>5 DEF Ends
<1> QED BY <1>5, <1>6, <1>7 DEF Flow

-----------------------------------------------------------------------------

LEMMA ShapeInit == Init => Shape /\ Counts /\ Failing
<1> SUFFICES ASSUME Init PROVE Shape /\ Counts /\ Failing
  OBVIOUS
<1>1. Todo(micro) = {} /\ \A w \in Workers : pc[w] = "new"
  BY DEF Init, Todo
<1>2. Fields /\ Fits(micro, pc)
  BY <1>1 DEF Init, Fields, Fits, Waits, Stages
<1>3. Types /\ Together
  BY <1>1 DEF Init, Types, Together
<1>4. InFlight = {} /\ Sent = {} /\ Unstarted
  BY <1>1 DEF InFlight, Sent, Flies, IsSent, Unstarted
<1>5. Counts
  BY <1>4, FS_EmptySet DEF Counts, Init
<1>6. Failing
  <2>1. Cardinality(InFlight \cup Sent) = 0
    BY <1>4, FS_EmptySet
  <2> QED BY <2>1 DEF Failing, Init
<1> QED BY <1>2, <1>3, <1>5, <1>6 DEF Shape

LEMMA ShapeHolds == Spec => [](Shape /\ Counts /\ Failing)
<1>1. ASSUME Shape /\ Counts /\ Failing, [Next]_vars PROVE (Shape /\ Counts /\ Failing)'
  <2>1. CASE Flow
    BY <1>1, <2>1, CountsStep, FailingStep DEF Flow
  <2>2. CASE Shape' /\ UNCHANGED vars
    BY <1>1, <2>2 DEF vars, pool, Counts, Failing, InFlight, Sent, Flies, IsSent, Unstarted, Staying
  <2> QED BY <1>1, <2>1, <2>2, FlowHolds
<1> QED BY <1>1, ShapeInit, PTL DEF Spec

\* Every variable keeps its type; the counters stay within the workers.
THEOREM TypeCorrect == Spec => []TypeOK
<1>1. Shape /\ Counts => TypeOK
  <2> SUFFICES ASSUME Shape, Counts PROVE TypeOK
    OBVIOUS
  <2>1. InFlight \subseteq Workers /\ Staying \subseteq Workers
    BY DEF InFlight, Staying
  <2>2. activeCount \in 0..NumWorkers /\ workerCount \in 0..NumWorkers
    BY <2>1, FiniteWorkers DEF Counts
  <2> QED BY <2>2 DEF Shape, Fields, Types, Fits, Waits, Stages, TypeOK
<1> QED BY <1>1, ShapeHolds, PTL

\* The failure limit holds up to the jobs already taken when it was reached,
\* and a pool at its limit is halted.
THEOREM LimitsHold == Spec => []FailuresBounded
<1>1. Shape /\ Failing => FailuresBounded
  <2> SUFFICES ASSUME Shape, Failing PROVE FailuresBounded
    OBVIOUS
  <2>1. InFlight \cup Sent \subseteq Workers
    BY DEF InFlight, Sent
  <2>2. Cardinality(InFlight \cup Sent) \in 0..NumWorkers /\ failureCount \in Nat
    BY <2>1, FiniteWorkers DEF Shape, Types
  <2> QED BY <2>2 DEF Failing, FailuresBounded
<1> QED BY <1>1, ShapeHolds, PTL

-----------------------------------------------------------------------------
(* A job that was accepted is queued, on its way or has run, and only one   *)
(* of them: nothing is lost and nothing runs twice.                         *)

Singles ==
    /\ \A i, k \in 1..Len(queue) : queue[i] = queue[k] => i = k
    /\ \A i \in 1..Len(queue) : /\ queue[i] \in accepted /\ runs[queue[i]] = 0
                                /\ \A t \in Sends : t.job # queue[i]
    /\ \A t \in Sends : /\ t.job \in accepted /\ runs[t.job] = 0
                        /\ \A u \in Sends : u.job = t.job => u = t
    /\ accepted \subseteq offered
    /\ \A j \in Jobs : runs[j] \in 0..1 /\ (j \notin accepted => runs[j] = 0)
    /\ \A j \in accepted : \/ halted \/ runs[j] = 1
                           \/ \E i \in 1..Len(queue) : queue[i] = j
                           \/ \E t \in Sends : t.job = j

LEMMA SinglesSame ==
    ASSUME Singles, Sends' = Sends, offered' = offered, accepted' = accepted, runs' = runs,
           halted => halted',
           queue' = queue \/ (queue' = <<>> /\ halted')
    PROVE  Singles'
<1>1. CASE queue' = queue
  BY <1>1 DEF Singles
<1>2. CASE queue' = <<>> /\ halted'
  BY <1>2 DEF Singles
<1> QED BY <1>1, <1>2

LEMMA SinglesPush ==
    ASSUME Shape, Singles, NEW j \in Jobs \ offered, NEW rest, PushEffect(j, rest),
           offered' = offered \cup {j}, UNCHANGED <<runs, halted>>,
           \A t : t.kind = "start" => (t \in Todo(rest) <=> t \in Todo(micro))
    PROVE  Singles'
<1>1. queue \in Seq(Jobs) /\ Len(queue) \in Nat
  BY DEF Shape, Fields
<1>2. /\ j \notin accepted /\ runs[j] = 0 /\ j # NoJob
      /\ \A i \in 1..Len(queue) : queue[i] # j
      /\ \A t \in Sends : t.job # j
  BY DEF Singles
<1>3. CASE closed /\ Todo(micro') = Todo(rest) /\ UNCHANGED <<queue, accepted>>
  <2>1. Sends' = Sends
    BY <1>3 DEF Sends
  <2> QED BY <1>3, <2>1 DEF Singles
<1>4. CASE /\ accepted' = accepted \cup {j} /\ queue' = queue
           /\ \E w \in Workers : Todo(micro') = Todo(rest) \cup {Start(w, j)}
  <2>1. PICK w \in Workers : Todo(micro') = Todo(rest) \cup {Start(w, j)}
    BY <1>4
  <2>2. Start(w, j).kind = "start" /\ Start(w, j).job = j
    BY StartIsTask
  <2>3. Sends' = Sends \cup {Start(w, j)}
    BY <1>2, <2>1, <2>2 DEF Sends
  <2> QED BY <1>2, <1>4, <2>2, <2>3 DEF Singles
<1>5. CASE /\ accepted' = accepted \cup {j} /\ queue' = Append(queue, j)
           /\ Todo(micro') = Todo(rest)
  <2>1. Sends' = Sends
    BY <1>5 DEF Sends
  <2>2. /\ Len(queue') = Len(queue) + 1 /\ queue'[Len(queue) + 1] = j
        /\ \A i \in 1..Len(queue) : queue'[i] = queue[i]
    BY <1>1, <1>5
  <2>3. \A i \in 1..Len(queue') : i \in 1..Len(queue) \/ i = Len(queue) + 1
    BY <1>1, <2>2
  <2>4. \A i, k \in 1..Len(queue') : queue'[i] = queue'[k] => i = k
    <3>1. \A i, k \in 1..Len(queue) : queue[i] = queue[k] => i = k
      BY DEF Singles
    <3> TAKE i, k \in 1..Len(queue')
    <3>2. CASE i \in 1..Len(queue) /\ k \in 1..Len(queue)
      BY <2>2, <3>1, <3>2
    <3>3. CASE i = Len(queue) + 1 \/ k = Len(queue) + 1
      BY <1>2, <2>2, <2>3, <3>3
    <3> QED BY <2>3, <3>2, <3>3
  <2>5. \A i \in 1..Len(queue') : /\ queue'[i] \in accepted' /\ runs[queue'[i]] = 0
                                  /\ \A t \in Sends : t.job # queue'[i]
    BY <1>2, <1>5, <2>2, <2>3 DEF Singles
  <2>6. /\ \A i \in 1..Len(queue) : i \in 1..Len(queue')
        /\ Len(queue) + 1 \in 1..Len(queue')
    BY <1>1, <2>2
  <2>7. \A h \in accepted' : \/ halted' \/ runs'[h] = 1
                             \/ \E i \in 1..Len(queue') : queue'[i] = h
                             \/ \E t \in Sends' : t.job = h
    <3> TAKE h \in accepted'
    <3>1. CASE h = j
      BY <2>2, <2>6, <3>1
    <3>2. CASE h \in accepted
      BY <2>1, <2>2, <2>6, <3>2 DEF Singles
    <3> QED BY <1>5, <3>1, <3>2
  <2> QED BY <1>5, <2>1, <2>4, <2>5, <2>7 DEF Singles
<1> QED BY <1>3, <1>4, <1>5 DEF PushEffect

LEMMA SinglesGet ==
    ASSUME Shape, Singles, NEW w \in Workers, NEW rest, GetEffect(w, rest),
           UNCHANGED <<offered, accepted, runs, halted>>,
           \A t : t.kind = "start" => (t \in Todo(rest) <=> t \in Todo(micro))
    PROVE  Singles'
<1>1. queue \in Seq(Jobs) /\ Len(queue) \in Nat
  BY DEF Shape, Fields
<1>2. CASE /\ queue # <<>> /\ queue' = Tail(queue)
           /\ Todo(micro') = Todo(rest) \cup {Start(w, Head(queue))}
  <2> DEFINE j == Head(queue)
  <2>1. /\ j = queue[1] /\ 1 \in 1..Len(queue) /\ j \in Jobs /\ j # NoJob
        /\ Len(queue') = Len(queue) - 1
        /\ \A i \in 1..Len(queue') : i + 1 \in 1..Len(queue) /\ i + 1 # 1 /\ queue'[i] = queue[i + 1]
    BY <1>1, <1>2
  <2> HIDE DEF j
  <2>2. Start(w, j).kind = "start" /\ Start(w, j).job = j
    BY <2>1, StartIsTask
  <2>3. Sends' = Sends \cup {Start(w, j)}
    BY <1>2, <2>1, <2>2 DEF Sends, j
  <2>4. j \in accepted /\ runs[j] = 0 /\ \A t \in Sends : t.job # j
    BY <2>1 DEF Singles
  <2>5. \A i, k \in 1..Len(queue') : queue'[i] = queue'[k] => i = k
    <3> TAKE i, k \in 1..Len(queue')
    <3> HAVE queue'[i] = queue'[k]
    <3>1. i + 1 = k + 1
      BY <2>1 DEF Singles
    <3> QED BY <3>1
  <2>6. \A i \in 1..Len(queue') : queue'[i] # j
    BY <2>1 DEF Singles
  <2>7. \A i \in 1..Len(queue') : /\ queue'[i] \in accepted' /\ runs'[queue'[i]] = 0
                                  /\ \A t \in Sends' : t.job # queue'[i]
    BY <2>1, <2>2, <2>3, <2>6 DEF Singles
  <2>8. \A h \in accepted' : \/ halted' \/ runs'[h] = 1
                             \/ \E i \in 1..Len(queue') : queue'[i] = h
                             \/ \E t \in Sends' : t.job = h
    <3> TAKE h \in accepted'
    <3>1. CASE h = j
      BY <2>2, <2>3, <3>1
    <3>2. ASSUME h # j, NEW i \in 1..Len(queue), queue[i] = h
          PROVE  \E k \in 1..Len(queue') : queue'[k] = h
      <4>1. i # 1
        BY <2>1, <3>2
      <4>2. i - 1 \in 1..Len(queue') /\ (i - 1) + 1 = i
        BY <1>1, <2>1, <4>1
      <4>3. queue'[i - 1] = queue[i]
        BY <2>1, <4>2
      <4> QED BY <3>2, <4>2, <4>3
    <3> QED BY <2>3, <3>1, <3>2 DEF Singles
  <2>9. \A t \in Sends' : /\ t.job \in accepted' /\ runs'[t.job] = 0
                          /\ \A u \in Sends' : u.job = t.job => u = t
    BY <2>2, <2>3, <2>4 DEF Singles
  <2> QED BY <2>5, <2>7, <2>8, <2>9 DEF Singles
<1>3. CASE /\ queue' = queue
           /\ Todo(micro') = Todo(rest) \/ Todo(micro') = Todo(rest) \cup {Start(w, NoJob)}
  <2>1. Start(w, NoJob).job = NoJob
    BY StartIsTask
  <2>2. Sends' = Sends
    BY <1>3, <2>1 DEF Sends
  <2> QED BY <1>3, <2>2, SinglesSame
<1> QED BY <1>2, <1>3 DEF GetEffect

LEMMA SinglesRun ==
    ASSUME Shape, Singles, Run, delayed' = delayed
    PROVE  Singles'
<1>1. /\ micro = <<>> /\ First \in 0..Len(queue) /\ Len(queue') = Len(queue) - First
      /\ \A i \in 1..Len(queue') : queue'[i] = queue[First + i]
      /\ \A t \in Todo(micro') : /\ t.kind = "start"
                                 /\ t.job # NoJob => t.w \in 1..First /\ t.job = queue[t.w]
      /\ \A i \in 1..First : \E t \in Todo(micro') : t.kind = "start" /\ t.job = queue[i]
      /\ Shape'
  BY RunStep
<1>2. UNCHANGED <<offered, accepted, runs, halted>>
  BY DEF Run
<1>3. queue \in Seq(Jobs) /\ Len(queue) \in Nat
  BY DEF Shape, Fields
<1>4. Sends = {}
  BY <1>1 DEF Sends, Todo
<1>5. \A t \in Sends' : t \in Todo(micro') /\ t.w \in 1..First /\ t.job = queue[t.w]
  BY <1>1 DEF Sends
<1>6. /\ \A i \in 1..Len(queue') : First + i \in 1..Len(queue) /\ First + i \notin 1..First
      /\ \A i \in 1..First : i \in 1..Len(queue)
  BY <1>1, <1>3
<1>7. \A i, k \in 1..Len(queue') : queue'[i] = queue'[k] => i = k
  <2> TAKE i, k \in 1..Len(queue')
  <2> HAVE queue'[i] = queue'[k]
  <2>1. \A x, y \in 1..Len(queue) : queue[x] = queue[y] => x = y
    BY DEF Singles
  <2>2. queue[First + i] = queue[First + k]
    BY <1>1
  <2>3. First + i = First + k
    BY <1>6, <2>1, <2>2
  <2> QED BY <1>1, <1>3, <2>3
<1>8. \A i \in 1..Len(queue') : /\ queue'[i] \in accepted' /\ runs'[queue'[i]] = 0
                                /\ \A t \in Sends' : t.job # queue'[i]
  <2> TAKE i \in 1..Len(queue')
  <2>1. queue'[i] \in accepted' /\ runs'[queue'[i]] = 0
    BY <1>1, <1>2, <1>6 DEF Singles
  <2>2. ASSUME NEW t \in Sends', t.job = queue'[i] PROVE FALSE
    <3>1. queue[t.w] = queue[First + i] /\ t.w \in 1..First
      BY <1>1, <1>5, <2>2
    <3>2. t.w = First + i
      BY <1>6, <3>1 DEF Singles
    <3> QED BY <1>6, <3>1, <3>2
  <2> QED BY <2>1, <2>2
<1>9. \A t \in Sends' : /\ t.job \in accepted' /\ runs'[t.job] = 0
                        /\ \A u \in Sends' : u.job = t.job => u = t
  <2> TAKE t \in Sends'
  <2>1. t.w \in 1..Len(queue) /\ t.job = queue[t.w]
    BY <1>5, <1>6
  <2>2. ASSUME NEW u \in Sends', u.job = t.job PROVE u = t
    <3>1. u.w \in 1..Len(queue) /\ u.job = queue[u.w]
      BY <1>5, <1>6
    <3>2. u.w = t.w
      BY <2>1, <2>2, <3>1 DEF Singles
    <3>3. Fits(micro', pc') /\ t \in Todo(micro') /\ u \in Todo(micro')
      BY <1>1, <1>5 DEF Shape
    <3> QED BY ONLY <3>2, <3>3, OneTask
  <2> QED BY <1>2, <2>1, <2>2 DEF Singles
<1>10. \A h \in accepted' : \/ halted' \/ runs'[h] = 1
                            \/ \E i \in 1..Len(queue') : queue'[i] = h
                            \/ \E t \in Sends' : t.job = h
  <2> TAKE h \in accepted'
  <2>1. ASSUME NEW i \in 1..Len(queue), queue[i] = h, i \in 1..First
        PROVE  \E t \in Sends' : t.job = h
    <3>1. PICK t \in Todo(micro') : t.kind = "start" /\ t.job = queue[i]
      BY <1>1, <2>1
    <3>2. t.job # NoJob
      BY <1>3, <3>1
    <3> QED BY <2>1, <3>1, <3>2 DEF Sends
  <2>2. ASSUME NEW i \in 1..Len(queue), queue[i] = h, i \notin 1..First
        PROVE  \E k \in 1..Len(queue') : queue'[k] = h
    <3>1. i - First \in 1..Len(queue') /\ First + (i - First) = i
      BY <1>1, <1>3, <2>2
    <3>2. queue'[i - First] = queue[i]
      BY <1>1, <3>1
    <3> QED BY <2>2, <3>1, <3>2
  <2> QED BY <1>2, <1>4, <2>1, <2>2 DEF Singles
<1> QED BY <1>2, <1>7, <1>8, <1>9, <1>10 DEF Singles

\* What is offered has not been offered before: a timer's job is new, and a
\* job pushes each child once, on its one run.
Offers ==
    /\ timers \cap offered = {}
    /\ \A v, w \in Workers : pc[v] = "running" =>
          /\ runs[job[v]] = 1
          /\ (pc[w] = "running" /\ job[w] = job[v]) => v = w
    /\ \A p \in Jobs : \A n \in 1..Len(Children[p]) : Children[p][n] \in offered =>
          /\ runs[p] = 1
          /\ \A w \in Workers : pc[w] = "running" /\ job[w] = p =>
                \E t \in Todo(micro) : t.kind = "work" /\ t.w = w /\ t.at > n

LEMMA OffersStay ==
    ASSUME Shape, Offers, UNCHANGED <<job, runs>>, timers' \cap offered' = {},
           \A w \in Workers : pc'[w] = "running" => pc[w] = "running",
           \A w \in Workers : pc'[w] = "running" =>
              \A t \in Todo(micro) : t.kind = "work" /\ t.w = w =>
                 \E u \in Todo(micro') : u.kind = "work" /\ u.w = w /\ u.at >= t.at /\ u.at \in Nat,
           \A p \in Jobs : \A n \in 1..Len(Children[p]) : Children[p][n] \in offered' \ offered =>
              /\ runs[p] = 1
              /\ \A w \in Workers : pc'[w] = "running" /\ job[w] = p =>
                    \E t \in Todo(micro') : t.kind = "work" /\ t.w = w /\ t.at > n
    PROVE  Offers'
<1>1. \A v, w \in Workers : pc'[v] = "running" =>
          /\ runs'[job'[v]] = 1
          /\ (pc'[w] = "running" /\ job'[w] = job'[v]) => v = w
  BY DEF Offers
<1>2. ASSUME NEW p \in Jobs, NEW n \in 1..Len(Children[p]), Children[p][n] \in offered'
      PROVE  /\ runs[p] = 1
             /\ \A w \in Workers : pc'[w] = "running" /\ job[w] = p =>
                   \E t \in Todo(micro') : t.kind = "work" /\ t.w = w /\ t.at > n
  <2>1. CASE Children[p][n] \notin offered
    BY <1>2, <2>1
  <2>2. CASE Children[p][n] \in offered
    <3>1. runs[p] = 1
      BY <2>2 DEF Offers
    <3>2. ASSUME NEW w \in Workers, pc'[w] = "running", job[w] = p
          PROVE  \E t \in Todo(micro') : t.kind = "work" /\ t.w = w /\ t.at > n
      <4>1. pc[w] = "running"
        BY <3>2
      <4>2. PICK t \in Todo(micro) : t.kind = "work" /\ t.w = w /\ t.at > n
        BY <2>2, <3>2, <4>1 DEF Offers
      <4>3. PICK u \in Todo(micro') : u.kind = "work" /\ u.w = w /\ u.at >= t.at /\ u.at \in Nat
        BY <3>2, <4>2
      <4>4. t.at \in Nat /\ n \in Nat
        BY <4>2, BusyStages, TaskKinds DEF Shape
      <4>5. u.at > n
        BY <4>2, <4>3, <4>4
      <4> QED BY <4>3, <4>5
    <3> QED BY <3>1, <3>2
  <2> QED BY <2>1, <2>2
<1> QED BY <1>1, <1>2 DEF Offers

\* The tasks of running jobs are still there, or go on.
LEMMA OffersSame ==
    ASSUME Shape, Offers, UNCHANGED <<job, runs, offered, timers>>,
           \A w \in Workers : pc'[w] = "running" => pc[w] = "running",
           \A t \in Todo(micro) : t.kind = "work" => t \in Todo(micro')
    PROVE  Offers'
<1>1. \A t \in Todo(micro) : t.kind = "work" => t.at \in Nat /\ t.at >= t.at
  BY BusyStages, TaskKinds DEF Shape
<1>2. \A w \in Workers : pc'[w] = "running" =>
         \A t \in Todo(micro) : t.kind = "work" /\ t.w = w =>
            \E u \in Todo(micro') : u.kind = "work" /\ u.w = w /\ u.at >= t.at /\ u.at \in Nat
  BY <1>1
<1>3. timers' \cap offered' = {}
  BY DEF Offers
<1> QED BY ONLY Shape, Offers, UNCHANGED <<job, runs, offered, timers>>, <1>2, <1>3, OffersStay,
            \A w \in Workers : pc'[w] = "running" => pc[w] = "running"

Once == Singles /\ Offers

\* The user, or a timer, pushes.
LEMMA OncePushed ==
    ASSUME Shape, Once, NEW j \in Jobs, Outside(j), delayed' = delayed
    PROVE  Once'
<1> USE DEF Once
<1>1. CASE UserPushesLater(j)
  <2>1. /\ timers' = timers \cup {j} /\ j \notin offered
        /\ UNCHANGED <<pool, micro, pc, job, closeCalled, offered, accepted, runs>>
    BY <1>1 DEF UserPushesLater
  <2>2. Singles'
    BY <2>1 DEF Singles, Sends, pool
  <2>3. Offers'
    BY <2>1 DEF Offers
  <2> QED BY <2>2, <2>3
<1>2. CASE UserPushes(j) \/ PushTimerFires(j)
  <2>1. /\ Push(j, micro) /\ timers' \subseteq timers /\ j \notin timers'
        /\ j \in Roots \cup Later /\ j \notin offered
        /\ UNCHANGED <<delayed, closed, halted, activeCount, workerCount, failureCount,
                       consecutiveFailures, done, job, closeCalled, runs>>
    <3>1. CASE UserPushes(j)
      <4>1. j \notin Later
        BY <3>1, PushedOnce DEF UserPushes
      <4> QED BY <3>1, <4>1 DEF UserPushes, Shape, Types
    <3>2. CASE PushTimerFires(j)
      BY <3>2 DEF PushTimerFires, Shape, Types, Offers
    <3> QED BY <1>2, <3>1, <3>2
  <2>2. Fits(micro, pc) /\ timers' \subseteq Later
    BY <2>1 DEF Shape, Types
  <2>3. Shape' /\ NobodyNew /\ PushEffect(j, micro) /\ offered' = offered \cup {j}
    BY <2>1, <2>2, PushStep
  <2>4. Singles'
    BY <2>1, <2>3, SinglesPush
  <2>5. \A p \in Jobs : \A n \in 1..Len(Children[p]) : Children[p][n] # j
    BY <2>1, PushedOnce
  <2>6. timers' \cap offered' = {}
    BY <2>1, <2>3 DEF Offers
  <2>7. \A w \in Workers : pc'[w] = "running" => pc[w] = "running"
    BY <2>3 DEF PushEffect, Shape, Fields
  <2>8. \A t \in Todo(micro) : t \in Todo(micro')
    BY <2>3 DEF PushEffect
  <2>9. \A t \in Todo(micro) : t.kind = "work" => t.at \in Nat /\ t.at >= t.at
    BY BusyStages, TaskKinds DEF Shape
  <2>10. \A w \in Workers : pc'[w] = "running" =>
            \A t \in Todo(micro) : t.kind = "work" /\ t.w = w =>
               \E u \in Todo(micro') : u.kind = "work" /\ u.w = w /\ u.at >= t.at /\ u.at \in Nat
    BY <2>8, <2>9
  <2>11. \A p \in Jobs : \A n \in 1..Len(Children[p]) : Children[p][n] \in offered' \ offered =>
            /\ runs[p] = 1
            /\ \A w \in Workers : pc'[w] = "running" /\ job[w] = p =>
                  \E t \in Todo(micro') : t.kind = "work" /\ t.w = w /\ t.at > n
    BY <2>3, <2>5
  <2>12. UNCHANGED <<job, runs>> /\ Offers
    BY <2>1
  <2>13. Offers'
    BY ONLY Shape, <2>6, <2>7, <2>10, <2>11, <2>12, OffersStay
  <2> QED BY <2>4, <2>13
<1> QED BY <1>1, <1>2 DEF Outside

LEMMA OnceStarts ==
    ASSUME Shape, Once, Starts, delayed' = delayed
    PROVE  Once'
<1> USE DEF Once
<1> DEFINE t == Head(micro)
<1>1. /\ Todo(micro') = Todo(micro) \ {t} /\ t \in Todo(micro) /\ t.kind = "start"
      /\ t.job \in Jobs /\ t.w \in Workers /\ pc[t.w] = "handed"
      /\ pc' = [pc EXCEPT ![t.w] = "running"] /\ job' = [job EXCEPT ![t.w] = t.job]
      /\ runs' = [runs EXCEPT ![t.job] = @ + 1]
  BY StartsStep
<1>2. UNCHANGED <<queue, halted, timers, offered, accepted>>
  BY DEF Starts
<1> HIDE DEF t
<1>3. t.job # NoJob /\ runs \in [Jobs -> Nat] /\ queue \in Seq(Jobs)
  BY <1>1 DEF Shape, Types, Fields
<1>4. Sends' = Sends \ {t} /\ t \in Sends
  BY <1>1, <1>3 DEF Sends
<1>5. /\ t.job \in accepted /\ runs[t.job] = 0
      /\ \A u \in Sends : u # t => u.job # t.job
      /\ \A i \in 1..Len(queue) : queue[i] # t.job
  BY <1>4 DEF Singles
<1>6. /\ \A j \in Jobs : j # t.job => runs'[j] = runs[j]
      /\ runs'[t.job] = 1
  BY <1>1, <1>3, <1>5
<1>7. \A i \in 1..Len(queue) : queue[i] \in Jobs
  BY <1>3
<1>8. \A u \in Sends : u.job \in Jobs
  BY BusyStages, TaskKinds DEF Sends, Shape
<1>9. Singles'
  <2>1. \A i \in 1..Len(queue') : /\ queue'[i] \in accepted' /\ runs'[queue'[i]] = 0
                                  /\ \A u \in Sends' : u.job # queue'[i]
    BY <1>2, <1>4, <1>5, <1>6, <1>7 DEF Singles
  <2>2. \A u \in Sends' : /\ u.job \in accepted' /\ runs'[u.job] = 0
                          /\ \A x \in Sends' : x.job = u.job => x = u
    BY <1>2, <1>4, <1>5, <1>6, <1>8 DEF Singles
  <2>3. \A j \in Jobs : runs'[j] \in 0..1 /\ (j \notin accepted => runs'[j] = 0)
    BY <1>5, <1>6 DEF Singles
  <2>4. accepted \subseteq Jobs
    BY DEF Shape, Types
  <2>5. \A h \in accepted' : \/ halted' \/ runs'[h] = 1
                             \/ \E i \in 1..Len(queue') : queue'[i] = h
                             \/ \E u \in Sends' : u.job = h
    <3> TAKE h \in accepted'
    <3>1. CASE h = t.job
      BY <1>6, <3>1
    <3>2. CASE h # t.job
      BY <1>2, <1>4, <1>6, <2>4, <3>2 DEF Singles
    <3> QED BY <3>1, <3>2
  <2> QED BY <1>2, <2>1, <2>2, <2>3, <2>5 DEF Singles
<1>10. Offers'
  <2>1. \A w \in Workers : pc[w] = "running" => job[w] \in Jobs /\ job[w] # t.job
    BY <1>5 DEF Offers, Shape, Types
  <2>2. \A w \in Workers : w # t.w => pc'[w] = pc[w] /\ job'[w] = job[w]
    BY <1>1 DEF Shape, Fields, Types
  <2>3. job'[t.w] = t.job
    BY <1>1 DEF Shape, Types
  <2>4. \A v, w \in Workers : pc'[v] = "running" =>
            /\ runs'[job'[v]] = 1
            /\ (pc'[w] = "running" /\ job'[w] = job'[v]) => v = w
    BY <1>6, <2>1, <2>2, <2>3 DEF Offers
  <2>5. \A p \in Jobs : \A n \in 1..Len(Children[p]) : Children[p][n] \in offered =>
           p # t.job /\ runs'[p] = 1
    BY <1>5, <1>6 DEF Offers
  <2>6. \A u \in Todo(micro) : u.kind = "work" => u \in Todo(micro')
    BY <1>1
  <2>7. ASSUME NEW p \in Jobs, NEW n \in 1..Len(Children[p]), Children[p][n] \in offered,
               NEW w \in Workers, pc'[w] = "running", job'[w] = p
        PROVE  \E u \in Todo(micro') : u.kind = "work" /\ u.w = w /\ u.at > n
    <3>1. w # t.w
      BY <2>3, <2>5, <2>7
    <3>2. pc[w] = "running" /\ job[w] = p
      BY <2>2, <2>7, <3>1
    <3>3. \E u \in Todo(micro) : u.kind = "work" /\ u.w = w /\ u.at > n
      BY <2>7, <3>2 DEF Offers
    <3> QED BY <2>6, <3>3
  <2>8. timers' \cap offered' = {}
    BY <1>2 DEF Offers
  <2> QED BY <1>2, <2>4, <2>5, <2>7, <2>8 DEF Offers
<1> QED BY <1>9, <1>10

LEMMA OnceWorks ==
    ASSUME Shape, Once, Works, delayed' = delayed
    PROVE  Once'
<1> USE DEF Once
<1> DEFINE t == Head(micro)
           p == job[t.w]
           j == Children[p][t.at]
<1>1. /\ Shape' /\ t \in Todo(micro) /\ t.kind = "work" /\ t.w \in Workers
      /\ t.at \in Nat \ {0} /\ pc[t.w] = "running"
      /\ \/ /\ UNCHANGED <<queue, pc, offered, accepted>>
            /\ \E u \in Tasks : u.kind = "work" /\ u.w = t.w /\ u.at = t.at /\ Replaces(u, micro')
         \/ /\ t.at \in 1..Len(Children[p]) /\ offered' = offered \cup {j}
            /\ \E rest : \E u \in Tasks : /\ u.kind = "work" /\ u.w = t.w /\ u.at = t.at + 1
                                          /\ Replaces(u, rest) /\ PushEffect(j, rest)
         \/ /\ UNCHANGED <<queue, offered, accepted>> /\ pc' = [pc EXCEPT ![t.w] = "settling"]
            /\ \E u \in Tasks : u.kind = "then" /\ u.w = t.w /\ Replaces(u, micro')
  BY WorksStep
<1>2. UNCHANGED <<halted, timers, job, runs>>
  BY DEF Works
<1>3. p \in Jobs
  BY <1>1 DEF Shape, Types
<1>4. \A x, y \in Todo(micro) : x.w = y.w => x = y
  BY OneTask DEF Shape
<1> HIDE DEF t, p
<1>5. \A u \in Todo(micro) : u.kind = "work" => u.at \in Nat /\ u.at >= u.at
  BY BusyStages, TaskKinds DEF Shape
<1>6. CASE \/ /\ UNCHANGED <<queue, pc, offered, accepted>>
              /\ \E u \in Tasks : u.kind = "work" /\ u.w = t.w /\ u.at = t.at /\ Replaces(u, micro')
           \/ /\ UNCHANGED <<queue, offered, accepted>> /\ pc' = [pc EXCEPT ![t.w] = "settling"]
              /\ \E u \in Tasks : u.kind = "then" /\ u.w = t.w /\ Replaces(u, micro')
  <2>1. PICK u : /\ u.w = t.w /\ Todo(micro') = (Todo(micro) \ {t}) \cup {u}
                 /\ \/ pc' = pc /\ u.kind = "work" /\ u.at = t.at
                    \/ pc' = [pc EXCEPT ![t.w] = "settling"] /\ u.kind = "then"
    BY <1>6 DEF Replaces, t
  <2>2. Sends' = Sends
    BY <1>1, <2>1 DEF Sends
  <2>3. UNCHANGED <<queue, offered, accepted>>
    BY <1>6
  <2>4. Singles'
    BY <1>2, <2>2, <2>3, SinglesSame
  <2>5. \A w \in Workers : pc'[w] = "running" => pc[w] = "running" /\ (w = t.w => u.kind = "work" /\ u.at = t.at)
    BY <1>1, <2>1 DEF Shape, Fields
  <2>6. \A w \in Workers : pc'[w] = "running" =>
           \A x \in Todo(micro) : x.kind = "work" /\ x.w = w =>
              \E y \in Todo(micro') : y.kind = "work" /\ y.w = w /\ y.at >= x.at /\ y.at \in Nat
    <3> TAKE w \in Workers
    <3> HAVE pc'[w] = "running"
    <3> TAKE x \in Todo(micro)
    <3> HAVE x.kind = "work" /\ x.w = w
    <3>1. CASE x = t
      <4>1. u \in Todo(micro') /\ u.kind = "work" /\ u.w = w /\ u.at = x.at
        BY <2>1, <2>5, <3>1
      <4> QED BY <1>5, <4>1
    <3>2. CASE x # t
      BY <1>5, <2>1, <3>2
    <3> QED BY <3>1, <3>2
  <2>7. /\ timers' \cap offered' = {} /\ Offers /\ UNCHANGED <<job, runs>>
        /\ \A w \in Workers : pc'[w] = "running" => pc[w] = "running"
        /\ \A q \in Jobs : \A n \in 1..Len(Children[q]) : Children[q][n] \in offered' \ offered =>
              /\ runs[q] = 1
              /\ \A w \in Workers : pc'[w] = "running" /\ job[w] = q =>
                    \E x \in Todo(micro') : x.kind = "work" /\ x.w = w /\ x.at > n
    BY <1>2, <2>3, <2>5 DEF Offers
  <2>8. Offers'
    BY ONLY Shape, <2>6, <2>7, OffersStay
  <2> QED BY <2>4, <2>8
<1>7. CASE /\ t.at \in 1..Len(Children[p]) /\ offered' = offered \cup {j}
           /\ \E rest : \E u \in Tasks : /\ u.kind = "work" /\ u.w = t.w /\ u.at = t.at + 1
                                         /\ Replaces(u, rest) /\ PushEffect(j, rest)
  <2>1. PICK rest, u : /\ u.kind = "work" /\ u.w = t.w /\ u.at = t.at + 1
                       /\ Todo(rest) = (Todo(micro) \ {t}) \cup {u} /\ PushEffect(j, rest)
    BY <1>7 DEF Replaces, t
  <2>2. j \in Jobs /\ runs[p] = 1
    <3>1. j \in Jobs
      BY <1>3, <1>7
    <3> QED BY <1>1, <3>1 DEF Offers, p
  <2>3. j \notin offered
    <3> SUFFICES ASSUME j \in offered PROVE FALSE
      OBVIOUS
    <3>1. PICK x \in Todo(micro) : x.kind = "work" /\ x.w = t.w /\ x.at > t.at
      BY <1>1, <1>3, <1>7 DEF Offers, p
    <3>2. x = t
      BY <1>1, <1>4, <3>1
    <3> QED BY <1>1, <3>1, <3>2
  <2>4. \A x : x.kind = "start" => (x \in Todo(rest) <=> x \in Todo(micro))
    BY <1>1, <2>1
  <2>5. Singles'
    <3>1. UNCHANGED <<runs, halted>> /\ offered' = offered \cup {j} /\ j \in Jobs \ offered
      BY <1>2, <1>7, <2>2, <2>3
    <3> HIDE DEF j
    <3> QED BY <2>1, <2>4, <3>1, SinglesPush
  <2>6. \A w \in Workers : pc'[w] = "running" => pc[w] = "running"
    BY <2>1 DEF PushEffect, Shape, Fields
  <2>7. Todo(rest) \subseteq Todo(micro')
    BY <2>1 DEF PushEffect
  <2>8. \A w \in Workers : pc'[w] = "running" =>
           \A x \in Todo(micro) : x.kind = "work" /\ x.w = w =>
              \E y \in Todo(micro') : y.kind = "work" /\ y.w = w /\ y.at >= x.at /\ y.at \in Nat
    <3> TAKE w \in Workers
    <3> HAVE pc'[w] = "running"
    <3> TAKE x \in Todo(micro)
    <3> HAVE x.kind = "work" /\ x.w = w
    <3>1. CASE x = t
      <4>1. u \in Todo(micro') /\ u.kind = "work" /\ u.w = w /\ u.at >= x.at /\ u.at \in Nat
        BY <1>1, <2>1, <2>7, <3>1
      <4> QED BY <4>1
    <3>2. CASE x # t
      BY <1>5, <2>1, <2>7, <3>2
    <3> QED BY <3>1, <3>2
  <2>9. timers' \cap offered' = {}
    <3>1. j \notin Later
      BY <1>3, <1>7, PushedOnce
    <3> QED BY <1>2, <1>7, <3>1 DEF Offers, Shape, Types
  <2>10. ASSUME NEW q \in Jobs, NEW n \in 1..Len(Children[q]), Children[q][n] \in offered' \ offered
         PROVE  /\ runs[q] = 1
                /\ \A w \in Workers : pc'[w] = "running" /\ job[w] = q =>
                      \E x \in Todo(micro') : x.kind = "work" /\ x.w = w /\ x.at > n
    <3>1. Children[q][n] = Children[p][t.at]
      BY <1>7, <2>10
    <3>2. q = p /\ n = t.at
      BY <1>3, <1>7, <3>1, PushedOnce
    <3>3. ASSUME NEW w \in Workers, pc'[w] = "running", job[w] = q
          PROVE  \E x \in Todo(micro') : x.kind = "work" /\ x.w = w /\ x.at > n
      <4>1. w = t.w
        BY <1>1, <2>6, <3>2, <3>3 DEF Offers, p
      <4>2. u \in Todo(micro') /\ u.kind = "work" /\ u.w = w /\ u.at > n
        BY <1>1, <2>1, <2>7, <3>2, <4>1
      <4> QED BY <4>2
    <3> QED BY <2>2, <3>2, <3>3
  <2>11. Offers /\ UNCHANGED <<job, runs>>
    BY <1>2
  <2>12. Offers'
    BY ONLY Shape, <2>6, <2>8, <2>9, <2>10, <2>11, OffersStay
  <2> QED BY <2>5, <2>12
<1> QED BY <1>1, <1>6, <1>7

\* A step that neither offers, takes nor starts a job.
LEMMA OnceSame ==
    ASSUME Shape, Once, UNCHANGED <<job, runs, offered, timers, accepted>>,
           halted => halted',
           queue' = queue \/ (queue' = <<>> /\ halted'),
           \A w \in Workers : pc'[w] = "running" => pc[w] = "running",
           \A t : (t.kind = "start" /\ t.job # NoJob) => (t \in Todo(micro') <=> t \in Todo(micro)),
           \A t \in Todo(micro) : t.kind = "work" => t \in Todo(micro')
    PROVE  Once'
<1>1. Sends' = Sends
  BY DEF Sends
<1>2. UNCHANGED <<runs, offered, accepted>>
  OBVIOUS
<1>3. Singles'
  BY <1>1, <1>2, SinglesSame DEF Once
<1>4. Offers'
  BY OffersSame DEF Once
<1> QED BY <1>3, <1>4 DEF Once

LEMMA OnceSettles ==
    ASSUME Shape, Once, Fulfilled \/ Rejected \/ PassesOn, delayed' = delayed
    PROVE  Once'
<1> DEFINE t == Head(micro)
<1>1. /\ t \in Todo(micro) /\ t.kind \in {"then", "catch"}
      /\ \E u, rest, q : /\ u.kind \in {"catch", "finally"} /\ Todo(rest) = (Todo(micro) \ {t}) \cup {u}
                         /\ \/ ShutEffect(q, rest)
                            \/ Todo(micro') = Todo(rest) /\ pc' = pc
  <2>1. CASE Fulfilled
    BY <2>1, FulfilledStep DEF Replaces
  <2>2. CASE Rejected
    BY <2>2, RejectedStep DEF Replaces
  <2>3. CASE PassesOn
    BY <2>3, PassesOnStep DEF Replaces
  <2> QED BY <2>1, <2>2, <2>3
<1>2. PICK u, rest, q : /\ u.kind \in {"catch", "finally"}
                        /\ Todo(rest) = (Todo(micro) \ {t}) \cup {u}
                        /\ \/ ShutEffect(q, rest)
                           \/ Todo(micro') = Todo(rest) /\ pc' = pc
  BY ONLY <1>1
<1>3. /\ UNCHANGED <<job, runs, offered, timers, accepted>> /\ (halted => halted')
      /\ queue' = queue \/ (queue' = <<>> /\ halted')
  <2>1. CASE Fulfilled
    BY <2>1, FulfilledStep DEF Fulfilled
  <2>2. CASE Rejected
    BY <2>2, RejectedStep DEF Rejected
  <2>3. CASE PassesOn
    BY <2>3 DEF PassesOn, pool
  <2> QED BY <2>1, <2>2, <2>3
<1> HIDE DEF t
<1>4. \A w \in Workers : pc'[w] = "running" => pc[w] = "running"
  BY <1>2 DEF ShutEffect
<1>5. \A x : (x.kind = "start" /\ x.job # NoJob) => (x \in Todo(micro') <=> x \in Todo(micro))
  BY <1>1, <1>2 DEF ShutEffect
<1>6. \A x \in Todo(micro) : x.kind = "work" => x \in Todo(micro')
  BY <1>1, <1>2 DEF ShutEffect
<1> QED BY <1>3, <1>4, <1>5, <1>6, OnceSame

LEMMA OnceGets ==
    ASSUME Shape, Once, NEW w \in Workers, NEW rest, GetEffect(w, rest),
           UNCHANGED <<offered, accepted, runs, halted, job, timers>>,
           \A t : t.kind # "finally" => (t \in Todo(rest) <=> t \in Todo(micro))
    PROVE  Once'
<1>1. Singles'
  <2>1. \A t : t.kind = "start" => (t \in Todo(rest) <=> t \in Todo(micro))
    OBVIOUS
  <2>2. UNCHANGED <<offered, accepted, runs, halted>> /\ Singles
    BY DEF Once
  <2> QED BY <2>1, <2>2, SinglesGet
<1>2. \A v \in Workers : pc'[v] = "running" => pc[v] = "running"
  BY DEF GetEffect, Shape, Fields
<1>3. \A t \in Todo(micro) : t.kind = "work" => t \in Todo(micro')
  BY DEF GetEffect
<1>4. Offers'
  BY <1>2, <1>3, OffersSame DEF Once
<1> QED BY <1>1, <1>4 DEF Once

LEMMA OnceStep ==
    ASSUME Shape, Once, [Next]_vars
    PROVE  Once'
<1>1. CASE UNCHANGED vars
  BY <1>1 DEF vars, pool, Once, Singles, Offers, Sends
<1>2. ASSUME Run, delayed' = delayed PROVE Once'
  <2>1. Singles'
    BY <1>2, SinglesRun DEF Once
  <2>2. /\ micro = <<>> /\ \A w \in Workers : pc'[w] \in {"handed", "waiting"}
        /\ UNCHANGED <<job, runs, offered, timers>>
    BY <1>2, RunStep DEF Run
  <2>3. Offers'
    BY <2>2, OffersSame DEF Once, Todo
  <2> QED BY <2>1, <2>3 DEF Once
<1>3. ASSUME UserCloses, delayed' = delayed PROVE Once'
  <2>1. ShutEffect(queue, micro) /\ queue' = queue
    BY <1>3, UserClosesFlow
  <2>2. UNCHANGED <<job, runs, offered, timers, accepted, halted>>
    BY <1>3 DEF UserCloses
  <2>3. \A w \in Workers : pc'[w] = "running" => pc[w] = "running"
    BY <2>1 DEF ShutEffect
  <2>4. \A t : (t.kind = "start" /\ t.job # NoJob) => (t \in Todo(micro') <=> t \in Todo(micro))
    BY <2>1 DEF ShutEffect
  <2>5. \A t \in Todo(micro) : t.kind = "work" => t \in Todo(micro')
    BY <2>1 DEF ShutEffect
  <2> QED BY <2>1, <2>2, <2>3, <2>4, <2>5, OnceSame
<1>4. ASSUME NEW w \in Workers, DelayOver(w), delayed' = delayed PROVE Once'
  <2>1. GetEffect(w, micro)
    BY <1>4, DelayOverFlow
  <2>2. UNCHANGED <<offered, accepted, runs, halted, job, timers>>
    BY <1>4 DEF DelayOver
  <2> QED BY <2>1, <2>2, OnceGets
<1>5. ASSUME NEW w \in Workers, JobEnds(w), delayed' = delayed PROVE Once'
  <2>1. PICK ok \in BOOLEAN, h \in 0..MaxHops : JobResumes(w, ok, h)
    BY <1>5 DEF JobEnds
  <2>2. /\ pc' = pc
        /\ \E t \in Tasks : t.kind = "work" /\ Todo(micro') = Todo(micro) \cup {t}
    BY <1>5, <2>1, JobResumesStep
  <2>3. UNCHANGED <<queue, halted, job, runs, offered, timers, accepted>>
    BY <2>1 DEF JobResumes, pool
  <2> QED BY <2>2, <2>3, OnceSame
<1>6. ASSUME Leaves, delayed' = delayed PROVE Once'
  <2>1. /\ Todo(micro') = Todo(micro) \ {Head(micro)}
        /\ Head(micro).kind = "start" /\ Head(micro).job = NoJob
        /\ pc' = [pc EXCEPT ![Head(micro).w] = "exited"]
    BY <1>6, LeavesStep
  <2>2. UNCHANGED <<queue, halted, job, runs, offered, timers, accepted>>
    BY <1>6 DEF Leaves
  <2>3. \A w \in Workers : pc'[w] = "running" => pc[w] = "running"
    BY <2>1 DEF Shape, Fields
  <2> QED BY <2>1, <2>2, <2>3, OnceSame
<1>7. ASSUME Finally, delayed' = delayed PROVE Once'
  <2>1. PICK rest : /\ Todo(rest) = Todo(micro) \ {Head(micro)}
                    /\ \/ GetEffect(Head(micro).w, rest)
                       \/ /\ Todo(micro') = Todo(rest) /\ queue' = queue
                          /\ pc' = [pc EXCEPT ![Head(micro).w] = "pausing"]
    BY <1>7, FinallyStep
  <2>2. Head(micro).kind = "finally" /\ Head(micro).w \in Workers
    BY <1>7, FinallyStep
  <2>3. UNCHANGED <<offered, accepted, runs, halted, job, timers>>
    BY <1>7 DEF Finally
  <2>4. \A t : t.kind # "finally" => (t \in Todo(rest) <=> t \in Todo(micro))
    BY <2>1, <2>2
  <2>5. CASE GetEffect(Head(micro).w, rest)
    BY <2>2, <2>3, <2>4, <2>5, OnceGets
  <2>6. CASE /\ Todo(micro') = Todo(rest) /\ queue' = queue
             /\ pc' = [pc EXCEPT ![Head(micro).w] = "pausing"]
    <3>1. \A w \in Workers : pc'[w] = "running" => pc[w] = "running"
      BY <2>6 DEF Shape, Fields
    <3> QED BY <2>3, <2>4, <2>6, <3>1, OnceSame
  <2> QED BY <2>1, <2>5, <2>6
<1>8. CASE Next
  <2>1. delayed' = delayed
    BY <1>8 DEF Next
  <2> QED BY <1>2, <1>3, <1>4, <1>5, <1>6, <1>7, <1>8, <2>1, OncePushed, OnceStarts, OnceWorks,
             OnceSettles DEF Next, Microtask
<1> QED BY <1>1, <1>8

LEMMA OnceInit == Init => Once
<1> SUFFICES ASSUME Init PROVE Once
  OBVIOUS
<1>1. Todo(micro) = {} /\ \A w \in Workers : pc[w] = "new"
  BY DEF Init, Todo
<1> QED BY <1>1 DEF Init, Once, Singles, Offers, Sends

-----------------------------------------------------------------------------
(* A worker leaves only a pool that is closed and empty, the last one       *)
(* resolves run(), and nothing happens after that.                          *)

Dismissed == \E t \in Todo(micro) : t.kind = "start" /\ t.job = NoJob
SomeoneLeft == \E w \in Workers : pc[w] = "exited"
AllLeft == \A w \in Workers : pc[w] = "exited"

Ending ==
    /\ Dismissed \/ SomeoneLeft => closed /\ queue = <<>>
    /\ done # "no" => AllLeft
    /\ done = "finished" => ~halted

LEMMA PushDismisses ==
    ASSUME Shape, Ending, NEW j \in Jobs, NEW rest, PushEffect(j, rest), closed' = closed,
           \A t : t.kind = "start" => (t \in Todo(rest) <=> t \in Todo(micro))
    PROVE  Dismissed' \/ SomeoneLeft' => closed' /\ queue' = <<>>
<1>1. SomeoneLeft' => SomeoneLeft
  BY DEF SomeoneLeft, PushEffect, Shape, Fields
<1>2. Dismissed' => Dismissed
  <2>1. \A w \in Workers : Start(w, j).job # NoJob
    BY StartIsTask
  <2> QED BY <2>1 DEF PushEffect, Dismissed
<1> QED BY <1>1, <1>2 DEF Ending, PushEffect

LEMMA GetDismisses ==
    ASSUME Shape, Ending, NEW w \in Workers, NEW rest, GetEffect(w, rest), closed' = closed,
           \A t : t.kind = "start" => (t \in Todo(rest) <=> t \in Todo(micro))
    PROVE  Dismissed' \/ SomeoneLeft' => closed' /\ queue' = <<>>
<1>1. SomeoneLeft' => SomeoneLeft
  BY DEF SomeoneLeft, GetEffect, Shape, Fields
<1>2. queue # <<>> => Start(w, Head(queue)).job # NoJob
  <2>1. queue # <<>> => Head(queue) \in Jobs
    BY DEF Shape, Fields
  <2> QED BY <2>1, StartIsTask
<1>3. Dismissed' => Dismissed \/ (closed' /\ queue' = <<>>)
  BY <1>2 DEF GetEffect, Dismissed
<1>4. queue = <<>> => queue' = <<>>
  BY DEF GetEffect
<1> QED BY <1>1, <1>3, <1>4 DEF Ending

LEMMA ShutDismisses ==
    ASSUME Shape, Ending, NEW q, NEW rest, ShutEffect(q, rest), closed' = TRUE, queue' = q,
           queue = <<>> => q = <<>>,
           \A t : t.kind = "start" => (t \in Todo(rest) <=> t \in Todo(micro))
    PROVE  Dismissed' \/ SomeoneLeft' => closed' /\ queue' = <<>>
<1>1. SomeoneLeft' => SomeoneLeft
  BY DEF SomeoneLeft, ShutEffect
<1>2. q # <<>> => (Dismissed' => Dismissed)
  BY DEF ShutEffect, Dismissed
<1> QED BY <1>1, <1>2 DEF Ending

LEMMA FirstPart ==
    ASSUME Shape, Ending, Next
    PROVE  Dismissed' \/ SomeoneLeft' => closed' /\ queue' = <<>>
<1> DEFINE Goal == Dismissed' \/ SomeoneLeft' => closed' /\ queue' = <<>>
<1>1. delayed' = delayed
  BY DEF Next
<1>2. ASSUME Run PROVE Goal
  <2>1. /\ \A w \in Workers : pc'[w] \in {"handed", "waiting"}
        /\ \A t \in Todo(micro') : t.kind = "start" /\ (t.job = NoJob => closed /\ queue' = <<>>)
        /\ closed' = closed
    BY <1>1, <1>2, RunStep DEF Run
  <2> QED BY <2>1 DEF Dismissed, SomeoneLeft
<1>3. ASSUME UserCloses PROVE Goal
  <2>1. ShutEffect(queue, micro) /\ queue' = queue /\ closed' = TRUE
    BY <1>1, <1>3, UserClosesFlow
  <2> QED BY <2>1, ShutDismisses
<1>4. ASSUME NEW j \in Jobs, Outside(j) PROVE Goal
  <2>1. CASE UserPushesLater(j)
    BY <2>1 DEF UserPushesLater, pool, Dismissed, SomeoneLeft, Ending
  <2>2. CASE UserPushes(j) \/ PushTimerFires(j)
    <3>1. /\ Push(j, micro) /\ timers' \subseteq timers
          /\ UNCHANGED <<delayed, closed, halted, activeCount, workerCount, failureCount,
                         consecutiveFailures, done, job, closeCalled, runs>>
      BY <1>1, <2>2 DEF UserPushes, PushTimerFires
    <3>2. Fits(micro, pc) /\ timers' \subseteq Later
      BY <3>1 DEF Shape, Types
    <3>3. PushEffect(j, micro)
      BY <3>1, <3>2, PushStep
    <3> QED BY <3>1, <3>3, PushDismisses
  <2> QED BY <1>4, <2>1, <2>2 DEF Outside
<1>5. ASSUME NEW w \in Workers, DelayOver(w) PROVE Goal
  <2>1. GetEffect(w, micro) /\ closed' = closed
    BY <1>1, <1>5, DelayOverFlow DEF DelayOver
  <2> QED BY <2>1, GetDismisses
<1>6. ASSUME NEW w \in Workers, JobEnds(w) PROVE Goal
  <2>1. PICK ok \in BOOLEAN, h \in 0..MaxHops : JobResumes(w, ok, h)
    BY <1>6 DEF JobEnds
  <2>2. /\ pc' = pc
        /\ \E t \in Tasks : t.kind = "work" /\ Todo(micro') = Todo(micro) \cup {t}
    BY <1>1, <2>1, JobResumesStep
  <2>3. UNCHANGED <<queue, closed>>
    BY <2>1 DEF JobResumes, pool
  <2> QED BY <2>2, <2>3 DEF Dismissed, SomeoneLeft, Ending
<1>7. ASSUME Starts PROVE Goal
  <2>1. /\ Todo(micro') = Todo(micro) \ {Head(micro)} /\ UNCHANGED <<queue, closed>>
        /\ pc' = [pc EXCEPT ![Head(micro).w] = "running"]
    BY <1>1, <1>7, StartsStep DEF Starts
  <2>2. SomeoneLeft' => SomeoneLeft
    BY <2>1 DEF SomeoneLeft, Shape, Fields
  <2> QED BY <2>1, <2>2 DEF Dismissed, Ending
<1>8. ASSUME Leaves PROVE Goal
  <2>1. Dismissed /\ UNCHANGED <<queue, closed>>
    BY <1>1, <1>8, LeavesStep DEF Leaves, Dismissed
  <2> QED BY <2>1 DEF Ending
<1>9. ASSUME Works PROVE Goal
  <2>1. /\ Head(micro).kind = "work" /\ Head(micro).w \in Workers /\ pc[Head(micro).w] = "running"
        /\ \/ /\ UNCHANGED <<queue, pc>>
              /\ \E u \in Tasks : u.kind = "work" /\ Replaces(u, micro')
           \/ /\ Head(micro).at \in 1..Len(Children[job[Head(micro).w]])
              /\ \E rest : \E u \in Tasks :
                    /\ u.kind = "work" /\ Replaces(u, rest)
                    /\ PushEffect(Children[job[Head(micro).w]][Head(micro).at], rest)
           \/ /\ UNCHANGED queue /\ pc' = [pc EXCEPT ![Head(micro).w] = "settling"]
              /\ \E u \in Tasks : u.kind = "then" /\ Replaces(u, micro')
    BY <1>1, <1>9, WorksStep
  <2>2. closed' = closed
    BY <1>9 DEF Works
  <2>3. ASSUME NEW u, u.kind \in {"work", "then"}, Replaces(u, micro'), queue' = queue,
               pc' = pc \/ pc' = [pc EXCEPT ![Head(micro).w] = "settling"]
        PROVE  Goal
    <3>1. SomeoneLeft' => SomeoneLeft
      BY <2>3 DEF SomeoneLeft, Shape, Fields
    <3>2. Dismissed' => Dismissed
      BY <2>3 DEF Dismissed, Replaces
    <3> QED BY <2>2, <2>3, <3>1, <3>2 DEF Ending
  <2>4. ASSUME Head(micro).at \in 1..Len(Children[job[Head(micro).w]]),
               NEW rest, NEW u, u.kind = "work", Replaces(u, rest),
               PushEffect(Children[job[Head(micro).w]][Head(micro).at], rest)
        PROVE  Goal
    <3>1. Children[job[Head(micro).w]][Head(micro).at] \in Jobs
      <4>1. job[Head(micro).w] \in Jobs
        BY <2>1 DEF Shape, Types
      <4> QED BY <2>4, <4>1
    <3>2. \A t : t.kind = "start" => (t \in Todo(rest) <=> t \in Todo(micro))
      BY <2>1, <2>4 DEF Replaces
    <3> QED BY ONLY Shape, Ending, <2>2, <2>4, <3>1, <3>2, PushDismisses
  <2> QED BY <2>1, <2>3, <2>4
<1>10. ASSUME Fulfilled PROVE Goal
  <2>1. Head(micro).kind = "then" /\ queue' = queue
    BY <1>1, <1>10, FulfilledStep
  <2>2. PICK u, rest : /\ u.kind = "catch" /\ Replaces(u, rest)
                       /\ \/ ShutEffect(queue, rest) /\ closed' = TRUE
                          \/ Todo(micro') = Todo(rest) /\ closed' = closed /\ pc' = pc
    BY <1>1, <1>10, FulfilledStep
  <2>3. \A t : t.kind = "start" => (t \in Todo(rest) <=> t \in Todo(micro))
    BY <2>1, <2>2 DEF Replaces
  <2>4. CASE ShutEffect(queue, rest) /\ closed' = TRUE
    BY <2>1, <2>3, <2>4, ShutDismisses
  <2>5. CASE Todo(micro') = Todo(rest) /\ closed' = closed /\ pc' = pc
    BY <2>1, <2>3, <2>5 DEF Dismissed, SomeoneLeft, Ending
  <2> QED BY <2>2, <2>4, <2>5
<1>11. ASSUME Rejected PROVE Goal
  <2>1. Head(micro).kind = "catch" /\ queue' = (IF ShouldStop THEN <<>> ELSE queue)
    BY <1>1, <1>11, RejectedStep
  <2>2. PICK u, rest : /\ u.kind = "finally" /\ Replaces(u, rest)
                       /\ \/ ShutEffect(queue', rest) /\ closed' = TRUE
                          \/ /\ Todo(micro') = Todo(rest) /\ closed' = closed /\ pc' = pc
                             /\ ~ShouldStop
    BY <1>1, <1>11, RejectedStep
  <2>3. \A t : t.kind = "start" => (t \in Todo(rest) <=> t \in Todo(micro))
    BY <2>1, <2>2 DEF Replaces
  <2>4. CASE ShutEffect(queue', rest) /\ closed' = TRUE
    <3>1. queue = <<>> => queue' = <<>>
      BY <2>1
    <3> QED BY <2>3, <2>4, <3>1, ShutDismisses
  <2>5. CASE Todo(micro') = Todo(rest) /\ closed' = closed /\ pc' = pc /\ queue' = queue
    BY <2>3, <2>5 DEF Dismissed, SomeoneLeft, Ending
  <2> QED BY <2>1, <2>2, <2>4, <2>5
<1>12. ASSUME PassesOn PROVE Goal
  <2>1. PICK u : Replaces(u, micro') /\ u.kind \in {"catch", "finally"}
    BY <1>1, <1>12, PassesOnStep
  <2>2. pc' = pc /\ UNCHANGED <<queue, closed>>
    BY <1>12 DEF PassesOn, pool
  <2> QED BY <2>1, <2>2 DEF Dismissed, SomeoneLeft, Ending, Replaces
<1>13. ASSUME Finally PROVE Goal
  <2>1. PICK rest : /\ Todo(rest) = Todo(micro) \ {Head(micro)}
                    /\ \/ GetEffect(Head(micro).w, rest)
                       \/ /\ Todo(micro') = Todo(rest) /\ queue' = queue
                          /\ pc' = [pc EXCEPT ![Head(micro).w] = "pausing"]
    BY <1>1, <1>13, FinallyStep
  <2>2. Head(micro).kind = "finally" /\ Head(micro).w \in Workers /\ closed' = closed
    BY <1>1, <1>13, FinallyStep DEF Finally
  <2>3. \A t : t.kind = "start" => (t \in Todo(rest) <=> t \in Todo(micro))
    BY <2>1, <2>2
  <2>4. CASE GetEffect(Head(micro).w, rest)
    BY <2>2, <2>3, <2>4, GetDismisses
  <2>5. CASE /\ Todo(micro') = Todo(rest) /\ queue' = queue
             /\ pc' = [pc EXCEPT ![Head(micro).w] = "pausing"]
    <3>1. SomeoneLeft' => SomeoneLeft
      BY <2>5 DEF SomeoneLeft, Shape, Fields
    <3> QED BY <2>2, <2>3, <2>5, <3>1 DEF Dismissed, Ending
  <2> QED BY <2>1, <2>4, <2>5
<1> HIDE DEF Goal
<1>14. Goal
  BY <1>2, <1>3, <1>4, <1>5, <1>6, <1>7, <1>8, <1>9, <1>10, <1>11, <1>12, <1>13
     DEF Next, Microtask
<1> QED BY <1>14 DEF Goal

\* Once all have left nothing moves, and the last one to leave is the last.
LEMMA EndingStep ==
    ASSUME Shape, Counts, Ending, [Next]_vars
    PROVE  Ending'
<1>1. CASE UNCHANGED vars
  BY <1>1 DEF vars, pool, Ending, Dismissed, SomeoneLeft, AllLeft
<1>2. ASSUME Next, ~Leaves
      PROVE  (done' # "no" => AllLeft') /\ (done' = "finished" => ~halted')
  <2>1. done' = done
    BY <1>2 DEF Next, Microtask, Run, UserCloses, Outside, UserPushes, UserPushesLater,
                PushTimerFires, DelayOver, JobEnds, JobResumes, Starts, Works, Fulfilled,
                Rejected, PassesOn, Finally, pool
  <2>2. CASE ~AllLeft
    BY <2>1, <2>2 DEF Ending
  <2>3. CASE AllLeft
    <3>1. \A w \in Workers : pc[w] = "exited"
      BY <2>3 DEF AllLeft
    <3>2. InFlight = {} /\ Sent = {}
      BY <3>1, BusyStages DEF InFlight, Sent, Flies, IsSent, Shape
    <3>3. Flow \/ UNCHANGED vars
      BY <1>2, FlowHolds
    <3>4. halted' = halted
      BY <3>2, <3>3 DEF Flow, Steady, Begins, Ends, vars, pool
    <3>5. AllLeft'
      <4>1. 1 \in Workers
        BY DEF Workers
      <4>2. \A w \in Workers : pc'[w] = "exited"
        BY <3>1, <3>3, <4>1 DEF Flow, Stays, Parts, Arrives, NobodyLeaves, vars
      <4> QED BY <4>2 DEF AllLeft
    <3>6. done = "finished" => ~halted
      BY DEF Ending
    <3> QED BY ONLY <2>1, <3>4, <3>5, <3>6
  <2> QED BY <2>2, <2>3
<1>3. ASSUME Leaves, delayed' = delayed
      PROVE  (done' # "no" => AllLeft') /\ (done' = "finished" => ~halted')
  <2> DEFINE w == Head(micro).w
  <2>1. w \in Workers /\ pc[w] = "handed" /\ pc' = [pc EXCEPT ![w] = "exited"]
    BY <1>3, LeavesStep
  <2>2. /\ halted' = halted
        /\ done' = IF done = "no" /\ workerCount = 1
                   THEN (IF halted THEN "halted" ELSE "finished") ELSE done
    BY <1>3 DEF Leaves, LastLeaves
  <2> HIDE DEF w
  <2>3. done = "no"
    BY <2>1 DEF Ending, AllLeft
  <2>4. CASE workerCount # 1
    BY <2>2, <2>3, <2>4
  <2>5. CASE workerCount = 1
    <3>1. Staying \subseteq Workers /\ w \in Staying /\ Cardinality(Staying) = 1
      BY <2>1, <2>5 DEF Staying, Counts, Unstarted
    <3>2. IsFiniteSet(Staying \ {w}) /\ Cardinality(Staying \ {w}) = 0
      <4>1. Staying \ {w} \subseteq Workers
        BY <3>1
      <4> QED BY <3>1, <4>1, FiniteWorkers
    <3>3. Staying \ {w} = {}
      BY <3>2, FS_EmptySet
    <3>4. \A v \in Workers : pc'[v] = "exited"
      BY <2>1, <3>3 DEF Staying, Shape, Fields
    <3>5. AllLeft'
      BY <3>4 DEF AllLeft
    <3>6. CASE halted
      BY <2>2, <2>3, <2>5, <3>5, <3>6
    <3>7. CASE ~halted
      BY <2>2, <3>5, <3>7
    <3> QED BY <3>6, <3>7
  <2> QED BY <2>4, <2>5
<1>4. CASE Next
  <2>1. (done' # "no" => AllLeft') /\ (done' = "finished" => ~halted')
    BY <1>2, <1>3, <1>4 DEF Next
  <2> QED BY <1>4, <2>1, FirstPart DEF Ending
<1> QED BY <1>1, <1>4

LEMMA EndingInit == Init => Ending
<1> SUFFICES ASSUME Init PROVE Ending
  OBVIOUS
<1>1. Todo(micro) = {} /\ \A w \in Workers : pc[w] = "new"
  BY DEF Init, Todo
<1> QED BY <1>1 DEF Init, Ending, Dismissed, SomeoneLeft

\* No job runs twice, and when run() resolves all workers have left, nothing
\* is queued or in flight, and unless the pool halted every accepted job ran.
THEOREM ResolvedIsComplete == Spec => []DoneIsComplete
<1>1. Shape /\ Counts /\ Once /\ Ending => DoneIsComplete
  <2> SUFFICES ASSUME Shape, Counts, Once, Ending PROVE DoneIsComplete
    OBVIOUS
  <2>1. \A j \in Jobs : runs[j] <= 1
    BY DEF Once, Singles
  <2>2. ASSUME done # "no"
        PROVE  /\ \A w \in Workers : pc[w] = "exited"
               /\ queue = <<>> /\ activeCount = 0
               /\ (done = "finished" => \A j \in accepted : runs[j] = 1)
    <3>1. 1 \in Workers /\ \A w \in Workers : pc[w] = "exited"
      BY <2>2 DEF Workers, Ending, AllLeft
    <3>2. queue = <<>>
      BY <3>1 DEF Ending, SomeoneLeft
    <3>3. InFlight = {} /\ Sends = {}
      BY <3>1, BusyStages DEF InFlight, Flies, Sends, Shape
    <3>4. activeCount = 0
      BY <3>3, FS_EmptySet DEF Counts
    <3>5. done = "finished" => \A j \in accepted : runs[j] = 1
      BY <3>2, <3>3 DEF Ending, Once, Singles
    <3> QED BY <3>1, <3>2, <3>4, <3>5
  <2> QED BY <2>1, <2>2 DEF DoneIsComplete
<1>2. ASSUME Shape, Counts, Once, Ending, [Next]_vars PROVE (Once /\ Ending)'
  BY <1>2, OnceStep, EndingStep
<1>3. Init => Once /\ Ending
  BY OnceInit, EndingInit
<1> QED BY <1>1, <1>2, <1>3, ShapeHolds, PTL DEF Spec

-----------------------------------------------------------------------------
(* Refinement.  With a pause between jobs, a job on its way to a worker is  *)
(* overtaken only by tasks of jobs that are in flight longer than itself:   *)
(* whoever pushed it settles behind it.  So when the last job in flight     *)
(* settles with an empty queue, nothing is on its way.                      *)

IsSend(t) == t.kind = "start" /\ t.job # NoJob

\* Nothing but starts is ahead, or a job works, or will settle later.
Covered(m, i) ==
    \/ \A k \in 1..Len(m) : k < i => m[k].kind = "start"
    \/ m[1].kind = "work"
    \/ \E k \in 1..Len(m) : k > i /\ (Flying(m[k]) \/ m[k].kind = "work")

Guarded(m) == \A i \in 1..Len(m) : IsSend(m[i]) => Covered(m, i)

Behind == delayed => Guarded(micro)

LEMMA GuardedWork ==
    ASSUME NEW m, m[1].kind = "work"
    PROVE  Guarded(m)
BY DEF Guarded, Covered

LEMMA GuardedStarts ==
    ASSUME NEW m, \A i \in 1..Len(m) : m[i].kind = "start"
    PROVE  Guarded(m)
BY DEF Guarded, Covered

LEMMA GuardedNoSend ==
    ASSUME NEW m, \A i \in 1..Len(m) : ~IsSend(m[i])
    PROVE  Guarded(m)
BY DEF Guarded

\* The first task is done, and is not a job's that goes on.
LEMMA GuardedTail ==
    ASSUME NEW m \in Seq(Tasks), m # <<>>, Guarded(m), Head(m).kind # "work"
    PROVE  Guarded(Tail(m))
<1> DEFINE n == Tail(m)
<1>1. /\ Len(m) \in Nat \ {0} /\ Head(m) = m[1] /\ Len(n) = Len(m) - 1
      /\ \A i \in 1..Len(n) : i + 1 \in 1..Len(m) /\ n[i] = m[i + 1]
  OBVIOUS
<1> HIDE DEF n
<1> SUFFICES ASSUME NEW i \in 1..Len(n), IsSend(n[i]) PROVE Covered(n, i)
  BY DEF Guarded, n
<1>2. Covered(m, i + 1)
  BY <1>1 DEF Guarded
<1>3. CASE \A k \in 1..Len(m) : k < i + 1 => m[k].kind = "start"
  <2>1. \A k \in 1..Len(n) : k < i => n[k].kind = "start"
    BY <1>1, <1>3
  <2> QED BY <2>1 DEF Covered
<1>4. CASE \E k \in 1..Len(m) : k > i + 1 /\ (Flying(m[k]) \/ m[k].kind = "work")
  <2>1. PICK k \in 1..Len(m) : k > i + 1 /\ (Flying(m[k]) \/ m[k].kind = "work")
    BY <1>4
  <2>2. k - 1 \in 1..Len(n) /\ k - 1 > i /\ (k - 1) + 1 = k
    BY <1>1, <2>1
  <2>3. n[k - 1] = m[k]
    BY <1>1, <2>2
  <2> QED BY <2>1, <2>2, <2>3 DEF Covered
<1> QED BY <1>1, <1>2, <1>3, <1>4 DEF Covered

\* What is added behind does not matter, unless it is sent.
LEMMA GuardedMore ==
    ASSUME NEW m \in Seq(Tasks), NEW s \in Seq(Tasks), Guarded(m),
           \A i \in 1..Len(s) : ~IsSend(s[i])
    PROVE  Guarded(m \o s)
<1> DEFINE n == m \o s
<1>1. /\ Len(m) \in Nat /\ Len(s) \in Nat /\ Len(n) = Len(m) + Len(s)
      /\ \A i \in 1..Len(m) : i \in 1..Len(n) /\ n[i] = m[i]
      /\ \A i \in 1..Len(n) : i \notin 1..Len(m) => i - Len(m) \in 1..Len(s) /\ n[i] = s[i - Len(m)]
  <2>1. Len(m) \in Nat /\ Len(s) \in Nat
    OBVIOUS
  <2>2. /\ Len(n) = Len(m) + Len(s)
        /\ \A i \in 1..(Len(m) + Len(s)) : n[i] = IF i <= Len(m) THEN m[i] ELSE s[i - Len(m)]
    BY ONLY m \in Seq(Tasks), s \in Seq(Tasks), ConcatProperties
  <2> HIDE DEF n
  <2> QED BY <2>1, <2>2
<1> HIDE DEF n
<1> SUFFICES ASSUME NEW i \in 1..Len(n), IsSend(n[i]) PROVE Covered(n, i)
  BY DEF Guarded, n
<1>2. i \in 1..Len(m) /\ n[i] = m[i]
  BY <1>1
<1>3. Covered(m, i) /\ 1 \in 1..Len(m)
  BY <1>1, <1>2 DEF Guarded
<1>4. CASE \A k \in 1..Len(m) : k < i => m[k].kind = "start"
  <2>1. \A k \in 1..Len(n) : k < i => k \in 1..Len(m)
    BY <1>1, <1>2
  <2> QED BY <1>1, <1>4, <2>1 DEF Covered
<1>5. CASE m[1].kind = "work"
  BY <1>1, <1>3, <1>5 DEF Covered
<1>6. CASE \E k \in 1..Len(m) : k > i /\ (Flying(m[k]) \/ m[k].kind = "work")
  BY <1>1, <1>6 DEF Covered
<1> QED BY <1>3, <1>4, <1>5, <1>6 DEF Covered

LEMMA GuardedAppend ==
    ASSUME NEW m \in Seq(Tasks), NEW t \in Tasks, Guarded(m), ~IsSend(t)
    PROVE  Guarded(Append(m, t))
<1>1. <<t>> \in Seq(Tasks) /\ \A i \in 1..Len(<<t>>) : ~IsSend(<<t>>[i])
  OBVIOUS
<1>2. Append(m, t) = m \o <<t>>
  OBVIOUS
<1> QED BY <1>1, <1>2, GuardedMore

\* A job at work goes on: its next task is behind all that is sent.
LEMMA GuardedOn ==
    ASSUME NEW m \in Seq(Tasks), m # <<>>, NEW t \in Tasks, Flying(t) \/ t.kind = "work"
    PROVE  Guarded(Append(Tail(m), t))
<1> DEFINE n == Append(Tail(m), t)
<1>1. /\ Len(m) \in Nat \ {0} /\ Len(n) = Len(m) /\ n[Len(m)] = t
  OBVIOUS
<1> HIDE DEF n
<1>2. ASSUME NEW i \in 1..Len(n), IsSend(n[i]) PROVE Covered(n, i)
  <2>1. i # Len(m)
    BY <1>1, <1>2 DEF IsSend, Flying
  <2>2. Len(m) \in 1..Len(n) /\ Len(m) > i
    BY <1>1, <2>1
  <2> QED BY <1>1, <2>2 DEF Covered
<1> QED BY <1>2 DEF Guarded, n

LEMMA NullTasks ==
    ASSUME NEW ws \in Seq(Workers)
    PROVE  Nulls(ws) \in Seq(Tasks) /\ \A i \in 1..Len(Nulls(ws)) : ~IsSend(Nulls(ws)[i])
<1>1. \A i \in 1..Len(ws) : Start(ws[i], NoJob) \in Tasks /\ ~IsSend(Start(ws[i], NoJob))
  BY StartIsTask DEF IsSend
<1>2. Nulls(ws) \in [1..Len(ws) -> Tasks] /\ Len(ws) \in Nat
  BY <1>1 DEF Nulls
<1>3. Nulls(ws) \in Seq(Tasks)
  BY <1>2, SeqDef
<1>4. Len(Nulls(ws)) = Len(ws)
  BY <1>2, <1>3, LenProperties DEF Nulls
<1> QED BY <1>1, <1>3, <1>4 DEF Nulls

LEMMA GuardedShut ==
    ASSUME Shape, NEW q, NEW rest \in Seq(Tasks), Guarded(rest), Shut(q, rest)
    PROVE  Guarded(micro')
<1>1. CASE micro' = rest
  BY <1>1
<1>2. CASE micro' = rest \o Nulls(waiters)
  <2>1. waiters \in Seq(Workers)
    BY DEF Shape, Fields, Waits
  <2> QED BY <1>2, <2>1, NullTasks, GuardedMore
<1> QED BY <1>1, <1>2 DEF Shut, Nulls

\* The next step of a settled job's chain.
LEMMA GuardedOnward ==
    ASSUME Shape, micro # <<>>, Guarded(micro), Head(micro).kind \in {"then", "catch"},
           NEW k \in {"catch", "finally"}
    PROVE  Onward(k) \in Seq(Tasks) /\ Guarded(Onward(k))
<1> DEFINE u == [Head(micro) EXCEPT !.kind = k]
<1>1. micro \in Seq(Tasks) /\ Tail(micro) \in Seq(Tasks) /\ Guarded(Tail(micro))
  <2>1. micro \in Seq(Tasks)
    BY DEF Shape, Fits
  <2> QED BY <2>1, GuardedTail
<1>2. u \in Tasks /\ u.kind = k
  BY TakesFirst, NextTask
<1>3. Onward(k) = Append(Tail(micro), u)
  BY DEF Onward
<1> HIDE DEF u
<1>4. ~IsSend(u)
  BY <1>2 DEF IsSend
<1>5. Guarded(Append(Tail(micro), u))
  BY ONLY <1>1, <1>2, <1>4, GuardedAppend
<1>6. Append(Tail(micro), u) \in Seq(Tasks)
  BY <1>1, <1>2
<1> QED BY ONLY <1>3, <1>5, <1>6

LEMMA BehindStep ==
    ASSUME Shape, Behind, [Next]_vars
    PROVE  Behind'
<1> SUFFICES ASSUME delayed' PROVE Guarded(micro')
  BY DEF Behind, Guarded, Covered, IsSend, Flying
<1>1. delayed /\ delayed' = delayed /\ Guarded(micro) /\ micro \in Seq(Tasks)
  <2>1. delayed' = delayed
    BY DEF Next, vars
  <2>2. delayed
    BY <2>1
  <2> QED BY <2>1, <2>2 DEF Behind, Shape, Fits
<1>2. CASE micro' = micro
  BY <1>1, <1>2
<1>3. ASSUME \A t \in Todo(micro') : t.kind = "start" PROVE Guarded(micro')
  BY <1>3, GuardedStarts DEF Todo
<1>4. micro = <<>> => Todo(micro) = {}
  BY DEF Todo
<1>5. CASE Run
  BY <1>1, <1>3, <1>5, RunStep
<1>6. CASE UserCloses
  <2>1. ShutEffect(queue, micro) /\ micro = <<>>
    BY <1>1, <1>6, UserClosesFlow DEF UserCloses, Quiet
  <2> QED BY <1>3, <1>4, <2>1 DEF ShutEffect
<1>7. ASSUME NEW j \in Jobs, Outside(j) PROVE Guarded(micro')
  <2>1. CASE UserPushesLater(j)
    BY <1>2, <2>1 DEF UserPushesLater
  <2>2. CASE UserPushes(j) \/ PushTimerFires(j)
    <3>1. /\ Push(j, micro) /\ timers' \subseteq timers /\ micro = <<>>
          /\ UNCHANGED <<delayed, closed, halted, activeCount, workerCount, failureCount,
                         consecutiveFailures, done, job, closeCalled, runs>>
      BY <1>1, <2>2 DEF UserPushes, PushTimerFires, Quiet
    <3>2. Fits(micro, pc) /\ timers' \subseteq Later
      BY <3>1 DEF Shape, Types
    <3>3. PushEffect(j, micro)
      BY <3>1, <3>2, PushStep
    <3>4. \A w \in Workers : Start(w, j).kind = "start"
      BY StartIsTask
    <3> QED BY <1>3, <1>4, <3>1, <3>3, <3>4 DEF PushEffect
  <2> QED BY <1>7, <2>1, <2>2 DEF Outside
<1>8. ASSUME NEW w \in Workers, DelayOver(w) PROVE Guarded(micro')
  <2>1. GetEffect(w, micro) /\ micro = <<>>
    BY <1>1, <1>8, DelayOverFlow DEF DelayOver, Quiet
  <2>2. \A j : j \in Jobs \cup {NoJob} => Start(w, j).kind = "start"
    BY StartIsTask
  <2>3. queue # <<>> => Head(queue) \in Jobs
    BY DEF Shape, Fields
  <2> QED BY <1>3, <1>4, <2>1, <2>2, <2>3 DEF GetEffect
<1>9. ASSUME NEW w \in Workers, JobEnds(w) PROVE Guarded(micro')
  <2>1. PICK ok \in BOOLEAN, h \in 0..MaxHops : JobResumes(w, ok, h)
    BY <1>9 DEF JobEnds
  <2>2. \E t \in Tasks : t.kind = "work" /\ Todo(micro') = Todo(micro) \cup {t}
    BY <1>1, <2>1, JobResumesStep
  <2>3. \A t \in Todo(micro) : t.kind = "work"
    BY <2>1 DEF JobResumes, Todo
  <2>4. \A t \in Todo(micro') : ~IsSend(t)
    BY <2>2, <2>3 DEF IsSend
  <2> QED BY <2>4, GuardedNoSend DEF Todo
<1>10. CASE Starts \/ Leaves \/ Finally
  <2>1. micro # <<>> /\ Head(micro).kind # "work" /\ micro' = Tail(micro)
    BY <1>1, <1>10 DEF Starts, Leaves, Finally, Task
  <2> QED BY <1>1, <2>1, GuardedTail
<1>11. CASE Works
  <2> DEFINE t == Head(micro)
  <2>1. micro # <<>> /\ t.kind = "work" /\ t \in Tasks /\ micro[1] = t
    BY <1>1, <1>11, TakesFirst DEF Works, Task
  <2>2. CASE \E u \in Tasks : /\ u.kind \in {"work", "then"}
                              /\ micro' = Append(Tail(micro), u)
    BY <1>1, <2>1, <2>2, GuardedOn DEF Flying
  <2>3. CASE t.hops > 0
    <3>1. [t EXCEPT !.hops = @ - 1] \in Tasks /\ [t EXCEPT !.hops = @ - 1].kind = "work"
      BY <2>1, <2>3, NextTask
    <3>2. micro' = Append(Tail(micro), [t EXCEPT !.hops = @ - 1])
      BY <1>11, <2>3 DEF Works
    <3> QED BY <2>2, <3>1, <3>2
  <2>4. CASE ~(t.hops > 0) /\ ~(t.ok /\ t.at <= Len(Children[job[t.w]]))
    <3>1. [kind |-> "then", w |-> t.w, ok |-> t.ok] \in Tasks
      BY <2>1, NextTask
    <3>2. micro' = Append(Tail(micro), [kind |-> "then", w |-> t.w, ok |-> t.ok])
      BY <1>11, <2>4 DEF Works
    <3> QED BY <2>2, <3>1, <3>2
  <2>5. CASE ~(t.hops > 0) /\ t.ok /\ t.at <= Len(Children[job[t.w]])
    <3> DEFINE rest == [micro EXCEPT ![1].at = @ + 1]
               j == Children[job[t.w]][t.at]
    <3>1. Push(j, rest)
      BY <1>11, <2>5 DEF Works
    <3>2. /\ [t EXCEPT !.at = @ + 1] \in Tasks /\ [t EXCEPT !.at = @ + 1].kind = "work"
      BY <2>1, NextTask
    <3>3. rest = [micro EXCEPT ![1] = [micro[1] EXCEPT !.at = @ + 1]]
      OBVIOUS
    <3>4. rest = [micro EXCEPT ![1] = [t EXCEPT !.at = @ + 1]]
      BY ONLY <2>1, <3>3
    <3>5. rest \in Seq(Tasks) /\ rest # <<>> /\ rest[1].kind = "work"
      BY <1>1, <2>1, <3>2, <3>4
    <3> HIDE DEF rest, j
    <3>6. micro' = rest \/ micro' = Append(rest, Start(Head(waiters), j))
      BY <3>1 DEF Push
    <3>7. micro'[1].kind = "work"
      <4>1. Len(rest) \in Nat \ {0}
        BY <3>5
      <4>2. \A x : Append(rest, x)[1] = rest[1]
        BY <3>5, <4>1
      <4> QED BY <3>5, <3>6, <4>2
    <3> QED BY <3>7, GuardedWork
  <2> QED BY <2>3, <2>4, <2>5
<1>12. CASE Fulfilled \/ Rejected \/ PassesOn
  <2>1. PICK k \in {"catch", "finally"} : \/ micro' = Onward(k)
                                          \/ \E q : Shut(q, Onward(k))
    BY <1>12 DEF Fulfilled, Rejected, PassesOn
  <2>2. micro # <<>> /\ Head(micro).kind \in {"then", "catch"}
    BY <1>12 DEF Fulfilled, Rejected, PassesOn, Task
  <2>3. Onward(k) \in Seq(Tasks) /\ Guarded(Onward(k))
    BY <1>1, <2>2, GuardedOnward
  <2> QED BY <2>1, <2>3, GuardedShut
<1> QED BY <1>2, <1>5, <1>6, <1>7, <1>8, <1>9, <1>10, <1>11, <1>12 DEF Next, Microtask, vars

\* The last job in flight settles: nothing is on its way.
LEMMA NothingOnItsWay ==
    ASSUME Shape, Behind, delayed, micro # <<>>, Flying(Head(micro)), InFlight = {Head(micro).w}
    PROVE  Sends = {}
<1> SUFFICES ASSUME NEW t \in Sends PROVE FALSE
  OBVIOUS
<1>1. micro \in Seq(Tasks) /\ Len(micro) \in Nat \ {0} /\ Head(micro) = micro[1]
  BY DEF Shape, Fits
<1>2. PICK i \in 1..Len(micro) : IsSend(micro[i])
  BY DEF Sends, IsSend, Todo
<1>3. micro[1].kind \in {"then", "catch"} /\ 1 \in 1..Len(micro)
  BY <1>1 DEF Flying
<1>4. i # 1 /\ 1 < i
  BY <1>1, <1>2, <1>3 DEF IsSend
<1>5. Covered(micro, i)
  BY <1>2 DEF Behind, Guarded
<1>6. PICK k \in 1..Len(micro) : k > i /\ (Flying(micro[k]) \/ micro[k].kind = "work")
  BY <1>3, <1>4, <1>5 DEF Covered
<1>7. micro[k] \in Todo(micro) /\ Fits(micro, pc)
  BY DEF Todo, Shape
<1>8. micro[k].w \in Workers /\ (micro[k].kind = "work" => pc[micro[k].w] = "running")
  BY <1>7, BusyStages DEF Fits, Agrees
<1>9. micro[k].w \in InFlight
  BY <1>6, <1>7, <1>8 DEF InFlight, Flies
<1>10. micro[k].w = micro[1].w
  BY <1>1, <1>9
<1>11. k = 1
  BY <1>3, <1>7, <1>10 DEF Fits
<1> QED BY <1>4, <1>6, <1>11

\* Workers in flight have a job each.
Distinct ==
    \A v \in InFlight : /\ job[v] \in Jobs /\ runs[job[v]] = 1
                        /\ \A w \in InFlight : job[w] = job[v] => w = v

LEMMA DistinctStep ==
    ASSUME Shape, Counts, Once, Distinct, [Next]_vars
    PROVE  Distinct'
<1>1. CASE UNCHANGED vars
  BY <1>1 DEF vars, pool, Distinct, InFlight, Flies, Flying
<1>2. ASSUME Next, ~Starts PROVE Distinct'
  <2>1. UNCHANGED <<job, runs>> /\ activeCount' \in {activeCount, activeCount - 1}
    BY <1>2 DEF Next, Microtask, Run, UserCloses, Outside, UserPushes, UserPushesLater,
                PushTimerFires, DelayOver, JobEnds, JobResumes, Leaves, Works, Fulfilled,
                Rejected, PassesOn, Finally, OneLess, pool
  <2>2. activeCount \in Nat
    <3>1. InFlight \subseteq Workers
      BY DEF InFlight
    <3> QED BY <3>1, FiniteWorkers DEF Counts
  <2>3. ~Begins
    BY <2>1, <2>2 DEF Begins
  <2>4. Flow \/ UNCHANGED vars
    BY <1>2, FlowHolds
  <2>5. InFlight' \subseteq InFlight
    BY <1>1, <2>3, <2>4 DEF Flow, Steady, Ends, vars, pool, InFlight, Flies, Flying
  <2> QED BY <2>1, <2>5 DEF Distinct
<1>3. ASSUME Starts, delayed' = delayed PROVE Distinct'
  <2> DEFINE t == Head(micro)
  <2>1. /\ t \in Todo(micro) /\ t.kind = "start" /\ t.job \in Jobs /\ t.w \in Workers
        /\ pc' = [pc EXCEPT ![t.w] = "running"] /\ job' = [job EXCEPT ![t.w] = t.job]
        /\ runs' = [runs EXCEPT ![t.job] = @ + 1]
        /\ Todo(micro') = Todo(micro) \ {t}
    BY <1>3, StartsStep
  <2> HIDE DEF t
  <2>2. t \in Sends
    BY <2>1 DEF Sends
  <2>3. runs[t.job] = 0 /\ runs \in [Jobs -> Nat] /\ job \in [Workers -> Jobs \cup {NoJob}]
    BY <2>2 DEF Once, Singles, Shape, Types
  <2>4. job'[t.w] = t.job /\ \A v \in Workers : v # t.w => job'[v] = job[v]
    BY <2>1, <2>3
  <2>5. runs'[t.job] = 1 /\ \A j \in Jobs : j # t.job => runs'[j] = runs[j]
    BY <2>1, <2>3
  <2>6. \A v \in InFlight : job[v] # t.job
    BY <2>3 DEF Distinct
  <2>7. \A v \in InFlight' : v \in Workers /\ (v = t.w \/ v \in InFlight)
    <3> TAKE v \in InFlight'
    <3>1. v \in Workers /\ (pc'[v] = "running" \/ \E x \in Todo(micro') : Flying(x) /\ x.w = v)
      BY DEF InFlight, Flies, Flying
    <3>2. v # t.w => pc'[v] = pc[v]
      BY <2>1, <3>1 DEF Shape, Fields
    <3> QED BY <2>1, <3>1, <3>2 DEF InFlight, Flies
  <2> QED BY <2>1, <2>4, <2>5, <2>6, <2>7 DEF Distinct
<1>4. CASE Next
  BY <1>2, <1>3, <1>4 DEF Next
<1> QED BY <1>1, <1>4

-----------------------------------------------------------------------------
(* The abstract pool, in the terms of the invariants.                       *)

IsPending(j) == (\E i \in 1..Len(queue) : queue[i] = j) \/ \E t \in Sends : t.job = j
Pending == {j \in Jobs : IsPending(j)}
Running == {job[w] : w \in InFlight}
State == IF done # "no" THEN "done"
         ELSE IF halted THEN "halted" ELSE IF closed THEN "shut" ELSE "open"

LEMMA PoolMap ==
    ASSUME Shape, Shape'
    PROVE  /\ {j \in Jobs : Waiting(j)} = Pending /\ {j \in Jobs : Waiting(j)}' = Pending'
           /\ {job[w] : w \in {v \in Workers : Counted(v)}} = Running
           /\ {job[w] : w \in {v \in Workers : Counted(v)}}' = Running'
<1>1. \A j \in Jobs : Waiting(j) <=> IsPending(j)
  BY DEF Waiting, IsPending, Sends, Todo
<1>2. \A j \in Jobs : Waiting(j)' <=> IsPending(j)'
  BY DEF Waiting, IsPending, Sends, Todo
<1>3. \A w \in Workers : Counted(w) <=> Flies(w)
  BY DEF Counted, Flies, Flying, Todo
<1>4. \A w \in Workers : Counted(w)' <=> Flies(w)'
  BY DEF Counted, Flies, Flying, Todo
<1>5. {j \in Jobs : Waiting(j)} = Pending /\ {j \in Jobs : Waiting(j)'} = Pending'
  BY <1>1, <1>2 DEF Pending
<1>6. {v \in Workers : Counted(v)} = InFlight /\ {v \in Workers : Counted(v)'} = InFlight'
  BY <1>3, <1>4 DEF InFlight
<1> QED BY <1>5, <1>6 DEF Running

\* The steps of the abstract pool.
Quietens == UNCHANGED <<Pending, Running, State>>
Accepts(j) == State = "open" /\ Pending' = Pending \cup {j} /\ UNCHANGED <<Running, State>>
Shuts == State = "open" /\ State' = "shut" /\ UNCHANGED <<Pending, Running>>
Begin(j) ==
    /\ j \in Pending /\ Cardinality(Running) < NumWorkers
    /\ Pending' = Pending \ {j} /\ Running' = Running \cup {j} /\ State' = State
Settles(j) ==
    /\ j \in Running /\ Pending' = Pending /\ Running' = Running \ {j}
    /\ State' = IF State = "open" /\ Pending = {} /\ Running = {j} THEN "shut" ELSE State
Halts(j) ==
    /\ j \in Running /\ Pending' \subseteq Pending /\ Running' = Running \ {j}
    /\ State' = "halted"
Finishes ==
    /\ State \in {"shut", "halted"} /\ Pending = {} /\ Running = {}
    /\ State' = "done" /\ UNCHANGED <<Pending, Running>>

Moves ==
    \/ Shuts \/ Finishes
    \/ \E j \in Jobs : Accepts(j) \/ Begin(j) \/ Settles(j) \/ Halts(j)

LEMMA PoolSteps ==
    ASSUME Shape, Shape', Moves
    PROVE  JP!PoolNext
<1>1. ASSUME NEW j \in Jobs, Accepts(j) PROVE JP!PoolNext
  <2>1. JP!AcceptAll({j}) /\ UNCHANGED <<{job[w] : w \in {v \in Workers : Counted(v)}}, State>>
    BY <1>1, PoolMap DEF Accepts, JP!AcceptAll, State
  <2> QED BY <2>1 DEF JP!PoolNext, State
<1>2. CASE Shuts
  <2>1. JP!Close
    BY <1>2, PoolMap DEF Shuts, JP!Close, State
  <2> QED BY <2>1 DEF JP!PoolNext
<1>3. ASSUME NEW j \in Jobs, Begin(j) PROVE JP!PoolNext
  <2>1. /\ j \in {k \in Jobs : Waiting(k)}
        /\ Cardinality({job[w] : w \in {v \in Workers : Counted(v)}}) < NumWorkers
    BY <1>3, PoolMap DEF Begin
  <2>2. /\ {k \in Jobs : Waiting(k)}' = {k \in Jobs : Waiting(k)} \ {j}
        /\ {job[w] : w \in {v \in Workers : Counted(v)}}'
             = {job[w] : w \in {v \in Workers : Counted(v)}} \cup {j}
    BY <1>3, PoolMap DEF Begin
  <2>3. State' = State
    BY <1>3 DEF Begin
  <2>4. \A S : JP!Cardinality(S) = Cardinality(S)
    BY DEF JP!Cardinality, Cardinality, JP!IsFiniteSet, IsFiniteSet
  <2>5. JP!Start(j)
    BY ONLY <2>1, <2>2, <2>3, <2>4 DEF JP!Start, State
  <2> QED BY <2>5 DEF JP!PoolNext
<1>4. ASSUME NEW j \in Jobs, Settles(j) PROVE JP!PoolNext
  <2>1. JP!Settle(j, {})
    BY <1>4, PoolMap DEF Settles, JP!Settle, JP!AcceptAll, JP!IdleAfter, State
  <2> QED BY <2>1 DEF JP!PoolNext
<1>5. ASSUME NEW j \in Jobs, Halts(j) PROVE JP!PoolNext
  <2>1. JP!Halt(j)
    BY <1>5, PoolMap DEF Halts, JP!Halt, State
  <2> QED BY <2>1 DEF JP!PoolNext
<1>6. CASE Finishes
  <2>1. JP!Finish
    BY <1>6, PoolMap DEF Finishes, JP!Finish, State
  <2> QED BY <2>1 DEF JP!PoolNext
<1> QED BY <1>1, <1>2, <1>3, <1>4, <1>5, <1>6 DEF Moves

LEMMA PoolStutters ==
    ASSUME Shape, Shape', Quietens
    PROVE  UNCHANGED JP!poolVars
BY PoolMap DEF Quietens, JP!poolVars, State

\* What the pool's methods do to the jobs that wait.
LEMMA SamePending ==
    ASSUME \A j \in Jobs : IsPending(j)' <=> IsPending(j)
    PROVE  Pending' = Pending
BY DEF Pending

LEMMA SameSends ==
    ASSUME Sends' = Sends, queue' = queue
    PROVE  Pending' = Pending
BY DEF Pending, IsPending

LEMMA PushPends ==
    ASSUME Shape, NEW j \in Jobs, NEW rest, PushEffect(j, rest),
           \A t : t.kind = "start" => (t \in Todo(rest) <=> t \in Todo(micro))
    PROVE  Pending' = IF closed THEN Pending ELSE Pending \cup {j}
<1>1. queue \in Seq(Jobs) /\ Len(queue) \in Nat
  BY DEF Shape, Fields
<1>2. CASE closed /\ Todo(micro') = Todo(rest) /\ queue' = queue
  <2>1. Sends' = Sends
    BY <1>2 DEF Sends
  <2> QED BY <1>2, <2>1, SameSends
<1>3. CASE /\ ~closed /\ queue' = queue
           /\ \E w \in Workers : Todo(micro') = Todo(rest) \cup {Start(w, j)}
  <2>1. PICK w \in Workers : Todo(micro') = Todo(rest) \cup {Start(w, j)}
    BY <1>3
  <2>2. Start(w, j).kind = "start" /\ Start(w, j).job = j /\ j # NoJob
    BY StartIsTask
  <2>3. Sends' = Sends \cup {Start(w, j)}
    BY <2>1, <2>2 DEF Sends
  <2>4. \A h \in Jobs : IsPending(h)' <=> (IsPending(h) \/ h = j)
    BY <1>3, <2>2, <2>3 DEF IsPending
  <2> QED BY <1>3, <2>4 DEF Pending
<1>4. CASE ~closed /\ queue' = Append(queue, j) /\ Todo(micro') = Todo(rest)
  <2>1. Sends' = Sends
    BY <1>4 DEF Sends
  <2>2. /\ Len(queue') = Len(queue) + 1 /\ queue'[Len(queue) + 1] = j
        /\ \A i \in 1..Len(queue) : i \in 1..Len(queue') /\ queue'[i] = queue[i]
        /\ \A i \in 1..Len(queue') : i \in 1..Len(queue) \/ i = Len(queue) + 1
        /\ Len(queue) + 1 \in 1..Len(queue')
    BY <1>1, <1>4
  <2>3. \A h \in Jobs : IsPending(h)' <=> (IsPending(h) \/ h = j)
    BY <2>1, <2>2 DEF IsPending
  <2> QED BY <1>4, <2>3 DEF Pending
<1> QED BY <1>2, <1>3, <1>4 DEF PushEffect

LEMMA GetPends ==
    ASSUME Shape, NEW w \in Workers, NEW rest, GetEffect(w, rest),
           \A t : t.kind = "start" => (t \in Todo(rest) <=> t \in Todo(micro))
    PROVE  Pending' = Pending
<1>1. queue \in Seq(Jobs) /\ Len(queue) \in Nat
  BY DEF Shape, Fields
<1>2. CASE /\ queue # <<>> /\ queue' = Tail(queue)
           /\ Todo(micro') = Todo(rest) \cup {Start(w, Head(queue))}
  <2> DEFINE j == Head(queue)
  <2>1. /\ j = queue[1] /\ 1 \in 1..Len(queue) /\ j \in Jobs /\ j # NoJob
        /\ \A i \in 1..Len(queue') : i + 1 \in 1..Len(queue) /\ queue'[i] = queue[i + 1]
        /\ \A i \in 1..Len(queue) : i # 1 => /\ i - 1 \in 1..Len(queue')
                                             /\ queue'[i - 1] = queue[i]
    BY <1>1, <1>2
  <2> HIDE DEF j
  <2>2. Start(w, j).kind = "start" /\ Start(w, j).job = j
    BY <2>1, StartIsTask
  <2>3. Sends' = Sends \cup {Start(w, j)}
    BY <1>2, <2>1, <2>2 DEF Sends, j
  <2>4. \A h \in Jobs : IsPending(h)' <=> IsPending(h)
    <3> TAKE h \in Jobs
    <3>1. CASE h = j
      BY <2>1, <2>2, <2>3, <3>1 DEF IsPending
    <3>2. CASE h # j
      <4>1. (\E i \in 1..Len(queue') : queue'[i] = h) <=> (\E i \in 1..Len(queue) : queue[i] = h)
        BY <2>1, <3>2
      <4>2. (\E t \in Sends' : t.job = h) <=> (\E t \in Sends : t.job = h)
        BY <2>2, <2>3, <3>2
      <4> QED BY <4>1, <4>2 DEF IsPending
    <3> QED BY <3>1, <3>2
  <2> QED BY <2>4, SamePending
<1>3. CASE /\ queue' = queue
           /\ Todo(micro') = Todo(rest) \/ Todo(micro') = Todo(rest) \cup {Start(w, NoJob)}
  <2>1. Start(w, NoJob).job = NoJob
    BY StartIsTask
  <2>2. Sends' = Sends
    BY <1>3, <2>1 DEF Sends
  <2> QED BY <1>3, <2>2, SameSends
<1> QED BY <1>2, <1>3 DEF GetEffect

LEMMA RunPends ==
    ASSUME Shape, Run, delayed' = delayed
    PROVE  Pending' = Pending
<1>1. /\ micro = <<>> /\ First \in 0..Len(queue) /\ Len(queue') = Len(queue) - First
      /\ \A i \in 1..Len(queue') : queue'[i] = queue[First + i]
      /\ \A t \in Todo(micro') : /\ t.kind = "start"
                                 /\ t.job # NoJob => t.w \in 1..First /\ t.job = queue[t.w]
      /\ \A i \in 1..First : \E t \in Todo(micro') : t.kind = "start" /\ t.job = queue[i]
  BY RunStep
<1>2. queue \in Seq(Jobs) /\ Len(queue) \in Nat
  BY DEF Shape, Fields
<1>3. Sends = {}
  BY <1>1 DEF Sends, Todo
<1>4. \A t \in Sends' : t \in Todo(micro') /\ t.w \in 1..Len(queue) /\ t.job = queue[t.w]
  BY <1>1, <1>2 DEF Sends
<1>5. \A i \in 1..Len(queue') : First + i \in 1..Len(queue)
  BY <1>1, <1>2
<1>6. ASSUME NEW j \in Jobs, IsPending(j)' PROVE IsPending(j)
  BY <1>1, <1>4, <1>5, <1>6 DEF IsPending
<1>7. ASSUME NEW j \in Jobs, IsPending(j) PROVE IsPending(j)'
  <2>1. PICK i \in 1..Len(queue) : queue[i] = j
    BY <1>3, <1>7 DEF IsPending
  <2>2. CASE i \in 1..First
    <3>1. PICK t \in Todo(micro') : t.kind = "start" /\ t.job = queue[i]
      BY <1>1, <2>2
    <3>2. t \in Sends' /\ t.job = j
      BY <2>1, <3>1 DEF Sends
    <3> QED BY <3>2 DEF IsPending
  <2>3. CASE i \notin 1..First
    <3>1. i - First \in 1..Len(queue') /\ First + (i - First) = i
      BY <1>1, <1>2, <2>3
    <3>2. queue'[i - First] = j
      BY <1>1, <2>1, <3>1
    <3> QED BY <3>1, <3>2 DEF IsPending
  <2> QED BY <2>2, <2>3
<1> QED BY <1>6, <1>7, SamePending

-----------------------------------------------------------------------------
(* Every action, in the terms of the abstract pool.                         *)

Invariants == Shape /\ Counts /\ Failing /\ Once /\ Ending /\ Behind /\ Distinct

\* An open pool has neither halted nor ended.
LEMMA OpenPool ==
    ASSUME Failing, Ending, ~closed
    PROVE  done = "no" /\ ~halted /\ State = "open"
<1>1. ~halted
  BY DEF Failing
<1>2. done = "no"
  <2>1. 1 \in Workers
    BY DEF Workers
  <2>2. AllLeft => SomeoneLeft
    BY <2>1 DEF AllLeft, SomeoneLeft
  <2> QED BY <2>2 DEF Ending
<1> QED BY <1>1, <1>2 DEF State

LEMMA SameState ==
    ASSUME UNCHANGED <<closed, halted, done>>
    PROVE  State' = State
BY DEF State

\* Those in flight change only with activeCount.
LEMMA SameRunning ==
    ASSUME Shape, Counts, Flow, UNCHANGED <<activeCount, job>>
    PROVE  Running' = Running
<1>1. InFlight \subseteq Workers
  BY DEF InFlight
<1>2. activeCount \in Nat
  BY <1>1, FiniteWorkers DEF Counts
<1>3. ~Begins /\ ~Ends
  BY <1>2 DEF Begins, Ends
<1>4. InFlight' = InFlight
  BY <1>3 DEF Flow, Steady
<1> QED BY <1>4 DEF Running

\* A push is an accepted job, or nothing when the pool is closed.
LEMMA PushMoves ==
    ASSUME Shape, Counts, Failing, Ending, Flow, UNCHANGED <<activeCount, job, closed, halted, done>>,
           NEW j \in Jobs, NEW rest, PushEffect(j, rest),
           \A t : t.kind = "start" => (t \in Todo(rest) <=> t \in Todo(micro))
    PROVE  Quietens \/ Moves
<1>1. Running' = Running /\ State' = State
  BY SameRunning, SameState
<1>2. Pending' = IF closed THEN Pending ELSE Pending \cup {j}
  BY PushPends
<1>3. CASE closed
  BY <1>1, <1>2, <1>3 DEF Quietens
<1>4. CASE ~closed
  <2>1. State = "open"
    BY <1>4, OpenPool
  <2> QED BY <1>1, <1>2, <1>4, <2>1 DEF Moves, Accepts
<1> QED BY <1>3, <1>4

LEMMA StillMoves ==
    ASSUME Shape, Counts, Flow, UNCHANGED <<activeCount, job, closed, halted, done>>,
           Pending' = Pending
    PROVE  Quietens
BY SameRunning, SameState DEF Quietens

LEMMA OutsideMoves ==
    ASSUME Invariants, NEW j \in Jobs, Outside(j), delayed' = delayed
    PROVE  Quietens \/ Moves
<1>1. Shape /\ Counts /\ Failing /\ Ending /\ Flow
  BY PushesFlow DEF Invariants
<1>2. CASE UserPushes(j) \/ PushTimerFires(j)
  <2>1. /\ Push(j, micro)
        /\ UNCHANGED <<closed, halted, activeCount, done, job>>
    BY <1>2 DEF UserPushes, PushTimerFires
  <2>2. PushEffect(j, micro)
    BY <1>1, <2>1, PushFits DEF Shape
  <2> QED BY ONLY <1>1, <2>1, <2>2, j \in Jobs, PushMoves
<1>3. CASE UserPushesLater(j)
  <2>1. UNCHANGED <<pool, micro, job>>
    BY <1>3 DEF UserPushesLater
  <2>2. Pending' = Pending
    BY <2>1 DEF Pending, IsPending, Sends, pool
  <2>3. UNCHANGED <<activeCount, job, closed, halted, done>>
    BY <2>1 DEF pool
  <2> QED BY <1>1, <2>2, <2>3, StillMoves
<1> QED BY <1>2, <1>3 DEF Outside

LEMMA WorksMoves ==
    ASSUME Invariants, Works, delayed' = delayed
    PROVE  Quietens \/ Moves
<1> DEFINE t == Head(micro)
           j == Children[job[t.w]][t.at]
<1>1. Shape /\ Counts /\ Failing /\ Ending /\ Flow
  BY WorksFlow DEF Invariants
<1>2. UNCHANGED <<activeCount, job, closed, halted, done>>
  BY DEF Works
<1>3. t \in Todo(micro) /\ t.kind = "work" /\ t.w \in Workers /\ pc[t.w] = "running"
  BY <1>1, WorksStep
<1>4. CASE UNCHANGED queue /\ \E u : u.kind # "start" /\ Replaces(u, micro')
  <2>1. Sends' = Sends
    BY <1>3, <1>4 DEF Sends, Replaces
  <2> QED BY <1>1, <1>2, <1>4, <2>1, SameSends, StillMoves
<1>5. CASE /\ t.at \in 1..Len(Children[job[t.w]])
           /\ \E rest : \E u \in Tasks :
                 u.kind = "work" /\ Replaces(u, rest) /\ PushEffect(j, rest)
  <2>1. PICK rest, u : u.kind = "work" /\ Replaces(u, rest) /\ PushEffect(j, rest)
    BY <1>5
  <2>2. \A x : x.kind = "start" => (x \in Todo(rest) <=> x \in Todo(micro))
    BY <1>3, <2>1 DEF Replaces
  <2>3. job[t.w] \in Jobs
    BY <1>1, <1>3 DEF Shape, Types
  <2>4. Children[job[t.w]] \in Seq(Jobs)
    BY <2>3
  <2>5. j \in Jobs
    BY <1>5, <2>4
  <2> HIDE DEF j
  <2> QED BY ONLY <1>1, <1>2, <2>1, <2>2, <2>5, PushMoves
<1> QED BY <1>1, <1>4, <1>5, WorksStep

LEMMA PausesMove ==
    ASSUME Invariants, delayed' = delayed,
           Run \/ PassesOn \/ Finally \/ \E w \in Workers : DelayOver(w) \/ JobEnds(w)
    PROVE  Quietens
<1>1. Shape /\ Counts
  BY DEF Invariants
<1>2. CASE Run
  <2>1. UNCHANGED <<activeCount, job, closed, halted, done>>
    BY <1>2 DEF Run
  <2> QED BY <1>1, <1>2, <2>1, RunFlow, RunPends, StillMoves
<1>3. CASE PassesOn
  <2>1. UNCHANGED <<activeCount, job, closed, halted, done, queue>>
    BY <1>3 DEF PassesOn, pool
  <2>2. PICK u : /\ Replaces(u, micro')
                 /\ Head(micro).kind # "start" /\ u.kind # "start"
    BY <1>1, <1>3, PassesOnStep
  <2>3. Sends' = Sends
    BY <2>2 DEF Sends, Replaces
  <2> QED BY <1>1, <1>3, <2>1, <2>3, PassesOnFlow, SameSends, StillMoves
<1>4. CASE Finally
  <2>1. UNCHANGED <<activeCount, job, closed, halted, done>>
    BY <1>4 DEF Finally
  <2>2. PICK rest : /\ Todo(rest) = Todo(micro) \ {Head(micro)}
                    /\ \/ GetEffect(Head(micro).w, rest)
                       \/ Todo(micro') = Todo(rest) /\ queue' = queue
    BY <1>1, <1>4, FinallyStep
  <2>3. Head(micro).kind = "finally" /\ Head(micro).w \in Workers
    BY <1>1, <1>4, FinallyStep
  <2>4. \A x : x.kind = "start" => (x \in Todo(rest) <=> x \in Todo(micro))
    BY <2>2, <2>3
  <2>5. Pending' = Pending
    <3>1. CASE GetEffect(Head(micro).w, rest)
      BY <1>1, <2>3, <2>4, <3>1, GetPends
    <3>2. CASE Todo(micro') = Todo(rest) /\ queue' = queue
      <4>1. Sends' = Sends
        BY <2>4, <3>2 DEF Sends
      <4> QED BY <3>2, <4>1, SameSends
    <3> QED BY <2>2, <3>1, <3>2
  <2> QED BY <1>1, <1>4, <2>1, <2>5, FinallyFlow, StillMoves
<1>5. ASSUME NEW w \in Workers, DelayOver(w) PROVE Quietens
  <2>1. UNCHANGED <<activeCount, job, closed, halted, done>>
    BY <1>5 DEF DelayOver
  <2>2. Flow /\ GetEffect(w, micro)
    BY <1>1, <1>5, DelayOverFlow
  <2> QED BY <1>1, <2>1, <2>2, GetPends, StillMoves
<1>6. ASSUME NEW w \in Workers, JobEnds(w) PROVE Quietens
  <2>1. PICK ok \in BOOLEAN, h \in 0..MaxHops : JobResumes(w, ok, h)
    BY <1>6 DEF JobEnds
  <2>2. UNCHANGED <<activeCount, job, closed, halted, done, queue>>
    BY <2>1 DEF JobResumes, pool
  <2>3. PICK t \in Tasks : t.kind = "work" /\ Todo(micro') = Todo(micro) \cup {t}
    BY <1>1, <2>1, JobResumesStep
  <2>4. Sends' = Sends
    BY <2>3 DEF Sends
  <2> QED BY <1>1, <1>6, <2>2, <2>4, JobEndsFlow, SameSends, StillMoves
<1> QED BY <1>2, <1>3, <1>4, <1>5, <1>6

LEMMA ClosesMove ==
    ASSUME Invariants, UserCloses, delayed' = delayed
    PROVE  Quietens \/ Moves
<1>1. Shape /\ Counts /\ Failing /\ Ending
  BY DEF Invariants
<1>2. Flow /\ closed' = TRUE /\ queue' = queue /\ ShutEffect(queue, micro)
  BY <1>1, UserClosesFlow
<1>3. UNCHANGED <<halted, activeCount, done, job>>
  BY DEF UserCloses
<1>4. Sends' = Sends
  BY <1>2 DEF Sends, ShutEffect
<1>5. Pending' = Pending /\ Running' = Running
  BY <1>1, <1>2, <1>3, <1>4, SameSends, SameRunning
<1>6. CASE closed
  BY <1>2, <1>3, <1>5, <1>6 DEF Quietens, State
<1>7. CASE ~closed
  <2>1. done = "no" /\ ~halted /\ State = "open"
    BY <1>1, <1>7, OpenPool
  <2>2. State' = "shut"
    BY <1>2, <1>3, <2>1 DEF State
  <2> QED BY <1>5, <2>1, <2>2 DEF Moves, Shuts
<1> QED BY <1>6, <1>7

LEMMA LeavesMoves ==
    ASSUME Invariants, Leaves, delayed' = delayed, Ending'
    PROVE  Quietens \/ Moves
<1>1. Shape /\ Counts /\ Failing /\ Ending /\ Flow
  BY LeavesFlow DEF Invariants
<1>2. /\ UNCHANGED <<closed, halted, activeCount, job, queue>>
      /\ done' = done \/ (done = "no" /\ done' # "no")
  BY DEF Leaves
<1>3. /\ Todo(micro') = Todo(micro) \ {Head(micro)} /\ Head(micro) \in Todo(micro)
      /\ Head(micro).kind = "start" /\ Head(micro).job = NoJob
  BY <1>1, LeavesStep
<1>4. Sends' = Sends
  BY <1>3 DEF Sends
<1>5. Pending' = Pending /\ Running' = Running
  BY <1>1, <1>2, <1>4, SameSends, SameRunning
<1>6. CASE done' = done
  BY <1>2, <1>5, <1>6 DEF Quietens, State
<1>7. CASE done = "no" /\ done' # "no"
  <2>1. Dismissed
    BY <1>3 DEF Dismissed
  <2>2. closed /\ queue = <<>>
    BY <1>1, <2>1 DEF Ending
  <2>3. \A w \in Workers : pc'[w] = "exited"
    BY <1>7 DEF Ending, AllLeft
  <2>4. Fits(micro, pc)'
    BY <1>1 DEF Flow, Shape
  <2>5. \A x \in Todo(micro') : FALSE
    <3> SUFFICES ASSUME NEW x \in Todo(micro') PROVE FALSE
      OBVIOUS
    <3>1. x.w \in Workers /\ pc'[x.w] \in {"handed", "running", "settling"}
      BY <2>4, BusyStages
    <3> QED BY <2>3, <3>1
  <2>6. InFlight' = {} /\ Sends' = {}
    BY <2>3, <2>5 DEF InFlight, Flies, Sends
  <2>7. Running = {} /\ Pending = {}
    <3>1. Running' = {} /\ Sends = {}
      BY <1>4, <2>6 DEF Running
    <3>2. Pending = {}
      BY <2>2, <3>1 DEF Pending, IsPending
    <3> QED BY <1>5, <3>1, <3>2
  <2>8. State \in {"shut", "halted"} /\ State' = "done"
    BY <1>7, <2>2 DEF State
  <2> QED BY <1>5, <2>7, <2>8 DEF Moves, Finishes
<1> QED BY <1>2, <1>6, <1>7

\* No more jobs run than there are workers.
LEMMA StartsMoves ==
    ASSUME Invariants, Starts, delayed' = delayed
    PROVE  Moves
<1> DEFINE t == Head(micro)
<1>1. Shape /\ Once /\ Flow /\ t.w \notin InFlight /\ InFlight' = InFlight \cup {t.w}
  BY StartsFlow DEF Invariants
<1>2. /\ t \in Todo(micro) /\ t.kind = "start" /\ t.job \in Jobs /\ t.w \in Workers
      /\ Todo(micro') = Todo(micro) \ {t} /\ job' = [job EXCEPT ![t.w] = t.job]
  BY <1>1, StartsStep
<1>3. UNCHANGED <<closed, halted, done, queue>>
  BY DEF Starts
<1> HIDE DEF t
<1>4. t \in Sends /\ Sends' = Sends \ {t} /\ t.job # NoJob
  BY <1>2 DEF Sends
<1>5. Pending' = Pending \ {t.job} /\ t.job \in Pending
  <2>1. \A u \in Sends : u.job = t.job => u = t
    BY <1>1, <1>4 DEF Once, Singles
  <2>2. \A i \in 1..Len(queue) : queue[i] # t.job
    BY <1>1, <1>4 DEF Once, Singles
  <2>3. \A j \in Jobs : IsPending(j)' <=> IsPending(j) /\ j # t.job
    BY <1>3, <1>4, <2>1, <2>2 DEF IsPending
  <2>4. IsPending(t.job)
    BY <1>4 DEF IsPending
  <2> QED BY <1>2, <2>3, <2>4 DEF Pending
<1>6. Running' = Running \cup {t.job}
  <2>1. job'[t.w] = t.job /\ \A v \in InFlight : job'[v] = job[v]
    BY <1>1, <1>2 DEF Shape, Types, InFlight
  <2> QED BY <1>1, <2>1 DEF Running
<1>7. Cardinality(Running) < NumWorkers
  <2>1. InFlight \subseteq Workers /\ InFlight \cup {t.w} \subseteq Workers
    BY <1>2 DEF InFlight
  <2>2. /\ IsFiniteSet(InFlight) /\ Cardinality(InFlight) \in 0..NumWorkers
        /\ Cardinality(InFlight \cup {t.w}) = Cardinality(InFlight) + 1
    BY <1>1, <1>2, <2>1, FiniteWorkers
  <2>3. Cardinality(InFlight \cup {t.w}) \in 0..NumWorkers
    BY <2>1, FiniteWorkers
  <2>4. [v \in InFlight |-> job[v]] \in Surjection(InFlight, Running)
    BY DEF Surjection, Running
  <2>5. IsFiniteSet(Running) /\ Cardinality(Running) <= Cardinality(InFlight)
    BY <2>2, <2>4, FS_Surjection
  <2>6. Cardinality(Running) \in Nat
    BY <2>5, FS_CardinalityType
  <2> QED BY <2>2, <2>3, <2>5, <2>6
<1>8. State' = State
  BY <1>3, SameState
<1> QED BY <1>2, <1>5, <1>6, <1>7, <1>8 DEF Moves, Begin

\* The code's test for the last job is the abstract one: nothing waits and
\* nothing else runs.
LEMMA DrainedIsIdle ==
    ASSUME Invariants, delayed, micro # <<>>, Flying(Head(micro)), Head(micro).w \in InFlight
    PROVE  Drained(queue) <=> Pending = {} /\ Running = {job[Head(micro).w]}
<1> DEFINE w == Head(micro).w
<1>1. Shape /\ Counts /\ Behind /\ Distinct /\ InFlight \subseteq Workers /\ w \in InFlight
  BY DEF Invariants, InFlight
<1>2. activeCount = 1 <=> InFlight = {w}
  <2>1. /\ activeCount = Cardinality(InFlight) /\ activeCount \in Nat
        /\ Cardinality(InFlight \ {w}) = activeCount - 1 /\ IsFiniteSet(InFlight \ {w})
    <3>1. InFlight \ {w} \subseteq Workers
      BY <1>1
    <3> QED BY <1>1, <3>1, FiniteWorkers DEF Counts
  <2>2. Cardinality(InFlight \ {w}) = 0 <=> InFlight \ {w} = {}
    BY <2>1, FS_EmptySet
  <2> QED BY <1>1, <2>1, <2>2
<1>3. ASSUME queue = <<>>, InFlight = {w} PROVE Pending = {} /\ Running = {job[w]}
  <2>1. Sends = {}
    BY <1>1, <1>3, NothingOnItsWay
  <2> QED BY <1>3, <2>1 DEF Pending, IsPending, Running
<1>4. ASSUME Pending = {}, Running = {job[w]} PROVE queue = <<>> /\ InFlight = {w}
  <2>1. queue = <<>>
    <3>1. \A i \in 1..Len(queue) : queue[i] \in Jobs
      BY <1>1 DEF Shape, Fields
    <3>2. \A i \in 1..Len(queue) : FALSE
      BY <1>4, <3>1 DEF Pending, IsPending
    <3>3. queue \in Seq(Jobs)
      BY <1>1 DEF Shape, Fields
    <3> QED BY <3>2, <3>3
  <2>2. ASSUME NEW v \in InFlight PROVE v = w
    <3>1. job[v] = job[w]
      BY <1>4 DEF Running
    <3> QED BY <1>1, <3>1 DEF Distinct
  <2> QED BY <1>1, <2>1, <2>2
<1> QED BY <1>2, <1>3, <1>4 DEF Drained

\* A worker that is in flight settles its job.
LEMMA EndMoves ==
    ASSUME Invariants, delayed, micro # <<>>, Flying(Head(micro)), Head(micro).w \in InFlight,
           InFlight' = InFlight \ {Head(micro).w}, job' = job, Sends' = Sends, queue' = queue,
           UNCHANGED <<halted, done>>, closed' = (closed \/ Drained(queue))
    PROVE  Moves
<1> DEFINE w == Head(micro).w
<1>1. Distinct /\ Failing /\ Ending /\ InFlight \subseteq Workers
  BY DEF Invariants, InFlight
<1>2. Drained(queue) <=> Pending = {} /\ Running = {job[w]}
  BY DrainedIsIdle
<1>3. job[w] \in Running /\ job[w] \in Jobs /\ Running' = Running \ {job[w]}
  BY <1>1 DEF Running, Distinct
<1>4. Pending' = Pending
  BY SameSends
<1>5. State' = IF State = "open" /\ Pending = {} /\ Running = {job[w]} THEN "shut" ELSE State
  <2>1. CASE closed
    <3>1. closed' = TRUE
      BY <2>1
    <3> QED BY <2>1, <3>1 DEF State
  <2>2. CASE ~closed
    <3>1. done = "no" /\ ~halted /\ State = "open"
      BY <1>1, <2>2, OpenPool
    <3> QED BY <1>2, <2>2, <3>1 DEF State
  <2> QED BY <2>1, <2>2
<1>6. Settles(job[w])
  BY <1>3, <1>4, <1>5 DEF Settles
<1> QED BY <1>3, <1>6 DEF Moves

LEMMA FulfilledMoves ==
    ASSUME Invariants, delayed, Fulfilled, delayed' = delayed
    PROVE  Moves
<1>1. Shape
  BY DEF Invariants
<1>2. /\ Head(micro).w \in InFlight /\ InFlight' = InFlight \ {Head(micro).w}
      /\ Sends' = Sends
  BY <1>1, FulfilledFlow
<1>3. Flying(Head(micro)) /\ queue' = queue
  BY <1>1, FulfilledStep DEF Flying
<1>4. micro # <<>> /\ UNCHANGED <<halted, done, job>> /\ closed' = (closed \/ Drained(queue))
  <2>1. closed \in BOOLEAN
    BY <1>1 DEF Shape, Types
  <2> QED BY <2>1 DEF Fulfilled, Task, Shut
<1> QED BY <1>2, <1>3, <1>4, EndMoves

LEMMA RejectedMoves ==
    ASSUME Invariants, delayed, Rejected, delayed' = delayed
    PROVE  Moves
<1> DEFINE w == Head(micro).w
<1>1. Shape /\ Distinct /\ Ending /\ InFlight \subseteq Workers
  BY DEF Invariants, InFlight
<1>2. w \in InFlight /\ InFlight' = InFlight \ {w} /\ Sends' = Sends
  BY <1>1, RejectedFlow
<1>3. /\ Flying(Head(micro)) /\ queue' = (IF ShouldStop THEN <<>> ELSE queue)
      /\ pc[w] = "settling"
  BY <1>1, RejectedStep DEF Flying
<1>4. micro # <<>> /\ UNCHANGED <<done, job>> /\ halted' = (halted \/ ShouldStop)
  BY DEF Rejected, Task
<1>5. CASE ShouldStop
  <2>1. done = "no"
    BY <1>1, <1>2, <1>3 DEF Ending, AllLeft
  <2>2. State' = "halted"
    BY <1>4, <1>5, <2>1 DEF State
  <2>3. job[w] \in Running /\ job[w] \in Jobs /\ Running' = Running \ {job[w]}
    BY <1>1, <1>2, <1>4 DEF Running, Distinct
  <2>4. Pending' \subseteq Pending
    BY <1>2, <1>3, <1>5 DEF Pending, IsPending
  <2> QED BY <2>2, <2>3, <2>4 DEF Moves, Halts
<1>6. CASE ~ShouldStop
  <2>1. closed \in BOOLEAN /\ halted \in BOOLEAN
    BY <1>1 DEF Shape, Types
  <2>2. halted' = halted /\ queue' = queue
    BY <1>3, <1>4, <1>6, <2>1
  <2>3. closed' = (closed \/ Drained(queue))
    BY <1>6, <2>1 DEF Rejected, Shut
  <2> QED BY <1>2, <1>3, <1>4, <2>2, <2>3, EndMoves
<1> QED BY <1>5, <1>6

\* With a pause between jobs the pool is the abstract one: an accepted job
\* runs once, no more run than there are workers, and the pool shuts only
\* when idle, halted or closed.
THEOREM Refinement == Spec => ImplementsJobPool
<1>1. Init => Behind /\ Distinct /\ JP!PoolInit
  <2> SUFFICES ASSUME Init PROVE Behind /\ Distinct /\ JP!PoolInit
    OBVIOUS
  <2>1. micro = <<>> /\ queue = <<>> /\ \A w \in Workers : pc[w] = "new"
    BY DEF Init
  <2>2. Behind
    BY <2>1 DEF Behind, Guarded
  <2>3. InFlight = {}
    BY <2>1 DEF InFlight, Flies, Todo
  <2>4. Distinct
    BY <2>3 DEF Distinct
  <2>5. \A j \in Jobs : ~Waiting(j)
    BY <2>1 DEF Waiting
  <2>6. \A w \in Workers : ~Counted(w)
    BY <2>1 DEF Counted
  <2> QED BY <2>2, <2>4, <2>5, <2>6 DEF JP!PoolInit, Init
<1>2. ASSUME Shape, Counts, Once, Ending, Behind, Distinct, [Next]_vars
      PROVE  (Once /\ Ending /\ Behind /\ Distinct)'
  BY <1>2, OnceStep, EndingStep, BehindStep, DistinctStep
<1>3. Init => Once /\ Ending
  BY OnceInit, EndingInit
<1>4. ASSUME Invariants, Shape', Ending', [Next]_vars
      PROVE  [delayed => JP!PoolNext]_(JP!poolVars)
  <2>1. Shape
    BY <1>4 DEF Invariants
  <2>2. CASE UNCHANGED vars
    <3>1. Quietens
      BY <2>2 DEF Quietens, Pending, IsPending, Sends, Running, InFlight, Flies, Flying, State,
                  vars, pool
    <3> QED BY <1>4, <2>1, <3>1, PoolStutters
  <2>3. CASE Next /\ delayed
    <3>1. delayed' = delayed
      BY <2>3 DEF Next
    <3>2. Quietens \/ Moves
      BY <1>4, <2>3, <3>1, OutsideMoves, WorksMoves, PausesMove, ClosesMove, LeavesMoves,
         StartsMoves, FulfilledMoves, RejectedMoves DEF Next, Microtask
    <3> QED BY <1>4, <2>1, <3>2, PoolSteps, PoolStutters
  <2> QED BY <1>4, <2>2, <2>3
<1>5. Invariants <=> (Shape /\ Counts /\ Failing) /\ (Once /\ Ending /\ Behind /\ Distinct)
  BY DEF Invariants
<1>6. Invariants' => Shape' /\ Ending'
  BY DEF Invariants
<1> QED BY <1>1, <1>2, <1>3, <1>4, <1>5, <1>6, ShapeHolds, PTL DEF Spec, ImplementsJobPool

=============================================================================
