------------------------- MODULE ImageUploader_proof -------------------------
(***************************************************************************)
(* The safety properties of ImageUploader for any number of connections,   *)
(* photos and calls of init.  One inductive invariant says what a request  *)
(* may rely on in each of its stages: that the machine is ready once the   *)
(* load it waited for has ended, and that the bytes are stored before it   *)
(* inserts their row.  Three more, each on top of it, are about the bytes  *)
(* behind rows, about tokens and about the number of rows.                 *)
(***************************************************************************)
EXTENDS ImageUploader, FiniteSetTheorems, SequenceTheorems, TLAPS

Adapters == [name : Tiers \cup {"none"}, client : 0..MaxLoads]
Pairs == [token : Sources, secret : Sources]
Requests ==
    [stage : {"init", "body", "fetch", "find", "write", "writing", "sent", "refused", "meta",
              "insert", "read", "exchange", "over"},
     kind : Uploads \cup {"callback", "admin"}, photo : Photos, load : 0..MaxLoads,
     adapter : Adapters, prev : Pairs,
     answer : {"none", "not ready", "failed", "stored", "page"}]

NeverReady == setup.tier = "uploadthing" /\ ~setup.secret

\* The machine has an adapter from the moment that a load of it has ended.
MachineReady ==
    /\ website <=> loads # 0
    /\ adapter.name = "none" => adapter = None
    /\ NeverReady => adapter = None
    /\ setup.tier = "smugmug" /\ website => promise # 0
    /\ website /\ setup.tier # "smugmug" /\ ~NeverReady => adapter # None
    /\ setup.tier = "smugmug" => \A n \in 1..loads : n \notin pending => adapter # None
    /\ setup.tier # "smugmug" => pending = {}

\* What request r of connection c relies on.
Sound(c, r) ==
    /\ r.answer = "not ready" => NeverReady
    /\ r.stage = "init" /\ r.kind \in Uploads =>
          website /\ (setup.tier = "smugmug" => r.load \in 1..loads)
    /\ r.stage \in {"body", "fetch"} => adapter # None
    /\ r.stage \in {"find", "write", "writing", "sent", "refused", "meta", "insert", "read"} =>
          r.adapter.name \in Tiers
    /\ r.stage \in {"sent", "meta"} => r.adapter.name = "smugmug"
    /\ r.stage = "writing" => r.adapter.name = "local-disk" /\ file[r.photo] = "open"
    /\ r.stage \in {"meta", "insert"} /\ r.adapter.name = "smugmug" => r.photo \in hosted
    /\ r.stage = "insert" =>
          /\ Persists(r.adapter)
          /\ r.adapter.name = "local-disk" => file[r.photo] # "none"
    /\ r.stage = "init" /\ r.kind = "callback" => c \in OAuthConns
    /\ r.stage = "exchange" => c \in OAuthConns /\ r.load \in 1..MaxLoads

OpenIsWritten == \A p \in Photos : file[p] = "open" => Writing(p) # {}

RowsAreStored ==
    \A i \in 1..Len(rows) :
        /\ rows[i].by = "smugmug" => rows[i].photo \in hosted
        /\ rows[i].by = "local-disk" => file[rows[i].photo] # "none"

Inv ==
    /\ TypeOK /\ MachineReady /\ OpenIsWritten /\ RowsAreStored
    /\ \A c \in Conns : Sound(c, req[c])

-----------------------------------------------------------------------------
(* Requests, one at a time.                                                *)

LEMMA BoundsAreNatural == MaxLoads \in Nat /\ MaxLoads # 0 /\ 0 \in 0..MaxLoads
  <1>1. MaxLoads \in Nat /\ MaxLoads # 0
    BY ImageUploaderAssumption
  <1> QED
    BY <1>1

\* The types, one by one.
LEMMA Typed ==
    ASSUME TypeOK
    PROVE  /\ setup \in Setups /\ setup.tier \in Tiers /\ setup.secret \in BOOLEAN
           /\ website \in BOOLEAN /\ adapter \in Adapters
           /\ loads \in Nat /\ loads <= MaxLoads
           /\ pending \subseteq 1..loads /\ promise \in 0..loads
           /\ client \in 0..loads /\ asking \in Nat
           /\ pair \in [1..MaxLoads -> Pairs]
           /\ file \in [Photos -> {"none", "open", "whole", "torn"}]
           /\ partial \subseteq 1..MaxLoads /\ shared \subseteq Photos
           /\ hosted \subseteq Photos
           /\ rows \in Seq([photo : Photos, by : Tiers, md5 : BOOLEAN])
           /\ req \in [Conns -> Requests]
  <1>1. setup \in Setups /\ setup.tier \in Tiers /\ setup.secret \in BOOLEAN
    BY ImageUploaderAssumption DEF TypeOK
  <1>2. loads \in Nat /\ loads <= MaxLoads
    <2>1. loads \in 0..MaxLoads
      BY DEF TypeOK
    <2> QED
      BY <2>1, BoundsAreNatural
  <1>3. req \in [Conns -> Requests]
    BY DEF TypeOK, Requests, Adapters, Pairs
  <1> QED
    BY <1>1, <1>2, <1>3 DEF TypeOK, Adapters, Pairs

\* A request that is over, or has not come.
LEMMA IdleIsSound ==
    ASSUME NEW c, NEW what \in {"none", "not ready", "failed", "stored", "page"},
           what = "not ready" => NeverReady
    PROVE  /\ [Idle EXCEPT !.answer = what] \in Requests
           /\ [Idle EXCEPT !.answer = what].stage = "over"
           /\ Sound(c, [Idle EXCEPT !.answer = what])
  <1>1. Idle.photo \in Photos
    BY ImageUploaderAssumption DEF Idle
  <1>2. None \in Adapters /\ Both("none") \in Pairs /\ "json" \in Uploads /\ 0 \in 0..MaxLoads
    <2> QED
      BY BoundsAreNatural DEF Uploads, Adapters, Pairs, None, Both, Sources, Tiers
  <1>3. Idle \in Requests
    BY <1>1, <1>2 DEF Idle, Requests
  <1> QED
    BY <1>3 DEF Idle, Sound, Requests

\* No file is opened or closed by a request that neither was nor is writing.
LEMMA SameWriters ==
    ASSUME Inv, NEW c \in Conns, NEW r \in Requests, Set(c, r),
           req[c].stage # "writing", r.stage # "writing"
    PROVE  \A p \in Photos : Writing(p)' = Writing(p)
  <1>1. \A d \in Conns : req'[d] = IF d = c THEN r ELSE req[d]
    BY DEF Inv, TypeOK, Set
  <1> QED
    BY <1>1 DEF Writing

\* A step of one request that does not touch the store; it may start init.
LEMMA RequestStep ==
    ASSUME Inv, NEW c \in Conns, NEW r \in Requests, Set(c, r), Sound(c, r)',
           req[c].stage # "writing", r.stage # "writing",
           UNCHANGED <<setup, file, hosted, rows>>, partial' \subseteq 1..MaxLoads, shared' \subseteq Photos,
           website' \in BOOLEAN, adapter' \in Adapters,
           loads' \in Nat, loads' <= MaxLoads,
           pending' \subseteq 1..loads', promise' \in 0..loads', client' \in 0..loads',
           asking' \in Nat, pair' \in [1..MaxLoads -> Pairs],
           MachineReady',
           loads' >= loads, website => website', adapter # None => adapter' # None
    PROVE  Inv'
  <1>0. UNCHANGED <<setup, file, hosted, rows>>
    OBVIOUS
  <1>1. \A d \in Conns : req'[d] = IF d = c THEN r ELSE req[d]
    BY DEF Inv, TypeOK, Set
  <1>2. TypeOK'
    <2>1. req' \in [Conns -> Requests]
      BY Typed DEF Inv, Set
    <2>2. loads' \in 0..MaxLoads
      BY BoundsAreNatural
    <2> QED
      BY <1>0, <2>1, <2>2 DEF Inv, TypeOK, Requests, Adapters, Pairs
  <1>3. OpenIsWritten'
    BY <1>0, SameWriters DEF Inv, OpenIsWritten
  <1>4. RowsAreStored'
    BY <1>0 DEF Inv, RowsAreStored
  <1>5. ASSUME NEW d \in Conns PROVE Sound(d, req[d])'
    <2>1. CASE d = c
      BY <1>1, <2>1
    <2>2. CASE d # c
      <3>1. Sound(d, req'[d])
        BY <1>1, <2>2 DEF Inv
      <3>2. req'[d].load \in 1..loads => req'[d].load \in 1..loads'
        BY Typed, BoundsAreNatural DEF Inv
      <3> QED
        BY <1>0, <3>1, <3>2 DEF Sound, Persists, NeverReady
    <2> QED
      BY <2>1, <2>2
  <1> QED
    BY <1>2, <1>3, <1>4, <1>5 DEF Inv

\* One that leaves the machine alone as well.
LEMMA QuietStep ==
    ASSUME Inv, NEW c \in Conns, NEW r \in Requests, Set(c, r), Sound(c, r),
           req[c].stage # "writing", r.stage # "writing",
           UNCHANGED <<setup, machine, file, hosted, rows, client>>,
           partial' \subseteq 1..MaxLoads, shared' \subseteq Photos,
           asking' \in Nat, pair' \in [1..MaxLoads -> Pairs]
    PROVE  Inv'
  <1>1. UNCHANGED <<website, adapter, loads, pending, promise, file, hosted, setup, client>>
    BY DEF machine
  <1>2. Sound(c, r)'
    BY <1>1 DEF Sound, Persists, NeverReady
  <1>3. MachineReady'
    BY <1>1 DEF Inv, MachineReady, NeverReady
  <1>4. /\ website \in BOOLEAN /\ adapter \in Adapters /\ loads \in Nat /\ loads <= MaxLoads
        /\ pending \subseteq 1..loads /\ promise \in 0..loads /\ client \in 0..loads
    BY Typed DEF Inv
  <1>5. /\ website' \in BOOLEAN /\ adapter' \in Adapters /\ loads' \in Nat /\ loads' <= MaxLoads
        /\ pending' \subseteq 1..loads' /\ promise' \in 0..loads' /\ client' \in 0..loads'
        /\ loads' >= loads /\ (website => website') /\ (adapter # None => adapter' # None)
    BY <1>1, <1>4
  <1> QED
    BY <1>2, <1>3, <1>5, RequestStep

\* An answer is such a step.
LEMMA AnswerStep ==
    ASSUME Inv, NEW c \in Conns, req[c].stage # "writing",
           NEW what \in {"none", "not ready", "failed", "stored", "page"},
           what = "not ready" => NeverReady,
           Answer(c, what), UNCHANGED <<setup, machine, file, hosted, rows, client>>,
           partial' \subseteq 1..MaxLoads, shared' \subseteq Photos,
           asking' \in Nat, pair' \in [1..MaxLoads -> Pairs]
    PROVE  Inv'
  BY IdleIsSound, QuietStep DEF Answer

\* The same with one field replaced: the stage that it goes on to.
LEMMA ToStep ==
    ASSUME Inv, NEW c \in Conns, req[c].stage \notin {"writing", "init", "exchange"},
           NEW stage \in {"fetch", "find", "write", "sent", "refused", "meta", "insert", "read"},
           To(c, stage), UNCHANGED <<setup, machine, file, hosted, rows, client>>,
           partial' \subseteq 1..MaxLoads, shared' \subseteq Photos,
           asking' \in Nat, pair' \in [1..MaxLoads -> Pairs],
           Sound(c, [req[c] EXCEPT !.stage = stage])
    PROVE  Inv'
  <1>0. req[c] \in Requests
    BY Typed DEF Inv
  <1>1. [req[c] EXCEPT !.stage = stage] \in Requests
    BY <1>0 DEF Requests
  <1>2. [req[c] EXCEPT !.stage = stage].stage = stage
    BY <1>0 DEF Requests
  <1> HIDE DEF Inv
  <1> QED
    BY <1>1, <1>2, QuietStep DEF To

-----------------------------------------------------------------------------
(* The machine.                                                            *)

\* init up to its first await keeps the machine ready and all that rely on it.
LEMMA StartInitKeeps ==
    ASSUME Inv, StartInit, loads < MaxLoads, UNCHANGED <<setup, client>>
    PROVE  /\ website' = TRUE /\ loads' = loads + 1
           /\ adapter' \in Adapters
           /\ pending' \subseteq 1..loads'
           /\ promise' \in 0..loads'
           /\ MachineReady'
           /\ adapter # None => adapter' # None
           /\ setup.tier = "smugmug" => promise' \in 1..loads'
  <1>1. loads \in Nat /\ setup \in Setups /\ pending \subseteq 1..loads /\ adapter \in Adapters
    BY Typed DEF Inv
  <1>2. MachineReady
    BY DEF Inv
  <1>3. Disk \in Adapters /\ None \in Adapters /\ [name |-> "uploadthing", client |-> 0] \in Adapters
    BY BoundsAreNatural DEF Adapters, Disk, None, Tiers
  <1>4. /\ Disk # None /\ [name |-> "uploadthing", client |-> 0] # None
        /\ Disk.name # "none" /\ [name |-> "uploadthing", client |-> 0].name # "none"
    BY DEF Disk, None
  <1>5. setup.tier \in Tiers /\ setup.secret \in BOOLEAN
    BY Typed DEF Inv
  <1>6. promise' = (IF setup.tier = "smugmug" THEN loads + 1 ELSE 0)
    BY DEF StartInit, Gated
  <1>7. CASE setup.tier = "smugmug"
    <2>1. pending' = pending \cup {loads + 1} /\ adapter' = adapter
      BY <1>7 DEF StartInit
    <2>2. website' = TRUE /\ loads' = loads + 1 /\ setup' = setup
      BY DEF StartInit
    <2>3. \A n \in 1..loads' : n \notin pending' => n \in 1..loads /\ n \notin pending
      BY <1>1, <2>1, <2>2
    <2>4. loads + 1 # 0 /\ promise' # 0 /\ ~NeverReady'
      BY <1>1, <1>6, <1>7, <2>2 DEF NeverReady
    <2>5. MachineReady'
      BY <1>2, <1>7, <2>1, <2>2, <2>3, <2>4 DEF MachineReady
    <2> QED
      BY <1>1, <1>6, <1>7, <2>1, <2>2, <2>5
  <1>8. CASE setup.tier # "smugmug"
    <2>0. website' = TRUE /\ loads' = loads + 1 /\ setup' = setup /\ pending' = pending
      BY <1>8 DEF StartInit
    <2>1. \/ setup.tier = "local-disk" /\ adapter' = Disk
          \/ setup.tier = "uploadthing" /\ setup.secret
                /\ adapter' = [name |-> "uploadthing", client |-> 0]
          \/ setup.tier = "uploadthing" /\ ~setup.secret /\ adapter' = None
      <3>1. CASE setup.tier = "local-disk"
        BY <1>8, <3>1 DEF StartInit
      <3>2. CASE setup.tier = "uploadthing"
        BY <1>5, <1>8, <3>2 DEF StartInit
      <3> QED
        BY <1>5, <1>8, <3>1, <3>2 DEF Tiers
    <2>2. IF NeverReady THEN adapter' = None ELSE adapter' # None /\ adapter'.name # "none"
      BY <1>4, <2>1 DEF NeverReady
    <2>3. loads + 1 # 0 /\ NeverReady' = NeverReady
      BY <1>1, <2>0 DEF NeverReady
    <2>4. MachineReady'
      BY <1>2, <1>8, <2>0, <2>2, <2>3 DEF MachineReady
    <2>5. adapter # None => adapter' # None
      BY <1>2, <2>2 DEF MachineReady
    <2> QED
      BY <1>1, <1>3, <1>6, <1>8, <2>0, <2>1, <2>4, <2>5
  <1> QED
    BY <1>7, <1>8

\* A step of the machine alone.
LEMMA MachineStep ==
    ASSUME Inv, UNCHANGED <<setup, store, req>>,
           TypeOK', MachineReady',
           loads' >= loads, website => website', adapter # None => adapter' # None
    PROVE  Inv'
  <1>0. UNCHANGED <<setup, file, hosted, rows, req>>
    BY DEF store
  <1>1. OpenIsWritten' /\ RowsAreStored'
    BY <1>0 DEF Inv, OpenIsWritten, RowsAreStored, Writing
  <1>2. ASSUME NEW c \in Conns PROVE Sound(c, req[c])'
    <2>1. Sound(c, req[c])
      BY DEF Inv
    <2>2. loads \in Nat /\ loads' \in Nat
      <3>1. loads' \in 0..MaxLoads
        BY DEF TypeOK
      <3> QED
        BY <3>1, Typed, BoundsAreNatural DEF Inv
    <2>3. req[c].load \in 1..loads => req[c].load \in 1..loads'
      BY <2>2
    <2> QED
      BY <1>0, <2>1, <2>3 DEF Sound, Persists, NeverReady
  <1> QED
    BY <1>1, <1>2 DEF Inv

\* The types after such a step.
LEMMA MachineTyped ==
    ASSUME TypeOK, UNCHANGED <<setup, store, req>>, partial' \subseteq 1..MaxLoads,
           website' \in BOOLEAN, adapter' \in Adapters,
           loads' \in Nat, loads' <= MaxLoads,
           pending' \subseteq 1..loads', promise' \in 0..loads', client' \in 0..loads',
           asking' \in Nat, pair' \in [1..MaxLoads -> Pairs]
    PROVE  TypeOK'
  <1>1. loads' \in 0..MaxLoads
    BY BoundsAreNatural
  <1> QED
    BY <1>1 DEF TypeOK, store, Adapters, Pairs

\* initialiseMachines, the imports of the secrets, the request token.
LEMMA MachineSteps ==
    ASSUME Inv,
           \/ DatabaseInit \/ RequestToken
           \/ \E n \in 1..MaxLoads : SecretsLoaded(n) \/ SecretsUnusable(n)
    PROVE  Inv'
  <1>0. /\ TypeOK /\ MachineReady /\ loads \in Nat /\ asking \in Nat
        /\ pair \in [1..MaxLoads -> Pairs] /\ partial \subseteq 1..MaxLoads
    BY Typed DEF Inv
  <1>1. CASE DatabaseInit
    <2>1. loads < MaxLoads /\ StartInit /\ UNCHANGED <<setup, oauth, store, req>>
      BY <1>1 DEF DatabaseInit
    <2>2. UNCHANGED <<client, pair, asking, partial, setup, file, hosted, rows, req>>
      BY <2>1 DEF oauth, store
    <2>3. /\ website' = TRUE /\ loads' = loads + 1 /\ adapter' \in Adapters
          /\ pending' \subseteq 1..loads' /\ promise' \in 0..loads' /\ MachineReady'
          /\ adapter # None => adapter' # None
      BY <2>1, <2>2, StartInitKeeps
    <2>4. TypeOK'
      <3>1. client' \in 0..loads'
        BY <1>0, <2>2, <2>3, Typed
      <3>2. loads' \in Nat /\ loads' <= MaxLoads
        BY <1>0, <2>1, <2>3, BoundsAreNatural
      <3> QED
        BY <1>0, <2>1, <2>2, <2>3, <3>1, <3>2, MachineTyped
    <2> QED
      BY <1>0, <2>1, <2>3, <2>4, MachineStep
  <1>2. CASE RequestToken
    <2>1. UNCHANGED <<setup, website, adapter, loads, pending, promise, client, partial, store, req>>
      BY <1>2 DEF RequestToken, machine
    <2>2. asking' \in Nat
      BY <1>0, <1>2 DEF RequestToken
    <2>3. Halves("request") \subseteq Pairs
      BY DEF Halves, Pairs, Sources
    <2>4. pair' \in [1..MaxLoads -> Pairs]
      BY <1>0, <1>2, <2>3 DEF RequestToken
    <2>5. TypeOK'
      BY <1>0, <2>1, <2>2, <2>4, MachineTyped, Typed
    <2>6. MachineReady'
      BY <1>0, <2>1 DEF MachineReady, NeverReady
    <2> QED
      BY <1>0, <2>1, <2>5, <2>6, MachineStep
  <1>3. ASSUME NEW n \in 1..MaxLoads, SecretsLoaded(n) PROVE Inv'
    <2>1. /\ n \in pending /\ pending' = pending \ {n}
          /\ UNCHANGED <<setup, website, loads, promise, partial, store, req>>
          /\ client' = n /\ adapter' = [name |-> "smugmug", client |-> n]
      BY <1>3 DEF SecretsLoaded, Loaded
    <2>2. adapter' \in Adapters /\ adapter' # None
      BY <2>1 DEF Adapters, Tiers, None
    <2>3. asking' \in Nat
      BY <1>0, <1>3 DEF SecretsLoaded
    <2>4. Halves("file") \subseteq Pairs
      BY DEF Halves, Pairs, Sources
    <2>5. pair' \in [1..MaxLoads -> Pairs]
      BY <1>0, <1>3, <2>4 DEF SecretsLoaded
    <2>6. TypeOK'
      BY <1>0, <2>1, <2>2, <2>3, <2>5, MachineTyped, Typed
    <2>7. setup.tier = "smugmug"
      BY <1>0, <2>1 DEF MachineReady
    <2>8. MachineReady'
      BY <1>0, <2>1, <2>2, <2>7 DEF MachineReady, NeverReady
    <2> QED
      BY <1>0, <2>1, <2>2, <2>6, <2>8, MachineStep
  <1>4. ASSUME NEW n \in 1..MaxLoads, SecretsUnusable(n) PROVE Inv'
    <2>1. /\ n \in pending /\ pending' = pending \ {n}
          /\ UNCHANGED <<setup, website, loads, promise, store, req, pair, asking, partial>>
          /\ client' \in {0, client} /\ adapter' = Disk
      BY <1>4 DEF SecretsUnusable, Loaded, FallBack
    <2>2. adapter' \in Adapters /\ adapter' # None /\ adapter'.name # "none"
      BY <2>1, BoundsAreNatural DEF Adapters, Tiers, None, Disk
    <2>3. TypeOK'
      BY <1>0, <2>1, <2>2, MachineTyped, Typed
    <2>4. setup.tier = "smugmug"
      BY <1>0, <2>1 DEF MachineReady
    <2>5. MachineReady'
      BY <1>0, <2>1, <2>2, <2>4 DEF MachineReady, NeverReady
    <2> QED
      BY <1>0, <2>1, <2>2, <2>3, <2>5, MachineStep
  <1> QED
    BY <1>1, <1>2, <1>3, <1>4

-----------------------------------------------------------------------------
(* Requests that come, wait for the machine and go on.                     *)

\* ensureWebsiteInit and the wait for initPromise.
LEMMA ArriveStep ==
    ASSUME Inv, NEW c \in Conns, NEW kind \in Uploads \cup {"callback", "admin"},
           NEW p \in Photos, Arrive(c, kind, p)
    PROVE  Inv'
  <1> DEFINE r == [Idle EXCEPT !.stage = "init", !.kind = kind, !.photo = p, !.load = promise']
  <1>0. /\ TypeOK /\ MachineReady /\ website \in BOOLEAN /\ adapter \in Adapters
        /\ loads \in Nat /\ loads <= MaxLoads
        /\ pending \subseteq 1..loads /\ promise \in 0..loads /\ client \in 0..loads
        /\ asking \in Nat /\ pair \in [1..MaxLoads -> Pairs]
        /\ partial' \subseteq 1..MaxLoads /\ shared' \subseteq Photos
    BY Typed DEF Inv, Arrive, oauth, store
  <1>1. /\ req[c].stage = "over" /\ (kind = "callback" => c \in OAuthConns) /\ Set(c, r)
        /\ UNCHANGED <<setup, client, pair, asking, file, hosted, rows>>
        /\ IF website \/ kind = "admin" THEN UNCHANGED machine ELSE StartInit
    BY DEF Arrive, oauth, store
  <1>2. Idle \in Requests /\ Idle.answer = "none"
    <2>1. [Idle EXCEPT !.answer = "none"] \in Requests
      BY IdleIsSound
    <2> QED
      BY <2>1 DEF Idle, Requests
  <1>3. CASE website \/ kind = "admin"
    <2>1. UNCHANGED machine /\ promise' = promise
      BY <1>1, <1>3 DEF machine
    <2>2. promise \in 0..MaxLoads
      BY <1>0, BoundsAreNatural
    <2>3. r \in Requests
      BY <1>2, <2>1, <2>2 DEF Requests
    <2>4. kind \in Uploads => website /\ (setup.tier = "smugmug" => promise \in 1..loads)
      BY <1>0, <1>3 DEF Uploads, MachineReady
    <2>5. r.stage = "init" /\ r.kind = kind /\ r.load = promise' /\ r.answer = "none"
      BY <1>2 DEF Requests
    <2> HIDE DEF r
    <2>6. Sound(c, r)
      BY <1>1, <2>1, <2>4, <2>5 DEF Sound
    <2> QED
      BY <1>0, <1>1, <2>1, <2>3, <2>5, <2>6, QuietStep
  <1>4. CASE ~(website \/ kind = "admin")
    <2>1. StartInit /\ loads = 0
      BY <1>0, <1>1, <1>4 DEF MachineReady
    <2>2. loads < MaxLoads
      BY <2>1, BoundsAreNatural
    <2>3. /\ website' = TRUE /\ loads' = loads + 1 /\ adapter' \in Adapters
          /\ pending' \subseteq 1..loads' /\ promise' \in 0..loads' /\ MachineReady'
          /\ adapter # None => adapter' # None
          /\ setup.tier = "smugmug" => promise' \in 1..loads'
      BY <1>1, <2>1, <2>2, StartInitKeeps
    <2>4. loads' \in Nat /\ loads' <= MaxLoads /\ loads' >= loads
      BY <1>0, <2>2, <2>3, BoundsAreNatural
    <2>5. promise' \in 0..MaxLoads
      BY <2>3, <2>4, BoundsAreNatural
    <2>6. PICK s \in Requests : s = r
      BY <1>2, <2>5 DEF Requests
    <2>7. s.stage = "init" /\ s.kind = kind /\ s.load = promise' /\ s.answer = "none"
      BY <1>2, <2>6 DEF Requests
    <2>8. Set(c, s)
      BY <1>1, <2>6
    <2> HIDE DEF r
    <2>9. Sound(c, s)'
      BY <1>1, <2>3, <2>7 DEF Sound
    <2>10. client' \in 0..loads'
      BY <1>0, <1>1, <2>3
    <2> QED
      BY <1>0, <1>1, <2>3, <2>4, <2>7, <2>8, <2>9, <2>10, RequestStep
  <1> QED
    BY <1>3, <1>4

\* A request that is accepted has found an adapter, unless there is none to
\* wait for.
LEMMA ReadyIsReady ==
    ASSUME Inv, NEW c \in Conns, Ready(c), req[c].kind \in Uploads, ~NeverReady
    PROVE  adapter # None
  <1>1. website /\ (setup.tier = "smugmug" => req[c].load \in 1..loads)
    BY DEF Inv, Sound, Ready
  <1> QED
    BY <1>1 DEF Inv, MachineReady, Ready

\* Accepting, reading, fetching, looking up; failing; an administrator's page.
LEMMA WaitingSteps ==
    ASSUME Inv, NEW c \in Conns,
           \/ AdminPage(c) \/ Accept(c) \/ JsonRead(c) \/ Fetched(c) \/ FormRead(c)
           \/ Fails(c) \/ FindByMd5(c) \/ Send(c) \/ Metadata(c) \/ ReadBack(c)
    PROVE  Inv'
  <1>0. /\ asking \in Nat /\ pair \in [1..MaxLoads -> Pairs] /\ adapter \in Adapters
        /\ req[c] \in Requests /\ Sound(c, req[c]) /\ req[c].photo \in Photos
        /\ partial \subseteq 1..MaxLoads /\ shared \subseteq Photos
    BY Typed DEF Inv, Requests
  <1>1. /\ UNCHANGED <<setup, machine, file, hosted, rows, client, asking, pair>>
        /\ partial' \subseteq 1..MaxLoads /\ shared' \subseteq Photos
    BY <1>0 DEF oauth, store, AdminPage, Accept, JsonRead, Fetched, FormRead, Fails, FindByMd5, Send,
           Metadata, ReadBack
  <1>2. ASSUME NEW what \in {"failed", "stored", "page"}, Answer(c, what),
               req[c].stage # "writing"
        PROVE  Inv'
    BY <1>0, <1>1, <1>2, AnswerStep
  <1>3. ASSUME Hand(c), req[c].stage \in {"body", "fetch"} PROVE Inv'
    <2> DEFINE r == [req[c] EXCEPT !.stage = "find", !.adapter = adapter]
    <2>1. r \in Requests
      BY <1>0 DEF Requests
    <2>2. adapter # None
      BY <1>0, <1>3 DEF Sound
    <2>3. adapter.name \in Tiers
      <3>1. adapter.name = "none" => adapter = None
        BY DEF Inv, MachineReady
      <3> QED
        BY <1>0, <2>2, <3>1 DEF Adapters
    <2>4. Sound(c, r)
      BY <1>0, <2>3 DEF Sound, Requests
    <2>5. r.stage # "writing"
      BY <1>0 DEF Requests
    <2> HIDE DEF r
    <2> QED
      BY <1>0, <1>1, <1>3, <2>1, <2>4, <2>5, QuietStep DEF Hand, r
  <1>4. CASE AdminPage(c)
    BY <1>2, <1>4 DEF AdminPage, Ready
  <1>5. CASE Accept(c)
    <2>1. CASE adapter = None
      BY <1>0, <1>1, <1>5, <2>1, ReadyIsReady, AnswerStep DEF Accept, Ready
    <2>2. CASE adapter # None
      <3> DEFINE r == [req[c] EXCEPT !.stage = "body"]
      <3>1. r \in Requests /\ r.stage = "body"
        BY <1>0 DEF Requests
      <3>2. Sound(c, r)
        BY <1>0, <2>2, <3>1 DEF Sound, Requests
      <3>3. req[c].stage = "init" /\ Set(c, r)
        BY <1>5, <2>2 DEF Accept, Ready, To
      <3> HIDE DEF r
      <3> QED
        BY <1>0, <1>1, <3>1, <3>2, <3>3, QuietStep
    <2> QED
      BY <2>1, <2>2
  <1>6. CASE JsonRead(c)
    <2>1. Sound(c, [req[c] EXCEPT !.stage = "fetch"])
      BY <1>0, <1>6 DEF JsonRead, Sound, Requests
    <2> QED
      BY <1>0, <1>1, <1>6, <2>1, ToStep DEF JsonRead
  <1>7. CASE Fetched(c)
    BY <1>3, <1>7 DEF Fetched
  <1>8. CASE FormRead(c)
    BY <1>2, <1>3, <1>8 DEF FormRead
  <1>9. CASE Fails(c)
    BY <1>2, <1>9 DEF Fails
  <1>10. CASE FindByMd5(c)
    <2>1. CASE Answer(c, "stored")
      BY <1>2, <1>10, <2>1 DEF FindByMd5
    <2>2. CASE To(c, "insert") /\ req[c].adapter.name = "uploadthing"
      <3>1. Sound(c, [req[c] EXCEPT !.stage = "insert"])
        BY <1>0, <1>10, <2>2 DEF FindByMd5, Sound, Requests, Persists
      <3> QED
        BY <1>0, <1>1, <1>10, <2>2, <3>1, ToStep DEF FindByMd5
    <2>3. CASE To(c, "write")
      <3>1. Sound(c, [req[c] EXCEPT !.stage = "write"])
        BY <1>0, <1>10 DEF FindByMd5, Sound, Requests
      <3> QED
        BY <1>0, <1>1, <1>10, <2>3, <3>1, ToStep DEF FindByMd5
    <2> QED
      BY <1>10, <2>1, <2>2, <2>3 DEF FindByMd5
  <1>11. CASE Send(c)
    <2>1. ASSUME NEW stage \in {"sent", "refused"}
          PROVE  Sound(c, [req[c] EXCEPT !.stage = stage])
      BY <1>0, <1>11 DEF Send, Sound, Requests, Tiers
    <2> QED
      BY <1>0, <1>1, <1>11, <2>1, ToStep DEF Send
  <1>12. CASE Metadata(c)
    <2>1. CASE Answer(c, "failed")
      BY <1>2, <1>12, <2>1 DEF Metadata
    <2>2. CASE To(c, "insert")
      <3>1. Sound(c, [req[c] EXCEPT !.stage = "insert"])
        BY <1>0, <1>12 DEF Metadata, Sound, Requests, Persists
      <3> QED
        BY <1>0, <1>1, <1>12, <2>2, <3>1, ToStep DEF Metadata
    <2> QED
      BY <1>12, <2>1, <2>2 DEF Metadata, Described
  <1>13. CASE ReadBack(c)
    BY <1>2, <1>13 DEF ReadBack
  <1> QED
    BY <1>4, <1>5, <1>6, <1>7, <1>8, <1>9, <1>10, <1>11, <1>12, <1>13

-----------------------------------------------------------------------------
(* Steps that write to the store.                                          *)

\* What such a step has to keep for the other requests.
LEMMA StoreStep ==
    ASSUME Inv, NEW c \in Conns, NEW r \in Requests, Set(c, r),
           UNCHANGED <<setup, machine, oauth, shared>>,
           file' \in [Photos -> {"none", "open", "whole", "torn"}],
           hosted \subseteq hosted', hosted' \subseteq Photos,
           rows' \in Seq([photo : Photos, by : Tiers, md5 : BOOLEAN]),
           \A p \in Photos : file[p] # "none" => file'[p] # "none",
           \A d \in Conns \ {c} : req[d].stage = "writing" => file'[req[d].photo] = "open",
           Sound(c, r)', OpenIsWritten', RowsAreStored'
    PROVE  Inv'
  <1>0. UNCHANGED <<setup, website, adapter, loads, pending, promise, client, pair, asking, partial,
                    shared>>
    BY DEF machine, oauth
  <1>1. \A d \in Conns : req'[d] = IF d = c THEN r ELSE req[d]
    BY DEF Inv, TypeOK, Set
  <1>2. TypeOK'
    <2>1. req' \in [Conns -> Requests]
      BY Typed DEF Inv, Set
    <2> QED
      BY <1>0, <2>1 DEF Inv, TypeOK, Requests, Adapters, Pairs
  <1>3. MachineReady'
    BY <1>0 DEF Inv, MachineReady, NeverReady
  <1>4. ASSUME NEW d \in Conns PROVE Sound(d, req[d])'
    <2>1. CASE d = c
      BY <1>1, <2>1
    <2>2. CASE d # c
      <3>1. Sound(d, req[d]) /\ req[d].photo \in Photos /\ req'[d] = req[d]
        BY <1>1, <2>2, Typed DEF Inv, Requests
      <3> QED
        BY <1>0, <2>2, <3>1 DEF Sound, Persists, NeverReady
    <2> QED
      BY <2>1, <2>2
  <1> QED
    BY <1>2, <1>3, <1>4 DEF Inv

\* Rows stay stored when nothing that is stored goes away.
LEMMA RowsStay ==
    ASSUME Inv, rows' = rows, hosted \subseteq hosted',
           \A p \in Photos : file[p] # "none" => file'[p] # "none"
    PROVE  RowsAreStored'
  <1>1. \A i \in 1..Len(rows) : rows[i].photo \in Photos
    <2>1. rows \in Seq([photo : Photos, by : Tiers, md5 : BOOLEAN])
      BY Typed DEF Inv
    <2>2. \A i \in 1..Len(rows) : rows[i] \in [photo : Photos, by : Tiers, md5 : BOOLEAN]
      BY <2>1, ElementOfSeq
    <2> QED
      BY <2>2
  <1> QED
    BY <1>1 DEF Inv, RowsAreStored

\* writeFile opens the file, or fails before it opens anything.
LEMMA OpenFileStep ==
    ASSUME Inv, NEW c \in Conns, OpenFile(c)
    PROVE  Inv'
  <1> DEFINE p == req[c].photo
             r == [req[c] EXCEPT !.stage = "writing"]
  <1>0. /\ asking \in Nat /\ pair \in [1..MaxLoads -> Pairs]
        /\ req[c] \in Requests /\ Sound(c, req[c]) /\ p \in Photos
        /\ file \in [Photos -> {"none", "open", "whole", "torn"}] /\ hosted \subseteq Photos
        /\ rows \in Seq([photo : Photos, by : Tiers, md5 : BOOLEAN])
        /\ partial \subseteq 1..MaxLoads /\ shared \subseteq Photos
    BY Typed DEF Inv, Requests
  <1>1. CASE UNCHANGED file /\ Answer(c, "failed")
    <2>1. /\ UNCHANGED <<setup, machine, file, hosted, rows, client, asking, pair, partial, shared>>
          /\ req[c].stage # "writing"
      BY <1>1 DEF OpenFile, oauth
    <2> QED
      BY <1>0, <1>1, <2>1, AnswerStep
  <1>2. CASE file' = [file EXCEPT ![p] = "open"] /\ To(c, "writing")
    <2>1. r \in Requests /\ r.stage = "writing" /\ r.photo = p
      BY <1>0 DEF Requests
    <2>2. /\ UNCHANGED <<setup, machine, oauth, hosted, rows, shared>>
          /\ req[c].adapter.name = "local-disk"
      BY DEF OpenFile
    <2>3. Set(c, r)
      BY <1>2 DEF To
    <2>4. \A d \in Conns : req'[d] = IF d = c THEN r ELSE req[d]
      BY <2>3 DEF Inv, TypeOK, Set
    <2>5. PICK s \in Requests : s = r
      BY <2>1
    <2>6. s.answer = req[c].answer /\ s.adapter = req[c].adapter /\ s.photo = p /\ s.stage = "writing"
      BY <1>0, <2>5 DEF Requests
    <2>7. file' \in [Photos -> {"none", "open", "whole", "torn"}] /\ file'[p] = "open"
      BY <1>0, <1>2
    <2>8. \A q \in Photos : file'[q] = IF q = p THEN "open" ELSE file[q]
      BY <1>0, <1>2
    <2> HIDE DEF r
    <2>9. Sound(c, s)'
      BY <1>0, <2>2, <2>6, <2>7 DEF Sound, NeverReady, Tiers
    <2>10. ASSUME NEW q \in Photos, file'[q] = "open" PROVE Writing(q)' # {}
      <3>1. CASE q = p
        BY <2>1, <2>4, <3>1 DEF Writing
      <3>2. CASE q # p
        <4>1. Writing(q) # {}
          BY <2>8, <2>10, <3>2 DEF Inv, OpenIsWritten
        <4>2. PICK d \in Conns : req[d].stage = "writing" /\ req[d].photo = q
          BY <4>1 DEF Writing
        <4>3. d # c
          BY <3>2, <4>2
        <4> QED
          BY <2>4, <4>2, <4>3 DEF Writing
      <3> QED
        BY <3>1, <3>2
    <2>11. RowsAreStored'
      BY <2>2, <2>8, RowsStay
    <2>12. \A d \in Conns \ {c} : req[d].stage = "writing" => file'[req[d].photo] = "open"
      BY <2>8, Typed DEF Inv, Sound, Requests
    <2> QED
      BY <1>0, <2>2, <2>3, <2>5, <2>7, <2>8, <2>9, <2>10, <2>11, <2>12, StoreStep
      DEF OpenIsWritten
  <1> QED
    BY <1>1, <1>2 DEF OpenFile

\* The file is closed: the last writer of it leaves it whole or torn.
LEMMA CloseFileStep ==
    ASSUME Inv, NEW c \in Conns, CloseFile(c)
    PROVE  Inv'
  <1> DEFINE p == req[c].photo
             left(state) == IF Writing(p) = {c} THEN state ELSE "open"
  <1>0. /\ req[c] \in Requests /\ Sound(c, req[c]) /\ p \in Photos
        /\ file \in [Photos -> {"none", "open", "whole", "torn"}] /\ hosted \subseteq Photos
        /\ rows \in Seq([photo : Photos, by : Tiers, md5 : BOOLEAN])
        /\ req[c].stage = "writing" 
        /\ UNCHANGED <<setup, machine, oauth, hosted, rows, shared>>
    BY Typed DEF Inv, Requests, CloseFile
  <1>1. PICK state \in {"whole", "torn"} :
            /\ file' = [file EXCEPT ![p] = left(state)]
            /\ (To(c, "insert") /\ Persists(req[c].adapter))
                  \/ Answer(c, "stored") \/ Answer(c, "failed")
    BY DEF CloseFile, WriteFailed
  <1>2. \A q \in Photos : file'[q] = IF q = p THEN left(state) ELSE file[q]
    BY <1>0, <1>1
  <1>3. left(state) \in {"open", "whole", "torn"}
    OBVIOUS
  <1>4. /\ file' \in [Photos -> {"none", "open", "whole", "torn"}]
        /\ \A q \in Photos : file[q] # "none" => file'[q] # "none"
    BY <1>0, <1>1, <1>2, <1>3
  <1>5. PICK r \in Requests : Set(c, r) /\ r.stage # "writing" /\ Sound(c, r)'
    <2>1. CASE To(c, "insert") /\ Persists(req[c].adapter)
      <3>1. PICK s \in Requests : s = [req[c] EXCEPT !.stage = "insert"]
        BY <1>0 DEF Requests
      <3>2. /\ s.stage = "insert" /\ s.adapter = req[c].adapter /\ s.photo = p
            /\ s.answer = req[c].answer
        BY <1>0, <3>1 DEF Requests
      <3>3. s.adapter.name = "local-disk" /\ (s.answer = "not ready" => NeverReady)
        BY <1>0, <3>2 DEF Sound
      <3>4. Persists(s.adapter)'
        BY <1>0, <2>1, <3>2 DEF Persists
      <3>5. file'[s.photo] # "none"
        BY <1>0, <1>2, <1>3, <3>2
      <3>6. Sound(c, s)'
        BY <1>0, <3>2, <3>3, <3>4, <3>5 DEF Sound, NeverReady, Tiers
      <3> QED
        BY <2>1, <3>1, <3>2, <3>6 DEF To
    <2>2. ASSUME NEW what \in {"stored", "failed"}, Answer(c, what)
          PROVE  \E r \in Requests : Set(c, r) /\ r.stage # "writing" /\ Sound(c, r)'
      <3>1. PICK s \in Requests : s = [Idle EXCEPT !.answer = what]
        BY IdleIsSound
      <3>2. s.stage = "over" /\ s.answer = what
        BY <3>1 DEF Idle
      <3>3. Sound(c, s)'
        BY <3>2 DEF Sound
      <3> QED
        BY <2>2, <3>1, <3>2, <3>3 DEF Answer
    <2> QED
      BY <1>1, <2>1, <2>2
  <1>6. \A d \in Conns : req'[d] = IF d = c THEN r ELSE req[d]
    BY <1>5 DEF Inv, TypeOK, Set
  <1>7. c \in Writing(p)
    BY <1>0 DEF Writing
  <1>8. ASSUME NEW q \in Photos, file'[q] = "open" PROVE Writing(q)' # {}
    <2>1. PICK d \in Conns : d # c /\ req[d].stage = "writing" /\ req[d].photo = q
      <3>1. CASE q = p
        <4>1. Writing(p) # {c}
          BY <1>2, <1>8, <3>1
        <4> QED
          BY <1>7, <3>1, <4>1 DEF Writing
      <3>2. CASE q # p
        <4>1. Writing(q) # {}
          BY <1>2, <1>8, <3>2 DEF Inv, OpenIsWritten
        <4> QED
          BY <3>2, <4>1 DEF Writing
      <3> QED
        BY <3>1, <3>2
    <2> QED
      BY <1>6, <2>1 DEF Writing
  <1>9. ASSUME NEW d \in Conns \ {c}, req[d].stage = "writing"
        PROVE  file'[req[d].photo] = "open"
    <2>1. req[d].photo \in Photos /\ file[req[d].photo] = "open"
      BY <1>9, Typed DEF Inv, Sound, Requests
    <2>2. req[d].photo = p => Writing(p) # {c}
      BY <1>9 DEF Writing
    <2> QED
      BY <1>2, <2>1, <2>2
  <1>10. RowsAreStored'
    BY <1>0, <1>4, RowsStay
  <1> HIDE DEF left
  <1> QED
    BY <1>0, <1>4, <1>5, <1>8, <1>9, <1>10, StoreStep DEF OpenIsWritten

\* SmugMug's answer to the upload.
LEMMA SmugMugStep ==
    ASSUME Inv, NEW c \in Conns, SmugMugAnswers(c)
    PROVE  Inv'
  <1>0. /\ req[c] \in Requests /\ Sound(c, req[c]) /\ req[c].photo \in Photos
        /\ asking \in Nat /\ pair \in [1..MaxLoads -> Pairs]
        /\ file \in [Photos -> {"none", "open", "whole", "torn"}] /\ hosted \subseteq Photos
        /\ rows \in Seq([photo : Photos, by : Tiers, md5 : BOOLEAN])
        /\ req[c].stage \in {"sent", "refused"}
        /\ partial \subseteq 1..MaxLoads /\ shared \subseteq Photos
        /\ UNCHANGED <<setup, machine, oauth, file, rows, shared>>
    BY Typed DEF Inv, Requests, SmugMugAnswers
  <1>1. CASE UNCHANGED hosted /\ Answer(c, "failed")
    <2>1. UNCHANGED <<setup, machine, file, hosted, rows, client, asking, pair, partial, shared>>
      BY <1>0, <1>1 DEF oauth
    <2> QED
      BY <1>0, <1>1, <2>1, AnswerStep
  <1>2. CASE /\ req[c].stage = "sent" /\ hosted' = hosted \cup {req[c].photo}
             /\ To(c, "meta") \/ Answer(c, "failed")
    <2>1. PICK r \in Requests : Set(c, r) /\ r.stage # "writing" /\ Sound(c, r)'
      <3>1. CASE To(c, "meta")
        <4>1. PICK s \in Requests : s = [req[c] EXCEPT !.stage = "meta"]
          BY <1>0 DEF Requests
        <4>2. /\ s.stage = "meta" /\ s.adapter = req[c].adapter /\ s.photo = req[c].photo
              /\ s.answer = req[c].answer
          BY <1>0, <4>1 DEF Requests
        <4>3. s.adapter.name = "smugmug" /\ (s.answer = "not ready" => NeverReady)
          BY <1>0, <1>2, <4>2 DEF Sound
        <4>4. Sound(c, s)'
          BY <1>0, <1>2, <4>2, <4>3 DEF Sound, NeverReady, Tiers
        <4> QED
          BY <3>1, <4>1, <4>2, <4>4 DEF To
      <3>2. CASE Answer(c, "failed")
        <4>1. PICK s \in Requests : s = [Idle EXCEPT !.answer = "failed"]
          BY IdleIsSound
        <4>2. s.stage = "over" /\ s.answer = "failed"
          BY <4>1 DEF Idle
        <4>3. Sound(c, s)'
          BY <4>2 DEF Sound
        <4> QED
          BY <3>2, <4>1, <4>2, <4>3 DEF Answer
      <3> QED
        BY <1>2, <3>1, <3>2
    <2>2. \A q \in Photos : Writing(q)' = Writing(q)
      BY <1>2, <2>1, SameWriters
    <2>3. OpenIsWritten' /\ RowsAreStored'
      BY <1>0, <1>2, <2>2, RowsStay DEF Inv, OpenIsWritten
    <2>4. \A d \in Conns \ {c} : req[d].stage = "writing" => file'[req[d].photo] = "open"
      BY <1>0 DEF Inv, Sound
    <2> QED
      BY <1>0, <1>2, <2>1, <2>3, <2>4, StoreStep
  <1> QED
    BY <1>1, <1>2 DEF SmugMugAnswers, Sent, Acknowledged

\* A row is inserted for bytes that are stored.
LEMMA InsertStep ==
    ASSUME Inv, NEW c \in Conns, Insert(c)
    PROVE  Inv'
  <1> DEFINE Rows == [photo : Photos, by : Tiers, md5 : BOOLEAN]
  <1>0. /\ req[c] \in Requests /\ Sound(c, req[c]) /\ req[c].photo \in Photos
        /\ file \in [Photos -> {"none", "open", "whole", "torn"}] /\ hosted \subseteq Photos
        /\ rows \in Seq(Rows)
        /\ req[c].stage = "insert" /\ UNCHANGED <<setup, machine, oauth, file, hosted, shared>>
    BY Typed DEF Inv, Requests, Insert
  <1>1. req[c].adapter.name \in Tiers
    BY <1>0 DEF Sound
  <1>2. PICK md5 \in BOOLEAN :
            rows' = Append(rows, [photo |-> req[c].photo, by |-> req[c].adapter.name, md5 |-> md5])
    BY DEF Insert, ArchivedMD5
  <1>3. PICK row \in Rows : /\ rows' = Append(rows, row)
                            /\ row.photo = req[c].photo /\ row.by = req[c].adapter.name
    BY <1>0, <1>1, <1>2
  <1> HIDE DEF Rows
  <1>4. /\ rows' \in Seq(Rows) /\ Len(rows') = Len(rows) + 1 /\ rows'[Len(rows) + 1] = row
        /\ \A i \in 1..Len(rows) : rows'[i] = rows[i]
    BY <1>0, <1>3, AppendProperties
  <1>5. PICK r \in Requests : Set(c, r) /\ r.stage # "writing" /\ Sound(c, r)'
    <2>1. CASE To(c, "read")
      <3>1. PICK s \in Requests : s = [req[c] EXCEPT !.stage = "read"]
        BY <1>0 DEF Requests
      <3>2. s.stage = "read" /\ s.adapter = req[c].adapter /\ s.answer = req[c].answer
        BY <1>0, <3>1 DEF Requests
      <3>3. s.answer = "not ready" => NeverReady
        BY <1>0, <3>2 DEF Sound
      <3>4. Sound(c, s)'
        BY <1>0, <1>1, <3>2, <3>3 DEF Sound, NeverReady
      <3> QED
        BY <2>1, <3>1, <3>2, <3>4 DEF To
    <2>2. CASE Answer(c, "failed")
      <3>1. PICK s \in Requests : s = [Idle EXCEPT !.answer = "failed"]
        BY IdleIsSound
      <3>2. s.stage = "over" /\ s.answer = "failed"
        BY <3>1 DEF Idle
      <3>3. Sound(c, s)'
        BY <3>2 DEF Sound
      <3> QED
        BY <2>2, <3>1, <3>2, <3>3 DEF Answer
    <2> QED
      BY <2>1, <2>2 DEF Insert
  <1>6. OpenIsWritten'
    BY <1>0, <1>5, SameWriters DEF Inv, OpenIsWritten
  <1>7. RowsAreStored'
    <2> SUFFICES ASSUME NEW i \in 1..Len(rows')
                 PROVE  /\ rows'[i].by = "smugmug" => rows'[i].photo \in hosted'
                        /\ rows'[i].by = "local-disk" => file'[rows'[i].photo] # "none"
      BY DEF RowsAreStored
    <2>1. CASE i \in 1..Len(rows)
      BY <1>0, <1>4, <2>1 DEF Inv, RowsAreStored
    <2>2. CASE i = Len(rows) + 1
      BY <1>0, <1>3, <1>4, <2>2 DEF Sound
    <2>3. Len(rows) \in Nat
      BY <1>0, LenProperties
    <2> QED
      BY <1>4, <2>1, <2>2, <2>3
  <1>8. \A d \in Conns \ {c} : req[d].stage = "writing" => file'[req[d].photo] = "open"
    BY <1>0 DEF Inv, Sound
  <1> QED
    BY <1>0, <1>4, <1>5, <1>6, <1>7, <1>8, StoreStep DEF Rows

-----------------------------------------------------------------------------
(* The exchange.                                                           *)

LEMMA OauthSteps ==
    ASSUME Inv, NEW c \in Conns, OauthCallback(c) \/ ExchangeEnds(c)
    PROVE  Inv'
  <1>0. /\ req[c] \in Requests /\ Sound(c, req[c])
        /\ asking \in Nat /\ pair \in [1..MaxLoads -> Pairs]
        /\ client \in 0..MaxLoads /\ partial \subseteq 1..MaxLoads
        /\ UNCHANGED <<setup, machine, client, asking, file, hosted, rows>>
        /\ shared' \subseteq Photos
    BY Typed, BoundsAreNatural DEF Inv, OauthCallback, ExchangeEnds, store
  <1>1. CASE OauthCallback(c)
    <2>0. req[c].stage = "init" /\ req[c].kind = "callback" /\ partial' = partial
      BY <1>1 DEF OauthCallback, Ready
    <2>1. CASE Answer(c, "failed") /\ UNCHANGED pair
      BY <1>0, <2>0, <2>1, AnswerStep
    <2>2. CASE /\ client # 0
               /\ Set(c, [req[c] EXCEPT !.stage = "exchange", !.load = client, !.prev = pair[client]])
               /\ pair' = [pair EXCEPT ![client].token = "callback"]
      <3>1. client \in 1..MaxLoads
        BY <1>0, <2>2, BoundsAreNatural
      <3>2. pair[client] \in Pairs
        BY <1>0, <3>1
      <3>3. pair' \in [1..MaxLoads -> Pairs]
        <4>1. [pair[client] EXCEPT !.token = "callback"] \in Pairs
          BY <3>2 DEF Pairs, Sources
        <4> QED
          BY <1>0, <2>2, <3>1, <4>1
      <3>4. PICK r \in Requests :
              r = [req[c] EXCEPT !.stage = "exchange", !.load = client, !.prev = pair[client]]
        BY <1>0, <3>2 DEF Requests
      <3>5. r.stage = "exchange" /\ r.load = client /\ r.answer = req[c].answer
        BY <1>0, <3>4 DEF Requests
      <3>6. Sound(c, r)
        BY <1>0, <2>0, <3>1, <3>5 DEF Sound
      <3> QED
        BY <1>0, <2>0, <2>2, <3>3, <3>4, <3>5, <3>6, QuietStep
    <2> QED
      BY <1>1, <2>1, <2>2 DEF OauthCallback
  <1>2. CASE ExchangeEnds(c)
    <2>1. req[c].stage = "exchange" /\ req[c].load \in 1..MaxLoads /\ req[c].prev \in Pairs
      BY <1>0, <1>2 DEF ExchangeEnds, Sound, Requests
    <2>2. pair[req[c].load] \in Pairs
      BY <1>0, <2>1
    <2>3. \A token \in Accepted(pair[req[c].load].token), secret \in Accepted(pair[req[c].load].secret) :
             [token |-> token, secret |-> secret] \in Pairs
      BY <2>2 DEF Accepted, Pairs, Sources
    <2>4. pair' \in [1..MaxLoads -> Pairs]
      <3>1. PICK p \in Pairs : pair' = [pair EXCEPT ![req[c].load] = p]
        BY <1>2, <2>1, <2>3 DEF ExchangeEnds, PairAfterFailure
      <3> QED
        BY <1>0, <2>1, <3>1
    <2>5. partial' \subseteq 1..MaxLoads
      BY <1>0, <1>2, <2>1 DEF ExchangeEnds
    <2> QED
      BY <1>0, <1>2, <2>1, <2>4, <2>5, AnswerStep DEF ExchangeEnds
  <1> QED
    BY <1>1, <1>2

-----------------------------------------------------------------------------

\* Inv is inductive.
THEOREM InvHolds == Spec => []Inv
  <1>1. Init => Inv
    <2> SUFFICES ASSUME Init PROVE Inv
      OBVIOUS
    <2>1. Idle \in Requests /\ Idle.answer = "none" /\ Idle.stage = "over"
      <3>1. [Idle EXCEPT !.answer = "none"] \in Requests
        BY IdleIsSound
      <3> QED
        BY <3>1 DEF Idle, Requests
    <2>2. \A c \in Conns : req[c] = Idle
      BY DEF Init
    <2>3. \A c \in Conns : Sound(c, req[c])
      BY <2>1, <2>2 DEF Sound
    <2>4. None \in Adapters /\ Both("none") \in Pairs
      BY BoundsAreNatural DEF None, Both, Adapters, Pairs, Sources, Tiers
    <2>5. TypeOK
      <3>1. req \in [Conns -> Requests]
        BY <2>1 DEF Init
      <3>2. pair \in [1..MaxLoads -> Pairs]
        BY <2>4 DEF Init
      <3>3. loads \in 0..MaxLoads /\ pending \subseteq 1..loads /\ promise \in 0..loads
            /\ client \in 0..loads /\ asking \in Nat
        BY BoundsAreNatural DEF Init
      <3>4. /\ rows \in Seq([photo : Photos, by : Tiers, md5 : BOOLEAN])
            /\ partial \subseteq 1..MaxLoads /\ shared \subseteq Photos
        BY DEF Init
      <3> QED
        BY <2>4, <3>1, <3>2, <3>3, <3>4 DEF Init, TypeOK, Requests, Adapters, Pairs
    <2>6. MachineReady /\ OpenIsWritten
      BY DEF Init, MachineReady, OpenIsWritten
    <2>7. RowsAreStored
      BY DEF Init, RowsAreStored
    <2> QED
      BY <2>3, <2>5, <2>6, <2>7 DEF Inv
  <1>2. Inv /\ [Next]_vars => Inv'
    <2> SUFFICES ASSUME Inv, [Next]_vars PROVE Inv'
      OBVIOUS
    <2>1. CASE UNCHANGED vars
      <3>1. UNCHANGED <<setup, website, adapter, loads, pending, promise, client, pair, asking,
                        partial, shared, file, hosted, rows, req>>
        BY <2>1 DEF vars, machine, oauth, store
      <3>2. TypeOK' /\ MachineReady'
        BY <3>1 DEF Inv, TypeOK, MachineReady, NeverReady
      <3>3. OpenIsWritten' /\ RowsAreStored'
        BY <3>1 DEF Inv, OpenIsWritten, Writing, RowsAreStored
      <3>4. \A c \in Conns : Sound(c, req[c])'
        BY <3>1 DEF Inv, Sound, Persists, NeverReady
      <3> QED
        BY <3>2, <3>3, <3>4 DEF Inv
    <2>2. CASE DatabaseInit \/ RequestToken
               \/ \E n \in 1..MaxLoads : SecretsLoaded(n) \/ SecretsUnusable(n)
      BY <2>2, MachineSteps
    <2>3. ASSUME NEW c \in Conns,
                 \E kind \in Uploads \cup {"callback", "admin"}, p \in Photos : Arrive(c, kind, p)
          PROVE  Inv'
      BY <2>3, ArriveStep
    <2>4. ASSUME NEW c \in Conns,
                 \/ AdminPage(c) \/ Accept(c) \/ JsonRead(c) \/ Fetched(c) \/ FormRead(c)
                 \/ Fails(c) \/ FindByMd5(c) \/ Send(c) \/ Metadata(c) \/ ReadBack(c)
          PROVE  Inv'
      BY <2>4, WaitingSteps
    <2>5. ASSUME NEW c \in Conns,
                 \/ OpenFile(c) \/ CloseFile(c) \/ SmugMugAnswers(c) \/ Insert(c)
                 \/ OauthCallback(c) \/ ExchangeEnds(c)
          PROVE  Inv'
      BY <2>5, OpenFileStep, CloseFileStep, SmugMugStep, InsertStep, OauthSteps
    <2> QED
      BY <2>1, <2>2, <2>3, <2>4, <2>5 DEF Next
  <1> QED
    BY <1>1, <1>2, PTL DEF Spec

\* Every variable keeps its type (images/image-uploader.ts, adapters).
THEOREM TypeCorrect == Spec => []TypeOK
  BY InvHolds, PTL DEF Inv

\* However often and by whomever the machine is initialised, a request that
\* comes early waits (ensureWebsiteInit, initPromise, init).
THEOREM NobodyIsEarly == Spec => []NeverEarly
  <1>1. Inv => NeverEarly
    BY DEF Inv, Sound, NeverReady, NeverEarly
  <1> QED
    BY <1>1, InvHolds, PTL

-----------------------------------------------------------------------------
(* Bytes.                                                                  *)

DiskRows(p) == {i \in 1..Len(rows) : rows[i].photo = p /\ rows[i].by = "local-disk"}

\* The file of a photo that is written by one upload at a time: its row is
\* inserted once it is whole, and keeps all other writers out.
Alone(p) ==
    /\ \A c, d \in Storing(p) : c = d
    /\ \A c \in Storing(p) : req[c].stage = "insert" => file[p] = "whole"
    /\ DiskRows(p) # {} => file[p] = "whole" /\ Storing(p) = {}

\* The row of an upload to the disk can be found by its MD5.
DiskRowsKnown == \A i \in 1..Len(rows) : rows[i].by = "local-disk" => rows[i].md5 /\ setup.persist

BytesInv == DiskRowsKnown /\ \A p \in Photos \ shared : Alone(p)

\* A step after which nobody stores a file who did not before.
LEMMA FewerStoring ==
    ASSUME BytesInv, UNCHANGED <<setup, file, rows>>, shared \subseteq shared',
           \A p \in Photos : \A c \in Storing(p)' :
              c \in Storing(p) /\ (req'[c].stage = "insert" => req[c].stage = "insert")
    PROVE  BytesInv'
  <1>1. \A p \in Photos : DiskRows(p)' = DiskRows(p)
    BY DEF DiskRows
  <1>2. ASSUME NEW p \in Photos \ shared' PROVE Alone(p)'
    <2>1. Alone(p)
      BY DEF BytesInv
    <2> QED
      BY <1>1, <2>1 DEF Alone
  <1> QED
    BY <1>2 DEF BytesInv, DiskRowsKnown

\* Whatever else a request does, it stores no file that it did not before.
LEMMA OthersKeepBytes ==
    ASSUME Inv, BytesInv, NEW c \in Conns,
           \/ \E kind \in Uploads \cup {"callback", "admin"}, p \in Photos : Arrive(c, kind, p)
           \/ AdminPage(c) \/ Accept(c) \/ JsonRead(c) \/ Fetched(c) \/ FormRead(c)
           \/ Fails(c) \/ Send(c) \/ Metadata(c) \/ ReadBack(c) \/ SmugMugAnswers(c)
           \/ OauthCallback(c) \/ ExchangeEnds(c)
    PROVE  BytesInv'
  <1>0. /\ req[c] \in Requests /\ adapter \in Adapters /\ Idle \in Requests /\ Sound(c, req[c])
    <2>1. [Idle EXCEPT !.answer = "none"] \in Requests
      BY IdleIsSound
    <2> QED
      BY <2>1, Typed DEF Inv, Idle, Requests
  <1>1. UNCHANGED <<setup, file, rows, shared>>
    BY DEF store, Arrive, AdminPage, Accept, JsonRead, Fetched, FormRead, Fails, Send,
           Metadata, ReadBack, SmugMugAnswers, OauthCallback, ExchangeEnds
  <1>2. ASSUME NEW r, Set(c, r),
               r.stage \in {"write", "writing", "insert"} => r.adapter.name # "local-disk"
        PROVE  BytesInv'
    <2>1. \A d \in Conns : req'[d] = IF d = c THEN r ELSE req[d]
      BY <1>2 DEF Inv, TypeOK, Set
    <2>2. \A p \in Photos : \A d \in Storing(p)' : d # c /\ d \in Storing(p) /\ req'[d] = req[d]
      BY <1>2, <2>1 DEF Storing
    <2> QED
      BY <1>1, <2>2, FewerStoring
  <1>3. ASSUME NEW what \in {"not ready", "failed", "stored", "page"}, Answer(c, what)
        PROVE  BytesInv'
    <2>1. [Idle EXCEPT !.answer = what].stage = "over"
      BY <1>0 DEF Idle, Requests
    <2> QED
      BY <1>2, <1>3, <2>1 DEF Answer
  <1>4. ASSUME NEW stage \in {"body", "fetch", "read", "sent", "refused", "meta"}, To(c, stage)
        PROVE  BytesInv'
    <2>1. [req[c] EXCEPT !.stage = stage].stage = stage
      BY <1>0 DEF Requests
    <2> QED
      BY <1>2, <1>4, <2>1 DEF To
  <1>5. ASSUME To(c, "insert"), req[c].adapter.name = "smugmug" PROVE BytesInv'
    <2>1. [req[c] EXCEPT !.stage = "insert"].adapter = req[c].adapter
      BY <1>0 DEF Requests
    <2> QED
      BY <1>2, <1>5, <2>1 DEF To
  <1>6. ASSUME Hand(c) PROVE BytesInv'
    <2>1. [req[c] EXCEPT !.stage = "find", !.adapter = adapter].stage = "find"
      BY <1>0 DEF Requests
    <2> QED
      BY <1>2, <1>6, <2>1 DEF Hand
  <1>7. ASSUME NEW kind \in Uploads \cup {"callback", "admin"}, NEW p \in Photos, Arrive(c, kind, p)
        PROVE  BytesInv'
    <2>1. PICK r : /\ r = [Idle EXCEPT !.stage = "init", !.kind = kind, !.photo = p,
                                       !.load = promise']
                   /\ Set(c, r)
      BY <1>7 DEF Arrive
    <2>2. r.stage = "init"
      BY <1>0, <2>1 DEF Requests
    <2> QED
      BY <1>2, <2>1, <2>2
  <1>8. ASSUME OauthCallback(c) PROVE BytesInv'
    <2>1. [req[c] EXCEPT !.stage = "exchange", !.load = client, !.prev = pair[client]].stage
            = "exchange"
      BY <1>0 DEF Requests
    <2>2. Set(c, [req[c] EXCEPT !.stage = "exchange", !.load = client, !.prev = pair[client]])
             => BytesInv'
      BY <1>2, <2>1
    <2> QED
      BY <1>3, <1>8, <2>2 DEF OauthCallback
  <1>9. ASSUME AdminPage(c) \/ Accept(c) \/ ReadBack(c) \/ ExchangeEnds(c) \/ Fails(c) PROVE BytesInv'
    BY <1>3, <1>4, <1>9 DEF AdminPage, Accept, ReadBack, ExchangeEnds, Fails
  <1>10. ASSUME JsonRead(c) \/ Fetched(c) \/ FormRead(c) PROVE BytesInv'
    BY <1>3, <1>4, <1>6, <1>10 DEF JsonRead, Fetched, FormRead
  <1>11. ASSUME Send(c) PROVE BytesInv'
    BY <1>4, <1>11 DEF Send
  <1>12. ASSUME Metadata(c) PROVE BytesInv'
    <2>1. req[c].adapter.name = "smugmug"
      BY <1>0, <1>12 DEF Metadata, Sound
    <2> QED
      BY <1>3, <1>5, <1>12, <2>1 DEF Metadata, Described
  <1>13. ASSUME SmugMugAnswers(c) PROVE BytesInv'
    BY <1>3, <1>4, <1>13 DEF SmugMugAnswers, Sent, Acknowledged
  <1> QED
    BY <1>7, <1>8, <1>9, <1>10, <1>11, <1>12, <1>13

\* findByMd5: no row has been found, or it is one upload beside another.
LEMMA FindKeepsBytes ==
    ASSUME Inv, BytesInv, NEW c \in Conns, FindByMd5(c)
    PROVE  BytesInv'
  <1>0. /\ req[c] \in Requests /\ UNCHANGED <<setup, file, rows>> /\ req[c].stage = "find"
        /\ Idle \in Requests
    <2>1. [Idle EXCEPT !.answer = "none"] \in Requests
      BY IdleIsSound
    <2> QED
      BY <2>1, Typed DEF Inv, Idle, Requests, FindByMd5
  <1>1. ASSUME NEW r, Set(c, r),
               r.stage \in {"write", "writing", "insert"} => r.adapter.name # "local-disk",
               shared \subseteq shared'
        PROVE  BytesInv'
    <2>1. \A d \in Conns : req'[d] = IF d = c THEN r ELSE req[d]
      BY <1>1 DEF Inv, TypeOK, Set
    <2>2. \A p \in Photos : \A d \in Storing(p)' : d # c /\ d \in Storing(p) /\ req'[d] = req[d]
      BY <1>1, <2>1 DEF Storing
    <2> QED
      BY <1>0, <1>1, <2>2, FewerStoring
  <1>2. CASE Answer(c, "stored") /\ UNCHANGED shared
    <2>1. [Idle EXCEPT !.answer = "stored"].stage = "over"
      BY <1>0 DEF Idle, Requests
    <2> QED
      BY <1>1, <1>2, <2>1 DEF Answer
  <1>3. ASSUME NEW stage \in {"insert", "write"}, To(c, stage),
               ~Known(req[c]) \/ ~Persists(req[c].adapter),
               stage = "insert" => req[c].adapter.name = "uploadthing",
               shared' = shared \cup {p \in {req[c].photo} : Cardinality(Storing(p)') > 1}
        PROVE  BytesInv'
    <2>1. PICK r : /\ r = [req[c] EXCEPT !.stage = stage] /\ Set(c, r) /\ r.stage = stage
                   /\ r.photo = req[c].photo /\ r.adapter = req[c].adapter
      <3>1. /\ [req[c] EXCEPT !.stage = stage].stage = stage
            /\ [req[c] EXCEPT !.stage = stage].photo = req[c].photo
            /\ [req[c] EXCEPT !.stage = stage].adapter = req[c].adapter
        BY <1>0 DEF Requests
      <3> QED
        BY <1>3, <3>1 DEF To
    <2>2. CASE req[c].adapter.name # "local-disk"
      BY <1>1, <1>3, <2>1, <2>2
    <2>3. CASE req[c].adapter.name = "local-disk"
      <3>1. stage = "write" /\ shared \subseteq shared'
        BY <1>3, <2>3
      <3> SUFFICES ASSUME NEW p \in Photos \ shared' PROVE Alone(p)'
        BY <1>0 DEF BytesInv, DiskRowsKnown
      <3>2. Alone(p) /\ p \notin shared
        BY <3>1 DEF BytesInv
      <3>3. \A d \in Conns : req'[d] = IF d = c THEN r ELSE req[d]
        BY <2>1 DEF Inv, TypeOK, Set
      <3>4. DiskRows(p)' = DiskRows(p)
        BY <1>0 DEF DiskRows
      <3>5. CASE p = req[c].photo
        <4>1. ~(Cardinality(Storing(p)') > 1)
          BY <1>3, <3>5
        <4>2. IsFiniteSet(Storing(p)') /\ Storing(p)' \subseteq Conns
          <5>1. Storing(p)' \in SUBSET Conns /\ IsFiniteSet(Conns)
            BY ImageUploaderAssumption DEF Storing
          <5> QED
            BY <5>1, FS_Subset
        <4>3. \A d, e \in Storing(p)' : d = e
          <5> SUFFICES ASSUME NEW d \in Storing(p)', NEW e \in Storing(p)', d # e PROVE FALSE
            OBVIOUS
          <5>1. {d} \in SUBSET {d, e} /\ {d, e} \in SUBSET Storing(p)'
            OBVIOUS
          <5>2. IsFiniteSet({d}) /\ Cardinality({d}) = 1 /\ IsFiniteSet({d} \cup {e})
                /\ Cardinality({d} \cup {e}) = Cardinality({d}) + 1
            BY FS_Singleton, FS_AddElement
          <5>3. {d} \cup {e} = {d, e}
            OBVIOUS
          <5>4. Cardinality({d, e}) = 2
            BY <5>2, <5>3
          <5>5. Cardinality({d, e}) <= Cardinality(Storing(p)') /\ Cardinality(Storing(p)') \in Nat
            BY <4>2, <5>1, FS_Subset, FS_CardinalityType
          <5> QED
            BY <4>1, <5>4, <5>5
        <4>4. DiskRows(p) = {}
          <5> SUFFICES ASSUME NEW i \in DiskRows(p) PROVE FALSE
            OBVIOUS
          <5>1. rows[i].md5 /\ setup.persist /\ i \in 1..Len(rows) /\ rows[i].photo = p
            BY DEF BytesInv, DiskRowsKnown, DiskRows
          <5>2. Persists(req[c].adapter) /\ i \in RowsOf(req[c].photo)
            BY <3>5, <5>1 DEF Persists, RowsOf
          <5> QED
            BY <1>3, <5>2 DEF Known
        <4>5. c \in Storing(p)'
          BY <2>1, <2>3, <3>1, <3>3, <3>5 DEF Storing
        <4>6. \A d \in Storing(p)' : req'[d].stage # "insert"
          BY <2>1, <3>1, <3>3, <4>3, <4>5
        <4> QED
          BY <3>4, <4>3, <4>4, <4>6 DEF Alone
      <3>6. CASE p # req[c].photo
        <4>1. Storing(p)' = Storing(p)
          BY <1>0, <2>1, <3>3, <3>6 DEF Storing
        <4>2. \A d \in Storing(p) : req'[d] = req[d]
          BY <1>0, <3>3 DEF Storing
        <4> QED
          BY <1>0, <3>2, <3>4, <4>1, <4>2 DEF Alone
      <3> QED
        BY <3>5, <3>6
    <2> QED
      BY <2>2, <2>3
  <1>4. CASE /\ ~Known(req[c]) \/ ~Persists(req[c].adapter)
             /\ To(c, IF req[c].adapter.name = "uploadthing" THEN "insert" ELSE "write")
             /\ shared' = shared \cup {p \in {req[c].photo} : Cardinality(Storing(p)') > 1}
    <2>1. CASE req[c].adapter.name = "uploadthing"
      BY <1>3, <1>4, <2>1
    <2>2. CASE req[c].adapter.name # "uploadthing"
      BY <1>3, <1>4, <2>2
    <2> QED
      BY <2>1, <2>2
  <1> QED
    BY <1>2, <1>4 DEF FindByMd5

\* A step of an upload that stores the file of p.
LEMMA StoringStep ==
    ASSUME Inv, BytesInv, NEW c \in Conns, NEW r, Set(c, r),
           UNCHANGED <<setup, rows, shared>>, c \in Storing(req[c].photo),
           r.stage \in {"write", "writing", "insert"} =>
              r.photo = req[c].photo /\ r.adapter = req[c].adapter,
           \A p \in Photos : p # req[c].photo => file'[p] = file[p],
           r.stage = "insert" /\ Storing(req[c].photo) = {c} => file'[req[c].photo] = "whole"
    PROVE  BytesInv'
  <1> SUFFICES ASSUME NEW p \in Photos \ shared PROVE Alone(p)'
    BY DEF BytesInv, DiskRowsKnown
  <1>1. Alone(p) /\ DiskRows(p)' = DiskRows(p)
    BY DEF BytesInv, DiskRows
  <1>2. \A d \in Conns : req'[d] = IF d = c THEN r ELSE req[d]
    BY DEF Inv, TypeOK, Set
  <1>3. CASE p = req[c].photo
    <2>1. Storing(p) = {c} /\ DiskRows(p) = {}
      BY <1>1, <1>3 DEF Alone
    <2>2. Storing(p)' \subseteq {c}
      BY <1>2, <2>1 DEF Storing
    <2>3. ASSUME NEW d \in Storing(p)', req'[d].stage = "insert" PROVE file'[p] = "whole"
      BY <1>2, <1>3, <2>1, <2>2, <2>3 DEF Storing
    <2> QED
      BY <1>1, <2>1, <2>2, <2>3 DEF Alone
  <1>4. CASE p # req[c].photo
    <2>1. Storing(p)' = Storing(p) /\ c \notin Storing(p)
      BY <1>2, <1>4 DEF Storing
    <2>2. \A d \in Storing(p) : req'[d] = req[d]
      BY <1>2, <2>1 DEF Storing
    <2>3. file'[p] = file[p]
      BY <1>4
    <2> QED
      BY <1>1, <2>1, <2>2, <2>3 DEF Alone
  <1> QED
    BY <1>3, <1>4

\* writeFile: an upload on its own goes on to its row only if it has left
\* the file whole.
LEMMA WriteKeepsBytes ==
    ASSUME Inv, BytesInv, NEW c \in Conns, OpenFile(c) \/ CloseFile(c)
    PROVE  BytesInv'
  <1> DEFINE p == req[c].photo
  <1>0. /\ req[c] \in Requests /\ Sound(c, req[c]) /\ p \in Photos /\ Idle \in Requests
        /\ file \in [Photos -> {"none", "open", "whole", "torn"}]
        /\ UNCHANGED <<setup, rows, shared>>
    <2>1. [Idle EXCEPT !.answer = "none"] \in Requests
      BY IdleIsSound
    <2> QED
      BY <2>1, Typed DEF Inv, Idle, Requests, OpenFile, CloseFile
  <1>1. c \in Storing(p)
    BY <1>0 DEF Storing, OpenFile, CloseFile, Sound
  <1>2. \A q \in Photos : q # p => file'[q] = file[q]
    BY <1>0 DEF OpenFile, CloseFile
  <1>3. ASSUME NEW what \in {"stored", "failed"}, Answer(c, what) PROVE BytesInv'
    <2>1. [Idle EXCEPT !.answer = what].stage = "over"
      BY <1>0 DEF Idle, Requests
    <2> QED
      BY <1>0, <1>1, <1>2, <1>3, <2>1, StoringStep DEF Answer
  <1>4. ASSUME NEW stage \in {"writing", "insert"}, To(c, stage),
               stage = "insert" /\ Storing(p) = {c} => file'[p] = "whole"
        PROVE  BytesInv'
    <2>1. PICK r : /\ Set(c, r) /\ r.stage = stage
                   /\ r.photo = req[c].photo /\ r.adapter = req[c].adapter
      <3>1. /\ [req[c] EXCEPT !.stage = stage].stage = stage
            /\ [req[c] EXCEPT !.stage = stage].photo = req[c].photo
            /\ [req[c] EXCEPT !.stage = stage].adapter = req[c].adapter
        BY <1>0 DEF Requests
      <3> QED
        BY <1>4, <3>1 DEF To
    <2> QED
      BY <1>0, <1>1, <1>2, <1>4, <2>1, StoringStep
  <1>5. CASE OpenFile(c)
    BY <1>3, <1>4, <1>5 DEF OpenFile
  <1>6. CASE CloseFile(c)
    <2>1. Storing(p) = {c} => Writing(p) = {c}
      <3>1. \A d \in Writing(p) : d \in Storing(p)
        BY DEF Inv, Sound, Writing, Storing
      <3>2. c \in Writing(p)
        BY <1>6 DEF CloseFile, Writing
      <3> QED
        BY <3>1, <3>2
    <2>2. CASE To(c, "insert")
               /\ file' = [file EXCEPT ![p] = IF Writing(p) = {c} THEN "whole" ELSE "open"]
      <3>1. Storing(p) = {c} => file'[p] = "whole"
        BY <1>0, <2>1, <2>2
      <3> QED
        BY <1>4, <2>2, <3>1
    <2>3. CASE Answer(c, "stored") \/ Answer(c, "failed")
      BY <1>3, <2>3
    <2> QED
      BY <1>6, <2>2, <2>3 DEF CloseFile, WriteFailed
  <1> QED
    BY <1>5, <1>6

\* The insert.
LEMMA InsertKeepsBytes ==
    ASSUME Inv, BytesInv, NEW c \in Conns, Insert(c)
    PROVE  BytesInv'
  <1>0. /\ req[c] \in Requests /\ Sound(c, req[c]) /\ req[c].stage = "insert"
        /\ req[c].photo \in Photos /\ req[c].adapter.name \in Tiers
        /\ UNCHANGED <<setup, file, shared>>
        /\ rows \in Seq([photo : Photos, by : Tiers, md5 : BOOLEAN])
    BY Typed DEF Inv, Insert, Sound, Requests
  <1>1. PICK md5 \in ArchivedMD5(req[c].adapter) :
            rows' = Append(rows, [photo |-> req[c].photo, by |-> req[c].adapter.name, md5 |-> md5])
    BY DEF Insert
  <1>2. PICK row : /\ rows' = Append(rows, row) /\ row.photo = req[c].photo
                   /\ row.by = req[c].adapter.name /\ row.md5 = md5
                   /\ row \in [photo : Photos, by : Tiers, md5 : BOOLEAN]
    <2>1. md5 \in BOOLEAN
      BY DEF ArchivedMD5
    <2> QED
      BY <1>0, <1>1, <2>1
  <1>3. /\ Len(rows) \in Nat /\ Len(rows') = Len(rows) + 1 /\ rows'[Len(rows) + 1] = row
        /\ \A i \in 1..Len(rows) : rows'[i] = rows[i]
    BY <1>0, <1>2, AppendProperties, LenProperties
  <1>4. \A i \in 1..Len(rows') : i \in 1..Len(rows) \/ i = Len(rows) + 1
    BY <1>3
  <1>5. PICK r : Set(c, r) /\ r.stage \in {"read", "over"}
    <2>1. [Idle EXCEPT !.answer = "failed"].stage = "over"
      BY IdleIsSound
    <2>2. [req[c] EXCEPT !.stage = "read"].stage = "read"
      BY <1>0 DEF Requests
    <2> QED
      BY <2>1, <2>2 DEF Insert, To, Answer
  <1>6. \A d \in Conns : req'[d] = IF d = c THEN r ELSE req[d]
    BY <1>5 DEF Inv, TypeOK, Set
  <1>7. DiskRowsKnown'
    <2> SUFFICES ASSUME NEW i \in 1..Len(rows'), rows'[i].by = "local-disk"
                 PROVE  rows'[i].md5 /\ setup'.persist
      BY DEF DiskRowsKnown
    <2>1. CASE i \in 1..Len(rows)
      BY <1>0, <1>3, <2>1 DEF BytesInv, DiskRowsKnown
    <2>2. CASE i = Len(rows) + 1
      <3>1. req[c].adapter.name = "local-disk"
        BY <1>2, <1>3, <2>2
      <3>2. md5 = TRUE
        BY <3>1 DEF ArchivedMD5
      <3> QED
        BY <1>0, <1>2, <1>3, <2>2, <3>1, <3>2 DEF Sound, Persists
    <2> QED
      BY <1>4, <2>1, <2>2
  <1>8. ASSUME NEW p \in Photos \ shared PROVE Alone(p)'
    <2>1. Alone(p)
      BY <1>8 DEF BytesInv
    <2>2. \A d \in Storing(p)' : d # c /\ d \in Storing(p) /\ req'[d] = req[d]
      BY <1>5, <1>6 DEF Storing
    <2>3. CASE p = req[c].photo /\ req[c].adapter.name = "local-disk"
      <3>1. c \in Storing(p)
        BY <1>0, <2>3 DEF Storing
      <3>2. file[p] = "whole" /\ Storing(p)' = {}
        BY <1>0, <2>1, <2>2, <3>1 DEF Alone
      <3> QED
        BY <1>0, <3>2 DEF Alone
    <2>4. CASE ~(p = req[c].photo /\ req[c].adapter.name = "local-disk")
      <3>1. DiskRows(p)' = DiskRows(p)
        BY <1>2, <1>3, <1>4, <2>4 DEF DiskRows
      <3> QED
        BY <1>0, <2>1, <2>2, <3>1 DEF Alone
    <2> QED
      BY <2>3, <2>4
  <1> QED
    BY <1>0, <1>7, <1>8 DEF BytesInv

\* For any number of uploads: a row stands for bytes that are stored, and
\* the file of one that nobody wrote beside another stays whole (the
\* adapters' store, findByMd5, persistImage).
THEOREM RowsComeLast == Spec => []RowsHaveBytes
  <1>1. Init => BytesInv
    BY DEF Init, Idle, BytesInv, DiskRowsKnown, Alone, DiskRows, Storing
  <1>2. Inv /\ BytesInv /\ [Next]_vars => BytesInv'
    <2> SUFFICES ASSUME Inv, BytesInv, [Next]_vars PROVE BytesInv'
      OBVIOUS
    <2>1. CASE UNCHANGED vars \/ DatabaseInit \/ RequestToken
               \/ \E n \in 1..MaxLoads : SecretsLoaded(n) \/ SecretsUnusable(n)
      <3>1. UNCHANGED <<setup, file, rows, shared, req>>
        BY <2>1 DEF vars, store, DatabaseInit, RequestToken, SecretsLoaded, SecretsUnusable, Loaded
      <3>2. \A p \in Photos : Storing(p)' = Storing(p)
        BY <3>1 DEF Storing
      <3> QED
        BY <3>1, <3>2, FewerStoring
    <2>2. ASSUME NEW c \in Conns, FindByMd5(c) \/ OpenFile(c) \/ CloseFile(c) \/ Insert(c)
          PROVE  BytesInv'
      BY <2>2, FindKeepsBytes, WriteKeepsBytes, InsertKeepsBytes
    <2>3. ASSUME NEW c \in Conns,
             \/ \E kind \in Uploads \cup {"callback", "admin"}, p \in Photos : Arrive(c, kind, p)
             \/ AdminPage(c) \/ Accept(c) \/ JsonRead(c) \/ Fetched(c) \/ FormRead(c)
             \/ Fails(c) \/ Send(c) \/ Metadata(c) \/ ReadBack(c) \/ SmugMugAnswers(c)
             \/ OauthCallback(c) \/ ExchangeEnds(c)
          PROVE  BytesInv'
      BY <2>3, OthersKeepBytes
    <2> QED
      BY <2>1, <2>2, <2>3 DEF Next
  <1>3. Inv /\ BytesInv => RowsHaveBytes
    <2> SUFFICES ASSUME Inv, BytesInv, NEW i \in 1..Len(rows)
                 PROVE  /\ rows[i].by = "smugmug" => rows[i].photo \in hosted
                        /\ rows[i].by = "local-disk" =>
                              IF rows[i].photo \in shared THEN file[rows[i].photo] # "none"
                              ELSE file[rows[i].photo] = "whole"
      BY DEF RowsHaveBytes
    <2>1. rows[i].photo \in Photos
      <3>1. rows[i] \in [photo : Photos, by : Tiers, md5 : BOOLEAN]
        BY Typed, ElementOfSeq DEF Inv
      <3> QED
        BY <3>1
    <2>2. ASSUME rows[i].by = "local-disk", rows[i].photo \notin shared
          PROVE  file[rows[i].photo] = "whole"
      <3>1. i \in DiskRows(rows[i].photo)
        BY <2>2 DEF DiskRows
      <3> QED
        BY <2>1, <2>2, <3>1 DEF BytesInv, Alone
    <2> QED
      BY <2>1, <2>2 DEF Inv, RowsAreStored
  <1> QED
    BY <1>1, <1>2, <1>3, InvHolds, PTL DEF Spec

-----------------------------------------------------------------------------
(* Tokens.                                                                 *)

Exchanging(c) == req[c].stage = "exchange"

\* A pair of two grants is that of an exchange, which remembers one of one.
PairInv ==
    /\ PairIsWhole
    /\ \A c \in Conns :
          Exchanging(c) /\ req[c].load \notin partial => OneGrant(req[c].prev)

\* Whoever may be exchanging tokens.
OneExchange == \A c, d \in OAuthConns : c = d

\* No step but the callback's own begins, ends or changes an exchange.
LEMMA ExchangesStay ==
    ASSUME Inv, NEW c \in Conns, ~Exchanging(c), NEW r \in Requests, r.stage # "exchange",
           Set(c, r)
    PROVE  \A d \in Conns : /\ Exchanging(d)' <=> Exchanging(d)
                            /\ Exchanging(d) => req'[d] = req[d]
  <1>1. \A d \in Conns : req'[d] = IF d = c THEN r ELSE req[d]
    BY DEF Inv, TypeOK, Set
  <1> QED
    BY <1>1 DEF Exchanging

\* Whatever else a request does, it goes on or is answered.
LEMMA OtherSteps ==
    ASSUME Inv, NEW c \in Conns,
           \/ \E kind \in Uploads \cup {"callback", "admin"}, p \in Photos : Arrive(c, kind, p)
           \/ AdminPage(c) \/ Accept(c) \/ JsonRead(c) \/ Fetched(c) \/ FormRead(c)
           \/ Fails(c) \/ FindByMd5(c) \/ Send(c) \/ Metadata(c) \/ ReadBack(c)
           \/ OpenFile(c) \/ CloseFile(c) \/ SmugMugAnswers(c) \/ Insert(c)
    PROVE  /\ UNCHANGED <<pair, partial>>
           /\ \A d \in Conns : /\ Exchanging(d)' <=> Exchanging(d)
                               /\ Exchanging(d) => req'[d] = req[d]
  <1> DEFINE Kept == \A d \in Conns : /\ Exchanging(d)' <=> Exchanging(d)
                                      /\ Exchanging(d) => req'[d] = req[d]
  <1>0. req[c] \in Requests /\ adapter \in Adapters /\ Sound(c, req[c])
    BY Typed DEF Inv
  <1>1. UNCHANGED <<pair, partial>>
    BY DEF oauth, Arrive, AdminPage, Accept, JsonRead, Fetched, FormRead, Fails, FindByMd5,
           Send, Metadata, ReadBack, OpenFile, CloseFile, SmugMugAnswers, Insert
  <1>2. ASSUME NEW what \in {"not ready", "failed", "stored", "page"}, Answer(c, what),
               ~Exchanging(c)
        PROVE  Kept
    <2>1. PICK r \in Requests : r = [Idle EXCEPT !.answer = what]
      <3>1. [Idle EXCEPT !.answer = "none"] \in Requests
        BY IdleIsSound
      <3>2. Idle \in Requests
        BY <3>1 DEF Idle, Requests
      <3> QED
        BY <3>2 DEF Requests
    <2>2. r.stage # "exchange" /\ Set(c, r)
      BY <1>2, <2>1 DEF Answer, Idle
    <2> QED
      BY <1>2, <2>2, ExchangesStay
  <1>3. ASSUME NEW stage \in {"body", "fetch", "write", "writing", "sent", "refused", "meta",
                              "insert", "read"},
               To(c, stage), ~Exchanging(c)
        PROVE  Kept
    <2>1. PICK r \in Requests : r = [req[c] EXCEPT !.stage = stage]
      BY <1>0 DEF Requests
    <2>2. r.stage # "exchange" /\ Set(c, r)
      BY <1>0, <1>3, <2>1 DEF To, Requests
    <2> QED
      BY <1>3, <2>2, ExchangesStay
  <1>4. ASSUME Hand(c), ~Exchanging(c)
        PROVE  Kept
    <2>1. PICK r \in Requests : r = [req[c] EXCEPT !.stage = "find", !.adapter = adapter]
      BY <1>0 DEF Requests
    <2>2. r.stage # "exchange" /\ Set(c, r)
      BY <1>0, <1>4, <2>1 DEF Hand, Requests
    <2> QED
      BY <1>4, <2>2, ExchangesStay
  <1>5. ASSUME NEW kind \in Uploads \cup {"callback", "admin"}, NEW p \in Photos, Arrive(c, kind, p)
        PROVE  Kept
    <2>1. \A d \in Conns : req'[d] = IF d = c
             THEN [Idle EXCEPT !.stage = "init", !.kind = kind, !.photo = p, !.load = promise']
             ELSE req[d]
      BY <1>5 DEF Inv, TypeOK, Arrive, Set
    <2>2. req[c].stage = "over" /\ req'[c].stage = "init"
      BY <1>5, <2>1 DEF Arrive, Idle
    <2> QED
      BY <2>1, <2>2 DEF Exchanging
  <1>6. ASSUME AdminPage(c) \/ Accept(c) PROVE Kept
    BY <1>2, <1>3, <1>6 DEF AdminPage, Accept, Ready, Exchanging
  <1>7. ASSUME JsonRead(c) \/ Fetched(c) \/ FormRead(c) PROVE Kept
    BY <1>2, <1>3, <1>4, <1>7 DEF JsonRead, Fetched, FormRead, Exchanging
  <1>8. ASSUME Fails(c) \/ FindByMd5(c) PROVE Kept
    BY <1>2, <1>3, <1>8 DEF Fails, FindByMd5, Exchanging
  <1>9. ASSUME Send(c) \/ Metadata(c) \/ ReadBack(c) PROVE Kept
    BY <1>2, <1>3, <1>9 DEF Send, Metadata, Described, ReadBack, Exchanging
  <1>10. ASSUME OpenFile(c) \/ CloseFile(c) PROVE Kept
    BY <1>2, <1>3, <1>10 DEF OpenFile, CloseFile, WriteFailed, Exchanging
  <1>11. ASSUME SmugMugAnswers(c) \/ Insert(c) PROVE Kept
    BY <1>2, <1>3, <1>11 DEF SmugMugAnswers, Sent, Acknowledged, Insert, Exchanging
  <1> QED
    BY <1>1, <1>5, <1>6, <1>7, <1>8, <1>9, <1>10, <1>11

\* A callback: its exchange remembers the pair, which no other one has halved.
LEMMA CallbackKeepsPairs ==
    ASSUME Inv, PairInv, OneExchange, NEW c \in Conns, OauthCallback(c)
    PROVE  PairInv'
  <1>0. /\ req[c] \in Requests /\ Sound(c, req[c]) /\ pair \in [1..MaxLoads -> Pairs]
        /\ client \in 0..MaxLoads /\ req \in [Conns -> Requests]
        /\ req[c].stage = "init" /\ req[c].kind = "callback"
    BY Typed, BoundsAreNatural DEF Inv, OauthCallback, Ready
  <1>1. \A d \in Conns : ~Exchanging(d)
    BY <1>0 DEF Inv, Sound, OneExchange, Exchanging
  <1>2. \A n \in (1..MaxLoads) \ partial : OneGrant(pair[n])
    BY <1>1 DEF PairInv, PairIsWhole, Exchanging
  <1>3. partial' = partial
    BY DEF OauthCallback
  <1>4. CASE Answer(c, "failed") /\ UNCHANGED pair
    <2>1. \A d \in Conns : ~Exchanging(d)'
      BY <1>0, <1>1, <1>4 DEF Answer, Set, Idle, Exchanging
    <2> QED
      BY <1>2, <1>3, <1>4, <2>1 DEF PairInv, PairIsWhole
  <1>5. CASE /\ client # 0
             /\ Set(c, [req[c] EXCEPT !.stage = "exchange", !.load = client, !.prev = pair[client]])
             /\ pair' = [pair EXCEPT ![client].token = "callback"]
    <2>1. client \in 1..MaxLoads
      BY <1>0, <1>5, BoundsAreNatural
    <2>2. /\ req'[c].stage = "exchange" /\ req'[c].load = client /\ req'[c].prev = pair[client]
          /\ \A d \in Conns \ {c} : req'[d] = req[d]
      BY <1>0, <1>5 DEF Set, Requests
    <2>3. \A n \in 1..MaxLoads : n # client => pair'[n] = pair[n]
      BY <1>0, <1>5
    <2>4. PairIsWhole'
      BY <1>2, <1>3, <2>2, <2>3 DEF PairIsWhole
    <2>5. ASSUME NEW d \in Conns, Exchanging(d)', req'[d].load \notin partial'
          PROVE  OneGrant(req'[d].prev)
      <3>1. d = c
        BY <1>1, <2>2, <2>5 DEF Exchanging
      <3> QED
        BY <1>2, <1>3, <2>1, <2>2, <2>5, <3>1
    <2> QED
      BY <2>4, <2>5 DEF PairInv
  <1> QED
    BY <1>4, <1>5 DEF OauthCallback

\* Its end: the pair is that of the access token, or the one remembered.
LEMMA ExchangeEndKeepsPairs ==
    ASSUME Inv, PairInv, OneExchange, NEW c \in Conns, ExchangeEnds(c)
    PROVE  PairInv'
  <1>0. /\ req[c] \in Requests /\ Sound(c, req[c]) /\ pair \in [1..MaxLoads -> Pairs]
        /\ req \in [Conns -> Requests] /\ Exchanging(c) /\ req[c].load \in 1..MaxLoads
    BY Typed DEF Inv, ExchangeEnds, Sound, Exchanging
  <1>1. \A d \in Conns : Exchanging(d) => d = c
    BY <1>0 DEF Inv, Sound, OneExchange, Exchanging
  <1>2. \A d \in Conns : ~Exchanging(d)'
    <2>1. \A d \in Conns \ {c} : req'[d] = req[d]
      BY <1>0 DEF ExchangeEnds, Answer, Set
    <2>2. req'[c].stage = "over"
      <3>1. \A what \in {"stored", "failed"} : [Idle EXCEPT !.answer = what].stage = "over"
        BY IdleIsSound
      <3>2. \E what \in {"stored", "failed"} : req'[c] = [Idle EXCEPT !.answer = what]
        BY <1>0 DEF ExchangeEnds, Answer, Set
      <3> QED
        BY <3>1, <3>2
    <2> QED
      BY <1>1, <2>1, <2>2 DEF Exchanging
  <1>3. PICK p : /\ pair' = [pair EXCEPT ![req[c].load] = p]
                 /\ req[c].load \notin partial' => OneGrant(p)
                 /\ partial' \subseteq partial \cup {req[c].load}
                 /\ partial \subseteq partial' \cup {req[c].load}
    <2>1. CASE /\ pair' = [pair EXCEPT ![req[c].load] = req[c].prev]
               /\ UNCHANGED partial
      <3>1. req[c].load \notin partial' => OneGrant(req[c].prev)
        BY <1>0, <2>1 DEF PairInv
      <3> QED
        BY <2>1, <3>1
    <2>2. ASSUME NEW token, NEW secret,
                 pair' = [pair EXCEPT ![req[c].load] = [token |-> token, secret |-> secret]],
                 partial' = IF pair'[req[c].load] = Both("access") THEN partial \ {req[c].load}
                            ELSE partial \cup {req[c].load}
          PROVE  \E p : /\ pair' = [pair EXCEPT ![req[c].load] = p]
                        /\ req[c].load \notin partial' => OneGrant(p)
                        /\ partial' \subseteq partial \cup {req[c].load}
                        /\ partial \subseteq partial' \cup {req[c].load}
      <3> DEFINE p == [token |-> token, secret |-> secret]
      <3>1. pair'[req[c].load] = p
        BY <1>0, <2>2
      <3>2. OneGrant(Both("access"))
        BY DEF OneGrant, Both
      <3>3. req[c].load \notin partial' => OneGrant(p)
        BY <2>2, <3>1, <3>2
      <3>4. /\ partial' \subseteq partial \cup {req[c].load}
            /\ partial \subseteq partial' \cup {req[c].load}
        BY <2>2
      <3> QED
        BY <2>2, <3>3, <3>4
    <2> QED
      BY <2>1, <2>2 DEF ExchangeEnds, PairAfterFailure
  <1>4. \A n \in 1..MaxLoads : pair'[n] = IF n = req[c].load THEN p ELSE pair[n]
    BY <1>0, <1>3
  <1>5. \A n \in (1..MaxLoads) \ partial : n # req[c].load => OneGrant(pair[n])
    BY <1>1 DEF PairInv, PairIsWhole, Exchanging
  <1>6. PairIsWhole'
    BY <1>3, <1>4, <1>5 DEF PairIsWhole
  <1> QED
    BY <1>2, <1>6 DEF PairInv

\* The machine puts in what the secrets, or one answer, have.
LEMMA MachineKeepsPairs ==
    ASSUME Inv, PairInv, UNCHANGED <<req, partial>>,
           \/ UNCHANGED pair
           \/ \E n \in 1..MaxLoads, source \in Sources : \E p \in Halves(source) :
                 pair' = [pair EXCEPT ![n] = p]
    PROVE  PairInv'
  <1>1. ASSUME NEW n \in 1..MaxLoads
        PROVE  pair'[n] = pair[n] \/ OneGrant(pair'[n])
    <2>1. pair \in [1..MaxLoads -> Pairs]
      BY Typed DEF Inv
    <2>2. ASSUME NEW m \in 1..MaxLoads, NEW p, pair' = [pair EXCEPT ![m] = p]
          PROVE  pair'[n] = pair[n] \/ pair'[n] = p
      BY <2>1, <2>2
    <2>3. ASSUME NEW source, NEW p \in Halves(source) PROVE OneGrant(p)
      BY <2>3 DEF Halves, OneGrant
    <2> QED
      BY <2>2, <2>3
  <1>2. PairIsWhole'
    BY <1>1 DEF PairInv, PairIsWhole
  <1> QED
    BY <1>2 DEF PairInv, Exchanging

\* For any number of loads, as long as no two exchanges are possible at a
\* time: token and secret of two grants come together only if an accepted
\* answer has itself lacked a half (loadSmugMugSecrets,
\* beginOauthRequestToken, exchangeAccessToken).
THEOREM PairsAreWhole ==
    ASSUME OneExchange
    PROVE  Spec => []PairIsWhole
  <1>1. Init => PairInv
    <2> SUFFICES ASSUME Init PROVE PairInv
      OBVIOUS
    <2>1. \A n \in 1..MaxLoads : pair[n] = Both("none")
      BY DEF Init
    <2>2. \A c \in Conns : ~Exchanging(c)
      BY DEF Init, Idle, Exchanging
    <2>3. OneGrant(Both("none"))
      BY DEF OneGrant, Both
    <2> QED
      BY <2>1, <2>2, <2>3 DEF PairInv, PairIsWhole
  <1>2. Inv /\ PairInv /\ [Next]_vars => PairInv'
    <2> SUFFICES ASSUME Inv, PairInv, [Next]_vars PROVE PairInv'
      OBVIOUS
    <2>1. CASE UNCHANGED vars
      BY <2>1, MachineKeepsPairs DEF vars, oauth
    <2>2. CASE DatabaseInit
      BY <2>2, MachineKeepsPairs DEF DatabaseInit, oauth
    <2>3. CASE RequestToken
      <3>1. client = 0 \/ client \in 1..MaxLoads
        BY Typed, BoundsAreNatural DEF Inv
      <3>2. "request" \in Sources
        BY DEF Sources
      <3> QED
        BY <2>3, <3>1, <3>2, MachineKeepsPairs DEF RequestToken
    <2>4. ASSUME NEW n \in 1..MaxLoads, SecretsLoaded(n) PROVE PairInv'
      <3>1. "file" \in Sources
        BY DEF Sources
      <3> QED
        BY <2>4, <3>1, MachineKeepsPairs DEF SecretsLoaded, Loaded
    <2>5. ASSUME NEW n \in 1..MaxLoads, SecretsUnusable(n) PROVE PairInv'
      BY <2>5, MachineKeepsPairs DEF SecretsUnusable, Loaded
    <2>6. ASSUME NEW c \in Conns, OauthCallback(c) \/ ExchangeEnds(c) PROVE PairInv'
      BY <2>6, CallbackKeepsPairs, ExchangeEndKeepsPairs
    <2>7. ASSUME NEW c \in Conns,
             \/ \E kind \in Uploads \cup {"callback", "admin"}, p \in Photos : Arrive(c, kind, p)
             \/ AdminPage(c) \/ Accept(c) \/ JsonRead(c) \/ Fetched(c) \/ FormRead(c)
             \/ Fails(c) \/ FindByMd5(c) \/ Send(c) \/ Metadata(c) \/ ReadBack(c)
             \/ OpenFile(c) \/ CloseFile(c) \/ SmugMugAnswers(c) \/ Insert(c)
          PROVE PairInv'
      <3>1. /\ UNCHANGED <<pair, partial>>
            /\ \A d \in Conns : /\ Exchanging(d)' <=> Exchanging(d)
                                /\ Exchanging(d) => req'[d] = req[d]
        BY <2>7, OtherSteps
      <3> QED
        BY <3>1 DEF PairInv, PairIsWhole, Exchanging
    <2> QED
      BY <2>1, <2>2, <2>3, <2>4, <2>5, <2>6, <2>7 DEF Next
  <1>3. PairInv => PairIsWhole
    BY DEF PairInv
  <1> QED
    BY <1>1, <1>2, <1>3, InvHolds, PTL DEF Spec

-----------------------------------------------------------------------------
(* Duplicates.                                                             *)

\* Uploads that have not found their photo and may insert a row of it.
Coming(p) ==
    {c \in Conns : /\ req[c].photo = p /\ Persists(req[c].adapter)
                   /\ req[c].stage \in {"write", "writing", "sent", "refused", "meta", "insert"}}

FewRows == \A p \in Photos : Cardinality(RowsOf(p)) + Cardinality(Coming(p)) <= Cardinality(Conns)

LEMMA FiniteSets ==
    ASSUME Inv, NEW p
    PROVE  /\ IsFiniteSet(RowsOf(p)) /\ IsFiniteSet(Coming(p))
           /\ Cardinality(RowsOf(p)) \in Nat /\ Cardinality(Coming(p)) \in Nat
           /\ Cardinality(Conns) \in Nat /\ Cardinality(Coming(p)) <= Cardinality(Conns)
  <1>1. IsFiniteSet(Conns)
    BY ImageUploaderAssumption
  <1>2. Coming(p) \in SUBSET Conns
    BY DEF Coming
  <1>3. Len(rows) \in Nat
    <2>1. rows \in Seq([photo : Photos, by : Tiers, md5 : BOOLEAN])
      BY Typed DEF Inv
    <2> QED
      BY <2>1, LenProperties
  <1>4. IsFiniteSet(1..Len(rows)) /\ RowsOf(p) \in SUBSET (1..Len(rows))
    BY <1>3, FS_Interval DEF RowsOf
  <1>5. IsFiniteSet(RowsOf(p)) /\ IsFiniteSet(Coming(p))
    BY <1>1, <1>2, <1>4, FS_Subset
  <1> QED
    BY <1>1, <1>2, <1>5, FS_Subset, FS_CardinalityType

\* A step that adds neither rows nor uploads that may insert one.
LEMMA FewerComing ==
    ASSUME Inv, FewRows, Inv', rows' = rows, \A p \in Photos : Coming(p)' \subseteq Coming(p)
    PROVE  FewRows'
  <1> SUFFICES ASSUME NEW p \in Photos
               PROVE  (Cardinality(RowsOf(p)) + Cardinality(Coming(p)) <= Cardinality(Conns))'
    BY DEF FewRows
  <1>1. RowsOf(p)' = RowsOf(p)
    BY DEF RowsOf
  <1>2. Cardinality(Coming(p)') <= Cardinality(Coming(p)) /\ Cardinality(Coming(p)') \in Nat
    <2>1. IsFiniteSet(Coming(p)) /\ Coming(p)' \in SUBSET Coming(p)
      BY FiniteSets
    <2> QED
      BY <2>1, FS_Subset, FS_CardinalityType
  <1>3. /\ Cardinality(RowsOf(p)) \in Nat /\ Cardinality(Coming(p)) \in Nat
        /\ Cardinality(Conns) \in Nat
        /\ Cardinality(RowsOf(p)) + Cardinality(Coming(p)) <= Cardinality(Conns)
    BY FiniteSets DEF FewRows
  <1> QED
    BY <1>1, <1>2, <1>3

\* A step of one request: unless it has found nothing just now, it comes no
\* more than before.
LEMMA SameRequestsComing ==
    ASSUME Inv, NEW c \in Conns, NEW r, Set(c, r), UNCHANGED setup,
           \/ r.stage \notin {"write", "writing", "sent", "refused", "meta", "insert"}
           \/ /\ req[c].stage \in {"write", "writing", "sent", "refused", "meta", "insert"}
              /\ r.photo = req[c].photo /\ r.adapter = req[c].adapter
    PROVE  \A p \in Photos : Coming(p)' \subseteq Coming(p)
  <1>1. \A d \in Conns : req'[d] = IF d = c THEN r ELSE req[d]
    BY DEF Inv, TypeOK, Set
  <1> QED
    BY <1>1 DEF Coming, Persists

\* findByMd5: whoever goes on has seen no row of the photo.
LEMMA FindKeepsFew ==
    ASSUME Inv, FewRows, NEW c \in Conns, FindByMd5(c), Inv'
    PROVE  FewRows'
  <1>0. /\ req[c] \in Requests /\ UNCHANGED <<setup, rows>> /\ req[c].stage = "find"
        /\ req[c].photo \in Photos
    BY Typed DEF Inv, FindByMd5, store, Requests
  <1>1. CASE Answer(c, "stored")
    <2>1. [Idle EXCEPT !.answer = "stored"].stage = "over"
      BY IdleIsSound
    <2>2. \A p \in Photos : Coming(p)' \subseteq Coming(p)
      BY <1>0, <1>1, <2>1, SameRequestsComing DEF Answer
    <2> QED
      BY <1>0, <2>2, FewerComing
  <1>2. ASSUME NEW stage \in {"insert", "write"}, To(c, stage),
               ~Known(req[c]) \/ ~Persists(req[c].adapter)
        PROVE  FewRows'
    <2>1. \A d \in Conns : req'[d] = IF d = c THEN [req[c] EXCEPT !.stage = stage] ELSE req[d]
      BY <1>2 DEF Inv, TypeOK, To, Set
    <2>2. /\ req'[c].photo = req[c].photo /\ req'[c].adapter = req[c].adapter
          /\ req'[c].stage = stage
      BY <1>0, <2>1 DEF Requests
    <2>3. CASE ~Persists(req[c].adapter)
      <3>1. \A p \in Photos : Coming(p)' \subseteq Coming(p)
        BY <1>0, <2>1, <2>2, <2>3 DEF Coming, Persists
      <3> QED
        BY <1>0, <3>1, FewerComing
    <2>4. CASE Persists(req[c].adapter)
      <3>1. RowsOf(req[c].photo) = {}
        BY <1>2, <2>4 DEF Known
      <3> SUFFICES ASSUME NEW p \in Photos
                   PROVE  (Cardinality(RowsOf(p)) + Cardinality(Coming(p)) <= Cardinality(Conns))'
        BY DEF FewRows
      <3>2. RowsOf(p)' = RowsOf(p)
        BY <1>0 DEF RowsOf
      <3>3. CASE p = req[c].photo
        <4>1. Cardinality(RowsOf(p)') = 0
          BY <3>1, <3>2, <3>3, FS_EmptySet
        <4>2. Coming(p)' \in SUBSET Conns /\ IsFiniteSet(Conns)
          BY ImageUploaderAssumption DEF Coming
        <4>3. Cardinality(Coming(p)') <= Cardinality(Conns) /\ Cardinality(Coming(p)') \in Nat
          BY <4>2, FS_Subset, FS_CardinalityType
        <4> QED
          BY <4>1, <4>3
      <3>4. CASE p # req[c].photo
        <4>1. Coming(p)' = Coming(p)
          BY <1>0, <2>1, <2>2, <3>4 DEF Coming, Persists
        <4> QED
          BY <3>2, <4>1 DEF FewRows
      <3> QED
        BY <3>3, <3>4
    <2> QED
      BY <2>3, <2>4
  <1> QED
    BY <1>1, <1>2 DEF FindByMd5

\* The insert: an upload that was coming has become a row at most.
LEMMA InsertKeepsFew ==
    ASSUME Inv, FewRows, NEW c \in Conns, Insert(c), Inv'
    PROVE  FewRows'
  <1> SUFFICES ASSUME NEW p \in Photos
               PROVE  (Cardinality(RowsOf(p)) + Cardinality(Coming(p)) <= Cardinality(Conns))'
    BY DEF FewRows
  <1>0. /\ req[c] \in Requests /\ Sound(c, req[c]) /\ req[c].stage = "insert" /\ UNCHANGED setup
        /\ rows \in Seq([photo : Photos, by : Tiers, md5 : BOOLEAN])
    BY Typed DEF Inv, Insert
  <1>1. PICK md5 \in BOOLEAN :
            rows' = Append(rows, [photo |-> req[c].photo, by |-> req[c].adapter.name, md5 |-> md5])
    BY DEF Insert, ArchivedMD5
  <1>2. Len(rows) \in Nat
    BY <1>0, LenProperties
  <1>3. PICK row : /\ rows' = Append(rows, row) /\ row.photo = req[c].photo
                   /\ row \in [photo : Photos, by : Tiers, md5 : BOOLEAN]
    <2>1. req[c].photo \in Photos /\ req[c].adapter.name \in Tiers
      BY <1>0 DEF Sound, Requests
    <2> QED
      BY <1>1, <2>1
  <1>4. /\ Len(rows') = Len(rows) + 1 /\ rows'[Len(rows) + 1] = row
        /\ \A i \in 1..Len(rows) : rows'[i] = rows[i]
    BY <1>0, <1>3, AppendProperties
  <1>5. PICK r : Set(c, r) /\ r.stage \in {"read", "over"}
    <2>1. [Idle EXCEPT !.answer = "failed"].stage = "over"
      BY IdleIsSound
    <2>2. [req[c] EXCEPT !.stage = "read"].stage = "read"
      BY <1>0 DEF Requests
    <2> QED
      BY <2>1, <2>2 DEF Insert, To, Answer
  <1>6. \A d \in Conns : req'[d] = IF d = c THEN r ELSE req[d]
    BY <1>5 DEF Inv, TypeOK, Set
  <1>7. /\ IsFiniteSet(RowsOf(p)) /\ IsFiniteSet(Coming(p))
        /\ Cardinality(RowsOf(p)) \in Nat /\ Cardinality(Coming(p)) \in Nat
        /\ Cardinality(Conns) \in Nat
        /\ Cardinality(RowsOf(p)) + Cardinality(Coming(p)) <= Cardinality(Conns)
    BY FiniteSets DEF FewRows
  <1>8. CASE p = req[c].photo
    <2>1. Coming(p)' = Coming(p) \ {c} /\ c \in Coming(p)
      BY <1>0, <1>5, <1>6, <1>8 DEF Coming, Sound, Persists
    <2>2. Cardinality(Coming(p)') = Cardinality(Coming(p)) - 1
      BY <1>7, <2>1, FS_RemoveElement
    <2>3. RowsOf(p)' \in SUBSET (RowsOf(p) \cup {Len(rows) + 1})
      BY <1>2, <1>4 DEF RowsOf
    <2>4. /\ IsFiniteSet(RowsOf(p) \cup {Len(rows) + 1})
          /\ Cardinality(RowsOf(p) \cup {Len(rows) + 1}) <= Cardinality(RowsOf(p)) + 1
      <3> DEFINE more == RowsOf(p) \cup {Len(rows) + 1}
      <3>1. IsFiniteSet(more)
            /\ Cardinality(more) = IF Len(rows) + 1 \in RowsOf(p) THEN Cardinality(RowsOf(p))
                                   ELSE Cardinality(RowsOf(p)) + 1
        BY <1>7, FS_AddElement
      <3> HIDE DEF more
      <3>2. Cardinality(more) <= Cardinality(RowsOf(p)) + 1
        BY <1>7, <3>1
      <3> QED
        BY <3>1, <3>2 DEF more
    <2>5. /\ Cardinality(RowsOf(p)') <= Cardinality(RowsOf(p) \cup {Len(rows) + 1})
          /\ Cardinality(RowsOf(p)') \in Nat
          /\ Cardinality(RowsOf(p) \cup {Len(rows) + 1}) \in Nat
      BY <2>3, <2>4, FS_Subset, FS_CardinalityType
    <2> QED
      BY <1>7, <2>2, <2>4, <2>5
  <1>9. CASE p # req[c].photo
    <2>1. Coming(p)' = Coming(p)
      BY <1>0, <1>5, <1>6, <1>9 DEF Coming, Persists
    <2>2. RowsOf(p)' = RowsOf(p)
      BY <1>2, <1>3, <1>4, <1>9 DEF RowsOf
    <2> QED
      BY <1>7, <2>1, <2>2
  <1> QED
    BY <1>8, <1>9

\* The other steps.
LEMMA OthersKeepFew ==
    ASSUME Inv, FewRows, NEW c \in Conns, Inv',
           \/ \E kind \in Uploads \cup {"callback", "admin"}, p \in Photos : Arrive(c, kind, p)
           \/ AdminPage(c) \/ Accept(c) \/ JsonRead(c) \/ Fetched(c) \/ FormRead(c)
           \/ Fails(c) \/ Send(c) \/ Metadata(c) \/ ReadBack(c)
           \/ OpenFile(c) \/ CloseFile(c) \/ SmugMugAnswers(c)
           \/ OauthCallback(c) \/ ExchangeEnds(c)
    PROVE  FewRows'
  <1> DEFINE Kept == \A p \in Photos : Coming(p)' \subseteq Coming(p)
  <1>0. req[c] \in Requests /\ adapter \in Adapters /\ Idle \in Requests
    <2>1. [Idle EXCEPT !.answer = "none"] \in Requests
      BY IdleIsSound
    <2> QED
      BY <2>1, Typed DEF Inv, Idle, Requests
  <1>1. UNCHANGED <<setup, rows>>
    BY DEF store, Arrive, AdminPage, Accept, JsonRead, Fetched, FormRead, Fails, Send,
           Metadata, ReadBack, OpenFile, CloseFile, SmugMugAnswers, OauthCallback, ExchangeEnds
  <1>2. ASSUME NEW what \in {"not ready", "failed", "stored", "page"}, Answer(c, what) PROVE Kept
    <2>1. [Idle EXCEPT !.answer = what].stage = "over"
      BY <1>0 DEF Idle, Requests
    <2> QED
      BY <1>1, <1>2, <2>1, SameRequestsComing DEF Answer
  <1>3. ASSUME NEW stage \in {"body", "fetch", "read"}, To(c, stage) PROVE Kept
    <2>1. [req[c] EXCEPT !.stage = stage].stage = stage
      BY <1>0 DEF Requests
    <2> QED
      BY <1>1, <1>3, <2>1, SameRequestsComing DEF To
  <1>4. ASSUME NEW stage \in {"writing", "sent", "refused", "meta", "insert"}, To(c, stage),
               req[c].stage \in {"write", "writing", "sent", "meta"}
        PROVE  Kept
    <2>1. /\ [req[c] EXCEPT !.stage = stage].photo = req[c].photo
          /\ [req[c] EXCEPT !.stage = stage].adapter = req[c].adapter
      BY <1>0 DEF Requests
    <2> QED
      BY <1>1, <1>4, <2>1, SameRequestsComing DEF To
  <1>5. ASSUME Hand(c) PROVE Kept
    <2>1. [req[c] EXCEPT !.stage = "find", !.adapter = adapter].stage = "find"
      BY <1>0 DEF Requests
    <2> QED
      BY <1>1, <1>5, <2>1, SameRequestsComing DEF Hand
  <1>6. ASSUME NEW kind \in Uploads \cup {"callback", "admin"}, NEW p \in Photos, Arrive(c, kind, p)
        PROVE  Kept
    <2>1. PICK r : /\ r = [Idle EXCEPT !.stage = "init", !.kind = kind, !.photo = p,
                                       !.load = promise']
                   /\ Set(c, r)
      BY <1>6 DEF Arrive
    <2>2. r.stage = "init"
      BY <1>0, <2>1 DEF Requests
    <2> QED
      BY <1>1, <2>1, <2>2, SameRequestsComing
  <1>7. ASSUME OauthCallback(c) PROVE Kept
    <2>1. [req[c] EXCEPT !.stage = "exchange", !.load = client, !.prev = pair[client]].stage
            = "exchange"
      BY <1>0 DEF Requests
    <2>2. Set(c, [req[c] EXCEPT !.stage = "exchange", !.load = client, !.prev = pair[client]])
             => Kept
      BY <1>1, <2>1, SameRequestsComing
    <2> QED
      BY <1>2, <1>7, <2>2 DEF OauthCallback
  <1>8. ASSUME AdminPage(c) \/ Accept(c) \/ ReadBack(c) \/ ExchangeEnds(c) \/ Fails(c) PROVE Kept
    BY <1>2, <1>3, <1>8 DEF AdminPage, Accept, ReadBack, ExchangeEnds, Fails
  <1>9. ASSUME JsonRead(c) \/ Fetched(c) \/ FormRead(c) PROVE Kept
    BY <1>2, <1>3, <1>5, <1>9 DEF JsonRead, Fetched, FormRead
  <1>10. ASSUME Send(c) \/ Metadata(c) PROVE Kept
    BY <1>2, <1>4, <1>10 DEF Send, Metadata, Described
  <1>11. ASSUME OpenFile(c) \/ CloseFile(c) PROVE Kept
    BY <1>2, <1>4, <1>11 DEF OpenFile, CloseFile, WriteFailed
  <1>12. ASSUME SmugMugAnswers(c) PROVE Kept
    BY <1>2, <1>4, <1>12 DEF SmugMugAnswers, Sent, Acknowledged
  <1>13. Kept
    BY <1>6, <1>7, <1>8, <1>9, <1>10, <1>11, <1>12
  <1> QED
    BY <1>1, <1>13, FewerComing

\* For any number of uploads, on whatever adapters: as many rows of one MD5
\* as requests at a time (findByMd5 and the insert after it).
THEOREM OnlyOverlapDuplicates == Spec => []DuplicatesOnlyByOverlap
  <1>1. Init /\ Inv => FewRows
    <2> SUFFICES ASSUME Init, Inv, NEW p \in Photos
                 PROVE  Cardinality(RowsOf(p)) + Cardinality(Coming(p)) <= Cardinality(Conns)
      BY DEF FewRows
    <2>1. RowsOf(p) = {}
      BY DEF Init, RowsOf
    <2> QED
      BY <2>1, FS_EmptySet, FiniteSets
  <1>2. Inv /\ Inv' /\ FewRows /\ [Next]_vars => FewRows'
    <2> SUFFICES ASSUME Inv, Inv', FewRows, [Next]_vars PROVE FewRows'
      OBVIOUS
    <2>1. CASE UNCHANGED vars \/ DatabaseInit \/ RequestToken
               \/ \E n \in 1..MaxLoads : SecretsLoaded(n) \/ SecretsUnusable(n)
      <3>1. UNCHANGED <<setup, rows, req>>
        BY <2>1 DEF vars, store, DatabaseInit, RequestToken, SecretsLoaded, SecretsUnusable, Loaded
      <3>2. \A p \in Photos : Coming(p)' \subseteq Coming(p)
        BY <3>1 DEF Coming, Persists
      <3> QED
        BY <3>1, <3>2, FewerComing
    <2>2. ASSUME NEW c \in Conns, FindByMd5(c) \/ Insert(c) PROVE FewRows'
      BY <2>2, FindKeepsFew, InsertKeepsFew
    <2>3. ASSUME NEW c \in Conns,
             \/ \E kind \in Uploads \cup {"callback", "admin"}, p \in Photos : Arrive(c, kind, p)
             \/ AdminPage(c) \/ Accept(c) \/ JsonRead(c) \/ Fetched(c) \/ FormRead(c)
             \/ Fails(c) \/ Send(c) \/ Metadata(c) \/ ReadBack(c)
             \/ OpenFile(c) \/ CloseFile(c) \/ SmugMugAnswers(c)
             \/ OauthCallback(c) \/ ExchangeEnds(c)
          PROVE  FewRows'
      BY <2>3, OthersKeepFew
    <2> QED
      BY <2>1, <2>2, <2>3 DEF Next
  <1>3. Inv /\ FewRows => DuplicatesOnlyByOverlap
    <2> SUFFICES ASSUME Inv, FewRows, NEW p \in Photos
                 PROVE  Cardinality(RowsOf(p)) <= Cardinality(Conns)
      BY DEF DuplicatesOnlyByOverlap
    <2> QED
      BY FiniteSets DEF FewRows
  <1> QED
    BY <1>1, <1>2, <1>3, InvHolds, PTL DEF Spec
=============================================================================
