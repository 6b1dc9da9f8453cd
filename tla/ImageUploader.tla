---------------------------- MODULE ImageUploader ----------------------------
(***************************************************************************)
(* ThaliaImageUploader (images/image-uploader.ts) and its adapters: a      *)
(* machine that is initialised by every database connect, or by the first  *)
(* request of a site without one; uploads that look a photo up by its MD5, *)
(* store the bytes and insert a row; and the OAuth exchange that replaces  *)
(* the tokens uploads are signed with.                                     *)
(*                                                                         *)
(* A photo is its MD5.  Disk, SmugMug and database are external: each call *)
(* may fail, and what a failed call has done stays done.                   *)
(***************************************************************************)
EXTENDS Integers, FiniteSets, Sequences

CONSTANTS
    Conns,
    OAuthConns,     \* those that come back from SmugMug's authorisation page
    Photos,
    Setups,         \* [tier, secret, persist] of the constructor's options, and
                    \* whether anyone returns from authorising the site
    MaxLoads,       \* bound: calls of init
    MaxRows         \* bound: rows and uploads under way together, for each setup

Tiers == {"local-disk", "uploadthing", "smugmug"}

ASSUME ImageUploaderAssumption ==
    /\ IsFiniteSet(Conns) /\ OAuthConns \subseteq Conns /\ Photos # {}
    /\ Setups \subseteq [tier : Tiers, secret : BOOLEAN, persist : BOOLEAN, returns : BOOLEAN]
    /\ MaxLoads \in Nat \ {0} /\ MaxRows \in [Setups -> Nat]

VARIABLES
    setup,
    website,        \* has init run?
    adapter,        \* name and, for smugmug, the client it signs with
    loads,          \* calls of init so far
    pending,        \* those that still import config/secrets.js
    promise,        \* the load that initPromise waits for, 0 if none
    client,         \* the load that made this.client and this.tokens, 0 if null
    pair,           \* pair[n], where the token and secret of a client are from
    asking,         \* request tokens that have been asked for
    partial,        \* history: clients whose last accepted exchange lacked a half
    file,           \* file[p] on disk
    hosted,         \* photos at SmugMug
    rows,           \* the images table
    shared,         \* history: photos whose file uploads have written side by side
    req

machine == <<website, adapter, loads, pending, promise>>
oauth == <<client, pair, asking, partial>>
store == <<file, hosted, rows, shared>>
vars == <<setup, machine, oauth, store, req>>

None == [name |-> "none", client |-> 0]
Disk == [name |-> "local-disk", client |-> 0]

Sources == {"none", "file", "request", "callback", "access"}
Both(source) == [token |-> source, secret |-> source]
Halves(source) == [token : {source, "none"}, secret : {source, "none"}]
Usable(p) == p \in {Both("file"), Both("access")}

Idle == [stage |-> "over", kind |-> "json", photo |-> CHOOSE p \in Photos : TRUE,
         load |-> 0, adapter |-> None, prev |-> Both("none"), answer |-> "none"]

Set(c, r) == req' = [req EXCEPT ![c] = r]
To(c, stage) == Set(c, [req[c] EXCEPT !.stage = stage])
Answer(c, what) == Set(c, [Idle EXCEPT !.answer = what])

Uploads == {"json", "form"}
Uploading == {c \in Conns : req[c].stage # "over" /\ req[c].kind \in Uploads}

-----------------------------------------------------------------------------
(* Initialisation.                                                         *)

\* Mutant of Gated: an import of the secrets is not waited for.
NeverGated == FALSE

\* Does initPromise wait for the import of the secrets?
Gated == setup.tier = "smugmug"

\* init up to its first await: local-disk and uploadthing are ready at once.
StartInit ==
    /\ loads' = loads + 1
    /\ website' = TRUE
    /\ IF setup.tier = "smugmug"
       THEN pending' = pending \cup {loads + 1} /\ UNCHANGED adapter
       ELSE /\ adapter' = IF setup.tier = "local-disk" THEN Disk
                          ELSE IF setup.secret THEN [name |-> "uploadthing", client |-> 0]
                          ELSE None
            /\ UNCHANGED pending
    /\ promise' = IF Gated THEN loads + 1 ELSE 0

\* initialiseMachines on a connect of the database.
DatabaseInit ==
    /\ loads < MaxLoads
    /\ StartInit
    /\ UNCHANGED <<setup, oauth, store, req>>

\* installLocalDiskAdapter.
FallBack == adapter' = Disk

Loaded(n) ==
    /\ n \in pending
    /\ pending' = pending \ {n}
    /\ UNCHANGED <<setup, website, loads, promise, store, req>>

\* The secrets have a consumer and, each or not, the halves of an access
\* token; without both a request token is asked for, which init does not
\* wait for.
SecretsLoaded(n) ==
    /\ Loaded(n)
    /\ client' = n
    /\ adapter' = [name |-> "smugmug", client |-> n]
    /\ \E p \in Halves("file") :
          /\ pair' = [pair EXCEPT ![n] = p]
          /\ asking' = IF p = Both("file") THEN asking ELSE asking + 1
    /\ UNCHANGED partial

\* No consumer; or no smugmug export, no file, or one that throws.
SecretsUnusable(n) ==
    /\ Loaded(n)
    /\ FallBack
    /\ client' \in {0, client}
    /\ UNCHANGED <<pair, asking, partial>>

\* Not confirmed or an error; else the halves of the answer go to whatever
\* this.tokens is by then.
RequestToken ==
    /\ asking > 0
    /\ asking' = asking - 1
    /\ pair' \in {pair} \cup (IF client = 0 THEN {}
                              ELSE {[pair EXCEPT ![client] = p] : p \in Halves("request")})
    /\ UNCHANGED <<setup, machine, client, partial, store, req>>

-----------------------------------------------------------------------------
(* A request: ensureWebsiteInit, then initPromise.                         *)

\* adminController does not initialise.
Arrive(c, kind, photo) ==
    /\ req[c].stage = "over"
    /\ kind = "callback" => setup.returns /\ c \in OAuthConns
    /\ IF kind \in Uploads THEN Len(rows) + Cardinality(Uploading) < MaxRows[setup]
       ELSE photo = Idle.photo
    /\ IF website \/ kind = "admin" THEN UNCHANGED machine ELSE StartInit
    /\ Set(c, [Idle EXCEPT !.stage = "init", !.kind = kind, !.photo = photo, !.load = promise'])
    /\ UNCHANGED <<setup, oauth, store>>

Ready(c) == req[c].stage = "init" /\ req[c].load \notin pending

\* adminController: a page of rows.
AdminPage(c) ==
    /\ Ready(c) /\ req[c].kind = "admin"
    /\ Answer(c, "page") \/ Answer(c, "failed")
    /\ UNCHANGED <<setup, machine, oauth, store>>

\* controller: no adapter is 503; else the body is read.
Accept(c) ==
    /\ Ready(c) /\ req[c].kind \in Uploads
    /\ IF adapter = None THEN Answer(c, "not ready") ELSE To(c, "body")
    /\ UNCHANGED <<setup, machine, oauth, store>>

\* readLimitedJsonObject: the body names the image to fetch.
JsonRead(c) ==
    /\ req[c].stage = "body" /\ req[c].kind = "json"
    /\ To(c, "fetch")
    /\ UNCHANGED <<setup, machine, oauth, store>>

\* Once the bytes are there, store is called on the adapter of this moment.
Hand(c) == Set(c, [req[c] EXCEPT !.stage = "find", !.adapter = adapter])

\* fetchRemoteHttpsImageBytes.
Fetched(c) ==
    /\ req[c].stage = "fetch"
    /\ Hand(c)
    /\ UNCHANGED <<setup, machine, oauth, store>>

\* parseForm and its temporary file; there is no sourceUrl for uploadthing.
FormRead(c) ==
    /\ req[c].stage = "body" /\ req[c].kind = "form"
    /\ IF adapter.name = "uploadthing" THEN Answer(c, "failed") ELSE Hand(c)
    /\ UNCHANGED <<setup, machine, oauth, store>>

Persists(a) == a.name = "local-disk" => setup.persist

\* The body, the fetch, a query: the promise rejects, 400 or 502.
Fails(c) ==
    /\ req[c].stage \in {"body", "fetch", "find", "insert", "read"}
    /\ req[c].stage = "find" => Persists(req[c].adapter)
    /\ Answer(c, "failed")
    /\ UNCHANGED <<setup, machine, oauth, store>>

-----------------------------------------------------------------------------
(* The adapters' store.                                                    *)

RowsOf(photo) == {i \in 1..Len(rows) : rows[i].photo = photo /\ rows[i].md5}

\* Mutant of Known: rows of other adapters are not seen.
KnownHere(r) == \E i \in RowsOf(r.photo) : rows[i].by = r.adapter.name

\* findByMd5: a row of any adapter or, without rows, a file of that name; a
\* folder that cannot be read counts as empty.
Known(r) == IF Persists(r.adapter) THEN RowsOf(r.photo) # {} ELSE file[r.photo] # "none"

\* Uploads that are about to write the file of a photo, or have.
Storing(p) ==
    {c \in Conns : /\ req[c].stage \in {"write", "writing", "insert"}
                   /\ req[c].photo = p /\ req[c].adapter.name = "local-disk"}

FindByMd5(c) ==
    /\ req[c].stage = "find"
    /\ \/ /\ Known(req[c])
          /\ Answer(c, "stored")
          /\ UNCHANGED shared
       \/ /\ ~Known(req[c]) \/ ~Persists(req[c].adapter)
          /\ To(c, IF req[c].adapter.name = "uploadthing" THEN "insert" ELSE "write")
          /\ shared' = shared \cup {p \in {req[c].photo} : Cardinality(Storing(p)') > 1}
    /\ UNCHANGED <<setup, machine, oauth, file, hosted, rows>>

\* writeFile truncates, writes, and ends whole or, on an error, torn.
Writing(p) == {c \in Conns : req[c].stage = "writing" /\ req[c].photo = p}

OpenFile(c) ==
    /\ req[c].stage = "write" /\ req[c].adapter.name = "local-disk"
    /\ \/ file' = [file EXCEPT ![req[c].photo] = "open"] /\ To(c, "writing")
       \/ UNCHANGED file /\ Answer(c, "failed")
    /\ UNCHANGED <<setup, machine, oauth, hosted, rows, shared>>

\* Mutant of WriteFailed: the error of writeFile is not looked at.
WriteFailedUnseen(c) == IF Persists(req[c].adapter) THEN To(c, "insert") ELSE Answer(c, "stored")

\* The promise of writeFile rejects.
WriteFailed(c) == Answer(c, "failed")

CloseFile(c) ==
    LET p == req[c].photo
        left(state) == IF Writing(p) = {c} THEN state ELSE "open"
    IN  /\ req[c].stage = "writing"
        /\ \/ /\ file' = [file EXCEPT ![p] = left("whole")]
              /\ IF Persists(req[c].adapter) THEN To(c, "insert") ELSE Answer(c, "stored")
           \/ file' = [file EXCEPT ![p] = left("torn")] /\ WriteFailed(c)
        /\ UNCHANGED <<setup, machine, oauth, hosted, rows, shared>>

\* parseSmugMugMultipartUploadResponse: the image is named, or it throws.
Acknowledged(c) == To(c, "meta") \/ Answer(c, "failed")

\* parseSmugMugVerbosityAlbumImage.
Described(c) == To(c, "insert") \/ Answer(c, "failed")

\* The POST is answered: refused, accepted, or accepted and the answer lost.
Sent(c) ==
    \/ hosted' = hosted \cup {req[c].photo} /\ (Acknowledged(c) \/ Answer(c, "failed"))
    \/ UNCHANGED hosted /\ Answer(c, "failed")

\* Signed with the pair of this moment, which SmugMug takes only if usable.
Send(c) ==
    /\ req[c].stage = "write" /\ req[c].adapter.name = "smugmug"
    /\ To(c, IF Usable(pair[req[c].adapter.client]) THEN "sent" ELSE "refused")
    /\ UNCHANGED <<setup, machine, oauth, store>>

SmugMugAnswers(c) ==
    /\ \/ req[c].stage = "sent" /\ Sent(c)
       \/ req[c].stage = "refused" /\ Answer(c, "failed") /\ UNCHANGED hosted
    /\ UNCHANGED <<setup, machine, oauth, file, rows, shared>>

\* The metadata call is signed anew.
Metadata(c) ==
    /\ req[c].stage = "meta"
    /\ IF Usable(pair[req[c].adapter.client]) THEN Described(c) ELSE Answer(c, "failed")
    /\ UNCHANGED <<setup, machine, oauth, store>>

\* Is the MD5 in the row?  SmugMug's description may lack its ArchivedMD5.
ArchivedMD5(a) == {TRUE} \cup (IF a.name = "smugmug" THEN {FALSE} ELSE {})

\* The connection may be lost after the commit.
Insert(c) ==
    /\ req[c].stage = "insert"
    /\ \E md5 \in ArchivedMD5(req[c].adapter) :
          rows' = Append(rows, [photo |-> req[c].photo, by |-> req[c].adapter.name, md5 |-> md5])
    /\ To(c, "read") \/ Answer(c, "failed")
    /\ UNCHANGED <<setup, machine, oauth, file, hosted, shared>>

ReadBack(c) ==
    /\ req[c].stage = "read"
    /\ Answer(c, "stored")
    /\ UNCHANGED <<setup, machine, oauth, store>>

-----------------------------------------------------------------------------
(* oauthCallback and exchangeAccessToken.                                  *)

\* 503 without a client or a secret, 400 without a verifier; else the token
\* of the callback is put in and the exchange is signed with the old secret.
OauthCallback(c) ==
    /\ Ready(c) /\ req[c].kind = "callback"
    /\ \/ Answer(c, "failed") /\ UNCHANGED pair
       \/ /\ client # 0 /\ pair[client].secret # "none"
          /\ Set(c, [req[c] EXCEPT !.stage = "exchange", !.load = client, !.prev = pair[client]])
          /\ pair' = [pair EXCEPT ![client].token = "callback"]
    /\ UNCHANGED <<setup, machine, client, asking, partial, store>>

\* Mutant of PairAfterFailure: the failed exchange leaves the tokens alone.
PairAfterFailureKept(r) == pair[r.load]

PairAfterFailure(r) == r.prev

\* What a 2xx leaves of half h: the body's, which may be empty, or, if it has
\* none, the one that was there.
Accepted(h) == {h, "access", "none"}

ExchangeEnds(c) ==
    LET n == req[c].load
    IN  /\ req[c].stage = "exchange"
        /\ \/ \E token \in Accepted(pair[n].token), secret \in Accepted(pair[n].secret) :
                 /\ pair' = [pair EXCEPT ![n] = [token |-> token, secret |-> secret]]
                 /\ partial' = IF pair'[n] = Both("access") THEN partial \ {n} ELSE partial \cup {n}
              /\ Answer(c, "stored")
           \/ /\ pair' = [pair EXCEPT ![n] = PairAfterFailure(req[c])]
              /\ Answer(c, "failed")
              /\ UNCHANGED partial
        /\ UNCHANGED <<setup, machine, client, asking, store>>

-----------------------------------------------------------------------------

Init ==
    /\ setup \in Setups
    /\ website = FALSE
    /\ adapter = None
    /\ loads = 0 /\ pending = {} /\ promise = 0
    /\ client = 0 /\ pair = [n \in 1..MaxLoads |-> Both("none")] /\ asking = 0
    /\ partial = {} /\ shared = {}
    /\ file = [p \in Photos |-> "none"] /\ hosted = {} /\ rows = <<>>
    /\ req = [c \in Conns |-> Idle]

Next ==
    \/ DatabaseInit
    \/ \E n \in 1..MaxLoads : SecretsLoaded(n) \/ SecretsUnusable(n)
    \/ RequestToken
    \/ \E c \in Conns :
          \/ \E kind \in Uploads \cup {"callback", "admin"}, p \in Photos : Arrive(c, kind, p)
          \/ AdminPage(c) \/ Accept(c) \/ JsonRead(c) \/ Fetched(c) \/ FormRead(c)
          \/ Fails(c) \/ FindByMd5(c)
          \/ OpenFile(c) \/ CloseFile(c) \/ Send(c) \/ SmugMugAnswers(c) \/ Metadata(c)
          \/ Insert(c) \/ ReadBack(c)
          \/ OauthCallback(c) \/ ExchangeEnds(c)

Spec == Init /\ [][Next]_vars

-----------------------------------------------------------------------------

TypeOK ==
    /\ setup \in Setups
    /\ website \in BOOLEAN
    /\ adapter \in [name : Tiers \cup {"none"}, client : 0..MaxLoads]
    /\ loads \in 0..MaxLoads /\ pending \subseteq 1..loads /\ promise \in 0..loads
    /\ client \in 0..loads /\ asking \in Nat
    /\ pair \in [1..MaxLoads -> [token : Sources, secret : Sources]]
    /\ file \in [Photos -> {"none", "open", "whole", "torn"}]
    /\ partial \subseteq 1..MaxLoads /\ shared \subseteq Photos
    /\ hosted \subseteq Photos
    /\ rows \in Seq([photo : Photos, by : Tiers, md5 : BOOLEAN])
    /\ req \in [Conns ->
          [stage : {"init", "body", "fetch", "find", "write", "writing", "sent", "refused", "meta",
                    "insert", "read", "exchange", "over"},
           kind : Uploads \cup {"callback", "admin"}, photo : Photos, load : 0..MaxLoads,
           adapter : [name : Tiers \cup {"none"}, client : 0..MaxLoads],
           prev : [token : Sources, secret : Sources],
           answer : {"none", "not ready", "failed", "stored", "page"}]]

\* An early request waits for the initialisation instead of being told that
\* the storage is not ready, whoever has started it and however often: only
\* the uploadthing tier without its secret is never ready.
NeverEarly ==
    \A c \in Conns :
        req[c].answer = "not ready" => setup.tier = "uploadthing" /\ ~setup.secret

\* A row stands for stored bytes: a photo at SmugMug, or a whole file, which
\* stays whole for good; only uploads that have written the same file side by
\* side may leave it torn, or open while one of them writes.
RowsHaveBytes ==
    \A i \in 1..Len(rows) :
        LET p == rows[i].photo
        IN  /\ rows[i].by = "smugmug" => p \in hosted
            /\ rows[i].by = "local-disk" =>
                  IF p \in shared THEN file[p] # "none" ELSE file[p] = "whole"

\* Only uploads that overlap store a photo twice: as many rows of one MD5 as
\* requests at a time, whatever adapters have stored it.
DuplicatesOnlyByOverlap ==
    \A p \in Photos : Cardinality(RowsOf(p)) <= Cardinality(Conns)

OneGrant(p) == p.token = p.secret \/ "none" \in {p.token, p.secret}

\* With one exchange at a time, token and secret never come of two grants
\* when none is under way, but where an accepted exchange itself lacked a
\* half: a failed one leaves nothing of its callback behind, whichever
\* secrets were half filled in and whichever request tokens came meanwhile.
PairIsWhole ==
    \A n \in (1..MaxLoads) \ partial :
        OneGrant(pair[n]) \/ \E c \in Conns : req[c].stage = "exchange" /\ req[c].load = n
=============================================================================
