----------------------------- MODULE FileFollow -----------------------------
(***************************************************************************)
(* latestData and followDataFile (controllers.ts): the newest file of a    *)
(* data folder is streamed to a client, first its end, then what is added, *)
(* by a poll that compares sizes.  Another process appends to the file,    *)
(* cuts it, replaces it under the same name (which for a reader that opens *)
(* it by name is the same) and removes it, also between two system calls.  *)
(***************************************************************************)
EXTENDS FollowedFile

CONSTANTS
    Initial,        \* initialBytes
    MaxSize,        \* bound: the longest file
    MaxCuts         \* bound: how often it is cut or replaced

ASSUME FileFollowAssumption ==
    /\ Initial \in Nat /\ MaxSize \in Nat /\ MaxCuts \in Nat

VARIABLES
    there,      \* does the name exist?
    pc,         \* what followDataFile does next
    size        \* of the last statSync

disk == <<file, there, cuts>>
vars == <<disk, pc, size, position, start, sent>>

NotBelow(a, b) == IF a >= b THEN a ELSE b

-----------------------------------------------------------------------------
(* The other process.                                                      *)

Writer == UNCHANGED <<pc, size, position, start, sent>>

AppendByte ==
    /\ there /\ Len(file) < MaxSize
    /\ file' = Append(file, <<cuts, Len(file) + 1>>)
    /\ UNCHANGED <<there, cuts>> /\ Writer

Cut ==
    /\ cuts < MaxCuts
    /\ cuts' = cuts + 1 /\ file' = <<>> /\ there' = TRUE
    /\ Writer

Remove ==
    /\ there
    /\ there' = FALSE
    /\ UNCHANGED <<file, cuts>> /\ Writer

-----------------------------------------------------------------------------
(* The follower.  Its calls within a turn are steps that only the other    *)
(* process interleaves with; the client leaves between turns.              *)

\* latestData: the folder is listed, and the newest name is looked for.
Listed ==
    /\ pc = "list"
    /\ pc' = IF there THEN "open" ELSE "ended"
    /\ UNCHANGED <<disk, size, position, start, sent>>

\* The first statSync: 404, or a start at most Initial bytes from the end.
Open ==
    /\ pc = "open"
    /\ IF there
       THEN /\ start' = NotBelow(0, Len(file) - Initial)
            /\ position' = start'
            /\ pc' = "first"
       ELSE pc' = "ended" /\ UNCHANGED <<start, position>>
    /\ UNCHANGED <<disk, size, sent>>

\* The second statSync.  Without anything to read the timer is set.
First ==
    /\ pc = "first"
    /\ IF there
       THEN size' = Len(file) /\ pc' = IF Len(file) > position THEN "read" ELSE "idle"
       ELSE pc' = "ended" /\ UNCHANGED size
    /\ UNCHANGED <<disk, position, start, sent>>

\* Mutant of Rewound: only an empty file is taken for a new one.
RewoundIfEmpty == IF Len(file) = 0 THEN 0 ELSE position

\* A file shorter than what was read of it is a new one.
Rewound == IF Len(file) < position THEN 0 ELSE position

\* A tick of the timer: statSync, and an end when the name is gone.
Poll ==
    /\ pc = "idle"
    /\ IF there
       THEN /\ size' = Len(file) /\ position' = Rewound
            /\ pc' = IF Len(file) > Rewound THEN "read" ELSE "idle"
       ELSE pc' = "ended" /\ UNCHANGED <<size, position>>
    /\ UNCHANGED <<disk, start, sent>>

\* Mutant of ReadUpTo: up to the end of the file, which may have grown.
ReadUpToEnd == Len(file)

ReadUpTo == size

\* pushFrom: a zeroed buffer for what statSync promised is filled as far as
\* the file reaches by now, and all of it is written and counted as read.
Read ==
    /\ pc = "read"
    /\ IF there
       THEN /\ sent' = sent \o [i \in 1..(ReadUpTo - position) |->
                   IF position + i <= Len(file) THEN file[position + i] ELSE NUL]
            /\ position' = size
            /\ pc' = "idle"
       ELSE pc' = "ended" /\ UNCHANGED <<sent, position>>
    /\ UNCHANGED <<disk, size, start>>

\* 'close' of the request or the response.
Leave ==
    /\ pc = "idle"
    /\ pc' = "ended"
    /\ UNCHANGED <<disk, size, position, start, sent>>

-----------------------------------------------------------------------------

Init ==
    /\ file \in {[i \in 1..n |-> <<0, i>>] : n \in 0..MaxSize}
    /\ there = TRUE /\ cuts = 0
    /\ pc = "list" /\ size = 0 /\ position = 0 /\ start = 0 /\ sent = <<>>

Follower == Listed \/ Open \/ First \/ Poll \/ Read

Next == AppendByte \/ Cut \/ Remove \/ Follower \/ Leave

\* The turns go on, and the timer ticks.
Spec == Init /\ [][Next]_vars /\ WF_vars(Follower)

-----------------------------------------------------------------------------

TypeOK ==
    /\ file \in Seq({<<k, i>> : k \in 0..MaxCuts, i \in 1..MaxSize}) /\ Len(file) <= MaxSize
    /\ there \in BOOLEAN /\ cuts \in 0..MaxCuts
    /\ pc \in {"list", "open", "first", "read", "idle", "ended"}
    /\ size \in 0..MaxSize /\ position \in 0..MaxSize /\ start \in 0..MaxSize
    /\ sent \in Seq({NUL} \cup {<<k, i>> : k \in 0..MaxCuts, i \in 1..MaxSize})

\* When the file comes to rest, the stream has come to its end or is closed.
CatchesUp == <>[](pc = "ended" \/ (pc = "idle" /\ position = Len(file)))
=============================================================================
