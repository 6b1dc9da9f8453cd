---------------------------- MODULE FollowedFile ----------------------------
(***************************************************************************)
(* A file under data/ and what followDataFile (controllers.ts) has sent of *)
(* it, and what a client may rely on.  FileFollow says what the process    *)
(* that writes the file and the follower do.                               *)
(***************************************************************************)
EXTENDS Integers, Sequences

VARIABLES
    file,       \* its bytes, each named by the cut it follows and its place
    cuts,
    start,      \* the position the stream began with
    position,   \* and the one it has come to
    sent        \* what was written to the response

\* A byte of the zeroed buffer.
NUL == <<-1, 0>>

Later(a, b) == a[1] < b[1] \/ (a[1] = b[1] /\ a[2] < b[2])
NeverBackwards ==
    (\A i \in 1..Len(sent) : sent[i] # NUL) =>
        \A i, j \in 1..Len(sent) : i < j => Later(sent[i], sent[j])

\* As long as the file only grows, the client has exactly its bytes from the
\* start to the position, whatever is added between two system calls.  Even
\* when the file is cut or replaced, no byte is sent twice and none after one
\* that was written later; but once a file is cut between its statSync and
\* its readSync, the client gets zeros and maybe bytes twice.
SentInOrder ==
    /\ cuts = 0 => sent = SubSeq(file, start + 1, position)
    /\ NeverBackwards

=============================================================================
