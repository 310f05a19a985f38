------------------------------ MODULE Uploads ------------------------------
(***************************************************************************)
(* Files that are uploaded in chunks (services/uploadSessions.ts): a row   *)
(* says where a session stands, a file holds its bytes so far, and `busy', *)
(* which a restart empties, the sessions a request works on.               *)
(*                                                                         *)
(* A byte of a file is its place in what the client sends, so that a file  *)
(* is as sent when it is 1, 2, 3 ...  What is refused changes nothing and  *)
(* is no action.  The client may send anything twice, or never.            *)
(*                                                                         *)
(* A definition marked `fault' is a plausible mistake in the one that      *)
(* follows it; it breaks a property below when put in its place.           *)
(***************************************************************************)
EXTENDS Integers, Sequences, FiniteSets, SequencesExt

CONSTANTS
    Sessions,    \* ids, each drawn once
    FileSize,    \* the size of every file
    ChunkBytes,  \* uploadChunkBytes()
    MaxStops,    \* bound: times the process ends
    MaxErrors    \* bound: times the database fails

ASSUME UploadsConstants ==
    /\ {FileSize, ChunkBytes} \subseteq Nat \ {0} /\ {MaxStops, MaxErrors} \subseteq Nat

VARIABLES
    rows,     \* upload_sessions, per id: state, and whether it was touched today
    files,    \* per id: whether there is a file, its bytes, whether of today
    busy,     \* sessions a request works on
    bodies,   \* per id: the body of a chunk being read, NoBody if none
    landing,  \* per id: a byte on its way to the disk, 0 if none
    using,    \* sessions whose file was handed on and not answered for
    doomed,   \* files an unlink was asked for
    sweep,    \* the sweep: names yet to look at, those of the directory until
              \* it is `listed', and the one it waits for
    handed,   \* per id: what was handed on, each time
    offsets,  \* per id: the offset the last chunk was answered with
    stops, errors  \* bounds

uploadVars == <<rows, files, busy, bodies, landing, using, doomed, sweep, handed, offsets,
                stops, errors>>

NoRow == [state |-> "none", fresh |-> FALSE]
NoFile == [there |-> FALSE, bytes |-> <<>>, fresh |-> FALSE]
NoBody == [from |-> 0, next |-> 0, upto |-> 0, over |-> FALSE, open |-> FALSE]
NoSweep == [names |-> {}, listed |-> TRUE, at |-> {}]

Row(state) == [state |-> state, fresh |-> TRUE]
\* uploadSessionOffset
Offset(s) == Len(files[s].bytes)
AsSent(n) == [i \in 1 .. n |-> i]

UploadsInit ==
    /\ rows = [s \in Sessions |-> NoRow] /\ files = [s \in Sessions |-> NoFile]
    /\ busy = {} /\ bodies = [s \in Sessions |-> NoBody]
    /\ landing = [s \in Sessions |-> 0] /\ using = {} /\ doomed = {} /\ sweep = NoSweep
    /\ handed = [s \in Sessions |-> <<>>] /\ offsets = [s \in Sessions |-> -1]
    /\ stops = 0 /\ errors = 0

-----------------------------------------------------------------------------
(* createUploadSession: the file, then the row.  offsets tells an id drawn. *)

Drawn(s) == /\ offsets[s] = -1 /\ offsets' = [offsets EXCEPT ![s] = 0]
            /\ files' = [files EXCEPT ![s] = [there |-> TRUE, bytes |-> <<>>, fresh |-> TRUE]]

CreateUploadSession(s) ==
    /\ Drawn(s) /\ rows' = [rows EXCEPT ![s] = Row("open")]
    /\ UNCHANGED <<busy, bodies, landing, using, doomed, sweep, handed, stops, errors>>

-----------------------------------------------------------------------------
(* appendUploadChunk.                                                      *)

\* The body names the offset the file is at, and brings at most what is allowed,
\* or more than that where no length was declared.
ChunkBegins(s) ==
    LET allowed == Min({ChunkBytes, FileSize - Offset(s)}) IN
    /\ rows[s].state = "open" /\ s \notin busy
    /\ busy' = busy \union {s}
    /\ \E n \in 0 .. allowed, over \in BOOLEAN :
        /\ over => n = allowed
        /\ bodies' = [bodies EXCEPT ![s] = [from |-> Offset(s), next |-> Offset(s) + 1,
                                            upto |-> Offset(s) + n, over |-> over,
                                            open |-> FALSE]]
    /\ UNCHANGED <<rows, files, landing, using, doomed, sweep, handed, offsets, stops, errors>>

\* The file is opened for appending, and made if it is not there.
StreamOpens(s) ==
    /\ bodies[s] # NoBody /\ ~bodies[s].open
    /\ bodies' = [bodies EXCEPT ![s].open = TRUE]
    /\ files' = [files EXCEPT ![s].there = TRUE]
    /\ UNCHANGED <<rows, busy, landing, using, doomed, sweep, handed, offsets, stops, errors>>

\* The stream takes a byte, and the disk has it some time later.
ByteArrives(s) ==
    LET b == bodies[s] IN
    /\ b.open /\ b.next <= b.upto /\ landing[s] = 0
    /\ landing' = [landing EXCEPT ![s] = b.next]
    /\ bodies' = [bodies EXCEPT ![s].next = @ + 1]
    /\ UNCHANGED <<rows, files, busy, using, doomed, sweep, handed, offsets, stops, errors>>

Written(f, byte) == [there |-> TRUE, bytes |-> Append(f.bytes, byte), fresh |-> TRUE]
ByteLands(s) ==
    /\ landing[s] # 0 /\ landing' = [landing EXCEPT ![s] = 0]
    /\ files' = IF files[s].there
                THEN [files EXCEPT ![s] = Written(@, landing[s])] ELSE files
    /\ UNCHANGED <<rows, busy, bodies, using, doomed, sweep, handed, offsets, stops, errors>>

\* fault: the pipeline's end is enough
PipelineEnded(s) == TRUE
\* The file is closed: nothing is on its way to it.
FileClosed(s) == landing[s] = 0

\* What a body that was too long brought is taken back; a file that is shorter
\* by now is filled up with zeros, as truncating does.
TakenBack(s) ==
    LET b == bodies[s] IN
    IF b.over /\ b.next > b.upto /\ files[s].there
    THEN [files EXCEPT ![s].bytes =
              [i \in 1 .. b.from |-> IF i <= Len(@) THEN @[i] ELSE 0]]
    ELSE files

\* All of it, too much of it, or cut off.
ChunkEnds(s) ==
    /\ bodies[s].open /\ FileClosed(s)
    /\ files' = TakenBack(s)
    /\ busy' = busy \ {s} /\ bodies' = [bodies EXCEPT ![s] = NoBody]
    /\ rows' = IF rows[s] = NoRow THEN rows ELSE [rows EXCEPT ![s].fresh = TRUE]
    /\ offsets' = [offsets EXCEPT ![s] = Len(files'[s].bytes)]
    /\ UNCHANGED <<landing, using, doomed, sweep, handed, stops, errors>>

-----------------------------------------------------------------------------
(* finishUploadSession.                                                    *)

Finishes(s) == /\ rows[s].state = "open" /\ s \notin busy /\ Offset(s) = FileSize
               /\ files[s].there

HandsOn(s) ==
    /\ Finishes(s)
    /\ busy' = busy \union {s} /\ using' = using \union {s}
    /\ rows' = [rows EXCEPT ![s] = Row("processing")]
    /\ handed' = [handed EXCEPT ![s] = Append(@, files[s].bytes)]
    /\ UNCHANGED <<files, bodies, landing, doomed, sweep, offsets, stops, errors>>

DatabaseFails(times) == errors + times <= MaxErrors /\ errors' = errors + times

\* The row cannot be marked: the file is not handed on, and that is the answer,
\* if it can be recorded.
NotHandedOn(s) ==
    /\ Finishes(s) /\ doomed' = doomed \union {s}
    /\ \/ DatabaseFails(1) /\ rows' = [rows EXCEPT ![s] = Row("done")]
       \/ DatabaseFails(2) /\ UNCHANGED rows
    /\ UNCHANGED <<files, busy, bodies, landing, using, sweep, handed, offsets, stops>>

\* `use' has answered or thrown: the answer is recorded, or fails to be; the file
\* is not awaited.  It may have been moved away.
Used(s) ==
    /\ s \in using /\ using' = using \ {s} /\ busy' = busy \ {s}
    /\ doomed' = doomed \union {s}
    /\ \/ /\ rows' = IF rows[s] = NoRow THEN rows ELSE [rows EXCEPT ![s] = Row("done")]
          /\ UNCHANGED errors
       \/ DatabaseFails(1) /\ UNCHANGED rows
    /\ files' \in {files, [files EXCEPT ![s] = NoFile]}
    /\ UNCHANGED <<bodies, landing, sweep, handed, offsets, stops>>

-----------------------------------------------------------------------------
(* The ends of a session.                                                  *)

Unlinked(s) ==
    /\ s \in doomed /\ doomed' = doomed \ {s} /\ files' = [files EXCEPT ![s] = NoFile]
    /\ UNCHANGED <<rows, busy, bodies, landing, using, sweep, handed, offsets, stops, errors>>

\* A session left processing reads as done (standing).
AbortUploadSession(s) ==
    /\ rows[s] # NoRow /\ s \notin busy
    /\ rows' = [rows EXCEPT ![s] = NoRow] /\ doomed' = doomed \union {s}
    /\ UNCHANGED <<files, busy, bodies, landing, using, sweep, handed, offsets, stops, errors>>

\* The rows go with their account, whatever works on them.
AccountDeleted(s) ==
    /\ rows[s] # NoRow /\ rows' = [rows EXCEPT ![s] = NoRow]
    /\ UNCHANGED <<files, busy, bodies, landing, using, doomed, sweep, handed, offsets,
                   stops, errors>>

DayPasses(s) ==
    /\ \/ rows[s].fresh /\ rows' = [rows EXCEPT ![s].fresh = FALSE] /\ UNCHANGED files
       \/ files[s].fresh /\ files' = [files EXCEPT ![s].fresh = FALSE] /\ UNCHANGED rows
    /\ UNCHANGED <<busy, bodies, landing, using, doomed, sweep, handed, offsets, stops, errors>>

-----------------------------------------------------------------------------
(* sweepUploadSessions, which waits for the directory and for each file.   *)

Stale == {s \in Sessions : rows[s] # NoRow /\ ~rows[s].fresh /\ s \notin busy}

SweepBegins ==
    /\ sweep = NoSweep
    /\ rows' = [s \in Sessions |-> IF s \in Stale THEN NoRow ELSE rows[s]]
    /\ doomed' = doomed \union Stale
    /\ sweep' = [names |-> {s \in Sessions : files[s].there}, listed |-> FALSE, at |-> {}]
    /\ UNCHANGED <<files, busy, bodies, landing, using, handed, offsets, stops, errors>>

\* fault: age alone decides
Found(names) == names
\* Files with no row.
Orphans(names) == {s \in names : rows[s] = NoRow}

SweepLists ==
    /\ ~sweep.listed
    /\ sweep' = [names |-> Orphans(sweep.names), listed |-> TRUE, at |-> {}]
    /\ UNCHANGED <<rows, files, busy, bodies, landing, using, doomed, handed, offsets,
                   stops, errors>>

SweepLooks(s) ==
    /\ sweep.listed /\ s \in sweep.names /\ sweep.at = {}
    /\ sweep' = [sweep EXCEPT !.names = @ \ {s}, !.at = {s} \ busy]
    /\ UNCHANGED <<rows, files, busy, bodies, landing, using, doomed, handed, offsets,
                   stops, errors>>

SweepRemoves(s) ==
    /\ s \in sweep.at /\ sweep' = [sweep EXCEPT !.at = {}]
    /\ files' = IF files[s].fresh THEN files ELSE [files EXCEPT ![s] = NoFile]
    /\ UNCHANGED <<rows, busy, bodies, landing, using, doomed, handed, offsets, stops, errors>>

-----------------------------------------------------------------------------
(* The process ends: what was asked of the disk may have been done.        *)

Stops == /\ stops < MaxStops /\ stops' = stops + 1
         /\ busy' = {} /\ bodies' = [s \in Sessions |-> NoBody]
         /\ landing' = [s \in Sessions |-> 0] /\ using' = {} /\ doomed' = {}
         /\ sweep' = NoSweep /\ UNCHANGED <<rows, handed, errors>>

ProcessEnds ==
    /\ Stops /\ UNCHANGED offsets
    /\ \E wrote, unlinked \in BOOLEAN :
        files' = [s \in Sessions |->
            IF s \in doomed /\ unlinked THEN NoFile
            ELSE IF landing[s] # 0 /\ wrote /\ files[s].there THEN Written(files[s], landing[s])
            ELSE files[s]]

\* Between the file and the row.
EndsInCreate(s) == Drawn(s) /\ Stops

UploadsNext ==
    \/ \E s \in Sessions :
        \/ CreateUploadSession(s) \/ EndsInCreate(s)
        \/ ChunkBegins(s) \/ StreamOpens(s) \/ ByteArrives(s) \/ ByteLands(s) \/ ChunkEnds(s)
        \/ HandsOn(s) \/ NotHandedOn(s) \/ Used(s)
        \/ Unlinked(s) \/ AbortUploadSession(s) \/ AccountDeleted(s) \/ DayPasses(s)
        \/ SweepLooks(s) \/ SweepRemoves(s)
    \/ SweepBegins \/ SweepLists \/ ProcessEnds

UploadsSpec == UploadsInit /\ [][UploadsNext]_uploadVars

-----------------------------------------------------------------------------
(* Properties.                                                             *)

UploadsTypeOK ==
    /\ rows \in [Sessions -> [state : {"none", "open", "processing", "done"}, fresh : BOOLEAN]]
    /\ \A s \in Sessions : files[s].bytes \in Seq(0 .. FileSize) /\ Offset(s) <= FileSize
    /\ busy \subseteq Sessions /\ using \subseteq busy /\ doomed \subseteq Sessions
    /\ \A s \in Sessions : bodies[s] # NoBody => s \in busy
    /\ sweep.names \union sweep.at \subseteq Sessions
    /\ offsets \in [Sessions -> -1 .. FileSize]

\* A finish that could write neither that it began nor its answer takes the
\* file and leaves the session open: what comes of such a session is not claimed.
BothWritesFailed == errors >= 2

\* A file is handed on once, whatever is asked again and whenever the process
\* ends, and it is all that was sent, in its order: no cut-off, overlong or
\* repeated chunk leaves a byte in the middle (uploadSessions.ts, appendUploadChunk
\* and finishUploadSession).
HandedOnceAsSent ==
    BothWritesFailed \/ \A s \in Sessions :
        handed[s] = <<>> \/ handed[s] = <<AsSent(FileSize)>>

\* While a session is open its file holds what the last chunk's answer said, no
\* sweep, late unlink, restart or overlong body having taken it
\* (uploadSessions.ts, sweepUploadSessions).
OpenKeepsItsBytes ==
    BothWritesFailed \/ \A s \in Sessions : rows[s].state = "open" =>
        files[s].there /\ Offset(s) >= offsets[s]

=============================================================================
