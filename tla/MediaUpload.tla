----------------------------- MODULE MediaUpload -----------------------------
(***************************************************************************)
(* Uploads of files (app/api/media.py, create_media_asset_record of        *)
(* app/services/owner.py): the file is streamed to a temporary name, moved *)
(* in place, recorded by a row, and removed again on every other exit.     *)
(* The process may die between any two steps.  Names are random and never  *)
(* used twice, so an upload stands for its names and its row.              *)
(***************************************************************************)
EXTENDS FiniteSets

CONSTANT Uploads

VARIABLES
    progress,       \* per upload: where upload_media is
    temps, files,   \* uploads whose .part file, whose final file is on disk
    assets          \* uploads whose media_assets row is committed

mediaVars == <<progress, temps, files, assets>>

\* "cleanup" is the finally block after an exception, "closing" after the
\* response is ready; "refused" and "created" are answers; "dead" is a crash,
\* "unclosed" an answer whose finally block did not get to the files.
Progress == {"received", "streaming", "checked", "placed", "committed", "closing",
             "cleanup", "created", "refused", "unclosed", "dead"}

MediaTypes ==
    /\ progress \in [Uploads -> Progress]
    /\ temps \subseteq Uploads /\ files \subseteq Uploads /\ assets \subseteq Uploads

MediaInit ==
    /\ progress = [u \in Uploads |-> "received"]
    /\ temps = {} /\ files = {} /\ assets = {}

Moves(u, from, to) == progress[u] = from /\ progress' = [progress EXCEPT ![u] = to]

-----------------------------------------------------------------------------
\* The checks before the file is opened; they leave nothing behind.
Refuse(u) ==
    /\ Moves(u, "received", "refused")
    /\ UNCHANGED <<temps, files, assets>>

OpenTemp(u) ==
    /\ Moves(u, "received", "streaming")
    /\ temps' = temps \cup {u}
    /\ UNCHANGED <<files, assets>>

\* All chunks written and synced, not empty, not too large, and of the
\* declared type.
Streamed(u) ==
    /\ Moves(u, "streaming", "checked")
    /\ UNCHANGED <<temps, files, assets>>

\* os.replace.
Place(u) ==
    /\ Moves(u, "checked", "placed")
    /\ temps' = temps \ {u} /\ files' = files \cup {u}
    /\ UNCHANGED assets

\* create_media_asset_record: the row and its audit are committed.
Record(u) ==
    /\ Moves(u, "placed", "committed")
    /\ assets' = assets \cup {u}
    /\ UNCHANGED <<temps, files>>

\* Then the row is read again, and the file counts as recorded.
Reread(u) ==
    /\ Moves(u, "committed", "closing")
    /\ UNCHANGED <<temps, files, assets>>

\* Any statement raises: a chunk, the checks, the move, the insert, the
\* commit, the refresh after it.
Fail(u) ==
    /\ progress[u] \in {"streaming", "checked", "placed", "committed"}
    /\ progress' = [progress EXCEPT ![u] = "cleanup"]
    /\ UNCHANGED <<temps, files, assets>>

\* Fault: what was moved in place stays.
CleanedTemp(u) == temps' = temps \ {u} /\ files' = files

\* finally, recorded being false.
Cleaned(u) == temps' = temps \ {u} /\ files' = files \ {u}

Cleanup(u) ==
    /\ Moves(u, "cleanup", "refused")
    /\ Cleaned(u)
    /\ UNCHANGED assets

\* finally, recorded being true.
CloseAndAnswer(u) ==
    /\ Moves(u, "closing", "created")
    /\ temps' = temps \ {u}
    /\ UNCHANGED <<files, assets>>

\* The finally block first awaits file.close(), which may raise or be cancelled:
\* the files stay as they are.
CloseFails(u) ==
    /\ progress[u] \in {"cleanup", "closing"}
    /\ progress' = [progress EXCEPT ![u] = "unclosed"]
    /\ UNCHANGED <<temps, files, assets>>

Crash(u) ==
    /\ progress[u] \notin {"created", "refused", "unclosed", "dead"}
    /\ progress' = [progress EXCEPT ![u] = "dead"]
    /\ UNCHANGED <<temps, files, assets>>

MediaNext ==
    \E u \in Uploads :
        \/ Refuse(u) \/ OpenTemp(u) \/ Streamed(u) \/ Place(u) \/ Record(u) \/ Reread(u)
        \/ Fail(u) \/ Cleanup(u) \/ CloseAndAnswer(u) \/ CloseFails(u)
        \/ Crash(u)

MediaSpec == MediaInit /\ [][MediaNext]_mediaVars

-----------------------------------------------------------------------------
\* An upload that was answered has its file and its row; a row without its
\* file belongs to one that was refused although its row was committed, when
\* the statement after the commit failed (media.py:224, :252; owner.py:90).
AnsweredUploadsAreStored ==
    /\ \A u \in Uploads : progress[u] = "created" => u \in files /\ u \in assets
    /\ \A u \in assets \ files : progress[u] = "refused"

\* Nothing is left on disk by an upload that was refused: a temporary file, or
\* a file without a row, belongs to an upload in progress, to a crash, or to one
\* whose file.close() failed (media.py:249).
LeftoversComeFromCrashes ==
    \A u \in temps \cup (files \ assets) : progress[u] \notin {"created", "refused"}

\* Of every upload that ended the disk and the rows agree, whichever statement
\* failed (media.py:222, :248).
UploadsEndClean == AnsweredUploadsAreStored /\ LeftoversComeFromCrashes
=============================================================================
