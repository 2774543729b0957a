---------------------------- MODULE SessionFiles ----------------------------
(***************************************************************************)
(* The files of one session: the uploads in updated/, which a page adds    *)
(* and removes (server.py upload_files, delete_uploaded_file) while it     *)
(* shows this session or, elsewhere, another, the output                   *)
(* directory into which each run links them before it works there          *)
(* (main_agent.py, storage.py), and the SSE stream whose messages make the *)
(* page list its files again (server.py sse_stream, useSSE.ts).            *)
(*                                                                         *)
(* The list itself is a read, and left out with the messages: publishing   *)
(* changes nothing here.                                                   *)
(*                                                                         *)
(* The API process and the worker see one file system.  A storage method   *)
(* has no suspension point, so that one call is one step.                  *)
(***************************************************************************)
EXTENDS Naturals, FiniteSets

CONSTANTS
    Names,    \* file names
    Budgets   \* bounds, one of which a behaviour has: runs of the session, moves
              \* of the page between sessions, removals of a name at once, and
              \* faults of requests and subscriptions

Kinds == {"session", "file"}

VARIABLES
    uploads,    \* names in updated/session_{id}
    output,     \* names in output/session_{id}
    linked,     \* those that are one file in both
    run,        \* the run of the agent: "idle", "staging", "working"
    listed,     \* uploads it found when it began
    todo,       \* those it has yet to copy
    here,       \* whether the page shows this session
    saving,     \* the upload request: names, those not yet saved, and where to
    adrift,     \* names still to be saved by a request that failed for the page
    removal,    \* for each name, its removal requests: see NoRemoval
    known,      \* uploadedNameSetRef, which outlives a change of session
    foreign,    \* history: known names that were uploaded to another session
    late,       \* history: names a removal deleted that the page no longer
                \* waits for, or that a later upload had overtaken
    stream,     \* the SSE stream: "down", "open"
    subs,       \* kinds it is subscribed to
    broken,     \* kinds whose subscription has failed since it opened
    spare       \* what is left of the behaviour's bounds

diskVars   == <<uploads, output, linked>>
runVars    == <<run, listed, todo>>
pageVars   == <<here, saving, adrift, removal, known, foreign, late>>
streamVars == <<stream, subs, broken>>

vars == <<diskVars, runVars, pageVars, streamVars, spare>>

NoUpload == [all |-> {}, left |-> {}, here |-> TRUE]

\* Removals the page waits for and the server has yet to deal with, or has dealt
\* with; those the server deals with though they failed for the page; and those
\* the page waits for that concern another session.
NoRemoval == [sent |-> 0, dealt |-> 0, lost |-> 0, away |-> 0]

Init ==
    /\ uploads = {} /\ output = {} /\ linked = {}
    /\ run = "idle" /\ listed = {} /\ todo = {}
    /\ here = TRUE /\ saving = NoUpload /\ adrift = {}
    /\ removal = [n \in Names |-> NoRemoval]
    /\ known = {} /\ foreign = {} /\ late = {}
    /\ stream = "down" /\ subs = {} /\ broken = {}
    /\ spare \in Budgets

Spend(kind) == spare[kind] > 0 /\ spare' = [spare EXCEPT ![kind] = @ - 1]

------------------------------------------------------------------------------
(* The run's staging, and what it writes. *)

RunBegins ==
    /\ run = "idle"
    /\ Spend("runs")
    /\ run' = "staging"
    /\ listed' = uploads
    /\ todo' = uploads
    /\ UNCHANGED <<diskVars, pageVars, streamVars>>

\* Mutant: a file that cannot be copied is passed over.
CopyWhatCanBe(n) ==
    /\ output' = output \cup ({n} \cap uploads)
    /\ linked' = IF n \in uploads \ output THEN linked \cup {n} ELSE linked
    /\ todo' = todo \ {n}
    /\ run' = run

\* copy_between_storage: os.link, or shutil.copy2 over what is there.  Both
\* raise for an upload deleted meanwhile, and copy2 for a file that is the
\* same one already; nothing catches it, and the run ends before its try.
Copy(n) ==
    LET raises == n \notin uploads \/ n \in linked
    IN  /\ output' = IF raises THEN output ELSE output \cup {n}
        /\ linked' = IF n \in uploads \ output THEN linked \cup {n} ELSE linked
        /\ todo' = IF raises THEN {} ELSE todo \ {n}
        /\ run' = IF raises THEN "idle" ELSE run

Stage(n) ==
    /\ run = "staging"
    /\ n \in todo
    /\ Copy(n)
    /\ UNCHANGED <<uploads, listed, pageVars, streamVars, spare>>

\* report_session_dir, and the run goes on to its tools.
ReportDir ==
    /\ run = "staging"
    /\ todo = {}
    /\ run' = "working"
    /\ UNCHANGED <<diskVars, listed, todo, pageVars, streamVars, spare>>

\* A tool writes a file into the output directory; no channel hears of it.
Generate(n) ==
    /\ run = "working"
    /\ output' = output \cup {n}
    /\ UNCHANGED <<uploads, linked, runVars, pageVars, streamVars, spare>>

RunEnds ==
    /\ run = "working"
    /\ run' = "idle"
    /\ UNCHANGED <<diskVars, listed, todo, pageVars, streamVars, spare>>

------------------------------------------------------------------------------
(* Uploading and removing. *)

\* uploadFiles sends the names it does not know to the session it shows.
AskUpload(S) ==
    /\ saving = NoUpload
    /\ S # {}
    /\ S \cap known = {}
    /\ saving' = [all |-> S, left |-> S, here |-> here]
    /\ UNCHANGED <<diskVars, runVars, here, adrift, removal, known, foreign, late,
                   streamVars, spare>>

\* The file is written, in place if it is there.
Stored(n) == uploads' = uploads \cup {n} /\ late' = late \ {n}

\* upload_files, file by file.
Save(n) ==
    /\ n \in saving.left
    /\ saving' = [saving EXCEPT !.left = @ \ {n}]
    /\ IF saving.here THEN Stored(n) ELSE UNCHANGED <<uploads, late>>
    /\ UNCHANGED <<output, linked, runVars, here, adrift, removal, known, foreign,
                   streamVars, spare>>

\* A file is refused after others were saved, an error ends the request, or its
\* answer is lost while the server goes on: the page knows none of the names.
UploadFails ==
    /\ saving # NoUpload
    /\ Spend("faults")
    /\ adrift' \in {adrift, adrift \cup (IF saving.here THEN saving.left ELSE {})}
    /\ saving' = NoUpload
    /\ UNCHANGED <<diskVars, runVars, here, removal, known, foreign, late, streamVars>>

SaveAdrift(n) ==
    /\ n \in adrift
    /\ adrift' = adrift \ {n}
    /\ Stored(n)
    /\ UNCHANGED <<output, linked, runVars, here, saving, removal, known, foreign,
                   streamVars, spare>>

\* The names join the others, whatever the page shows by now.
Uploaded ==
    /\ saving # NoUpload
    /\ saving.left = {}
    /\ known' = known \cup saving.all
    /\ foreign' = IF saving.here THEN foreign ELSE foreign \cup saving.all
    /\ saving' = NoUpload
    /\ UNCHANGED <<diskVars, runVars, here, adrift, removal, late, streamVars, spare>>

Requests(n) == removal[n].sent + removal[n].dealt + removal[n].lost + removal[n].away

\* An item has its button until the request is over: it may be pressed again.
Remove(n) ==
    /\ n \in known
    /\ Requests(n) < spare.removals
    /\ removal' = IF here THEN [removal EXCEPT ![n].sent = @ + 1]
                  ELSE [removal EXCEPT ![n].away = @ + 1]
    /\ UNCHANGED <<diskVars, runVars, here, saving, adrift, known, foreign, late,
                   streamVars, spare>>

\* Mutant: a deleted upload is taken for the file staged.
LinksKept(n) == linked

LinksAfterDelete(n) == linked \ {n}

\* delete_uploaded_file: what was staged stays in the output directory.
Delete(n) ==
    /\ \/ /\ removal[n].sent > 0
          /\ removal' = [removal EXCEPT ![n].sent = @ - 1, ![n].dealt = @ + 1]
          /\ late' = IF saving.here /\ n \in saving.all THEN late \cup {n} ELSE late
       \/ /\ removal[n].lost > 0
          /\ removal' = [removal EXCEPT ![n].lost = @ - 1]
          /\ late' = late \cup {n}
    /\ uploads' = uploads \ {n}
    /\ linked' = LinksAfterDelete(n)
    /\ UNCHANGED <<output, runVars, here, saving, adrift, known, foreign, streamVars, spare>>

\* Mutant: the page keeps an item whose removal failed.
KeptIfFailed(n, failed) == IF failed THEN known ELSE known \ {n}

\* removeUploadedFile goes on after an error.
KnownAfter(n, failed) == known \ {n}

\* The request fails before the server has done anything, with or without the
\* server going on, or after.
Removed(n, failed) ==
    /\ \/ removal[n].dealt > 0 /\ removal' = [removal EXCEPT ![n].dealt = @ - 1]
       \/ removal[n].away > 0 /\ removal' = [removal EXCEPT ![n].away = @ - 1]
       \/ /\ failed /\ removal[n].sent > 0
          /\ removal' \in {[removal EXCEPT ![n].sent = @ - 1],
                           [removal EXCEPT ![n].sent = @ - 1, ![n].lost = @ + 1]}
    /\ IF failed THEN Spend("faults") ELSE UNCHANGED spare
    /\ known' = KnownAfter(n, failed)
    /\ foreign' = foreign \cap known'
    /\ UNCHANGED <<diskVars, runVars, here, saving, adrift, late, streamVars>>

\* loadHistoricalSession shows another session, or this one again.
Load ==
    /\ Spend("moves")
    /\ here' = ~here
    /\ UNCHANGED <<diskVars, runVars, saving, adrift, removal, known, foreign, late,
                   streamVars>>

\* resetSession shows a new one, and forgets the names.
Reset ==
    /\ Spend("moves")
    /\ here' = FALSE
    /\ known' = {} /\ foreign' = {}
    /\ UNCHANGED <<diskVars, runVars, saving, adrift, removal, late, streamVars>>

------------------------------------------------------------------------------
(* The SSE stream and the list of files. *)

\* connect of useSSE, at once or after its timer; sse_stream answers.
Open ==
    /\ stream = "down"
    /\ stream' = "open"
    /\ UNCHANGED <<diskVars, runVars, pageVars, subs, broken, spare>>

\* The first __anext__ of a generator subscribes; from then on the generator
\* is armed again after each message.
Subscribe(k) ==
    /\ stream = "open"
    /\ k \notin subs \cup broken
    /\ subs' = subs \cup {k}
    /\ UNCHANGED <<diskVars, runVars, pageVars, stream, broken, spare>>

\* A generator raises: it is not armed again, the stream goes on without it.
Break(k) ==
    /\ stream = "open"
    /\ k \notin broken
    /\ Spend("faults")
    /\ subs' = subs \ {k}
    /\ broken' = broken \cup {k}
    /\ UNCHANGED <<diskVars, runVars, pageVars, stream>>

CloseStream ==
    /\ stream' = "down"
    /\ subs' = {}
    /\ broken' = {}

\* Mutant: with nothing to wait for the loop sends heartbeats.
NothingIsAwaited == FALSE

\* asyncio.wait of an empty set raises, which ends the stream.
NothingPending == broken = Kinds

StreamEnds ==
    /\ stream = "open"
    /\ NothingPending
    /\ CloseStream
    /\ UNCHANGED <<diskVars, runVars, pageVars, spare>>

StreamLost ==
    /\ stream = "open"
    /\ Spend("faults")
    /\ CloseStream
    /\ UNCHANGED <<diskVars, runVars, pageVars>>

RunStep == RunBegins \/ ReportDir \/ RunEnds \/ \E n \in Names : Stage(n) \/ Generate(n)

PageStep ==
    \/ \E S \in SUBSET Names : AskUpload(S)
    \/ Uploaded \/ UploadFails \/ Load \/ Reset
    \/ \E n \in Names : \/ Save(n) \/ SaveAdrift(n) \/ Remove(n) \/ Delete(n)
                        \/ \E failed \in BOOLEAN : Removed(n, failed)

StreamStep ==
    \/ Open
    \/ \E k \in Kinds : Subscribe(k)
    \/ StreamEnds

FileStep == RunStep \/ PageStep

StreamFault == StreamLost \/ \E k \in Kinds : Break(k)

Next == FileStep \/ StreamStep \/ StreamFault

Spec == Init /\ [][Next]_vars

\* The bounds of a run of its own.
TwoRuns == {[runs |-> 2, moves |-> 0, removals |-> 1, faults |-> 1]}

------------------------------------------------------------------------------
(* Properties. *)

FilesTypeOK ==
    /\ uploads \subseteq Names /\ output \subseteq Names
    /\ linked \subseteq uploads \cap output
    /\ run \in {"idle", "staging", "working"}
    /\ todo \subseteq listed /\ listed \subseteq Names
    /\ saving.left \subseteq saving.all /\ saving.all \subseteq Names
    /\ removal \in [Names -> [sent : Nat, dealt : Nat, lost : Nat, away : Nat]]
    /\ foreign \subseteq known
    /\ subs \cap broken = {} /\ subs \cup broken \subseteq Kinds

\* The agent works in a directory that has every upload it told the model of,
\* whatever the page removes meanwhile.
RunHasItsUploads == run = "working" => listed \subseteq output

\* A name the page shows as an attachment of this session is in its upload
\* directory, so that a later task is given the file, but for a removal the page
\* waits for, a name kept from another session, and a removal that came late.
UnstoredIsExplained ==
    here => \A n \in known \ uploads :
                removal[n].sent + removal[n].dealt > 0 \/ n \in foreign \/ n \in late

\* storage.py: where a link cannot be made the file is copied.  Staging an
\* upload that is there does not end the run.
StagingSucceeds ==
    [][\A n \in Names : (run = "staging" /\ n \in todo \cap uploads /\ n \notin todo')
         => run' = "staging"]_vars
=============================================================================
