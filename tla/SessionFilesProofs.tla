------------------------- MODULE SessionFilesProofs -------------------------
(***************************************************************************)
(* Theorems about SessionFiles, for any file names and bounds.             *)
(***************************************************************************)
EXTENDS SessionFiles, TLAPS

\* What is linked is in both directories.
Disk == /\ uploads \subseteq Names /\ output \subseteq Names
        /\ linked \subseteq uploads \cap output

\* A run that has begun has copied what it no longer has to copy.
Staged ==
    /\ run \in {"idle", "staging", "working"}
    /\ todo \subseteq listed /\ listed \subseteq Names
    /\ run = "staging" => listed \ todo \subseteq output
    /\ RunHasItsUploads

\* The page waits for a removal of n from this session.
Leaving(n) == removal[n].sent + removal[n].dealt > 0

\* The page asks for nothing it knows, so that no file it uploads is one it
\* is removing; what the request has saved is there, unless it was overtaken.
Page ==
    /\ saving.left \subseteq saving.all /\ saving.all \subseteq Names
    /\ saving.all \cap known = {}
    /\ saving.here => saving.all \ saving.left \subseteq uploads \cup late
    /\ adrift \subseteq Names /\ known \subseteq Names
    /\ removal \in [Names -> [sent : Nat, dealt : Nat, lost : Nat, away : Nat]]
    /\ foreign \subseteq known

\* Wherever the page is.
Explained ==
    \A n \in known \ uploads : Leaving(n) \/ n \in foreign \/ n \in late

\* A kind whose subscription has failed is not subscribed to.
Stream == subs \cap broken = {} /\ subs \cup broken \subseteq Kinds

FilesInv == Disk /\ Staged /\ Page /\ Explained /\ Stream

------------------------------------------------------------------------------
\* Nothing is there at first.
LEMMA InvInit == Init => FilesInv
BY DEF Init, FilesInv, Disk, Staged, Page, Explained, Stream, RunHasItsUploads,
       NoUpload, NoRemoval

\* A copy that does not raise leaves the file in the output directory, and
\* one that does ends the run.
LEMMA CopyStages ==
    ASSUME Disk, Staged, NEW n \in todo, run = "staging", Copy(n),
           UNCHANGED <<uploads, listed>>
    PROVE  Disk' /\ Staged'
<1>1. CASE n \in uploads /\ n \notin linked
  <2>1. output' = output \cup {n} /\ todo' = todo \ {n} /\ run' = run
    BY <1>1 DEF Copy
  <2>2. linked' \in {linked, linked \cup {n}}
    BY DEF Copy
  <2> QED
    BY <1>1, <2>1, <2>2 DEF Disk, Staged, RunHasItsUploads
<1>2. CASE n \notin uploads \/ n \in linked
  <2>1. output' = output /\ todo' = {} /\ run' = "idle" /\ linked' = linked
    BY <1>2 DEF Copy, Disk
  <2> QED
    BY <2>1 DEF Disk, Staged, RunHasItsUploads
<1> QED
  BY <1>1, <1>2

\* The steps of the run.
LEMMA RunKeeps == FilesInv /\ RunStep => FilesInv'
<1> SUFFICES ASSUME FilesInv, RunStep PROVE FilesInv'
  OBVIOUS
<1> USE DEF FilesInv
<1>0. UNCHANGED <<uploads, pageVars, streamVars>>
  BY DEF RunStep, RunBegins, ReportDir, RunEnds, Stage, Generate, diskVars
<1>1. Page' /\ Explained' /\ Stream'
  BY <1>0 DEF Page, Explained, Leaving, Stream, pageVars, streamVars
<1>2. CASE RunBegins
  BY <1>1, <1>2 DEF RunBegins, Disk, Staged, RunHasItsUploads, diskVars
<1>3. CASE ReportDir
  BY <1>1, <1>3 DEF ReportDir, Disk, Staged, RunHasItsUploads, diskVars
<1>4. CASE RunEnds
  BY <1>1, <1>4 DEF RunEnds, Disk, Staged, RunHasItsUploads, diskVars
<1>5. ASSUME NEW n \in Names, Stage(n) PROVE FilesInv'
  BY <1>1, <1>5, CopyStages DEF Stage
<1>6. ASSUME NEW n \in Names, Generate(n) PROVE FilesInv'
  BY <1>1, <1>6 DEF Generate, Disk, Staged, RunHasItsUploads, runVars
<1> QED
  BY <1>2, <1>3, <1>4, <1>5, <1>6 DEF RunStep

\* The steps of the page and of its requests.
LEMMA PageKeeps == FilesInv /\ PageStep => FilesInv'
<1> SUFFICES ASSUME FilesInv, PageStep PROVE FilesInv'
  OBVIOUS
<1> USE DEF FilesInv, NoUpload
<1>0. UNCHANGED <<output, runVars, streamVars>>
  BY DEF PageStep, AskUpload, Uploaded, UploadFails, Save, SaveAdrift, Remove, Delete,
         Removed, Load, Reset, diskVars
<1>1. Staged' /\ Stream'
  BY <1>0 DEF Staged, Stream, RunHasItsUploads, runVars, streamVars
<1>2. ASSUME NEW S \in SUBSET Names, AskUpload(S) PROVE FilesInv'
  BY <1>1, <1>2 DEF AskUpload, Disk, Page, Explained, Leaving, diskVars
<1>3. CASE Uploaded
  <2>1. /\ known' = known \cup saving.all /\ saving' = NoUpload /\ saving.left = {}
        /\ foreign' = IF saving.here THEN foreign ELSE foreign \cup saving.all
        /\ UNCHANGED <<diskVars, adrift, removal, late>>
    BY <1>3 DEF Uploaded
  <2>2. Disk' /\ Page'
    BY <2>1 DEF Disk, Page, diskVars
  <2>3. saving.here => saving.all \subseteq uploads \cup late
    BY <2>1 DEF Page
  <2>4. Explained'
    BY <2>1, <2>3 DEF Explained, Leaving, diskVars
  <2> QED
    BY <1>1, <2>2, <2>4
<1>4. CASE UploadFails
  BY <1>1, <1>4 DEF UploadFails, Disk, Page, Explained, Leaving, diskVars
<1>5. ASSUME NEW n \in Names, Save(n) PROVE FilesInv'
  <2>1. /\ saving'.left = saving.left \ {n} /\ saving'.all = saving.all
        /\ saving'.here = saving.here /\ UNCHANGED <<output, linked, adrift, removal, known, foreign>>
    BY <1>5 DEF Save
  <2>2. CASE saving.here
    <3>1. uploads' = uploads \cup {n} /\ late' = late \ {n}
      BY <1>5, <2>2 DEF Save, Stored
    <3> QED
      BY <1>1, <2>1, <3>1 DEF Disk, Page, Explained, Leaving
  <2>3. CASE ~saving.here
    <3>1. UNCHANGED <<uploads, late>>
      BY <1>5, <2>3 DEF Save
    <3> QED
      BY <1>1, <2>1, <2>3, <3>1 DEF Disk, Page, Explained, Leaving
  <2> QED
    BY <2>2, <2>3
<1>6. ASSUME NEW n \in Names, SaveAdrift(n) PROVE FilesInv'
  BY <1>1, <1>6 DEF SaveAdrift, Stored, Disk, Page, Explained, Leaving
<1>7. ASSUME NEW n \in Names, Remove(n) PROVE FilesInv'
  <2>1. /\ \A m \in Names : removal'[m].sent >= removal[m].sent /\ removal'[m].dealt = removal[m].dealt
        /\ removal' \in [Names -> [sent : Nat, dealt : Nat, lost : Nat, away : Nat]]
        /\ UNCHANGED <<diskVars, saving, adrift, known, foreign, late>>
    BY <1>7 DEF Remove, Page
  <2>2. \A m \in Names : Leaving(m) => Leaving(m)'
    BY <2>1 DEF Leaving, Page
  <2> QED
    BY <1>1, <2>1, <2>2 DEF Disk, Page, Explained, diskVars
<1>8. ASSUME NEW n \in Names, Delete(n) PROVE FilesInv'
  <2>1. /\ uploads' = uploads \ {n} /\ linked' = linked \ {n}
        /\ UNCHANGED <<output, saving, adrift, known, foreign>>
    BY <1>8 DEF Delete, LinksAfterDelete
  <2>2. /\ removal' \in [Names -> [sent : Nat, dealt : Nat, lost : Nat, away : Nat]]
        /\ \A m \in Names : Leaving(m) => Leaving(m)'
        /\ late \subseteq late' /\ (n \in late' \/ Leaving(n)')
        /\ saving.here /\ n \in saving.all => n \in late'
    <3>1. CASE /\ removal[n].sent > 0
               /\ removal' = [removal EXCEPT ![n].sent = @ - 1, ![n].dealt = @ + 1]
               /\ late' = IF saving.here /\ n \in saving.all THEN late \cup {n} ELSE late
      BY <3>1 DEF Page, Leaving
    <3>2. CASE /\ removal[n].lost > 0
               /\ removal' = [removal EXCEPT ![n].lost = @ - 1]
               /\ late' = late \cup {n}
      BY <3>2 DEF Page, Leaving
    <3> QED
      BY <1>8, <3>1, <3>2 DEF Delete
  <2> QED
    BY <1>1, <2>1, <2>2 DEF Disk, Page, Explained
<1>9. ASSUME NEW n \in Names, NEW failed \in BOOLEAN, Removed(n, failed)
      PROVE  FilesInv'
  <2>1. /\ known' = known \ {n} /\ foreign' = foreign \cap known'
        /\ UNCHANGED <<diskVars, saving, adrift, late>>
    BY <1>9 DEF Removed, KnownAfter
  <2>2. /\ removal' \in [Names -> [sent : Nat, dealt : Nat, lost : Nat, away : Nat]]
        /\ \A m \in Names : m # n => removal'[m] = removal[m]
    <3>1. \/ removal[n].dealt > 0 /\ removal' = [removal EXCEPT ![n].dealt = @ - 1]
          \/ removal[n].away > 0 /\ removal' = [removal EXCEPT ![n].away = @ - 1]
          \/ removal[n].sent > 0 /\ removal' = [removal EXCEPT ![n].sent = @ - 1]
          \/ removal[n].sent > 0 /\ removal' = [removal EXCEPT ![n].sent = @ - 1, ![n].lost = @ + 1]
      BY <1>9 DEF Removed
    <3> QED
      BY <3>1 DEF Page
  <2> QED
    BY <1>1, <2>1, <2>2 DEF Disk, Page, Explained, Leaving, diskVars
<1>10. CASE Load \/ Reset
  BY <1>1, <1>10 DEF Load, Reset, Disk, Page, Explained, Leaving, diskVars
<1> QED
  BY <1>2, <1>3, <1>4, <1>5, <1>6, <1>7, <1>8, <1>9, <1>10 DEF PageStep

\* The steps of the stream touch no file.
LEMMA StreamKeeps == FilesInv /\ (StreamStep \/ StreamFault) => FilesInv'
<1> SUFFICES ASSUME FilesInv, StreamStep \/ StreamFault PROVE FilesInv'
  OBVIOUS
<1> USE DEF FilesInv, StreamFault
<1>0. UNCHANGED <<diskVars, runVars, pageVars>>
  BY DEF StreamStep, Open, Subscribe, StreamEnds, StreamLost, Break
<1>1. Disk' /\ Staged' /\ Page' /\ Explained'
  BY <1>0 DEF diskVars, runVars, pageVars, Disk, Staged, Page, Explained, Leaving,
              RunHasItsUploads
<1>2. Stream'
  BY DEF StreamStep, Open, Subscribe, StreamEnds, StreamLost, Break,
         CloseStream, Stream
<1> QED
  BY <1>1, <1>2

\* The invariant holds in every behaviour.
THEOREM FilesInvariant == Spec => []FilesInv
<1>1. FilesInv /\ [Next]_vars => FilesInv'
  <2>1. CASE UNCHANGED vars
    BY <2>1 DEF vars, diskVars, runVars, pageVars, streamVars, FilesInv, Disk,
                Staged, Page, Explained, Leaving, Stream, RunHasItsUploads
  <2> QED
    BY <2>1, RunKeeps, PageKeeps, StreamKeeps DEF Next, FileStep
<1> QED
  BY InvInit, <1>1, PTL DEF Spec

\* Types, and that an upload and an output that are one file are both there.
THEOREM FilesTypeCorrect == Spec => []FilesTypeOK
<1>1. FilesInv => FilesTypeOK
  BY DEF FilesInv, Disk, Staged, Page, Stream, FilesTypeOK
<1> QED
  BY <1>1, FilesInvariant, PTL

\* However uploads, removals and runs interleave, and whichever of them fail,
\* a run that works has every upload it found when it began.
THEOREM StagedUploads == Spec => []RunHasItsUploads
<1>1. FilesInv => RunHasItsUploads
  BY DEF FilesInv, Staged
<1> QED
  BY <1>1, FilesInvariant, PTL

\* However uploads, removals, changes of session and failures of either side of a
\* request interleave, a name the page shows here is stored, is being removed, is
\* another session's, or was deleted by a removal that came late.
THEOREM UnstoredExplained == Spec => []UnstoredIsExplained
<1>1. FilesInv => UnstoredIsExplained
  BY DEF FilesInv, Explained, Leaving, UnstoredIsExplained
<1> QED
  BY <1>1, FilesInvariant, PTL
=============================================================================
