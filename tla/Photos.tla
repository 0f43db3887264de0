------------------------------- MODULE Photos -------------------------------
(***************************************************************************)
(* The photos of a group: uploaded by members (photos.service.ts) or       *)
(* imported from a KakaoTalk archive (kakao-import.service.ts), each a row *)
(* of photos and three files in the storage, edited and deleted by their   *)
(* uploader; and the detection of the faces on them by the worker of a     *)
(* Bull queue (photo-face-detection.service.ts, photo-face.processor.ts).  *)
(*                                                                         *)
(* The database, the storage and the queue are three stores nobody keeps   *)
(* in one transaction: every action here is a step between two awaits.     *)
(***************************************************************************)
EXTENDS Naturals, FiniteSets

CONSTANTS
  Photos,      \* photos ever uploaded or imported (a bound)
  Calls,       \* request handlers that may be in progress at once (a bound)
  MayCrash     \* whether the server process may die and start again

ASSUME PhotoCrashAssumption == MayCrash \in BOOLEAN

VARIABLES
  row,      \* row of photos: not yet, there, or deleted
  mine,     \* photos with an uploaderId; an imported one has none
  store,    \* its three files: none, some or all of them stored
  faces,    \* results of the detection stored in photo_faces, per photo
  job,      \* the photo's job in the detection queue
  stalled,  \* jobs delivered again because their worker died
  ready,    \* the face models were loaded when the process started
  doomed,   \* photos somebody has begun to delete
  call      \* request handlers

vars == <<row, mine, store, faces, job, stalled, ready, doomed, call>>

Jobs == {"none", "adding", "waiting", "taken", "detected", "stored", "done",
         "failed"}
Points == {"idle", "next", "insert", "removeFiles", "removeRow", "update"}

\* A handler that has got to a point, the photos it has still to deal with, and
\* whether it imports them.
Working(at, fs, imports) == [at |-> at, todo |-> fs, imports |-> imports]
Idle == Working("idle", {}, FALSE)

Init ==
  /\ row = [f \in Photos |-> "none"]
  /\ mine = {}
  /\ store = [f \in Photos |-> "none"]
  /\ faces = [f \in Photos |-> 0]
  /\ job = [f \in Photos |-> "none"]
  /\ stalled = {}
  /\ ready \in BOOLEAN
  /\ doomed = {}
  /\ call = [p \in Calls |-> Idle]

At(p, at) == call[p].at = at
Goto(p, at) == call' = [call EXCEPT ![p].at = at]
Return(p) == call' = [call EXCEPT ![p] = Idle]
Begin(p, at, fs) == call' = [call EXCEPT ![p] = Working(at, fs, FALSE)]

\* The photo a handler is working on is not one another handler brings in.
Fresh(f) == row[f] = "none" /\ store[f] = "none" /\ \A p \in Calls : f \notin call[p].todo

-----------------------------------------------------------------------------
(* uploadPhotos, importZip: one file after the other, failures are skipped *)

BringIn(p, imports) ==
  /\ At(p, "idle")
  /\ \E fs \in SUBSET {f \in Photos : Fresh(f)} \ {{}} :
       call' = [call EXCEPT ![p] = Working("next", fs, imports)]
  /\ UNCHANGED <<row, mine, store, faces, job, stalled, ready, doomed>>

\* One file of another type or too large refuses all of them before anything
\* is stored.
UploadStart(p) == BringIn(p, FALSE)

\* The images of the archive, those too large left out.
ImportStart(p) == BringIn(p, TRUE)

\* Fault: the row is inserted even when an upload failed.
StoreFilesAnyway(p) ==
  /\ At(p, "next")
  /\ \E f \in call[p].todo, got \in {"none", "some", "all"} :
       /\ store[f] = "none"
       /\ store' = [store EXCEPT ![f] = got]
       /\ IF got # "none"
          THEN Goto(p, "insert")
          ELSE call' = [call EXCEPT ![p] = Working("next", @.todo \ {f}, @.imports)]
  /\ UNCHANGED <<row, mine, faces, job, stalled, ready, doomed>>

\* The image is resized and its three files are uploaded at once.  When one
\* upload fails the others are not taken back.
StoreFiles(p) ==
  /\ At(p, "next")
  /\ \E f \in call[p].todo, got \in {"none", "some", "all"} :
       /\ store[f] = "none"
       /\ store' = [store EXCEPT ![f] = got]
       /\ IF got = "all"
          THEN Goto(p, "insert")
          ELSE call' = [call EXCEPT ![p] = Working("next", @.todo \ {f}, @.imports)]
  /\ UNCHANGED <<row, mine, faces, job, stalled, ready, doomed>>

\* The row, and the detection job, for which nobody waits.
InsertRow(p) ==
  /\ At(p, "insert")
  /\ \E f \in call[p].todo :
       /\ store[f] # "none"
       /\ \/ /\ row' = [row EXCEPT ![f] = "there"]
             /\ mine' = IF call[p].imports THEN mine ELSE mine \cup {f}
             /\ job' = [job EXCEPT ![f] = "adding"]
          \/ UNCHANGED <<row, mine, job>>
       /\ call' = [call EXCEPT ![p] = Working("next", @.todo \ {f}, @.imports)]
  /\ UNCHANGED <<store, faces, stalled, ready, doomed>>

\* The activity's failure is swallowed; if every file failed the answer is 400.
UploadEnd(p) ==
  /\ At(p, "next") /\ call[p].todo = {}
  /\ Return(p)
  /\ UNCHANGED <<row, mine, store, faces, job, stalled, ready, doomed>>

-----------------------------------------------------------------------------
(* deletePhoto, updatePhoto: for the uploader *)

DeleteStart(p, f) ==
  /\ At(p, "idle") /\ row[f] = "there" /\ f \in mine
  /\ Begin(p, "removeFiles", {f})
  /\ doomed' = doomed \cup {f}
  /\ UNCHANGED <<row, mine, store, faces, job, stalled, ready>>

\* A failure of the storage is only logged.
RemoveFiles(p) ==
  /\ At(p, "removeFiles")
  /\ \E f \in call[p].todo :
       \E left \in {"none", store[f]} : store' = [store EXCEPT ![f] = left]
  /\ Goto(p, "removeRow")
  /\ UNCHANGED <<row, mine, faces, job, stalled, ready, doomed>>

\* Fault: no cascade.
RemoveRowAlone(p) ==
  /\ At(p, "removeRow")
  /\ \/ \E f \in call[p].todo : row' = [row EXCEPT ![f] = "deleted"]
     \/ UNCHANGED row
  /\ Return(p)
  /\ UNCHANGED <<mine, store, faces, job, stalled, ready, doomed>>

\* The faces go with the photo (ON DELETE CASCADE).
RemoveRow(p) ==
  /\ At(p, "removeRow")
  /\ \/ \E f \in call[p].todo :
          /\ row' = [row EXCEPT ![f] = "deleted"]
          /\ faces' = [faces EXCEPT ![f] = 0]
     \/ UNCHANGED <<row, faces>>
  /\ Return(p)
  /\ UNCHANGED <<mine, store, job, stalled, ready, doomed>>

UpdateStart(p, f) ==
  /\ At(p, "idle") /\ row[f] = "there" /\ f \in mine
  /\ Begin(p, "update", {f})
  /\ UNCHANGED <<row, mine, store, faces, job, stalled, ready, doomed>>

\* Saving the copy of a photo that was deleted meanwhile inserts it again.
UpdateSave(p) ==
  /\ At(p, "update")
  /\ \/ \E f \in call[p].todo : row' = [row EXCEPT ![f] = "there"]
     \/ UNCHANGED row
  /\ Return(p)
  /\ UNCHANGED <<mine, store, faces, job, stalled, ready, doomed>>

-----------------------------------------------------------------------------
(* The detection queue *)

\* fireAndForget: queue.add settles later, and its failure is only logged.
Enqueue(f) ==
  /\ job[f] = "adding"
  /\ \E got \in {"waiting", "none"} : job' = [job EXCEPT ![f] = got]
  /\ UNCHANGED <<row, mine, store, faces, stalled, ready, doomed, call>>

Active == {"taken", "detected", "stored"}
JobAt(f, at) == job[f] = at
JobTo(f, at) == job' = [job EXCEPT ![f] = at]

\* One job at a time: the processor sets no concurrency.
TakeJob(f) ==
  /\ JobAt(f, "waiting") /\ \A g \in Photos : job[g] \notin Active
  /\ JobTo(f, "taken")
  /\ UNCHANGED <<row, mine, store, faces, stalled, ready, doomed, call>>

\* Without models nothing is detected, and the job succeeds all the same; a
\* failed download or detection ends in the same catch.
Detect(f) ==
  /\ JobAt(f, "taken")
  /\ \/ ready /\ store[f] # "none" /\ JobTo(f, "detected")
     \/ JobTo(f, "stored")
  /\ UNCHANGED <<row, mine, store, faces, stalled, ready, doomed, call>>

\* Fault: a caught failure makes the worker store the faces once more.
StoreFacesAgain(f) ==
  /\ JobAt(f, "detected")
  /\ row[f] = "there" /\ faces' = [faces EXCEPT ![f] = @ + 1]
  /\ JobTo(f, "stored") \/ UNCHANGED job
  /\ UNCHANGED <<row, mine, store, stalled, ready, doomed, call>>

\* The faces refer to the photo; their insertion fails if it is gone, and the
\* failure is caught.
StoreFaces(f) ==
  /\ JobAt(f, "detected")
  /\ \/ row[f] = "there" /\ faces' = [faces EXCEPT ![f] = @ + 1]
     \/ UNCHANGED faces
  /\ JobTo(f, "stored")
  /\ UNCHANGED <<row, mine, store, stalled, ready, doomed, call>>

\* Fault: a failed detection is put back to wait.
FinishOrRetry(f) ==
  /\ JobAt(f, "stored")
  /\ JobTo(f, "done") \/ JobTo(f, "waiting")
  /\ UNCHANGED <<row, mine, store, faces, stalled, ready, doomed, call>>

FinishJob(f) ==
  /\ JobAt(f, "stored")
  /\ JobTo(f, "done")
  /\ UNCHANGED <<row, mine, store, faces, stalled, ready, doomed, call>>

-----------------------------------------------------------------------------
\* The process dies.  Its requests and the jobs it was adding are lost; the
\* job it was working on stalls, and Bull delivers it once more.  The models
\* load at the next start, or not.
Crash ==
  /\ MayCrash
  /\ (\E p \in Calls : ~At(p, "idle")) \/ (\E f \in Photos : job[f] \in Active \cup {"adding"})
  /\ call' = [p \in Calls |-> Idle]
  /\ job' = [f \in Photos |-> CASE job[f] = "adding" -> "none"
                                [] job[f] \in Active -> IF f \in stalled THEN "failed"
                                                                          ELSE "waiting"
                                [] OTHER -> job[f]]
  /\ stalled' = stalled \cup {f \in Photos : job[f] \in Active}
  /\ ready' \in BOOLEAN
  /\ UNCHANGED <<row, mine, store, faces, doomed>>

Request(p) ==
  \/ UploadStart(p)
  \/ ImportStart(p)
  \/ \E f \in Photos : DeleteStart(p, f) \/ UpdateStart(p, f)

Continue(p) ==
  \/ StoreFiles(p)
  \/ InsertRow(p)
  \/ UploadEnd(p)
  \/ RemoveFiles(p)
  \/ RemoveRow(p)
  \/ UpdateSave(p)

Work(f) == TakeJob(f) \/ Detect(f) \/ StoreFaces(f) \/ FinishJob(f)

Next ==
  \/ Crash
  \/ \E p \in Calls : Request(p) \/ Continue(p)
  \/ \E f \in Photos : Enqueue(f) \/ Work(f)

Spec == Init /\ [][Next]_vars

\* The event loop resumes every handler and every promise that has settled,
\* and the queue hands its jobs out in turn.
FairSpec ==
  /\ Spec
  /\ \A p \in Calls : WF_vars(Continue(p))
  /\ \A f \in Photos : WF_vars(Enqueue(f)) /\ SF_vars(TakeJob(f)) /\ WF_vars(Work(f))
-----------------------------------------------------------------------------
(* Properties *)

Handler == [at : Points, todo : SUBSET Photos, imports : BOOLEAN]

\* Every variable has the type the entities and handlers give it.
TypeOK ==
  /\ row \in [Photos -> {"none", "there", "deleted"}]
  /\ mine \subseteq Photos
  /\ store \in [Photos -> {"none", "some", "all"}]
  /\ faces \in [Photos -> 0 .. 2]
  /\ job \in [Photos -> Jobs]
  /\ stalled \subseteq Photos
  /\ ready \in BOOLEAN
  /\ doomed \subseteq Photos
  /\ call \in [Calls -> Handler]

\* A photo in the gallery has all its files, whatever upload, storage or
\* process failed, unless somebody has begun to delete it.
KeptPhotoHasFiles == \A f \in Photos : row[f] = "there" /\ f \notin doomed => store[f] = "all"

\* Faces are kept only of photos that are there, although a photo may be
\* deleted, and saved again, while its job is running.
FacesOfPhotosThere == \A f \in Photos : faces[f] > 0 => row[f] = "there"

\* The faces of a photo are stored once per delivery of its job, and only a
\* death of the worker delivers it twice.
FacesOnce == \A f \in Photos : faces[f] <= (IF f \in stalled THEN 2 ELSE 1)

\* The progress the gallery polls ends: a job that waits is finished or given
\* up, however often the worker dies.
QueueDrains ==
  \A f \in Photos : job[f] = "waiting" ~> job[f] \in {"done", "failed"}
=============================================================================
