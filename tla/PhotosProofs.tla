---------------------------- MODULE PhotosProofs ----------------------------
(***************************************************************************)
(* Proofs about Photos, for every set of photos and handlers.  Nobody but  *)
(* the handler that brings a photo in touches it before it has a row, and  *)
(* a row is only deleted by somebody who began to delete the photo before. *)
(***************************************************************************)
EXTENDS Photos, TLAPS

Bringing == {"next", "insert"}

\* What a handler knows of the photos it has still to deal with.
Good(h) ==
  /\ h.at \in Bringing => \A f \in h.todo : row[f] = "none" /\ store[f] \in {"none", "all"}
  /\ h.at = "next" => \A f \in h.todo : store[f] = "none"
  /\ h.at = "insert" =>
       \A f, g \in h.todo : store[f] # "none" /\ store[g] # "none" => f = g
  /\ h.at \in {"removeFiles", "removeRow", "update"} => \A f \in h.todo : row[f] # "none"
  /\ h.at \in {"removeFiles", "removeRow"} => h.todo \subseteq doomed

OneBringer ==
  \A p, q \in Calls :
    p # q /\ call[p].at \in Bringing /\ call[q].at \in Bringing
      => call[p].todo \cap call[q].todo = {}

DoomedRows ==
  \A f \in Photos :
    /\ row[f] = "deleted" => f \in doomed
    /\ f \in doomed => row[f] # "none"

\* Faces are stored once per delivery of the job that is over.
FaceBound(f) ==
  faces[f] <= (IF f \in stalled THEN 1 ELSE 0)
              + (IF job[f] \in {"stored", "done", "failed"} THEN 1 ELSE 0)

IInv ==
  /\ TypeOK
  /\ \A p \in Calls : Good(call[p])
  /\ OneBringer
  /\ DoomedRows
  /\ KeptPhotoHasFiles
  /\ FacesOfPhotosThere
  /\ \A f \in Photos : FaceBound(f)

-----------------------------------------------------------------------------
\* The record of a handler has its type, field by field.
LEMMA HandlerType ==
  /\ \A at \in Points, fs \in SUBSET Photos, imports \in BOOLEAN :
       Working(at, fs, imports) \in Handler
  /\ \A at, fs, imports :
       /\ Working(at, fs, imports).at = at
       /\ Working(at, fs, imports).todo = fs
       /\ Working(at, fs, imports).imports = imports
  BY DEF Handler, Working

\* So has the idle one.
LEMMA IdleType == Idle \in Handler /\ Idle.at = "idle" /\ Idle.todo = {}
  BY DEF Idle, Handler, Working, Points

\* At the start nothing is there.
LEMMA InitIInv == Init => IInv
  <1> SUFFICES ASSUME Init PROVE IInv
    OBVIOUS
  <1>1. TypeOK
    BY IdleType DEF Init, TypeOK, Jobs
  <1>2. \A p \in Calls : call[p].at = "idle"
    BY IdleType DEF Init
  <1>3. OneBringer /\ \A p \in Calls : Good(call[p])
    BY <1>2 DEF OneBringer, Good, Bringing
  <1>4. DoomedRows /\ KeptPhotoHasFiles /\ FacesOfPhotosThere
    BY DEF Init, DoomedRows, KeptPhotoHasFiles, FacesOfPhotosThere
  <1>5. \A f \in Photos : FaceBound(f)
    BY DEF Init, FaceBound
  <1> QED BY <1>1, <1>3, <1>4, <1>5 DEF IInv

\* A handler goes on with a record that is good, and nothing else changes but
\* what has begun to be deleted.
LEMMA HandlerMoves ==
  ASSUME IInv, NEW p \in Calls, NEW h \in Handler, call' = [call EXCEPT ![p] = h],
         UNCHANGED <<row, mine, store, faces, job, stalled, ready>>,
         doomed' \subseteq Photos, doomed \subseteq doomed',
         \A f \in doomed' \ doomed : row[f] # "none",
         h.at \in Bringing => \A f \in h.todo : row[f] = "none" /\ store[f] \in {"none", "all"},
         h.at = "next" => \A f \in h.todo : store[f] = "none",
         h.at # "insert",
         h.at \in {"removeFiles", "removeRow", "update"} => \A f \in h.todo : row[f] # "none",
         h.at \in {"removeFiles", "removeRow"} => h.todo \subseteq doomed',
         h.at \in Bringing => \A q \in Calls \ {p} :
                                call[q].at \in Bringing => call[q].todo \cap h.todo = {}
  PROVE  IInv'
  <1>0. TypeOK
    BY DEF IInv
  <1>1. call'[p] = h /\ \A q \in Calls \ {p} : call'[q] = call[q]
    BY <1>0 DEF TypeOK
  <1>2. TypeOK'
    BY <1>0 DEF TypeOK
  <1>3. ASSUME NEW q \in Calls PROVE Good(call[q])'
    <2>1. CASE q = p
      BY <1>1, <2>1 DEF Good
    <2>2. CASE q # p
      BY <1>1, <2>2 DEF IInv, Good
    <2> QED BY <2>1, <2>2
  <1>4. OneBringer'
    BY <1>1 DEF IInv, OneBringer
  <1>5. DoomedRows' /\ KeptPhotoHasFiles' /\ FacesOfPhotosThere'
    BY DEF IInv, DoomedRows, KeptPhotoHasFiles, FacesOfPhotosThere
  <1>6. \A f \in Photos : FaceBound(f)'
    BY DEF IInv, FaceBound
  <1> QED BY <1>2, <1>3, <1>4, <1>5, <1>6 DEF IInv

\* The worker's steps leave the rows, the files and the handlers alone.
LEMMA WorkerMoves ==
  ASSUME IInv, NEW f \in Photos, NEW at \in Jobs, job' = [job EXCEPT ![f] = at],
         UNCHANGED <<row, mine, store, faces, stalled, ready, doomed, call>>,
         job[f] \in {"stored", "done", "failed"} => at \in {"stored", "done", "failed"}
  PROVE  IInv'
  <1>1. TypeOK'
    BY DEF IInv, TypeOK
  <1>2. \A p \in Calls : Good(call[p])'
    BY DEF IInv, Good
  <1>3. OneBringer' /\ DoomedRows' /\ KeptPhotoHasFiles' /\ FacesOfPhotosThere'
    BY DEF IInv, OneBringer, DoomedRows, KeptPhotoHasFiles, FacesOfPhotosThere
  <1>4. \A g \in Photos : FaceBound(g)'
    BY DEF IInv, TypeOK, FaceBound
  <1> QED BY <1>1, <1>2, <1>3, <1>4 DEF IInv

-----------------------------------------------------------------------------
(* Requests *)

\* A request begins.
LEMMA RequestStep ==
  ASSUME IInv, NEW p \in Calls, Request(p)
  PROVE  IInv'
  <1>0. TypeOK
    BY DEF IInv
  <1>1. ASSUME NEW imports \in BOOLEAN, BringIn(p, imports)
        PROVE  IInv'
    <2>1. PICK fs \in SUBSET {f \in Photos : Fresh(f)} :
            call' = [call EXCEPT ![p] = Working("next", fs, imports)]
      BY <1>1 DEF BringIn
    <2> DEFINE h == Working("next", fs, imports)
    <2>2. h \in Handler /\ h.at = "next" /\ h.todo = fs
      BY HandlerType DEF Points
    <2>3. \A f \in fs : /\ f \in Photos /\ row[f] = "none" /\ store[f] = "none"
                        /\ \A q \in Calls : f \notin call[q].todo
      BY DEF Fresh
    <2>4. UNCHANGED <<row, mine, store, faces, job, stalled, ready, doomed>>
      BY <1>1 DEF BringIn
    <2>5. call' = [call EXCEPT ![p] = h]
      BY <2>1
    <2>6. \A q \in Calls : call[q].todo \cap fs = {}
      BY <2>3
    <2> HIDE DEF h
    <2> QED BY <1>0, <2>2, <2>3, <2>4, <2>5, <2>6, HandlerMoves DEF TypeOK
  <1>2. ASSUME NEW f \in Photos, DeleteStart(p, f)
        PROVE  IInv'
    <2> DEFINE h == Working("removeFiles", {f}, FALSE)
    <2>1. h \in Handler /\ h.at = "removeFiles" /\ h.todo = {f}
      BY HandlerType DEF Points
    <2>2. /\ call' = [call EXCEPT ![p] = h] /\ row[f] = "there"
          /\ doomed' = doomed \cup {f}
          /\ UNCHANGED <<row, mine, store, faces, job, stalled, ready>>
      BY <1>2 DEF DeleteStart, Begin
    <2> HIDE DEF h
    <2> QED BY <1>0, <2>1, <2>2, HandlerMoves DEF TypeOK, Bringing
  <1>3. ASSUME NEW f \in Photos, UpdateStart(p, f)
        PROVE  IInv'
    <2> DEFINE h == Working("update", {f}, FALSE)
    <2>1. h \in Handler /\ h.at = "update" /\ h.todo = {f}
      BY HandlerType DEF Points
    <2>2. /\ call' = [call EXCEPT ![p] = h] /\ row[f] = "there"
          /\ UNCHANGED <<row, mine, store, faces, job, stalled, ready, doomed>>
      BY <1>3 DEF UpdateStart, Begin
    <2> HIDE DEF h
    <2> QED BY <1>0, <2>1, <2>2, HandlerMoves DEF TypeOK, Bringing
  <1> QED BY <1>1, <1>2, <1>3 DEF Request, UploadStart, ImportStart

\* The three files of a photo that is brought in are stored, or not all of them.
LEMMA StoreStep ==
  ASSUME IInv, NEW p \in Calls, StoreFiles(p)
  PROVE  IInv'
  <1> DEFINE c == call[p]
  <1>0. TypeOK /\ c \in Handler /\ Good(c) /\ c.at = "next"
    BY DEF IInv, TypeOK, StoreFiles, At
  <1>1. PICK f \in c.todo, got \in {"none", "some", "all"} :
          /\ store' = [store EXCEPT ![f] = got]
          /\ IF got = "all"
             THEN Goto(p, "insert")
             ELSE call' = [call EXCEPT ![p] = Working("next", c.todo \ {f}, c.imports)]
    BY DEF StoreFiles
  <1>2. /\ f \in Photos /\ c.todo \subseteq Photos /\ row[f] = "none"
        /\ \A g \in c.todo : row[g] = "none" /\ store[g] = "none"
    BY <1>0 DEF Handler, Good, Bringing
  <1>3. UNCHANGED <<row, mine, faces, job, stalled, ready, doomed>>
    BY DEF StoreFiles
  <1>4. PICK h \in Handler :
          /\ call' = [call EXCEPT ![p] = h]
          /\ \/ got = "all" /\ h.at = "insert" /\ h.todo = c.todo
             \/ got # "all" /\ h.at = "next" /\ h.todo = c.todo \ {f}
    <2>1. CASE got = "all"
      <3> DEFINE h == [c EXCEPT !.at = "insert"]
      <3>1. h \in Handler /\ h.at = "insert" /\ h.todo = c.todo
        BY <1>0 DEF Handler, Points
      <3>2. call' = [call EXCEPT ![p] = h]
        BY <1>1, <2>1 DEF Goto
      <3> HIDE DEF h
      <3> QED BY <2>1, <3>1, <3>2
    <2>2. CASE got # "all"
      <3> DEFINE h == Working("next", c.todo \ {f}, c.imports)
      <3>0. c.todo \ {f} \in SUBSET Photos /\ c.imports \in BOOLEAN /\ "next" \in Points
        BY <1>0, <1>2 DEF Handler, Points
      <3>1. h \in Handler /\ h.at = "next" /\ h.todo = c.todo \ {f}
        BY <3>0, HandlerType
      <3>2. call' = [call EXCEPT ![p] = h]
        BY <1>1, <2>2
      <3> HIDE DEF h
      <3> QED BY <2>2, <3>1, <3>2
    <2> QED BY <2>1, <2>2
  <1>5. call'[p] = h /\ \A q \in Calls \ {p} : call'[q] = call[q]
    BY <1>0, <1>4 DEF TypeOK
  <1>6. TypeOK'
    BY <1>0, <1>1, <1>2, <1>3, <1>4 DEF TypeOK
  <1>7. store'[f] = got /\ \A g \in Photos \ {f} : store'[g] = store[g]
    BY <1>0, <1>1, <1>2 DEF TypeOK
  <1>8. ASSUME NEW q \in Calls PROVE Good(call[q])'
    <2>1. CASE q = p
      BY <1>2, <1>3, <1>4, <1>5, <1>7, <2>1 DEF Good, Bringing
    <2>2. CASE q # p
      <3>1. call[q] \in Handler /\ Good(call[q])
        BY <1>0 DEF IInv, TypeOK
      <3>2. call[q].at \in Bringing => f \notin call[q].todo
        BY <1>0, <1>1, <2>2 DEF IInv, OneBringer, Bringing
      <3> QED BY <1>3, <1>5, <1>7, <2>2, <3>1, <3>2 DEF Good, Bringing, Handler
    <2> QED BY <2>1, <2>2
  <1>9. OneBringer'
    <2>1. h.todo \subseteq c.todo
      BY <1>4
    <2> QED BY <1>0, <1>5, <2>1 DEF IInv, OneBringer, Bringing
  <1>10. DoomedRows' /\ KeptPhotoHasFiles' /\ FacesOfPhotosThere'
    BY <1>2, <1>3, <1>7 DEF IInv, DoomedRows, KeptPhotoHasFiles, FacesOfPhotosThere
  <1>11. \A g \in Photos : FaceBound(g)'
    BY <1>3 DEF IInv, FaceBound
  <1> QED BY <1>6, <1>8, <1>9, <1>10, <1>11 DEF IInv

\* A photo gets its row once all its files are stored.
LEMMA InsertStep ==
  ASSUME IInv, NEW p \in Calls, InsertRow(p)
  PROVE  IInv'
  <1> DEFINE c == call[p]
  <1>0. TypeOK /\ c \in Handler /\ Good(c) /\ c.at = "insert"
    BY DEF IInv, TypeOK, InsertRow, At
  <1>1. PICK f \in c.todo :
          /\ store[f] # "none"
          /\ \/ /\ row' = [row EXCEPT ![f] = "there"]
                /\ mine' = IF c.imports THEN mine ELSE mine \cup {f}
                /\ job' = [job EXCEPT ![f] = "adding"]
             \/ UNCHANGED <<row, mine, job>>
          /\ call' = [call EXCEPT ![p] = Working("next", c.todo \ {f}, c.imports)]
    BY DEF InsertRow
  <1>2. /\ f \in Photos /\ c.todo \subseteq Photos /\ row[f] = "none"
        /\ store[f] = "all"
        /\ \A g \in c.todo : row[g] = "none" /\ store[g] \in {"none", "all"}
    BY <1>0, <1>1 DEF Handler, Good, Bringing
  <1>3. UNCHANGED <<store, faces, stalled, ready, doomed>>
    BY DEF InsertRow
  <1>4. \A g \in c.todo \ {f} : store[g] = "none"
    BY <1>0, <1>2 DEF Good
  <1> DEFINE h == Working("next", c.todo \ {f}, c.imports)
  <1>5. h \in Handler /\ h.at = "next" /\ h.todo = c.todo \ {f}
    BY <1>0, <1>2, HandlerType DEF Handler, Points
  <1>6. call' = [call EXCEPT ![p] = h]
    BY <1>1
  <1> HIDE DEF h
  <1>7. call'[p] = h /\ \A q \in Calls \ {p} : call'[q] = call[q]
    BY <1>0, <1>6 DEF TypeOK
  <1>8. CASE UNCHANGED <<row, mine, job>>
    <2>1. \A q \in Calls \ {p} : call[q].at \in Bringing => call[q].todo \cap h.todo = {}
      BY <1>0, <1>5 DEF IInv, OneBringer, Bringing
    <2> QED BY <1>0, <1>2, <1>3, <1>4, <1>5, <1>6, <1>8, <2>1, HandlerMoves DEF TypeOK
  <1>9. CASE /\ row' = [row EXCEPT ![f] = "there"]
             /\ mine' = IF c.imports THEN mine ELSE mine \cup {f}
             /\ job' = [job EXCEPT ![f] = "adding"]
    <2>1. TypeOK'
      <3>1. row' \in [Photos -> {"none", "there", "deleted"}] /\ mine' \subseteq Photos
        BY <1>0, <1>2, <1>9 DEF TypeOK
      <3>2. job' \in [Photos -> Jobs] /\ call' \in [Calls -> Handler]
        BY <1>0, <1>2, <1>5, <1>6, <1>9 DEF TypeOK, Jobs
      <3> QED BY <1>0, <1>3, <3>1, <3>2 DEF TypeOK
    <2>2. row'[f] = "there" /\ \A g \in Photos \ {f} : row'[g] = row[g]
      BY <1>0, <1>2, <1>9 DEF TypeOK
    <2>3. ASSUME NEW q \in Calls PROVE Good(call[q])'
      <3>1. CASE q = p
        BY <1>2, <1>3, <1>4, <1>5, <1>7, <2>2, <3>1 DEF Good, Bringing
      <3>2. CASE q # p
        <4>1. call[q] \in Handler /\ Good(call[q])
          BY <1>0 DEF IInv, TypeOK
        <4>2. call[q].at \in Bringing => f \notin call[q].todo
          BY <1>0, <1>1, <3>2 DEF IInv, OneBringer, Bringing
        <4> QED BY <1>3, <1>7, <2>2, <3>2, <4>1, <4>2 DEF Good, Bringing, Handler
      <3> QED BY <3>1, <3>2
    <2>4. OneBringer'
      BY <1>0, <1>5, <1>7 DEF IInv, OneBringer, Bringing
    <2>5. DoomedRows' /\ KeptPhotoHasFiles' /\ FacesOfPhotosThere'
      BY <1>2, <1>3, <2>2 DEF IInv, DoomedRows, KeptPhotoHasFiles, FacesOfPhotosThere
    <2>6. \A g \in Photos : FaceBound(g)'
      <3>1. faces[f] = 0
        BY <1>0, <1>2 DEF IInv, FacesOfPhotosThere, TypeOK
      <3>2. \A g \in Photos \ {f} : job'[g] = job[g]
        BY <1>0, <1>9 DEF TypeOK
      <3> QED BY <1>3, <3>1, <3>2 DEF IInv, FaceBound
    <2> QED BY <2>1, <2>3, <2>4, <2>5, <2>6 DEF IInv
  <1> QED BY <1>1, <1>8, <1>9

\* The handler that dealt with the rows returns; the rows it leaves do not lose
\* files or faces unnoticed.
LEMMA ReturnStep ==
  ASSUME IInv, NEW p \in Calls, Return(p),
         UNCHANGED <<mine, store, job, stalled, ready, doomed>>,
         row' \in [Photos -> {"none", "there", "deleted"}],
         \A f \in Photos : row'[f] # row[f] =>
           /\ row[f] # "none" /\ row'[f] # "none"
           /\ row'[f] = "there" => f \in doomed
           /\ row'[f] = "deleted" => f \in doomed /\ faces'[f] = 0,
         faces' \in [Photos -> 0 .. 2],
         \A f \in Photos : faces'[f] = faces[f] \/ faces'[f] = 0
  PROVE  IInv'
  <1>0. TypeOK
    BY DEF IInv
  <1>1. call' = [call EXCEPT ![p] = Idle] /\ call'[p].at = "idle"
    BY <1>0, IdleType DEF Return, TypeOK
  <1>2. \A q \in Calls \ {p} : call'[q] = call[q]
    BY <1>0, <1>1 DEF TypeOK
  <1>3. TypeOK'
    BY <1>0, <1>1, IdleType DEF TypeOK
  <1>4. ASSUME NEW q \in Calls PROVE Good(call[q])'
    <2>1. CASE q = p
      BY <1>1, <2>1 DEF Good, Bringing
    <2>2. CASE q # p
      <3>1. call[q] \in Handler /\ Good(call[q])
        BY <1>0 DEF IInv, TypeOK
      <3>2. \A f \in Photos : row'[f] = "none" <=> row[f] = "none"
        OBVIOUS
      <3> QED BY <1>2, <2>2, <3>1, <3>2 DEF Good, Handler
    <2> QED BY <2>1, <2>2
  <1>5. OneBringer'
    BY <1>1, <1>2 DEF IInv, OneBringer, Bringing
  <1>6. DoomedRows' /\ KeptPhotoHasFiles'
    BY DEF IInv, DoomedRows, KeptPhotoHasFiles
  <1>7. FacesOfPhotosThere'
    BY <1>0 DEF IInv, FacesOfPhotosThere, TypeOK
  <1>8. \A f \in Photos : FaceBound(f)'
    BY <1>0 DEF IInv, FaceBound, TypeOK
  <1> QED BY <1>3, <1>4, <1>5, <1>6, <1>7, <1>8 DEF IInv

\* The files of a photo that is being deleted go, or stay.
LEMMA RemoveFilesStep ==
  ASSUME IInv, NEW p \in Calls, RemoveFiles(p)
  PROVE  IInv'
  <1> DEFINE c == call[p]
             h == [c EXCEPT !.at = "removeRow"]
  <1>0. TypeOK /\ c \in Handler /\ Good(c) /\ c.at = "removeFiles"
    BY DEF IInv, TypeOK, RemoveFiles, At
  <1>1. PICK f \in c.todo :
          \E left \in {"none", store[f]} : store' = [store EXCEPT ![f] = left]
    BY DEF RemoveFiles
  <1>2. /\ f \in Photos /\ f \in doomed /\ row[f] # "none"
        /\ UNCHANGED <<row, mine, faces, job, stalled, ready, doomed>>
    BY <1>0 DEF RemoveFiles, Handler, Good
  <1>3. h \in Handler /\ h.at = "removeRow" /\ h.todo = c.todo
    BY <1>0 DEF Handler, Points
  <1>4. call' = [call EXCEPT ![p] = h]
    BY DEF RemoveFiles, Goto
  <1> HIDE DEF h
  <1>5. call'[p] = h /\ \A q \in Calls \ {p} : call'[q] = call[q]
    BY <1>0, <1>4 DEF TypeOK
  <1>6. /\ store' \in [Photos -> {"none", "some", "all"}]
        /\ \A g \in Photos \ {f} : store'[g] = store[g]
    BY <1>0, <1>1, <1>2 DEF TypeOK
  <1>7. TypeOK'
    BY <1>0, <1>2, <1>3, <1>4, <1>6 DEF TypeOK
  <1>8. ASSUME NEW q \in Calls PROVE Good(call[q])'
    <2>1. CASE q = p
      BY <1>0, <1>2, <1>3, <1>5, <2>1 DEF Good, Bringing
    <2>2. CASE q # p
      <3>1. call[q] \in Handler /\ Good(call[q])
        BY <1>0 DEF IInv, TypeOK
      <3> QED BY <1>2, <1>5, <1>6, <2>2, <3>1 DEF Good, Bringing, Handler
    <2> QED BY <2>1, <2>2
  <1>9. OneBringer'
    BY <1>3, <1>5 DEF IInv, OneBringer, Bringing
  <1>10. DoomedRows' /\ KeptPhotoHasFiles' /\ FacesOfPhotosThere'
    BY <1>2, <1>6 DEF IInv, DoomedRows, KeptPhotoHasFiles, FacesOfPhotosThere
  <1>11. \A g \in Photos : FaceBound(g)'
    BY <1>2 DEF IInv, FaceBound
  <1> QED BY <1>7, <1>8, <1>9, <1>10, <1>11 DEF IInv

\* Every later stretch of a request.
LEMMA ContinueStep ==
  ASSUME IInv, NEW p \in Calls, Continue(p)
  PROVE  IInv'
  <1> DEFINE c == call[p]
  <1>0. TypeOK /\ c \in Handler /\ c.todo \subseteq Photos /\ Good(c)
    BY DEF IInv, TypeOK, Handler
  <1>1. CASE UploadEnd(p)
    BY <1>0, <1>1, ReturnStep DEF UploadEnd, TypeOK
  <1>2. CASE RemoveRow(p)
    <2>1. /\ Return(p) /\ c.at = "removeRow"
          /\ UNCHANGED <<mine, store, job, stalled, ready, doomed>>
      BY <1>2 DEF RemoveRow, At
    <2>2. \A f \in c.todo : row[f] # "none" /\ f \in doomed
      BY <1>0, <2>1 DEF Good
    <2>3. CASE UNCHANGED <<row, faces>>
      BY <1>0, <2>1, <2>3, ReturnStep DEF TypeOK
    <2>4. CASE \E f \in c.todo : /\ row' = [row EXCEPT ![f] = "deleted"]
                                 /\ faces' = [faces EXCEPT ![f] = 0]
      <3>1. PICK f \in Photos : /\ row' = [row EXCEPT ![f] = "deleted"]
                                /\ faces' = [faces EXCEPT ![f] = 0]
                                /\ row[f] # "none" /\ f \in doomed
        BY <1>0, <2>2, <2>4
      <3>2. row' \in [Photos -> {"none", "there", "deleted"}]
        BY <1>0, <3>1 DEF TypeOK
      <3>3. row'[f] = "deleted" /\ \A g \in Photos \ {f} : row'[g] = row[g]
        BY <1>0, <3>1 DEF TypeOK
      <3>4. /\ faces' \in [Photos -> 0 .. 2] /\ faces'[f] = 0
            /\ \A g \in Photos : faces'[g] = faces[g] \/ faces'[g] = 0
        BY <1>0, <3>1 DEF TypeOK
      <3> QED BY <2>1, <3>1, <3>2, <3>3, <3>4, ReturnStep
    <2> QED BY <1>2, <2>3, <2>4 DEF RemoveRow
  <1>3. CASE UpdateSave(p)
    <2>1. /\ Return(p) /\ c.at = "update"
          /\ UNCHANGED <<mine, store, faces, job, stalled, ready, doomed>>
      BY <1>3 DEF UpdateSave, At
    <2>2. CASE UNCHANGED row
      BY <1>0, <2>1, <2>2, ReturnStep DEF TypeOK
    <2>3. CASE \E f \in c.todo : row' = [row EXCEPT ![f] = "there"]
      <3>1. PICK f \in Photos : row' = [row EXCEPT ![f] = "there"] /\ row[f] # "none"
        BY <1>0, <2>1, <2>3 DEF Good
      <3>2. row' \in [Photos -> {"none", "there", "deleted"}]
        BY <1>0, <3>1 DEF TypeOK
      <3>3. /\ row'[f] = "there" /\ \A g \in Photos \ {f} : row'[g] = row[g]
            /\ row[f] # "there" => f \in doomed
        BY <1>0, <3>1 DEF TypeOK, IInv, DoomedRows
      <3> QED BY <1>0, <2>1, <3>1, <3>2, <3>3, ReturnStep DEF TypeOK
    <2> QED BY <1>3, <2>2, <2>3 DEF UpdateSave
  <1> QED BY <1>1, <1>2, <1>3, StoreStep, InsertStep, RemoveFilesStep DEF Continue

-----------------------------------------------------------------------------
(* The queue, its worker, and the death of the process *)

\* The steps of the queue and its worker.
LEMMA QueueStep ==
  ASSUME IInv, NEW f \in Photos, Enqueue(f) \/ Work(f)
  PROVE  IInv'
  <1>0. TypeOK
    BY DEF IInv
  <1>1. CASE Enqueue(f)
    BY <1>1, WorkerMoves DEF Enqueue, Jobs
  <1>2. CASE TakeJob(f)
    BY <1>2, WorkerMoves DEF TakeJob, JobAt, JobTo, Jobs
  <1>3. CASE Detect(f)
    BY <1>3, WorkerMoves DEF Detect, JobAt, JobTo, Jobs
  <1>4. CASE FinishJob(f)
    BY <1>4, WorkerMoves DEF FinishJob, JobAt, JobTo, Jobs
  <1>5. CASE StoreFaces(f)
    <2>1. CASE UNCHANGED faces
      BY <1>5, <2>1, WorkerMoves DEF StoreFaces, JobAt, JobTo, Jobs
    <2>2. CASE row[f] = "there" /\ faces' = [faces EXCEPT ![f] = @ + 1]
      <3>1. /\ job[f] = "detected" /\ job' = [job EXCEPT ![f] = "stored"]
            /\ UNCHANGED <<row, mine, store, stalled, ready, doomed, call>>
        BY <1>5 DEF StoreFaces, JobAt, JobTo
      <3>2. faces[f] \in Nat /\ faces[f] <= (IF f \in stalled THEN 1 ELSE 0)
        BY <1>0, <3>1 DEF IInv, FaceBound, TypeOK
      <3>3. faces'[f] = faces[f] + 1 /\ faces' \in [Photos -> 0 .. 2]
        BY <1>0, <2>2, <3>2 DEF TypeOK
      <3>4. /\ \A g \in Photos \ {f} : faces'[g] = faces[g] /\ job'[g] = job[g]
            /\ job'[f] = "stored" /\ job' \in [Photos -> Jobs]
        BY <1>0, <2>2, <3>1 DEF TypeOK, Jobs
      <3>5. TypeOK'
        BY <1>0, <3>1, <3>3, <3>4 DEF TypeOK
      <3>6. \A p \in Calls : Good(call[p])'
        BY <3>1 DEF IInv, Good
      <3>7. OneBringer' /\ DoomedRows' /\ KeptPhotoHasFiles' /\ FacesOfPhotosThere'
        BY <2>2, <3>1, <3>4
           DEF IInv, OneBringer, DoomedRows, KeptPhotoHasFiles, FacesOfPhotosThere
      <3>8. \A g \in Photos : FaceBound(g)'
        BY <3>1, <3>2, <3>3, <3>4 DEF IInv, FaceBound
      <3> QED BY <3>5, <3>6, <3>7, <3>8 DEF IInv
    <2> QED BY <1>5, <2>1, <2>2 DEF StoreFaces
  <1> QED BY <1>1, <1>2, <1>3, <1>4, <1>5 DEF Work

\* A crash forgets the requests; a job under way becomes a stalled one.
LEMMA CrashStep ==
  ASSUME IInv, Crash
  PROVE  IInv'
  <1>0. TypeOK
    BY DEF IInv
  <1>1. /\ \A p \in Calls : call'[p] = Idle
        /\ call' \in [Calls -> Handler]
        /\ UNCHANGED <<row, mine, store, faces, doomed>>
        /\ ready' \in BOOLEAN
        /\ stalled' = stalled \cup {f \in Photos : job[f] \in Active}
    BY IdleType DEF Crash
  <1>2. \A f \in Photos :
          job'[f] = CASE job[f] = "adding" -> "none"
                      [] job[f] \in Active -> IF f \in stalled THEN "failed" ELSE "waiting"
                      [] OTHER -> job[f]
    BY DEF Crash
  <1>3. job' \in [Photos -> Jobs]
    <2>1. \A f \in Photos : job'[f] \in Jobs
      BY <1>0, <1>2 DEF TypeOK, Jobs, Active
    <2> QED BY <2>1 DEF Crash
  <1>4. TypeOK'
    BY <1>0, <1>1, <1>3 DEF TypeOK
  <1>5. OneBringer' /\ \A p \in Calls : Good(call[p])'
    BY <1>1, IdleType DEF OneBringer, Good, Bringing
  <1>6. DoomedRows' /\ KeptPhotoHasFiles' /\ FacesOfPhotosThere'
    BY <1>1 DEF IInv, DoomedRows, KeptPhotoHasFiles, FacesOfPhotosThere
  <1>7. ASSUME NEW f \in Photos PROVE FaceBound(f)'
    <2>1. faces'[f] = faces[f] /\ faces[f] \in 0 .. 2 /\ job[f] \in Jobs /\ FaceBound(f)
      BY <1>0, <1>1 DEF IInv, TypeOK
    <2>2. CASE job[f] \in Active
      BY <1>1, <1>2, <2>1, <2>2 DEF FaceBound, Active
    <2>3. CASE job[f] \notin Active
      BY <1>1, <1>2, <2>1, <2>3 DEF FaceBound, Active
    <2> QED BY <2>2, <2>3
  <1> QED BY <1>4, <1>5, <1>6, <1>7 DEF IInv

-----------------------------------------------------------------------------
\* The strengthening is an invariant.
THEOREM Inductive == Spec => []IInv
  <1>1. ASSUME IInv, [Next]_vars PROVE IInv'
    <2>1. CASE Next
      BY <1>1, <2>1, RequestStep, ContinueStep, QueueStep, CrashStep DEF Next
    <2>2. CASE UNCHANGED vars
      BY <1>1, <2>2 DEF IInv, vars, TypeOK, Good, OneBringer, DoomedRows,
                        KeptPhotoHasFiles, FacesOfPhotosThere, FaceBound
    <2> QED BY <1>1, <2>1, <2>2
  <1> QED BY <1>1, InitIInv, PTL DEF Spec

\* Every variable keeps its type.
THEOREM TypeAlwaysOK == Spec => []TypeOK
  <1>1. IInv => TypeOK
    BY DEF IInv
  <1> QED BY <1>1, Inductive, PTL

\* A photo in the gallery has all its files, whatever upload, storage or process
\* failed, unless somebody has begun to delete it.
THEOREM KeptPhotosHaveFiles == Spec => []KeptPhotoHasFiles
  <1>1. IInv => KeptPhotoHasFiles
    BY DEF IInv
  <1> QED BY <1>1, Inductive, PTL

\* Faces are kept only of photos that are there.
THEOREM FacesAlwaysOfPhotosThere == Spec => []FacesOfPhotosThere
  <1>1. IInv => FacesOfPhotosThere
    BY DEF IInv
  <1> QED BY <1>1, Inductive, PTL

\* The faces of a photo are stored once per delivery of its job.
THEOREM FacesAlwaysOnce == Spec => []FacesOnce
  <1>1. IInv => FacesOnce
    <2> SUFFICES ASSUME IInv, NEW f \in Photos
                 PROVE  faces[f] <= (IF f \in stalled THEN 2 ELSE 1)
      BY DEF FacesOnce
    <2>1. faces[f] \in 0 .. 2 /\ FaceBound(f)
      BY DEF IInv, TypeOK
    <2> QED BY <2>1 DEF FaceBound
  <1> QED BY <1>1, Inductive, PTL
=============================================================================
