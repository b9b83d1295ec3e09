-------------------------- MODULE RagRefresh_proofs --------------------------
(***************************************************************************)
(* What holds of the refresh for any number of requests, viewers,          *)
(* generations, sources and collections.                                   *)
(*                                                                         *)
(* The argument is one of ownership: whoever works on the index owns the   *)
(* job, which is running (Owned), so a job that has ended is of a worker   *)
(* that is over, and over for good. A viewer that has listed the           *)
(* collections and finds the same job, ended, therefore knows that nobody  *)
(* has touched the index in between (Informed).                            *)
(*                                                                         *)
(* Whoever works on the index, unless its process has broken off, and      *)
(* whoever completed the last refresh, has in the index what it has read   *)
(* (AsRead): of each of the states a collection goes through the invariant *)
(* says what is there, and since no source comes twice, nothing is read    *)
(* twice. A policy generated after that refresh (Based) has loaded the     *)
(* collections as they still are, and found in them what was read.         *)
(***************************************************************************)
EXTENDS RagRefresh, SequenceTheorems, WellFoundedInduction, NaturalsInduction, TLAPS

Busy == Indexing \cup {"accepted", "started", "exited", "answered", "broken"}

(* A worker whose process is in the middle of a source is at one. *)
Placed(w) ==
  /\ w.todo # {} => w.at \in Indexing \ {"source"} /\ w.n <= Len(Manifest)
  /\ w.at \in {"delete", "create", "adding"} => w.n <= Len(Manifest)
  /\ w.at = "adding" => w.handle \in Requests

Owned ==
  /\ \A r \in Requests : InProgress(r) => RunsJob(r)
  /\ job # None => worker[job.id].at # "none"

Informed(v) ==
  viewer[v].at = "listed" =>
    /\ viewer[v].job # None /\ viewer[v].job.status # "running" =>
         worker[viewer[v].job.id].at = "over"
    /\ viewer[v].whole /\ viewer[v].job = job /\ ~IsRunning => IsWhole

IInv ==
  /\ TypeOK
  /\ \A r \in Requests : Placed(worker[r])
  /\ Owned
  /\ \A v \in Viewers : Informed(v)

Indexes == [Collections -> Chunks \cup {None}]

-----------------------------------------------------------------------------

(* The states of a worker that is in progress. *)
LEMMA InProgressIs ==
  ASSUME NEW r \in Requests
  PROVE  InProgress(r) <=> worker[r].at \in Busy
BY DEF InProgress, HasThread, Busy

(* The steps of the one whose job is running: its thread and its process.  *)
LEMMA WorkerSteps ==
  ASSUME IInv, NEW r \in Requests, InProgress(r), NEW w \in Worker, Placed(w), w.at \in Busy,
         worker' = [worker EXCEPT ![r] = w], UNCHANGED <<folders, job, viewer, gen>>,
         cached' \in BOOLEAN, chroma' \in Indexes
  PROVE  IInv'
<1>1. worker \in [Requests -> Worker] /\ \A q \in Requests : Placed(worker[q])
  BY DEF IInv, TypeOK
<1>2. worker' \in [Requests -> Worker]
  BY <1>1
<1>3. \A q \in Requests : worker'[q] = IF q = r THEN w ELSE worker[q]
  BY <1>1
<1>4. \A q \in Requests : Placed(worker'[q])
  <2> TAKE q \in Requests
  <2>1. CASE q = r
    BY <1>3, <2>1
  <2>2. CASE q # r
    BY <1>1, <1>3, <2>2
  <2> QED BY <2>1, <2>2
<1>5. TypeOK'
  <2>1. \A q \in Requests : worker'[q].todo # {} =>
           worker'[q].at \in Indexing \ {"source"} /\ worker'[q].n <= Len(Manifest)
    BY <1>4 DEF Placed
  <2> QED BY <1>2, <2>1 DEF IInv, TypeOK, Indexes
<1>6. RunsJob(r) /\ job # None /\ IsRunning
  BY DEF IInv, Owned, RunsJob, IsRunning
<1>7. Owned'
  <2>1. ASSUME NEW q \in Requests, InProgress(q)' PROVE RunsJob(q)'
    <3>1. CASE q = r
      BY <1>6, <3>1 DEF RunsJob
    <3>2. CASE q # r
      <4>1. InProgress(q)
        BY <1>3, <2>1, <3>2 DEF InProgress, HasThread
      <4> QED BY <4>1 DEF IInv, Owned, RunsJob
    <3> QED BY <3>1, <3>2
  <2>2. worker'[job.id].at # "none"
    BY <1>3, <1>6 DEF RunsJob, Busy, Indexing
  <2> QED BY <2>1, <2>2 DEF Owned
<1>8. \A v \in Viewers : Informed(v)'
  <2> TAKE v \in Viewers
  <2>1. IsRunning'
    BY <1>6 DEF IsRunning
  <2>2. ASSUME viewer[v].at = "listed", viewer[v].job # None, viewer[v].job.status # "running"
        PROVE  worker'[viewer[v].job.id].at = "over"
    <3>1. worker[viewer[v].job.id].at = "over"
      BY <2>2 DEF IInv, Informed
    <3>2. viewer[v].job.id \in Requests
      BY <2>2 DEF IInv, TypeOK, Viewer, Job
    <3>3. worker[r].at # "over"
      BY InProgressIs DEF Busy, Indexing
    <3> QED BY <1>3, <3>1, <3>2, <3>3
  <2> QED BY <2>1, <2>2 DEF Informed
<1> QED BY <1>4, <1>5, <1>7, <1>8 DEF IInv

(* What the thread does before the last word about its job. *)
LEMMA ThreadKeeps ==
  ASSUME IInv, NEW r \in Requests, StartThread(r) \/ Spawn(r) \/ Break(r) \/ ChromaAnswers(r)
  PROVE  IInv'
<1>1. /\ worker \in [Requests -> Worker] /\ worker[r] \in Worker /\ Placed(worker[r])
      /\ cached \in BOOLEAN /\ chroma \in Indexes
  BY DEF IInv, TypeOK, Indexes
<1>2. Len(Manifest) \in Nat /\ Idle.todo = {}
  BY ManifestAssumption DEF Idle
<1>3. CASE StartThread(r)
  <2> DEFINE w == [worker[r] EXCEPT !.at = "started"]
  <2>1. worker[r].at = "accepted" /\ worker' = [worker EXCEPT ![r] = w]
        /\ UNCHANGED <<folders, cached, chroma, job, viewer, gen>>
    BY <1>1, <1>3 DEF StartThread, Goes
  <2>2. w \in Worker /\ Placed(w) /\ w.at \in Busy /\ InProgress(r)
    BY <1>1, <2>1 DEF Worker, Placed, Busy, Indexing, InProgress
  <2> HIDE DEF w
  <2> QED BY <1>1, <2>1, <2>2, WorkerSteps
<1>4. CASE Spawn(r)
  <2> DEFINE w == [worker[r] EXCEPT !.at = "source"]
  <2>1. worker[r].at = "started" /\ worker' = [worker EXCEPT ![r] = w]
        /\ UNCHANGED <<folders, cached, chroma, job, viewer, gen>>
    BY <1>1, <1>4 DEF Spawn, Goes
  <2>2. w \in Worker /\ Placed(w) /\ w.at \in Busy /\ InProgress(r)
    BY <1>1, <2>1 DEF Worker, Placed, Busy, Indexing, InProgress, HasThread
  <2> HIDE DEF w
  <2> QED BY <1>1, <2>1, <2>2, WorkerSteps
<1>5. CASE Break(r)
  <2> DEFINE w == [Idle EXCEPT !.at = "broken"]
  <2>1. worker[r].at \in Indexing \cup {"started"} /\ worker' = [worker EXCEPT ![r] = w]
        /\ UNCHANGED <<folders, cached, chroma, job, viewer, gen>>
    BY <1>5 DEF Break
  <2>2. Empty \in Contents
    BY DEF Empty, Contents
  <2>3. w \in Worker
    BY <1>2, <2>2 DEF Idle, Worker
  <2>4. Placed(w) /\ w.at \in Busy /\ InProgress(r)
    BY <2>1 DEF Idle, Placed, Busy, Indexing, InProgress, HasThread
  <2> HIDE DEF w
  <2> QED BY <1>1, <2>1, <2>3, <2>4, WorkerSteps
<1>6. CASE ChromaAnswers(r)
  <2> DEFINE w == [worker[r] EXCEPT !.at = "answered"]
  <2>1. worker[r].at = "exited" /\ worker' = [worker EXCEPT ![r] = w]
        /\ UNCHANGED <<folders, cached, chroma, job, viewer, gen>>
    BY <1>1, <1>6 DEF ChromaAnswers, Goes
  <2>2. w \in Worker /\ Placed(w) /\ w.at \in Busy /\ InProgress(r)
    BY <1>1, <2>1 DEF Worker, Placed, Busy, Indexing, InProgress, HasThread
  <2> HIDE DEF w
  <2> QED BY <1>1, <2>1, <2>2, WorkerSteps
<1> QED BY <1>3, <1>4, <1>5, <1>6

(* A source of the manifest, and where its chunks go. *)
LEMMA SourceFacts ==
  ASSUME IInv, NEW r \in Requests, worker[r].n <= Len(Manifest)
  PROVE  Source(r) \in Sources /\ Target(r) \in Collections
<1>1. worker[r].n \in 1 .. Len(Manifest)
  BY ManifestAssumption DEF IInv, TypeOK, Worker
<1>2. Source(r) \in Sources
  BY <1>1, ManifestAssumption DEF Source
<1> QED BY <1>2, ManifestAssumption DEF Target

(* The steps of the indexing process. *)
LEMMA IndexKeeps ==
  ASSUME IInv, NEW r \in Requests, IndexStep(r)
  PROVE  IInv'
<1>1. /\ worker \in [Requests -> Worker] /\ worker[r] \in Worker /\ Placed(worker[r])
      /\ cached \in BOOLEAN /\ chroma \in Indexes /\ folders \in Contents
  BY DEF IInv, TypeOK, Indexes
<1>2. Len(Manifest) \in Nat /\ worker[r].n \in 1 .. Len(Manifest) + 1
  BY <1>1, ManifestAssumption DEF Worker
<1>3. InProgress(r) /\ UNCHANGED <<folders, job, viewer, gen>> /\ worker[r].at \in Indexing
  BY DEF IndexStep, SkipSource, OpenSource, DeleteCollection, KeepCollection, CreateCollection,
         AddFile, LoseFile, CloseSource, Exit, Goes, InProgress, HasThread, Indexing
<1>4. worker[r].n <= Len(Manifest) =>
        \A kind \in {"empty", "kept", "lost"} : Marked(r, kind) \in SUBSET Mark
  BY <1>1, SourceFacts DEF Marked, Worker, Mark
<1>5. CASE SkipSource(r)
  <2> DEFINE n == worker[r].n + 1
             marks == Marked(r, "empty")
             w == [worker[r] EXCEPT !.n = n, !.marks = marks]
  <2>1. worker[r].at = "source" /\ worker[r].n <= Len(Manifest) /\ UNCHANGED <<cached, chroma>>
        /\ worker' = [worker EXCEPT ![r] = w]
    BY <1>1, <1>5 DEF SkipSource
  <2>2. n \in 1 .. Len(Manifest) + 1 /\ marks \in SUBSET Mark
    BY <1>2, <1>4, <2>1
  <2> HIDE DEF n, marks
  <2>3. w \in Worker /\ w.at = "source" /\ w.todo = worker[r].todo
    BY <1>1, <2>1, <2>2 DEF Worker
  <2>4. Placed(w) /\ w.at \in Busy
    BY <1>1, <2>1, <2>3 DEF Placed, Busy, Indexing
  <2> HIDE DEF w
  <2> QED BY <1>1, <1>3, <2>1, <2>3, <2>4, WorkerSteps
<1>6. CASE OpenSource(r)
  <2> DEFINE at == IF DeletesFirst(r) THEN "delete" ELSE "create"
             todo == Present(Source(r))
             w == [worker[r] EXCEPT !.at = at, !.todo = todo]
  <2>1. worker[r].n <= Len(Manifest) /\ cached' = TRUE /\ UNCHANGED chroma
        /\ worker' = [worker EXCEPT ![r] = w]
    BY <1>1, <1>6 DEF OpenSource
  <2>2. at \in {"delete", "create"} /\ todo \in SUBSET Stems
    BY DEF Present
  <2> HIDE DEF at, todo
  <2>3. w \in Worker /\ w.at = at /\ w.n = worker[r].n
    BY <1>1, <2>2 DEF Worker, Indexing
  <2>4. Placed(w) /\ w.at \in Busy
    BY <2>1, <2>2, <2>3 DEF Placed, Busy, Indexing
  <2> HIDE DEF w
  <2> QED BY <1>1, <1>3, <2>1, <2>3, <2>4, WorkerSteps
<1>7. CASE DeleteCollection(r)
  <2> DEFINE w == [worker[r] EXCEPT !.at = "create"]
  <2>1. worker[r].at = "delete" /\ UNCHANGED cached /\ chroma' = [chroma EXCEPT ![Target(r)] = None]
        /\ worker' = [worker EXCEPT ![r] = w]
    BY <1>1, <1>7 DEF DeleteCollection
  <2>2. chroma' \in Indexes
    BY <1>1, <2>1 DEF Indexes
  <2>3. w \in Worker /\ Placed(w) /\ w.at \in Busy
    BY <1>1, <2>1 DEF Worker, Placed, Busy, Indexing
  <2> HIDE DEF w
  <2> QED BY <1>1, <1>3, <2>1, <2>2, <2>3, WorkerSteps
<1>8. CASE KeepCollection(r)
  <2> DEFINE marks == Marked(r, "kept")
             w == [worker[r] EXCEPT !.at = "create", !.marks = marks]
  <2>1. worker[r].at = "delete" /\ UNCHANGED <<cached, chroma>>
        /\ worker' = [worker EXCEPT ![r] = w]
    BY <1>1, <1>8 DEF KeepCollection
  <2>2. worker[r].n <= Len(Manifest) /\ marks \in SUBSET Mark
    BY <1>1, <1>4, <2>1 DEF Placed
  <2> HIDE DEF marks
  <2>3. w \in Worker /\ w.at = "create" /\ w.n = worker[r].n
    BY <1>1, <2>2 DEF Worker, Indexing
  <2>4. Placed(w) /\ w.at \in Busy
    BY <2>2, <2>3 DEF Placed, Busy, Indexing
  <2> HIDE DEF w
  <2> QED BY <1>1, <1>3, <2>1, <2>3, <2>4, WorkerSteps
<1>9. CASE CreateCollection(r)
  <2> DEFINE c == Target(r)
             collection == IF chroma[c] = None THEN [id |-> r, chunks |-> Empty] ELSE chroma[c]
             handle == collection.id
             w == [worker[r] EXCEPT !.at = "adding", !.handle = handle]
  <2>1. worker[r].at = "create" /\ UNCHANGED cached /\ chroma' = [chroma EXCEPT ![c] = collection]
        /\ worker' = [worker EXCEPT ![r] = w]
    BY <1>1, <1>9 DEF CreateCollection
  <2>2. worker[r].n <= Len(Manifest)
    BY <1>1, <2>1 DEF Placed
  <2>3. c \in Collections
    BY <2>2, SourceFacts
  <2>4. Empty \in Contents
    BY DEF Empty, Contents
  <2>5. collection \in Chunks
    BY <1>1, <2>3, <2>4 DEF Indexes, Chunks
  <2>6. handle \in Requests
    BY <2>5 DEF Chunks
  <2> HIDE DEF collection, handle
  <2>7. chroma' \in Indexes
    BY <1>1, <2>1, <2>5 DEF Indexes
  <2>8. w \in Worker /\ w.at = "adding" /\ w.n = worker[r].n /\ w.handle = handle
    BY <1>1, <2>6 DEF Worker, Indexing
  <2>9. Placed(w) /\ w.at \in Busy
    BY <2>2, <2>6, <2>8 DEF Placed, Busy, Indexing
  <2> HIDE DEF w
  <2> QED BY <1>1, <1>3, <2>1, <2>7, <2>8, <2>9, WorkerSteps
<1>10. CASE AddFile(r)
  <2> DEFINE c == Target(r)
             s == Source(r)
  <2>1. PICK f \in worker[r].todo, marks \in {worker[r].marks, Marked(r, "lost")} :
          /\ worker[r].at = "adding" /\ IdOf(c) = worker[r].handle
          /\ chroma' = [chroma EXCEPT ![c].chunks = Added(@, s, f, folders[s][f])]
          /\ worker' = [worker EXCEPT ![r].todo = @ \ {f}, ![r].read[s][f] = folders[s][f],
                                      ![r].marks = marks]
          /\ UNCHANGED cached
    BY <1>10 DEF AddFile
  <2>2. worker[r].n <= Len(Manifest) /\ worker[r].handle \in Requests
    BY <1>1, <2>1 DEF Placed
  <2>3. s \in Sources /\ c \in Collections /\ f \in Stems /\ marks \in SUBSET Mark
    BY <1>1, <1>4, <2>2, SourceFacts DEF Worker
  <2> HIDE DEF c, s
  <2> DEFINE edition == folders[s][f]
             todo == worker[r].todo \ {f}
             read == [worker[r].read EXCEPT ![s][f] = edition]
             w == [worker[r] EXCEPT !.todo = todo, !.read = read, !.marks = marks]
  <2>4. edition \in Editions \cup {None}
    BY <1>1, <2>3 DEF Contents
  <2>5. chroma[c] \in Chunks
    <3>1. chroma[c] # None
      BY <2>1, <2>2, NoneAssumption DEF IdOf
    <3> QED BY <1>1, <2>3, <3>1 DEF Indexes
  <2> DEFINE chunks == Added(chroma[c].chunks, s, f, edition)
             collection == [chroma[c] EXCEPT !.chunks = chunks]
  <2>6. chunks \in Contents
    <3>1. chroma[c].chunks \in Contents
      BY <2>5 DEF Chunks
    <3> QED BY <2>3, <2>4, <3>1 DEF Added, Contents
  <2>7. chroma' = [chroma EXCEPT ![c] = collection]
    BY <1>1, <2>1, <2>3 DEF Indexes
  <2> HIDE DEF chunks
  <2>8. collection \in Chunks
    BY <2>5, <2>6 DEF Chunks
  <2>9. read \in Contents
    <3>1. worker[r].read \in Contents
      BY <1>1 DEF Worker
    <3> QED BY <2>3, <2>4, <3>1 DEF Contents
  <2>10. todo \in SUBSET Stems
    BY <1>1 DEF Worker
  <2>11. worker' = [worker EXCEPT ![r] = w]
    BY <1>1, <2>1
  <2> HIDE DEF collection, read, todo
  <2>12. chroma' \in Indexes
    BY <1>1, <2>7, <2>8 DEF Indexes
  <2>13. w \in Worker /\ w.at = "adding" /\ w.n = worker[r].n /\ w.handle = worker[r].handle
    BY <1>1, <2>1, <2>3, <2>9, <2>10 DEF Worker
  <2>14. Placed(w) /\ w.at \in Busy
    BY <2>2, <2>13 DEF Placed, Busy, Indexing
  <2> HIDE DEF w
  <2> QED BY <1>1, <1>3, <2>1, <2>11, <2>12, <2>13, <2>14, WorkerSteps
<1>11. CASE LoseFile(r)
  <2>1. PICK f \in worker[r].todo :
          worker' = [worker EXCEPT ![r].todo = @ \ {f}, ![r].marks = Marked(r, "lost")]
    BY <1>11 DEF LoseFile
  <2> DEFINE todo == worker[r].todo \ {f}
             marks == Marked(r, "lost")
             w == [worker[r] EXCEPT !.todo = todo, !.marks = marks]
  <2>2. worker[r].at = "adding" /\ UNCHANGED <<cached, chroma>>
    BY <1>11 DEF LoseFile
  <2>3. worker' = [worker EXCEPT ![r] = w]
    BY <1>1, <2>1
  <2>4. worker[r].n <= Len(Manifest) /\ worker[r].handle \in Requests
    BY <1>1, <2>2 DEF Placed
  <2>5. todo \in SUBSET Stems /\ marks \in SUBSET Mark
    BY <1>1, <1>4, <2>4 DEF Worker
  <2> HIDE DEF todo, marks
  <2>6. w \in Worker /\ w.at = "adding" /\ w.n = worker[r].n /\ w.handle = worker[r].handle
    BY <1>1, <2>2, <2>5 DEF Worker
  <2>7. Placed(w) /\ w.at \in Busy
    BY <2>4, <2>6 DEF Placed, Busy, Indexing
  <2> HIDE DEF w
  <2> QED BY <1>1, <1>3, <2>2, <2>3, <2>6, <2>7, WorkerSteps
<1>12. CASE CloseSource(r)
  <2> DEFINE n == worker[r].n + 1
             w == [worker[r] EXCEPT !.at = "source", !.n = n, !.handle = None]
  <2>1. worker[r].at = "adding" /\ worker[r].todo = {} /\ UNCHANGED <<cached, chroma>>
        /\ worker' = [worker EXCEPT ![r] = w]
    BY <1>1, <1>12 DEF CloseSource
  <2>2. n \in 1 .. Len(Manifest) + 1
    BY <1>1, <1>2, <2>1 DEF Placed
  <2> HIDE DEF n
  <2>3. w \in Worker /\ w.at = "source" /\ w.todo = {}
    BY <1>1, <2>1, <2>2 DEF Worker, Indexing
  <2>4. Placed(w) /\ w.at \in Busy
    BY <2>3 DEF Placed, Busy, Indexing
  <2> HIDE DEF w
  <2> QED BY <1>1, <1>3, <2>1, <2>3, <2>4, WorkerSteps
<1>13. CASE Exit(r)
  <2> DEFINE w == [worker[r] EXCEPT !.at = "exited"]
  <2>1. worker[r].at = "source" /\ UNCHANGED <<cached, chroma>>
        /\ worker' = [worker EXCEPT ![r] = w]
    BY <1>1, <1>13 DEF Exit, Goes
  <2>2. w \in Worker /\ Placed(w) /\ w.at \in Busy
    BY <1>1, <2>1 DEF Worker, Placed, Busy, Indexing
  <2> HIDE DEF w
  <2> QED BY <1>1, <1>3, <2>1, <2>2, WorkerSteps
<1> QED BY <1>5, <1>6, <1>7, <1>8, <1>9, <1>10, <1>11, <1>12, <1>13 DEF IndexStep

(* A worker that is done and does not work: over. *)
LEMMA DoneIsOver ==
  ASSUME IInv, job # None, job.status # "running"
  PROVE  job.id \in Requests /\ worker[job.id].at = "over"
<1>1. job.id \in Requests
  BY DEF IInv, TypeOK, Job
<1>2. ~InProgress(job.id) /\ worker[job.id].at # "none"
  BY <1>1 DEF IInv, Owned, RunsJob
<1>3. worker[job.id] \in Worker
  BY <1>1 DEF IInv, TypeOK
<1> QED BY <1>1, <1>2, <1>3, InProgressIs DEF Worker, Busy

(* A worker that has not begun, or is over, has nothing to do. *)
LEMMA IdleGood ==
  /\ Idle \in Worker /\ Idle.todo = {} /\ Idle.at = "none"
  /\ [Idle EXCEPT !.at = "accepted"] \in Worker
  /\ [Idle EXCEPT !.at = "accepted"].at = "accepted" /\ [Idle EXCEPT !.at = "accepted"].todo = {}
  /\ Over \in Worker /\ Over.at = "over" /\ Over.todo = {}
<1>1. Empty \in Contents /\ Len(Manifest) \in Nat
  BY ManifestAssumption DEF Empty, Contents
<1> QED BY <1>1 DEF Idle, Worker, Over

(* A worker that comes to its end, with the status its job is left in.      *)
LEMMA EndKeeps ==
  ASSUME IInv, NEW r \in Requests, StartFails(r) \/ Complete(r) \/ Fail(r)
  PROVE  IInv'
<1> DEFINE w == [worker[r] EXCEPT !.at = "over"]
<1>1. /\ worker \in [Requests -> Worker] /\ worker[r] \in Worker
      /\ \A q \in Requests : Placed(worker[q])
  BY DEF IInv, TypeOK
<1>2. /\ worker' = [worker EXCEPT ![r] = w] /\ UNCHANGED <<folders, cached, chroma, viewer, gen>>
      /\ worker[r].at \in {"accepted", "answered", "broken"}
  BY <1>1 DEF StartFails, Complete, Fail, End, Goes
<1>3. InProgress(r)
  BY <1>2, InProgressIs DEF Busy
<1>4. job \in Job /\ job # None /\ job.id = r /\ job.status = "running"
  BY <1>3 DEF IInv, TypeOK, Owned, RunsJob
<1>5. job' \in Job /\ job'.id = r /\ job' # None
  <2>1. CASE StartFails(r)
    BY <1>4, <2>1 DEF StartFails
  <2>2. ASSUME NEW status \in {"completed", "failed"}, End(r, status)
        PROVE  job' \in Job /\ job'.id = r /\ job' # None
    <3>1. job' = [job EXCEPT !.status = status]
      BY <1>4, <2>2 DEF End
    <3>2. job' \in Job /\ job'.id = r
      BY <1>4, <3>1 DEF Job
    <3>3. job' # None
      BY <3>2, NoneAssumption
    <3> QED BY <3>2, <3>3
  <2> QED BY <2>1, <2>2 DEF StartFails, Complete, Fail
<1>6. w \in Worker /\ w.at = "over" /\ w.todo = worker[r].todo
  BY <1>1 DEF Worker
<1>7. w.todo = {}
  BY <1>1, <1>2, <1>6 DEF Placed, Indexing
<1>8. Placed(w)
  BY <1>6, <1>7 DEF Placed
<1> HIDE DEF w
<1>9. /\ worker' \in [Requests -> Worker]
      /\ \A q \in Requests : worker'[q] = IF q = r THEN w ELSE worker[q]
  BY <1>1, <1>2, <1>6
<1>10. \A q \in Requests : Placed(worker'[q])
  <2> TAKE q \in Requests
  <2>1. CASE q = r
    BY <1>8, <1>9, <2>1
  <2>2. CASE q # r
    BY <1>1, <1>9, <2>2
  <2> QED BY <2>1, <2>2
<1>11. TypeOK'
  <2>1. \A q \in Requests : worker'[q].todo # {} =>
           worker'[q].at \in Indexing \ {"source"} /\ worker'[q].n <= Len(Manifest)
    BY <1>10 DEF Placed
  <2> QED BY <1>2, <1>5, <1>9, <2>1 DEF IInv, TypeOK
<1>12. Owned'
  <2>1. ASSUME NEW q \in Requests, InProgress(q)' PROVE FALSE
    <3>1. q # r
      BY <1>6, <1>9, <2>1 DEF InProgress, HasThread, Indexing
    <3>2. InProgress(q)
      BY <1>9, <2>1, <3>1 DEF InProgress, HasThread
    <3> QED BY <1>4, <3>1, <3>2 DEF IInv, Owned, RunsJob
  <2>2. worker'[job'.id].at # "none"
    BY <1>5, <1>6, <1>9
  <2> QED BY <2>1, <2>2 DEF Owned
<1>13. \A v \in Viewers : Informed(v)'
  <2> TAKE v \in Viewers
  <2>1. ASSUME viewer[v].at = "listed", viewer[v].job # None, viewer[v].job.status # "running"
        PROVE  worker'[viewer[v].job.id].at = "over" /\ viewer[v].job.id # r
    <3>1. worker[viewer[v].job.id].at = "over"
      BY <2>1 DEF IInv, Informed
    <3>2. viewer[v].job.id \in Requests
      BY <2>1 DEF IInv, TypeOK, Viewer, Job
    <3> QED BY <1>2, <1>9, <3>1, <3>2
  <2>2. ASSUME viewer[v].at = "listed", viewer[v].whole, viewer[v].job = job', ~IsRunning'
        PROVE  FALSE
    <3>1. viewer[v].job.status # "running" /\ viewer[v].job.id = r /\ viewer[v].job # None
      BY <1>5, <2>2 DEF IsRunning
    <3> QED BY <2>1, <2>2, <3>1
  <2> QED BY <1>2, <2>1, <2>2 DEF Informed
<1> QED BY <1>10, <1>11, <1>12, <1>13 DEF IInv

(* A request that starts a job, while none is running. *)
LEMMA AcceptKeeps ==
  ASSUME IInv, NEW r \in Requests, Accept(r)
  PROVE  IInv'
<1>1. /\ worker \in [Requests -> Worker] /\ \A q \in Requests : Placed(worker[q])
      /\ worker[r].at = "none" /\ ~IsRunning
      /\ UNCHANGED <<folders, cached, chroma, viewer, gen>>
  BY DEF IInv, TypeOK, Accept, MayStart
<1>2. job' = [id |-> r, status |-> "running"]
  BY DEF Accept
<1>3. job' \in Job /\ job'.id = r /\ job'.status = "running" /\ job' # None
  <2>1. job' \in Job /\ job'.id = r /\ job'.status = "running"
    BY <1>2 DEF Job
  <2> QED BY <2>1, NoneAssumption
<1> DEFINE started == [Idle EXCEPT !.at = "accepted"]
<1>4. \A q \in Requests :
        worker'[q] = IF q = r THEN started ELSE IF worker[q].at = "over" THEN Over ELSE worker[q]
  BY DEF Accept
<1>5. DOMAIN worker' = Requests /\ worker' = [q \in Requests |-> worker'[q]]
  BY DEF Accept
<1>6. started \in Worker /\ started.at = "accepted" /\ started.todo = {}
      /\ Over \in Worker /\ Over.at = "over" /\ Over.todo = {}
  BY IdleGood
<1>7. Placed(started) /\ Placed(Over)
  BY <1>6 DEF Placed
<1> HIDE DEF started
<1>8. \A q \in Requests : worker'[q] \in Worker /\ Placed(worker'[q])
  <2> TAKE q \in Requests
  <2>1. CASE q = r
    BY <1>4, <1>6, <1>7, <2>1
  <2>2. CASE q # r /\ worker[q].at = "over"
    BY <1>4, <1>6, <1>7, <2>2
  <2>3. CASE q # r /\ worker[q].at # "over"
    BY <1>1, <1>4, <2>3
  <2> QED BY <2>1, <2>2, <2>3
<1>9. worker' \in [Requests -> Worker]
  BY <1>5, <1>8
<1>10. TypeOK'
  <2>1. \A q \in Requests : worker'[q].todo # {} =>
           worker'[q].at \in Indexing \ {"source"} /\ worker'[q].n <= Len(Manifest)
    BY <1>8 DEF Placed
  <2> QED BY <1>1, <1>3, <1>9, <2>1 DEF IInv, TypeOK
<1>11. \A q \in Requests \ {r} : worker'[q].at = worker[q].at
  <2> TAKE q \in Requests \ {r}
  <2>1. CASE worker[q].at = "over"
    BY <1>4, <1>6, <2>1
  <2>2. CASE worker[q].at # "over"
    BY <1>4, <2>2
  <2> QED BY <2>1, <2>2
<1>12. \A q \in Requests : ~InProgress(q)
  BY <1>1 DEF IInv, Owned, RunsJob, IsRunning
<1>13. Owned'
  <2>1. ASSUME NEW q \in Requests, InProgress(q)' PROVE RunsJob(q)'
    <3>1. CASE q = r
      BY <1>3, <3>1 DEF RunsJob
    <3>2. CASE q # r
      BY <1>11, <1>12, <2>1, <3>2 DEF InProgress, HasThread
    <3> QED BY <3>1, <3>2
  <2>2. worker'[job'.id].at # "none"
    BY <1>3, <1>4, <1>6
  <2> QED BY <2>1, <2>2 DEF Owned
<1>14. \A v \in Viewers : Informed(v)'
  <2> TAKE v \in Viewers
  <2>1. IsRunning'
    BY <1>3 DEF IsRunning
  <2>2. ASSUME viewer[v].at = "listed", viewer[v].job # None, viewer[v].job.status # "running"
        PROVE  worker'[viewer[v].job.id].at = "over"
    <3>1. worker[viewer[v].job.id].at = "over"
      BY <2>2 DEF IInv, Informed
    <3>2. viewer[v].job.id \in Requests
      BY <2>2 DEF IInv, TypeOK, Viewer, Job
    <3> QED BY <1>1, <1>11, <3>1, <3>2
  <2> QED BY <1>1, <2>1, <2>2 DEF Informed
<1> QED BY <1>8, <1>10, <1>13, <1>14 DEF IInv

(* A restart ends all who are in progress, and whoever waits for an answer. *)
LEMMA RestartKeeps ==
  ASSUME IInv, Restart
  PROVE  IInv'
<1>1. /\ worker \in [Requests -> Worker] /\ \A q \in Requests : Placed(worker[q])
      /\ UNCHANGED <<folders, cached, chroma>> /\ job' = None
  BY DEF IInv, TypeOK, Restart
<1>2. worker' = [r \in Requests |-> IF InProgress(r) THEN Over ELSE worker[r]]
  BY DEF Restart
<1>3. Over \in Worker /\ Over.at = "over" /\ Over.todo = {}
  BY IdleGood
<1>4. \A q \in Requests : worker'[q] \in Worker /\ Placed(worker'[q]) /\ ~InProgress(q)'
  <2> TAKE q \in Requests
  <2>1. CASE InProgress(q)
    <3>1. worker'[q] = Over
      BY <1>2, <2>1
    <3> QED BY <1>3, <3>1 DEF Placed, InProgress, HasThread, Indexing
  <2>2. CASE ~InProgress(q)
    <3>1. worker'[q] = worker[q]
      BY <1>2, <2>2
    <3> QED BY <1>1, <2>2, <3>1 DEF InProgress, HasThread
  <2> QED BY <2>1, <2>2
<1>5. worker' \in [Requests -> Worker]
  BY <1>2, <1>4
<1>6. viewer' \in [Viewers -> Viewer] /\ \A v \in Viewers : viewer'[v].at # "listed"
  <2>1. Unasked \in Viewer /\ Unasked.at = "idle"
    BY DEF Unasked, Viewer
  <2>2. viewer \in [Viewers -> Viewer]
    BY DEF IInv, TypeOK
  <2>3. viewer' = [v \in Viewers |-> IF viewer[v].at = "listed" THEN Unasked ELSE viewer[v]]
    BY DEF Restart
  <2> QED BY <2>1, <2>2, <2>3
<1>7. gen' \in [Generations -> Generation]
  <2>1. Unstarted \in Generation
    BY DEF Unstarted, Generation
  <2>2. gen' = [g \in Generations |->
                  IF gen[g].at \in {"loading", "searching"} THEN Unstarted ELSE gen[g]]
    BY DEF Restart
  <2> QED BY <2>1, <2>2 DEF IInv, TypeOK
<1>8. TypeOK'
  <2>1. \A q \in Requests : worker'[q].todo # {} =>
           worker'[q].at \in Indexing \ {"source"} /\ worker'[q].n <= Len(Manifest)
    BY <1>4 DEF Placed
  <2> QED BY <1>1, <1>5, <1>6, <1>7, <2>1 DEF IInv, TypeOK
<1>9. Owned' /\ \A v \in Viewers : Informed(v)'
  BY <1>1, <1>4, <1>6 DEF Owned, Informed
<1> QED BY <1>4, <1>8, <1>9 DEF IInv

(* Who looks at the state of the index. *)
LEMMA ViewerKeeps ==
  ASSUME IInv, NEW v \in Viewers, ViewerStep(v)
  PROVE  IInv'
<1> DEFINE listed == IF IsWhole THEN [at |-> "listed", whole |-> TRUE, job |-> job]
                     ELSE [at |-> "listed", whole |-> FALSE, job |-> None]
<1>1. UNCHANGED <<folders, cached, chroma, job, worker, gen>>
  BY DEF ViewerStep, ListCollections, Answer, StatusFails, Shows
<1>2. viewer \in [Viewers -> Viewer] /\ job \in Job \cup {None}
  BY DEF IInv, TypeOK
<1>3. listed \in Viewer /\ listed.at = "listed" /\ (listed.whole => IsWhole)
      /\ listed.job \in {job, None}
  BY <1>2 DEF Viewer
<1>4. \/ viewer' = [viewer EXCEPT ![v] = listed]
      \/ \E at \in {"ready", "idle"} : viewer' = [viewer EXCEPT ![v] = [Unasked EXCEPT !.at = at]]
  BY DEF ViewerStep, ListCollections, Answer, StatusFails, Shows
<1>5. \A at \in {"ready", "idle"} :
         [Unasked EXCEPT !.at = at] \in Viewer /\ [Unasked EXCEPT !.at = at].at # "listed"
  BY DEF Unasked, Viewer
<1> HIDE DEF listed
<1>6. viewer' \in [Viewers -> Viewer]
  BY <1>2, <1>3, <1>4, <1>5
<1>7. /\ \A u \in Viewers \ {v} : viewer'[u] = viewer[u]
      /\ viewer'[v].at = "listed" => viewer'[v] = listed
  BY <1>2, <1>4, <1>5
<1>8. TypeOK' /\ \A r \in Requests : Placed(worker[r])'
  BY <1>1, <1>6 DEF IInv, TypeOK, Placed
<1>9. Owned'
  BY <1>1 DEF IInv, Owned, InProgress, HasThread, RunsJob
<1>10. \A u \in Viewers : Informed(u)'
  <2> TAKE u \in Viewers
  <2>1. CASE u = v
    <3> SUFFICES ASSUME viewer'[v].at = "listed" PROVE Informed(v)'
      BY <2>1 DEF Informed
    <3>1. viewer'[v] = listed
      BY <1>7
    <3>2. listed.job # None /\ listed.job.status # "running" => worker[listed.job.id].at = "over"
      BY <1>3, DoneIsOver
    <3>3. listed.whole => IsWhole'
      BY <1>1, <1>3 DEF IsWhole
    <3> QED BY <1>1, <3>1, <3>2, <3>3 DEF Informed
  <2>2. CASE u # v
    BY <1>1, <1>7, <2>2 DEF IInv, Informed, IsRunning, IsWhole
  <2> QED BY <2>1, <2>2
<1> QED BY <1>8, <1>9, <1>10 DEF IInv

(* What neither the index nor the job takes part in. *)
LEMMA OthersKeep ==
  ASSUME IInv, UNCHANGED <<cached, chroma, job, worker, viewer>>,
         folders' \in Contents, gen' \in [Generations -> Generation]
  PROVE  IInv'
<1>1. TypeOK' /\ \A r \in Requests : Placed(worker[r])'
  BY DEF IInv, TypeOK, Placed
<1>2. Owned'
  BY DEF IInv, Owned, InProgress, HasThread, RunsJob
<1>3. \A v \in Viewers : Informed(v)'
  BY DEF IInv, Informed, IsRunning, IsWhole
<1> QED BY <1>1, <1>2, <1>3 DEF IInv

(* Whatever holds of some natural number holds of a least one: the form in *)
(* which the provers take induction.                                       *)
LEMMA LeastNumber ==
  ASSUME NEW T \in SUBSET Nat, T # {}
  PROVE  \E m \in T : \A n \in T : m <= n
<1>1. IsWellFoundedOn(OpToRel(<, Nat), Nat)
  BY NatLessThanWellFounded
<1>2. \E m \in T : \A n \in T : ~ (<<n, m>> \in OpToRel(<, Nat))
  BY <1>1, WFMin, Zenon
<1>3. PICK m \in T : \A n \in T : ~ (n < m)
  BY <1>2, Zenon DEF OpToRel
<1> QED BY <1>3

(* The function FlattenSeq is defined by. *)
Joins(seqs, g, n) == g = [i \in 1 .. n |-> IF i = 1 THEN seqs[i] ELSE g[i - 1] \o seqs[i]]

(* What one sequence of sequences after the other comes to, step by step.  *)
LEMMA FlattenJoins ==
  ASSUME NEW S, NEW seqs \in Seq(Seq(S)), Len(seqs) # 0
  PROVE  \E G : /\ FlattenSeq(seqs) = G[Len(seqs)]
                /\ \A i \in 1 .. Len(seqs) :
                     /\ G[i] = IF i = 1 THEN seqs[i] ELSE G[i - 1] \o seqs[i]
                     /\ G[i] \in Seq(S)
<1> DEFINE L == Len(seqs)
<1>1. L \in Nat \ {0} /\ \A i \in 1 .. L : seqs[i] \in Seq(S)
  OBVIOUS
<1> HIDE DEF L
<1>2. ASSUME NEW n \in 1 .. L PROVE \E g : Joins(seqs, g, n)
  <2> DEFINE Bad == {k \in 1 .. L : ~ \E g : Joins(seqs, g, k)}
  <2>1. Bad \in SUBSET Nat /\ \A k \in 1 .. L : k \in Bad <=> ~ \E g : Joins(seqs, g, k)
    BY <1>1
  <2> HIDE DEF Bad
  <2>2. ASSUME Bad # {} PROVE FALSE
    <3>1. PICK m \in Bad : \A k \in Bad : m <= k
      BY <2>1, <2>2, LeastNumber
    <3>2. m \in 1 .. L
      BY <3>1 DEF Bad
    <3>3. CASE m = 1
      <4>1. Joins(seqs, [i \in 1 .. 1 |-> seqs[i]], 1)
        BY DEF Joins
      <4> QED BY <2>1, <3>2, <3>3, <4>1
    <3>4. CASE m # 1
      <4>1. m - 1 \in 1 .. L /\ ~ (m <= m - 1)
        BY <1>1, <3>2, <3>4
      <4>2. PICK g : Joins(seqs, g, m - 1)
        BY <2>1, <3>1, <4>1
      <4> DEFINE h == [i \in 1 .. m |-> IF i = m THEN g[m - 1] \o seqs[m] ELSE g[i]]
      <4>3. \A i \in 1 .. m - 1 : g[i] = IF i = 1 THEN seqs[i] ELSE g[i - 1] \o seqs[i]
        BY <4>2 DEF Joins
      <4>4. \A i \in 1 .. m : h[i] = IF i = 1 THEN seqs[i] ELSE h[i - 1] \o seqs[i]
        BY <1>1, <3>2, <3>4, <4>3
      <4>5. Joins(seqs, h, m)
        BY <4>4 DEF Joins
      <4> QED BY <2>1, <3>2, <4>5
    <3> QED BY <3>3, <3>4
  <2> QED BY <2>1, <2>2
<1> DEFINE G == CHOOSE g : Joins(seqs, g, L)
<1>3. Joins(seqs, G, L)
  <2>1. L \in 1 .. L
    BY <1>1
  <2>2. \E g : Joins(seqs, g, L)
    BY <1>2, <2>1
  <2> QED BY <2>2, Zenon
<1>4. FlattenSeq(seqs) = G[L]
  BY <1>1 DEF FlattenSeq, Joins, L
<1> HIDE DEF G
<1>5. \A i \in 1 .. L : G[i] = IF i = 1 THEN seqs[i] ELSE G[i - 1] \o seqs[i]
  BY <1>3 DEF Joins
<1>6. ASSUME NEW n \in 1 .. L PROVE G[n] \in Seq(S)
  <2> DEFINE Bad == {k \in 1 .. L : G[k] \notin Seq(S)}
  <2>1. Bad \in SUBSET Nat /\ \A k \in 1 .. L : k \in Bad <=> G[k] \notin Seq(S)
    BY <1>1
  <2> HIDE DEF Bad
  <2>2. ASSUME Bad # {} PROVE FALSE
    <3>1. PICK m \in Bad : \A k \in Bad : m <= k
      BY <2>1, <2>2, LeastNumber
    <3>2. m \in 1 .. L
      BY <3>1 DEF Bad
    <3>3. CASE m = 1
      BY <1>1, <1>5, <2>1, <3>2, <3>3
    <3>4. CASE m # 1
      <4>1. m - 1 \in 1 .. L /\ ~ (m <= m - 1)
        BY <1>1, <3>2, <3>4
      <4>2. G[m - 1] \in Seq(S) /\ seqs[m] \in Seq(S)
        BY <1>1, <2>1, <3>1, <3>2, <4>1
      <4>3. G[m] = G[m - 1] \o seqs[m]
        BY <1>5, <3>2, <3>4
      <4> QED BY <2>1, <3>2, <4>2, <4>3, ConcatProperties
    <3> QED BY <3>3, <3>4
  <2> QED BY <2>1, <2>2
<1> QED BY <1>4, <1>5, <1>6 DEF L

(* Sequences of sequences over a set, one after the other, are a sequence  *)
(* over the set.                                                           *)
LEMMA FlattenType ==
  ASSUME NEW S, NEW seqs \in Seq(Seq(S))
  PROVE  FlattenSeq(seqs) \in Seq(S)
<1>1. CASE Len(seqs) = 0
  BY <1>1 DEF FlattenSeq
<1>2. CASE Len(seqs) # 0
  <2>1. Len(seqs) \in 1 .. Len(seqs)
    BY <1>2
  <2> QED BY <1>2, <2>1, FlattenJoins
<1> QED BY <1>1, <1>2

(* What is in two sequences, one after the other. *)
LEMMA JoinedElements ==
  ASSUME NEW S, NEW s \in Seq(S), NEW t \in Seq(S)
  PROVE  ToSet(s \o t) = ToSet(s) \cup ToSet(t)
<1>1. /\ Len(s \o t) = Len(s) + Len(t) /\ Len(s) \in Nat /\ Len(t) \in Nat
      /\ DOMAIN (s \o t) = 1 .. Len(s) + Len(t)
      /\ DOMAIN s = 1 .. Len(s) /\ DOMAIN t = 1 .. Len(t)
      /\ \A i \in 1 .. Len(s) : (s \o t)[i] = s[i]
      /\ \A i \in 1 .. Len(t) : (s \o t)[Len(s) + i] = t[i]
  OBVIOUS
<1>2. ASSUME NEW x \in ToSet(s \o t) PROVE x \in ToSet(s) \cup ToSet(t)
  <2>1. PICK i \in 1 .. Len(s) + Len(t) : x = (s \o t)[i]
    BY <1>1 DEF ToSet
  <2>2. CASE i <= Len(s)
    BY <1>1, <2>1, <2>2 DEF ToSet
  <2>3. CASE ~ (i <= Len(s))
    <3>1. i - Len(s) \in 1 .. Len(t) /\ i = Len(s) + (i - Len(s))
      BY <1>1, <2>3
    <3>2. x = t[i - Len(s)]
      BY <1>1, <2>1, <3>1
    <3> QED BY <1>1, <3>1, <3>2 DEF ToSet
  <2> QED BY <2>2, <2>3
<1>3. ASSUME NEW x \in ToSet(s) PROVE x \in ToSet(s \o t)
  BY <1>1 DEF ToSet
<1>4. ASSUME NEW x \in ToSet(t) PROVE x \in ToSet(s \o t)
  <2>1. PICK i \in 1 .. Len(t) : x = t[i]
    BY <1>1 DEF ToSet
  <2>2. Len(s) + i \in 1 .. Len(s) + Len(t) /\ x = (s \o t)[Len(s) + i]
    BY <1>1, <2>1
  <2> QED BY <1>1, <2>2 DEF ToSet
<1> QED BY <1>2, <1>3, <1>4

(* Nothing is lost or added by it. *)
LEMMA FlattenElements ==
  ASSUME NEW S, NEW seqs \in Seq(Seq(S))
  PROVE  \A x : x \in ToSet(FlattenSeq(seqs)) <=> \E i \in 1 .. Len(seqs) : x \in ToSet(seqs[i])
<1> DEFINE L == Len(seqs)
<1>1. L \in Nat /\ \A i \in 1 .. L : seqs[i] \in Seq(S)
  OBVIOUS
<1>2. CASE L = 0
  <2>1. FlattenSeq(seqs) = <<>>
    BY <1>2 DEF FlattenSeq
  <2> QED BY <1>2, <2>1 DEF ToSet
<1>3. CASE L # 0
  <2>1. PICK G : /\ FlattenSeq(seqs) = G[L]
                 /\ \A i \in 1 .. L : /\ G[i] = IF i = 1 THEN seqs[i] ELSE G[i - 1] \o seqs[i]
                                      /\ G[i] \in Seq(S)
    BY <1>3, FlattenJoins
  <2> HIDE DEF L
  <2> DEFINE In(x, n) == \E i \in 1 .. n : x \in ToSet(seqs[i])
             Bad == {k \in 1 .. L : ~ \A x : x \in ToSet(G[k]) <=> In(x, k)}
  <2>2. Bad \in SUBSET Nat /\ \A k \in 1 .. L : k \in Bad <=> ~ \A x : x \in ToSet(G[k]) <=> In(x, k)
    BY <1>1
  <2> HIDE DEF Bad
  <2>3. ASSUME Bad # {} PROVE FALSE
    <3>1. PICK m \in Bad : \A k \in Bad : m <= k
      BY <2>2, <2>3, LeastNumber
    <3>2. m \in 1 .. L
      BY <3>1 DEF Bad
    <3>3. CASE m = 1
      BY <1>1, <2>1, <2>2, <3>1, <3>2, <3>3
    <3>4. CASE m # 1
      <4>1. m - 1 \in 1 .. L /\ ~ (m <= m - 1) /\ m \in Nat
        BY <1>1, <3>2, <3>4
      <4>2. \A x : x \in ToSet(G[m - 1]) <=> In(x, m - 1)
        BY <2>2, <3>1, <4>1
      <4>3. ToSet(G[m]) = ToSet(G[m - 1]) \cup ToSet(seqs[m])
        BY <1>1, <2>1, <3>2, <3>4, <4>1, JoinedElements
      <4>4. \A i : i \in 1 .. m <=> i \in 1 .. m - 1 \/ i = m
        BY <3>2, <4>1
      <4>5. \A x : In(x, m) <=> In(x, m - 1) \/ x \in ToSet(seqs[m])
        BY <4>4
      <4> QED BY <2>2, <3>1, <3>2, <4>2, <4>3, <4>5
    <3> QED BY <3>3, <3>4
  <2>4. L \in 1 .. L
    BY <1>1, <1>3
  <2>5. \A x : x \in ToSet(G[L]) <=> In(x, L)
    BY <2>2, <2>3, <2>4
  <2> QED BY <2>1, <2>5 DEF L
<1> QED BY <1>2, <1>3

(* The steps of a plan are of sources of the manifest.                     *)
LEMMA PlanType == Plan \in Seq(Sources)
<1>1. ASSUME NEW family PROVE OfFamily(family) \in Seq(Sources)
  <2> DEFINE seqs == [i \in 1 .. Len(Manifest) |->
                        IF FamilyOf[Manifest[i]] = family THEN <<Manifest[i]>> ELSE <<>>]
  <2>1. Manifest \in Seq(Sources) /\ Len(Manifest) \in Nat
    BY ManifestAssumption
  <2>2. \A i \in 1 .. Len(Manifest) : seqs[i] \in Seq(Sources)
    BY <2>1
  <2>3. seqs \in Seq(Seq(Sources))
    BY <2>1, <2>2
  <2> HIDE DEF seqs
  <2>4. FlattenSeq(seqs) \in Seq(Sources)
    BY <2>3, FlattenType
  <2> QED BY <2>4 DEF OfFamily, seqs
<1> DEFINE plans == [k \in 1 .. Len(Families) |-> OfFamily(Families[k])]
<1>2. plans \in Seq(Seq(Sources))
  BY <1>1, FamiliesAssumption
<1> HIDE DEF plans
<1>3. FlattenSeq(plans) \in Seq(Sources)
  BY <1>2, FlattenType
<1> QED BY <1>3 DEF Plan, plans

(* What is searched are collections that are configured. *)
LEMMA SearchedType == Searched \in Seq(Collections) /\ Len(Searched) \in Nat
<1>1. Plan \in Seq(Sources) /\ Len(Plan) \in Nat
  BY PlanType
<1>2. \A n \in 1 .. Len(Plan) : CollectionOf[Plan[n]] \in Collections
  BY <1>1, ManifestAssumption
<1>3. [n \in 1 .. Len(Plan) |-> CollectionOf[Plan[n]]] \in Seq(Collections)
  BY <1>1, <1>2
<1>4. Configured \in Seq(Collections)
  BY ManifestAssumption
<1>5. Searched \in Seq(Collections)
  BY <1>3, <1>4 DEF Searched
<1> QED BY <1>5

(* The generations, which only read. *)
LEMMA GenKeeps ==
  ASSUME IInv, NEW g \in Generations, GenStep(g)
  PROVE  IInv'
<1>1. /\ gen \in [Generations -> Generation] /\ gen[g] \in Generation
      /\ chroma \in Indexes /\ job \in Job \cup {None} /\ folders \in Contents
  BY DEF IInv, TypeOK, Indexes
<1>2. UNCHANGED <<folders, cached, chroma, job, worker, viewer>>
  BY DEF GenStep, Begin, LoadCollection, Search, Finish
<1>3. Unstarted \in Generation
  BY DEF Unstarted, Generation
<1>4. gen' \in [Generations -> Generation]
  <2>1. CASE Begin(g)
    <3>1. LastRefresh \in Requests \cup {None}
      BY <1>1 DEF LastRefresh, Job
    <3>2. gen' = [gen EXCEPT ![g] = [gen[g] EXCEPT !.at = "loading", !.after = LastRefresh]]
      BY <1>1, <2>1 DEF Begin
    <3>3. [gen[g] EXCEPT !.at = "loading", !.after = LastRefresh] \in Generation
      BY <1>1, <3>1 DEF Generation
    <3> QED BY <1>1, <3>2, <3>3
  <2>2. CASE LoadCollection(g)
    <3> DEFINE c == Configured[gen[g].n]
               last == gen[g].n = Len(Configured)
               at == IF last THEN "searching" ELSE "loading"
               n == IF last THEN 1 ELSE gen[g].n + 1
               handles == [gen[g].handles EXCEPT ![c] = IdOf(c)]
               next == [gen[g] EXCEPT !.at = at, !.n = n, !.handles = handles]
    <3>1. gen' = [gen EXCEPT ![g] = next]
      BY <1>1, <2>2 DEF LoadCollection
    <3>2. handles \in [Collections -> Requests \cup {None}]
      <4>1. gen[g].handles \in [Collections -> Requests \cup {None}]
        BY <1>1 DEF Generation
      <4>2. CASE c \in Collections
        <5>1. IdOf(c) \in Requests \cup {None}
          BY <1>1, <4>2 DEF IdOf, Indexes, Chunks
        <5> QED BY <4>1, <5>1
      <4>3. CASE c \notin Collections
        BY <4>1, <4>3
      <4> QED BY <4>2, <4>3
    <3>3. n \in Nat \ {0}
      BY <1>1 DEF Generation
    <3> HIDE DEF at, n, handles
    <3>4. at \in {"searching", "loading"}
      BY DEF at
    <3>5. next \in Generation
      BY <1>1, <3>2, <3>3, <3>4 DEF Generation
    <3> QED BY <1>1, <3>1, <3>5
  <2>3. CASE Search(g)
    <3> DEFINE c == Searched[gen[g].n]
               Found(chunk) == gen' = [gen EXCEPT ![g].n = @ + 1, ![g].found = Append(@, chunk)]
    <3>0. gen[g].at = "searching" /\ c \in Collections
      <4>1. gen[g].at = "searching" /\ gen[g].n <= Len(Searched) /\ gen[g].n \in Nat \ {0}
        BY <1>1, <2>3 DEF Search, Generation
      <4> QED BY <4>1, SearchedType
    <3> HIDE DEF c
    <3>1. ASSUME NEW chunk \in Chunk \cup {None}, Found(chunk)
          PROVE  gen' \in [Generations -> Generation]
      <4> DEFINE n == gen[g].n + 1
                 found == Append(gen[g].found, chunk)
                 next == [gen[g] EXCEPT !.n = n, !.found = found]
      <4>1. gen' = [gen EXCEPT ![g] = next]
        BY <1>1, <3>1
      <4>2. found \in Seq(Chunk \cup {None}) /\ n \in Nat \ {0}
        BY <1>1 DEF Generation
      <4> HIDE DEF n, found
      <4>3. next \in Generation
        BY <1>1, <4>2 DEF Generation
      <4> QED BY <1>1, <4>1, <4>3
    <3>2. CASE Found(None)
      BY <3>1, <3>2
    <3>3. CASE Fails(g)
      BY <1>1, <1>3, <3>3 DEF Fails
    <3>4. CASE /\ gen[g].handles[c] # None /\ gen[g].handles[c] = IdOf(c)
               /\ \E chunk \in ChunksOf(c) :
                    Found([source |-> chunk[1], file |-> chunk[2],
                           edition |-> chroma[c].chunks[chunk[1]][chunk[2]]])
      <4>1. PICK chunk \in ChunksOf(c) :
                   Found([source |-> chunk[1], file |-> chunk[2],
                          edition |-> chroma[c].chunks[chunk[1]][chunk[2]]])
        BY <3>4
      <4> DEFINE edition == chroma[c].chunks[chunk[1]][chunk[2]]
      <4>2. chunk[1] \in Sources /\ chunk[2] \in Stems /\ edition # None
        BY DEF ChunksOf
      <4>3. edition \in Editions
        <5>1. chroma[c] \in Chunks
          BY <1>1, <3>0, <3>4 DEF IdOf, Indexes
        <5>2. chroma[c].chunks \in Contents
          BY <5>1 DEF Chunks
        <5> QED BY <4>2, <5>2 DEF Contents
      <4> HIDE DEF edition
      <4>4. [source |-> chunk[1], file |-> chunk[2], edition |-> edition] \in Chunk
        BY <4>2, <4>3 DEF Chunk
      <4>5. Found([source |-> chunk[1], file |-> chunk[2], edition |-> edition])
        BY <4>1 DEF edition
      <4> QED BY <3>1, <4>4, <4>5
    <3> QED BY <2>3, <3>2, <3>3, <3>4 DEF Search, c
  <2>4. CASE Finish(g)
    <3>1. Unstarted.handles \in [Collections -> Requests \cup {None}]
      BY DEF Unstarted
    <3> DEFINE handles == Unstarted.handles
               next == [gen[g] EXCEPT !.at = "done", !.handles = handles]
    <3>2. gen' = [gen EXCEPT ![g] = next]
      BY <1>1, <2>4 DEF Finish
    <3> HIDE DEF handles
    <3>3. next \in Generation
      BY <1>1, <3>1 DEF Generation, handles
    <3> QED BY <1>1, <3>2, <3>3
  <2> QED BY <2>1, <2>2, <2>3, <2>4 DEF GenStep
<1> QED BY <1>1, <1>2, <1>4, OthersKeep

(* The index before the first refresh. *)
LEMMA InitKeeps == Init => IInv
<1> SUFFICES ASSUME Init PROVE IInv
  OBVIOUS
<1>1. folders \in Contents
  BY FoldersAssumption DEF Init
<1>2. Idle \in Worker /\ Idle.todo = {} /\ Idle.at = "none"
  BY IdleGood
<1>3. Unstarted \in Generation /\ Unasked \in Viewer /\ Unasked.at = "idle"
  BY DEF Unstarted, Generation, Unasked, Viewer
<1>4. TypeOK
  BY <1>1, <1>2, <1>3 DEF Init, TypeOK
<1>5. \A r \in Requests : Placed(worker[r]) /\ ~InProgress(r)
  <2> TAKE r \in Requests
  <2>1. worker[r] = Idle
    BY DEF Init
  <2> QED BY <1>2, <2>1 DEF Placed, InProgress, HasThread, Indexing
<1>6. Owned /\ \A v \in Viewers : Informed(v)
  BY <1>3, <1>5 DEF Init, Owned, Informed
<1> QED BY <1>4, <1>5, <1>6 DEF IInv

(* Every step keeps the invariant. *)
LEMMA NextKeeps == IInv /\ [Next]_vars => IInv'
<1> SUFFICES ASSUME IInv, [Next]_vars PROVE IInv'
  OBVIOUS
<1>1. ASSUME NEW r \in Requests,
             RequestStep(r) \/ ThreadStep(r) \/ IndexStep(r) \/ ChromaAnswers(r)
      PROVE  IInv'
  BY <1>1, AcceptKeeps, EndKeeps, ThreadKeeps, IndexKeeps DEF RequestStep, ThreadStep
<1>2. CASE EditFiles
  <2>1. folders' \in Contents
    BY <1>2, FoldersAssumption DEF EditFiles
  <2> QED BY <1>2, <2>1, OthersKeep DEF EditFiles, IInv, TypeOK
<1>3. CASE UNCHANGED vars
  BY <1>3, OthersKeep DEF vars, IInv, TypeOK
<1> QED BY <1>1, <1>2, <1>3, ViewerKeeps, GenKeeps, RestartKeeps DEF Next

-----------------------------------------------------------------------------

(* The invariant holds of any number of requests, viewers and generations.  *)
THEOREM Invariance == Spec => []IInv
<1>1. IInv /\ [Next]_vars => IInv'
  BY NextKeeps
<1> QED BY <1>1, InitKeeps, PTL DEF Spec

(* Index, job, workers, viewers and generations have their shape for any    *)
(* manifest: the process never reads past its sources, and never writes     *)
(* into a collection that nobody created.                                   *)
THEOREM TypeCorrect == Spec => []TypeOK
<1>1. IInv => TypeOK
  BY DEF IInv
<1> QED BY <1>1, Invariance, PTL

(* However many requests there are, at most one indexes.                    *)
THEOREM SingleIndexer == Spec => []OneIndexer
<1>1. IInv => OneIndexer
  <2> SUFFICES ASSUME IInv, NEW q \in Requests, NEW r \in Requests, InProgress(q), InProgress(r)
               PROVE  q = r
    BY DEF OneIndexer
  <2> QED BY DEF IInv, Owned, RunsJob
<1> QED BY <1>1, Invariance, PTL

(* Whoever is told that the index is ready is told so while no refresh runs, *)
(* and, unless a refresh began or ended since, all collections are there.   *)
THEOREM Readiness == Spec => ReadyIsTrue
<1>1. ASSUME IInv, [Next]_vars, NEW v \in Viewers,
             viewer[v].at = "listed", viewer'[v].at = "ready"
      PROVE  ~IsRunning /\ (viewer[v].job = job => IsWhole)
  <2>1. viewer[v].whole /\ ~IsRunning
    <3>1. viewer[v] \in Viewer /\ viewer \in [Viewers -> Viewer]
      BY <1>1 DEF IInv, TypeOK
    <3>2. viewer'[v] # viewer[v]
      BY <1>1
    <3>3. CASE Restart
      BY <1>1, <3>3 DEF Restart, Unasked
    <3>4. ASSUME NEW u \in Viewers, ViewerStep(u) PROVE viewer[v].whole /\ ~IsRunning
      <4>1. CASE ListCollections(u)
        <5>1. u # v
          BY <1>1, <4>1 DEF ListCollections
        <5> QED BY <3>1, <3>2, <4>1, <5>1 DEF ListCollections
      <4>2. ASSUME NEW ready \in BOOLEAN, Shows(u, ready) PROVE u = v /\ ready
        BY <1>1, <3>1, <3>2, <4>2 DEF Shows, Unasked
      <4>3. CASE Answer(u)
        <5>1. IsReady(u) \in BOOLEAN
          BY <3>1 DEF IsReady, IsRunning, IInv, TypeOK, Viewer
        <5> QED BY <4>2, <4>3, <5>1 DEF Answer, IsReady
      <4>4. CASE StatusFails(u)
        BY <4>2, <4>4 DEF StatusFails
      <4> QED BY <3>4, <4>1, <4>3, <4>4 DEF ViewerStep
    <3>5. CASE UNCHANGED viewer
      BY <3>2, <3>5
    <3>6. ASSUME NEW r \in Requests, RequestStep(r) \/ ThreadStep(r) \/ ChromaAnswers(r)
          PROVE  UNCHANGED viewer
      BY <3>6 DEF RequestStep, ThreadStep, Accept, StartFails, Goes, StartThread, Spawn, Break,
                  ChromaAnswers, Complete, Fail, End
    <3>7. ASSUME NEW r \in Requests, IndexStep(r) PROVE UNCHANGED viewer
      BY <3>7 DEF IndexStep, SkipSource, OpenSource, DeleteCollection, KeepCollection,
                  CreateCollection, AddFile, LoseFile, CloseSource, Exit, Goes
    <3>8. ASSUME NEW g \in Generations, GenStep(g) PROVE UNCHANGED viewer
      BY <3>8 DEF GenStep, Begin, LoadCollection, Search, Finish
    <3>9. CASE EditFiles \/ UNCHANGED vars
      BY <3>5, <3>9 DEF EditFiles, vars
    <3> QED BY <1>1, <3>3, <3>4, <3>5, <3>6, <3>7, <3>8, <3>9 DEF Next
  <2>2. viewer[v].job = job => IsWhole
    BY <1>1, <2>1 DEF IInv, Informed
  <2> QED BY <2>1, <2>2
<1>2. IInv /\ [Next]_vars =>
        [\A v \in Viewers :
           viewer[v].at = "listed" /\ viewer'[v].at = "ready" =>
             /\ ~IsRunning
             /\ viewer[v].job = job => IsWhole]_vars
  BY <1>1
<1> QED BY <1>2, Invariance, PTL DEF Spec, ReadyIsTrue

-----------------------------------------------------------------------------

(* The collection the k-th source is indexed into. *)
Into(k) == CollectionOf[Manifest[k]]

(* A worker that has begun with a collection. *)
Begun(w, c) ==
  \E k \in 1 .. Len(Manifest) : Into(k) = c /\ (k < w.n \/ (k = w.n /\ w.at = "adding"))

(* Its source is the first one of its collection. *)
First(w) == \A k \in 1 .. w.n - 1 : Into(k) # Into(w.n)

(* A collection of an index holds what the worker has read for it.         *)
Holds(index, w, c) ==
  /\ index[c] # None
  /\ \A q \in Sources, f \in Stems :
       index[c].chunks[q][f] = IF CollectionOf[q] = c THEN w.read[q][f] ELSE None

(* What is still to come has not been read. *)
Unread(w) ==
  \A k \in 1 .. Len(Manifest), f \in Stems :
    w.n < k \/ (w.n = k /\ (w.at # "adding" \/ f \in w.todo)) => w.read[Manifest[k]][f] = None

(* What has been begun with is as it was read, if the old is gone.         *)
Filled(w, index) ==
  \A c \in Collections : Begun(w, c) /\ ~IsMarked(w, {"empty", "kept"}, c) => Holds(index, w, c)

(* The first source of a collection deletes it. *)
Deleted(w, index) ==
  /\ w.at = "delete" => First(w)
  /\ w.at = "create" /\ First(w) =>
       IsMarked(w, {"empty", "kept"}, Into(w.n)) \/ index[Into(w.n)] = None

HasRead(w, s) == \E f \in Stems : w.read[s][f] # None

(* Something was read of every source that is done, unless that is marked. *)
Bearing(w) ==
  \A k \in 1 .. Len(Manifest) :
    k < w.n \/ (k = w.n /\ w.at \in {"delete", "create", "adding"} /\ w.todo = {}) =>
      IsMarked(w, {"empty", "lost"}, Into(k)) \/ HasRead(w, Manifest[k])

Filling(w, index) ==
  /\ Unread(w)
  /\ Filled(w, index)
  /\ Deleted(w, index)
  /\ Bearing(w)
  /\ w.at \in {"exited", "answered", "over"} => w.n > Len(Manifest)

(* The sources of the manifest, each in one place. *)
LEMMA ManifestFacts ==
  /\ Len(Manifest) \in Nat
  /\ \A k \in 1 .. Len(Manifest) : Manifest[k] \in Sources /\ Into(k) \in Collections
  /\ \A j, k \in 1 .. Len(Manifest) : Manifest[j] = Manifest[k] => j = k
  /\ \A s \in Sources : \E k \in 1 .. Len(Manifest) : s = Manifest[k]
<1>1. Manifest \in Seq(Sources) /\ CollectionOf \in [Sources -> Collections]
  BY ManifestAssumption
<1>2. Len(Manifest) \in Nat /\ DOMAIN Manifest = 1 .. Len(Manifest)
  BY <1>1
<1>3. \A k \in 1 .. Len(Manifest) : Manifest[k] \in Sources /\ Into(k) \in Collections
  BY <1>1 DEF Into
<1>4. \A j, k \in 1 .. Len(Manifest) : Manifest[j] = Manifest[k] => j = k
  BY <1>2, SourcesAssumption DEF IsInjective
<1>5. \A s \in Sources : \E k \in 1 .. Len(Manifest) : s = Manifest[k]
  BY <1>2 DEF Sources, ToSet
<1> QED BY <1>2, <1>3, <1>4, <1>5

(* Marks are only ever added. *)
LEMMA MarksStay ==
  ASSUME NEW w, NEW v, w.marks \subseteq v.marks, NEW kinds, NEW c, IsMarked(w, kinds, c)
  PROVE  IsMarked(v, kinds, c)
BY DEF IsMarked

(* A mark counts for the collection of its source. *)
LEMMA MarkCounts ==
  ASSUME NEW w, NEW kind, NEW kinds, kind \in kinds, NEW s, <<kind, s>> \in w.marks
  PROVE  IsMarked(w, kinds, CollectionOf[s])
BY DEF IsMarked

(* A worker that goes on between two sources. *)
LEMMA MoveFills ==
  ASSUME NEW w \in Worker, NEW v \in Worker, NEW index, Filling(w, index),
         w.at \in {"accepted", "started", "source", "exited", "answered"},
         v.at \in {"started", "source", "exited", "answered", "over"},
         v.n = w.n, v.todo = w.todo, v.read = w.read, v.marks = w.marks,
         v.at \in {"exited", "answered", "over"} => w.n > Len(Manifest)
  PROVE  Filling(v, index)
<1>1. Unread(v)
  BY DEF Filling, Unread
<1>2. Filled(v, index)
  BY DEF Filling, Filled, Begun, Holds, IsMarked
<1>3. Deleted(v, index)
  BY DEF Deleted
<1>4. Bearing(v)
  BY DEF Filling, Bearing, HasRead, IsMarked
<1> QED BY <1>1, <1>2, <1>3, <1>4 DEF Filling

(* A source without files. *)
LEMMA SkipFills ==
  ASSUME NEW w \in Worker, NEW v \in Worker, NEW index, Filling(w, index), w.n <= Len(Manifest),
         w.at = "source", v.at = "source", v.n = w.n + 1, v.todo = w.todo, v.read = w.read,
         v.marks = w.marks \cup {<<"empty", Manifest[w.n]>>}
  PROVE  Filling(v, index)
<1>1. w.n \in 1 .. Len(Manifest)
  BY ManifestFacts DEF Worker
<1>2. Unread(v)
  BY <1>1, ManifestFacts DEF Filling, Unread
<1>3. /\ IsMarked(v, {"empty", "kept"}, Into(w.n))
      /\ IsMarked(v, {"empty", "lost"}, Into(w.n))
  BY MarkCounts DEF Into
<1>4. Filled(v, index)
  <2> SUFFICES ASSUME NEW c \in Collections, Begun(v, c), ~IsMarked(v, {"empty", "kept"}, c)
               PROVE  Holds(index, v, c)
    BY DEF Filled
  <2>1. ~IsMarked(w, {"empty", "kept"}, c)
    BY MarksStay
  <2>2. Begun(w, c)
    BY <1>1, <1>3, ManifestFacts DEF Begun
  <2>3. Holds(index, w, c)
    BY <2>1, <2>2 DEF Filling, Filled
  <2> QED BY <2>3 DEF Holds
<1>5. Deleted(v, index)
  BY DEF Deleted
<1>6. Bearing(v)
  <2> SUFFICES ASSUME NEW k \in 1 .. Len(Manifest), k < v.n
               PROVE  IsMarked(v, {"empty", "lost"}, Into(k)) \/ HasRead(v, Manifest[k])
    BY DEF Bearing
  <2>1. CASE k = w.n
    BY <1>3, <2>1
  <2>2. CASE k # w.n
    <3>1. k < w.n
      BY <1>1, <2>2, ManifestFacts
    <3>2. IsMarked(w, {"empty", "lost"}, Into(k)) \/ HasRead(w, Manifest[k])
      BY <3>1 DEF Filling, Bearing
    <3> QED BY <3>2, MarksStay DEF HasRead
  <2> QED BY <2>1, <2>2
<1> QED BY <1>2, <1>4, <1>5, <1>6 DEF Filling

(* A source whose files are looked up. *)
LEMMA OpenFills ==
  ASSUME NEW w \in Worker, NEW v \in Worker, NEW index, Filling(w, index), w.n <= Len(Manifest),
         w.at = "source", v.at = IF First(w) THEN "delete" ELSE "create",
         v.n = w.n, v.todo # {}, v.read = w.read, v.marks = w.marks
  PROVE  Filling(v, index)
<1>1. Unread(v)
  BY DEF Filling, Unread
<1>2. Filled(v, index)
  BY DEF Filling, Filled, Begun, Holds, IsMarked
<1>3. Deleted(v, index)
  BY DEF Deleted, First
<1>4. Bearing(v)
  BY DEF Filling, Bearing, HasRead, IsMarked
<1> QED BY <1>1, <1>2, <1>3, <1>4 DEF Filling

(* The old collection goes. *)
LEMMA DeleteFills ==
  ASSUME NEW w \in Worker, NEW v \in Worker, NEW index \in Indexes, NEW jndex, Filling(w, index),
         w.n <= Len(Manifest), w.at = "delete", v.at = "create",
         v.n = w.n, v.todo = w.todo, v.read = w.read, v.marks = w.marks,
         jndex = [index EXCEPT ![Into(w.n)] = None]
  PROVE  Filling(v, jndex)
<1>1. Unread(v)
  BY DEF Filling, Unread
<1>2. First(w) /\ w.n \in 1 .. Len(Manifest)
  BY ManifestFacts DEF Filling, Deleted, Worker
<1>3. Filled(v, jndex)
  <2> SUFFICES ASSUME NEW c \in Collections, Begun(v, c), ~IsMarked(v, {"empty", "kept"}, c)
               PROVE  Holds(jndex, v, c)
    BY DEF Filled
  <2>1. Begun(w, c) /\ ~IsMarked(w, {"empty", "kept"}, c)
    BY DEF Begun, IsMarked
  <2>2. c # Into(w.n)
    BY <1>2, <2>1, ManifestFacts DEF Begun, First
  <2>3. jndex[c] = index[c]
    BY <2>2 DEF Indexes
  <2>4. Holds(index, w, c)
    BY <2>1 DEF Filling, Filled
  <2> QED BY <2>3, <2>4 DEF Holds
<1>4. Deleted(v, jndex)
  BY <1>2, ManifestFacts DEF Deleted, Indexes
<1>5. Bearing(v)
  BY DEF Filling, Bearing, HasRead, IsMarked
<1> QED BY <1>1, <1>3, <1>4, <1>5 DEF Filling

(* The old collection stays. *)
LEMMA KeepFills ==
  ASSUME NEW w \in Worker, NEW v \in Worker, NEW index, Filling(w, index), w.n <= Len(Manifest),
         w.at = "delete", v.at = "create", v.n = w.n, v.todo = w.todo, v.read = w.read,
         v.marks = w.marks \cup {<<"kept", Manifest[w.n]>>}
  PROVE  Filling(v, index)
<1>1. Unread(v)
  BY DEF Filling, Unread
<1>2. Filled(v, index)
  <2> SUFFICES ASSUME NEW c \in Collections, Begun(v, c), ~IsMarked(v, {"empty", "kept"}, c)
               PROVE  Holds(index, v, c)
    BY DEF Filled
  <2>1. Begun(w, c) /\ ~IsMarked(w, {"empty", "kept"}, c)
    BY MarksStay DEF Begun
  <2>2. Holds(index, w, c)
    BY <2>1 DEF Filling, Filled
  <2> QED BY <2>2 DEF Holds
<1>3. Deleted(v, index)
  BY MarkCounts DEF Deleted, Into
<1>4. Bearing(v)
  BY MarksStay DEF Filling, Bearing, HasRead
<1> QED BY <1>1, <1>2, <1>3, <1>4 DEF Filling

(* The collection is there again: empty, if it was gone. *)
LEMMA CreateFills ==
  ASSUME NEW w \in Worker, NEW v \in Worker, NEW index \in Indexes, NEW jndex, NEW r \in Requests,
         Filling(w, index), w.n <= Len(Manifest), w.at = "create", v.at = "adding",
         v.n = w.n, v.todo = w.todo, v.read = w.read, v.marks = w.marks,
         jndex = [index EXCEPT ![Into(w.n)] =
                    IF index[Into(w.n)] = None THEN [id |-> r, chunks |-> Empty]
                    ELSE index[Into(w.n)]]
  PROVE  Filling(v, jndex)
<1>1. Unread(v)
  BY DEF Filling, Unread
<1>2. w.n \in 1 .. Len(Manifest) /\ Into(w.n) \in Collections
  BY ManifestFacts DEF Worker
<1>3. Filled(v, jndex)
  <2> SUFFICES ASSUME NEW c \in Collections, Begun(v, c), ~IsMarked(v, {"empty", "kept"}, c)
               PROVE  Holds(jndex, v, c)
    BY DEF Filled
  <2>1. ~IsMarked(w, {"empty", "kept"}, c)
    BY DEF IsMarked
  <2>2. CASE Begun(w, c)
    <3>1. Holds(index, w, c)
      BY <2>1, <2>2 DEF Filling, Filled
    <3>2. jndex[c] = index[c]
      BY <1>2, <3>1 DEF Indexes, Holds
    <3> QED BY <3>1, <3>2 DEF Holds
  <2>3. CASE ~Begun(w, c)
    <3>1. c = Into(w.n)
      BY <2>3 DEF Begun
    <3>2. First(w)
      BY <1>2, <2>3, <3>1, ManifestFacts DEF Begun, First
    <3>3. index[c] = None
      BY <2>1, <3>1, <3>2 DEF Filling, Deleted
    <3>4. jndex[c] = [id |-> r, chunks |-> Empty]
      BY <1>2, <3>1, <3>3 DEF Indexes
    <3>5. jndex[c] \in Chunks /\ jndex[c].chunks = Empty
      BY <3>4 DEF Chunks, Empty, Contents
    <3>6. jndex[c] # None
      BY <3>5, NoneAssumption
    <3>7. ASSUME NEW q \in Sources, NEW f \in Stems, CollectionOf[q] = c PROVE w.read[q][f] = None
      <4>1. PICK k \in 1 .. Len(Manifest) : q = Manifest[k]
        BY ManifestFacts
      <4>2. w.n <= k
        BY <1>2, <3>1, <3>2, <3>7, <4>1, ManifestFacts DEF First, Into
      <4> QED BY <1>2, <4>1, <4>2, ManifestFacts DEF Filling, Unread
    <3>8. \A q \in Sources, f \in Stems : jndex[c].chunks[q][f] = None
      BY <3>5 DEF Empty
    <3> QED BY <3>6, <3>7, <3>8 DEF Holds
  <2> QED BY <2>2, <2>3
<1>4. Deleted(v, jndex)
  BY DEF Deleted
<1>5. Bearing(v)
  BY DEF Filling, Bearing, HasRead, IsMarked
<1> QED BY <1>1, <1>3, <1>4, <1>5 DEF Filling

(* What a worker and an index are after a file was read and added. *)
Adds(w, v, index, jndex, f, edition) ==
  LET s == Manifest[w.n]
      c == Into(w.n)
  IN
  /\ w.at = "adding" /\ v.at = "adding" /\ v.n = w.n /\ v.todo = w.todo \ {f}
  /\ w.marks \subseteq v.marks
  /\ \A q \in Sources, g \in Stems :
       v.read[q][g] = IF q = s /\ g = f THEN edition ELSE w.read[q][g]
  /\ \A d \in Collections \ {c} : jndex[d] = index[d]
  /\ jndex[c] # None
  /\ \A q \in Sources, g \in Stems :
       jndex[c].chunks[q][g] = IF q = s /\ g = f /\ index[c].chunks[s][f] = None THEN edition
                               ELSE index[c].chunks[q][g]

(* A file is read and added. *)
LEMMA AddFills ==
  ASSUME NEW w \in Worker, NEW v, NEW index, NEW jndex, Filling(w, index), w.n <= Len(Manifest),
         NEW f \in w.todo, NEW edition \in Editions, Adds(w, v, index, jndex, f, edition)
  PROVE  Filling(v, jndex)
<1> DEFINE s == Manifest[w.n]
<1>0. /\ w.at = "adding" /\ v.at = "adding" /\ v.n = w.n /\ v.todo = w.todo \ {f}
      /\ w.marks \subseteq v.marks
      /\ \A q \in Sources, g \in Stems :
           v.read[q][g] = IF q = s /\ g = f THEN edition ELSE w.read[q][g]
      /\ \A c \in Collections \ {Into(w.n)} : jndex[c] = index[c]
      /\ jndex[Into(w.n)] # None
      /\ \A q \in Sources, g \in Stems :
           jndex[Into(w.n)].chunks[q][g] =
             IF q = s /\ g = f /\ index[Into(w.n)].chunks[s][f] = None THEN edition
             ELSE index[Into(w.n)].chunks[q][g]
  BY DEF Adds
<1>1. w.n \in 1 .. Len(Manifest) /\ s \in Sources /\ CollectionOf[s] = Into(w.n)
  BY <1>0, ManifestFacts DEF Worker, Into
<1>2. f \in Stems /\ edition # None
  BY <1>0, NoneAssumption DEF Worker
<1>3. Unread(v)
  <2> SUFFICES ASSUME NEW k \in 1 .. Len(Manifest), NEW g \in Stems,
                      w.n < k \/ (w.n = k /\ g \in w.todo \ {f})
               PROVE  v.read[Manifest[k]][g] = None
    BY <1>0 DEF Unread
  <2>1. Manifest[k] \in Sources /\ ~ (Manifest[k] = s /\ g = f)
    BY <1>0, <1>1, ManifestFacts
  <2>2. w.read[Manifest[k]][g] = None
    BY <1>0 DEF Filling, Unread
  <2> QED BY <1>0, <2>1, <2>2
<1>4. Filled(v, jndex)
  <2> SUFFICES ASSUME NEW c \in Collections, Begun(v, c), ~IsMarked(v, {"empty", "kept"}, c)
               PROVE  Holds(jndex, v, c)
    BY <1>0 DEF Filled
  <2>0. Begun(w, c) /\ ~IsMarked(w, {"empty", "kept"}, c)
    BY <1>0, MarksStay DEF Begun
  <2>1. Holds(index, w, c)
    BY <2>0 DEF Filling, Filled
  <2>2. index[c] # None /\ \A q \in Sources, g \in Stems :
          index[c].chunks[q][g] = IF CollectionOf[q] = c THEN w.read[q][g] ELSE None
    BY <1>0, <2>1 DEF Holds
  <2>3. \A q \in Sources, g \in Stems :
          jndex[c].chunks[q][g] = IF CollectionOf[q] = c THEN v.read[q][g] ELSE None
    <3>1. CASE c # Into(w.n)
      <4>1. \A q \in Sources, g \in Stems : CollectionOf[q] = c => v.read[q][g] = w.read[q][g]
        BY <1>0, <1>1, <3>1
      <4> QED BY <1>0, <2>2, <3>1, <4>1
    <3>2. CASE c = Into(w.n)
      <4>1. w.read[s][f] = None
        BY <1>0, <1>1, <1>2 DEF Filling, Unread
      <4>2. index[c].chunks[s][f] = None
        BY <1>0, <1>1, <1>2, <2>2, <4>1
      <4> QED BY <1>0, <1>1, <2>2, <3>2, <4>2
    <3> QED BY <1>0, <3>1, <3>2
  <2>4. jndex[c] # None
    BY <1>0, <2>2
  <2> QED BY <1>0, <2>3, <2>4 DEF Holds
<1>5. Deleted(v, jndex)
  BY <1>0 DEF Deleted
<1>6. Bearing(v)
  <2> SUFFICES ASSUME NEW k \in 1 .. Len(Manifest), k < w.n \/ k = w.n
               PROVE  IsMarked(v, {"empty", "lost"}, Into(k)) \/ HasRead(v, Manifest[k])
    BY <1>0 DEF Bearing
  <2>1. CASE k = w.n
    BY <1>0, <1>1, <1>2, <2>1 DEF HasRead
  <2>2. CASE k # w.n
    <3>1. IsMarked(w, {"empty", "lost"}, Into(k)) \/ HasRead(w, Manifest[k])
      BY <1>0, <2>2 DEF Filling, Bearing
    <3>2. Manifest[k] # s /\ Manifest[k] \in Sources
      BY <1>0, <1>1, <2>2, ManifestFacts
    <3>3. CASE IsMarked(w, {"empty", "lost"}, Into(k))
      BY <1>0, <3>3, MarksStay
    <3>4. CASE HasRead(w, Manifest[k])
      BY <1>0, <3>2, <3>4 DEF HasRead
    <3> QED BY <3>1, <3>3, <3>4
  <2> QED BY <1>0, <2>1, <2>2
<1> QED BY <1>0, <1>3, <1>4, <1>5, <1>6 DEF Filling

(* A file is lost. *)
LEMMA LoseFills ==
  ASSUME NEW w \in Worker, NEW v \in Worker, NEW index, Filling(w, index), w.n <= Len(Manifest),
         w.at = "adding", v.at = "adding", NEW f \in w.todo,
         v.n = w.n, v.todo = w.todo \ {f}, v.read = w.read,
         v.marks = w.marks \cup {<<"lost", Manifest[w.n]>>}
  PROVE  Filling(v, index)
<1>1. Unread(v)
  BY DEF Filling, Unread
<1>2. Filled(v, index)
  <2> SUFFICES ASSUME NEW c \in Collections, Begun(v, c), ~IsMarked(v, {"empty", "kept"}, c)
               PROVE  Holds(index, v, c)
    BY DEF Filled
  <2>1. Begun(w, c) /\ ~IsMarked(w, {"empty", "kept"}, c)
    BY MarksStay DEF Begun
  <2>2. Holds(index, w, c)
    BY <2>1 DEF Filling, Filled
  <2> QED BY <2>2 DEF Holds
<1>3. Deleted(v, index)
  BY DEF Deleted
<1>4. Bearing(v)
  <2> SUFFICES ASSUME NEW k \in 1 .. Len(Manifest), k < w.n \/ k = w.n
               PROVE  IsMarked(v, {"empty", "lost"}, Into(k)) \/ HasRead(v, Manifest[k])
    BY DEF Bearing
  <2>1. CASE k = w.n
    BY <2>1, MarkCounts DEF Into
  <2>2. CASE k # w.n
    <3>1. IsMarked(w, {"empty", "lost"}, Into(k)) \/ HasRead(w, Manifest[k])
      BY <2>2 DEF Filling, Bearing
    <3> QED BY <3>1, MarksStay DEF HasRead
  <2> QED BY <2>1, <2>2
<1> QED BY <1>1, <1>2, <1>3, <1>4 DEF Filling

(* A source is done. *)
LEMMA CloseFills ==
  ASSUME NEW w \in Worker, NEW v \in Worker, NEW index, Filling(w, index), w.n <= Len(Manifest),
         w.at = "adding", w.todo = {}, v.at = "source", v.n = w.n + 1,
         v.todo = w.todo, v.read = w.read, v.marks = w.marks
  PROVE  Filling(v, index)
<1>1. w.n \in 1 .. Len(Manifest)
  BY ManifestFacts DEF Worker
<1>2. Unread(v)
  BY <1>1, ManifestFacts DEF Filling, Unread
<1>3. Filled(v, index)
  <2> SUFFICES ASSUME NEW c \in Collections, Begun(v, c), ~IsMarked(v, {"empty", "kept"}, c)
               PROVE  Holds(index, v, c)
    BY DEF Filled
  <2>1. Begun(w, c)
    BY <1>1, ManifestFacts DEF Begun
  <2>2. Holds(index, w, c)
    BY <2>1 DEF Filling, Filled, IsMarked
  <2> QED BY <2>2 DEF Holds
<1>4. Deleted(v, index)
  BY DEF Deleted
<1>5. Bearing(v)
  <2> SUFFICES ASSUME NEW k \in 1 .. Len(Manifest), k < v.n
               PROVE  IsMarked(v, {"empty", "lost"}, Into(k)) \/ HasRead(v, Manifest[k])
    BY DEF Bearing
  <2>1. k < w.n \/ k = w.n
    BY <1>1, ManifestFacts
  <2>2. IsMarked(w, {"empty", "lost"}, Into(k)) \/ HasRead(w, Manifest[k])
    BY <2>1 DEF Filling, Bearing
  <2> QED BY <2>2, MarksStay DEF HasRead
<1> QED BY <1>2, <1>3, <1>4, <1>5 DEF Filling
-----------------------------------------------------------------------------

(* Whose marks and reads count: who works on the index, unless the process *)
(* has broken off, and who has completed the last refresh.                 *)
Counts(r) == (InProgress(r) /\ worker[r].at # "broken") \/ LastRefresh = r

AsRead == \A r \in Requests : Counts(r) => Filling(worker[r], chroma)

(* Whoever has completed the last refresh is over. *)
LEMMA LastIsOver ==
  ASSUME IInv, LastRefresh # None
  PROVE  /\ LastRefresh \in Requests /\ job # None /\ job.status # "running"
         /\ LastRefresh = job.id /\ worker[LastRefresh].at = "over"
         /\ \A r \in Requests : ~InProgress(r)
<1>1. job # None /\ job.status = "completed" /\ LastRefresh = job.id
  BY DEF LastRefresh
<1>2. \A r \in Requests : ~InProgress(r)
  BY <1>1 DEF IInv, Owned, RunsJob
<1> QED BY <1>1, <1>2, DoneIsOver

(* While a refresh runs, none is the last one. *)
LEMMA NoneIsLast ==
  ASSUME IInv, NEW r \in Requests, InProgress(r)
  PROVE  /\ job # None /\ job.id = r /\ job.status = "running" /\ LastRefresh = None
         /\ \A q \in Requests : InProgress(q) => q = r
BY DEF IInv, Owned, RunsJob, LastRefresh

(* The one who works on the index is the only one who counts.              *)
LEMMA WorkerCounts ==
  ASSUME IInv, AsRead, NEW r \in Requests, InProgress(r), NEW v, UNCHANGED job,
         worker' = [worker EXCEPT ![r] = v],
         v.at # "broken" => Filling(v, chroma')
  PROVE  AsRead'
<1>1. worker \in [Requests -> Worker] /\ None \notin Requests
  BY NoneAssumption DEF IInv, TypeOK
<1>2. LastRefresh' = None /\ \A q \in Requests : InProgress(q) => q = r
  BY NoneIsLast DEF LastRefresh
<1> SUFFICES ASSUME NEW q \in Requests, Counts(q)' PROVE Filling(worker'[q], chroma')
  BY DEF AsRead
<1>3. q = r
  BY <1>1, <1>2 DEF Counts, InProgress, HasThread
<1>4. worker'[r] = v
  BY <1>1
<1>5. v.at # "broken"
  BY <1>1, <1>2, <1>3, <1>4 DEF Counts
<1> QED BY <1>3, <1>4, <1>5

(* The steps of the indexing process. *)
LEMMA IndexReads ==
  ASSUME IInv, AsRead, NEW r \in Requests, IndexStep(r)
  PROVE  AsRead'
<1> DEFINE w == worker[r]
           v == worker'[r]
<1>1. /\ worker \in [Requests -> Worker] /\ w \in Worker /\ Placed(w)
      /\ chroma \in Indexes /\ folders \in Contents
  BY DEF IInv, TypeOK, Indexes
<1>2. v \in Worker
  BY IndexKeeps DEF IInv, TypeOK
<1>3. InProgress(r) /\ UNCHANGED job /\ w.at \in Indexing
  BY DEF IndexStep, SkipSource, OpenSource, DeleteCollection, KeepCollection, CreateCollection,
         AddFile, LoseFile, CloseSource, Exit, Goes, InProgress, HasThread, Indexing
<1>4. Filling(w, chroma)
  BY <1>3 DEF AsRead, Counts, Indexing
<1>5. SUFFICES worker' = [worker EXCEPT ![r] = v] /\ Filling(v, chroma')
  BY <1>3, WorkerCounts
<1>6. Target(r) = Into(w.n) /\ Source(r) = Manifest[w.n]
  BY DEF Target, Source, Into
<1>7. CASE SkipSource(r)
  <2>1. /\ worker' = [worker EXCEPT ![r] = v] /\ chroma' = chroma
        /\ w.at = "source" /\ w.n <= Len(Manifest)
        /\ v.at = "source" /\ v.n = w.n + 1 /\ v.todo = w.todo /\ v.read = w.read
        /\ v.marks = w.marks \cup {<<"empty", Manifest[w.n]>>}
    BY <1>1, <1>6, <1>7 DEF SkipSource, Marked, Worker
  <2> QED BY <1>1, <1>2, <1>4, <2>1, SkipFills
<1>8. CASE OpenSource(r)
  <2>1. DeletesFirst(r) <=> First(w)
    BY <1>6 DEF DeletesFirst, First, Into
  <2>2. /\ worker' = [worker EXCEPT ![r] = v] /\ chroma' = chroma
        /\ w.at = "source" /\ w.n <= Len(Manifest)
        /\ v.at = (IF First(w) THEN "delete" ELSE "create")
        /\ v.n = w.n /\ v.todo # {} /\ v.read = w.read /\ v.marks = w.marks
    BY <1>1, <1>8, <2>1 DEF OpenSource, Worker
  <2> QED BY <1>1, <1>2, <1>4, <2>2, OpenFills
<1>9. CASE DeleteCollection(r)
  <2>1. /\ worker' = [worker EXCEPT ![r] = v]
        /\ chroma' = [chroma EXCEPT ![Into(w.n)] = None]
        /\ w.at = "delete" /\ v.at = "create"
        /\ v.n = w.n /\ v.todo = w.todo /\ v.read = w.read /\ v.marks = w.marks
    BY <1>1, <1>6, <1>9 DEF DeleteCollection, Worker
  <2>2. w.n <= Len(Manifest)
    BY <1>1, <2>1 DEF Placed
  <2> QED BY <1>1, <1>2, <1>4, <2>1, <2>2, DeleteFills
<1>10. CASE KeepCollection(r)
  <2>1. /\ worker' = [worker EXCEPT ![r] = v] /\ chroma' = chroma
        /\ w.at = "delete" /\ v.at = "create"
        /\ v.n = w.n /\ v.todo = w.todo /\ v.read = w.read
        /\ v.marks = w.marks \cup {<<"kept", Manifest[w.n]>>}
    BY <1>1, <1>6, <1>10 DEF KeepCollection, Marked, Worker
  <2>2. w.n <= Len(Manifest)
    BY <1>1, <2>1 DEF Placed
  <2> QED BY <1>1, <1>2, <1>4, <2>1, <2>2, KeepFills
<1>11. CASE CreateCollection(r)
  <2>1. /\ worker' = [worker EXCEPT ![r] = v]
        /\ chroma' = [chroma EXCEPT ![Into(w.n)] =
                        IF chroma[Into(w.n)] = None THEN [id |-> r, chunks |-> Empty]
                        ELSE chroma[Into(w.n)]]
        /\ w.at = "create" /\ v.at = "adding"
        /\ v.n = w.n /\ v.todo = w.todo /\ v.read = w.read /\ v.marks = w.marks
    BY <1>1, <1>6, <1>11 DEF CreateCollection, Worker
  <2>2. w.n <= Len(Manifest)
    BY <1>1, <2>1 DEF Placed
  <2> QED BY <1>1, <1>2, <1>4, <2>1, <2>2, CreateFills
<1>12. CASE AddFile(r)
  <2> DEFINE s == Manifest[w.n]
             c == Into(w.n)
  <2>1. PICK f \in w.todo, marks \in {w.marks, w.marks \cup {<<"lost", s>>}} :
          /\ w.at = "adding" /\ folders[s][f] # None /\ IdOf(c) = w.handle
          /\ chroma' = [chroma EXCEPT ![c].chunks = Added(@, s, f, folders[s][f])]
          /\ worker' = [worker EXCEPT ![r].todo = @ \ {f}, ![r].read[s][f] = folders[s][f],
                                      ![r].marks = marks]
    BY <1>6, <1>12 DEF AddFile, Marked
  <2> DEFINE edition == folders[s][f]
  <2>2. w.n <= Len(Manifest) /\ w.handle \in Requests
    BY <1>1, <2>1 DEF Placed
  <2>3. s \in Sources /\ c \in Collections /\ f \in Stems /\ w.read \in Contents
    BY <1>1, <2>2, ManifestFacts DEF Worker
  <2>4. edition \in Editions
    BY <1>1, <2>1, <2>3 DEF Contents
  <2>5. chroma[c] \in Chunks
    <3>1. chroma[c] # None
      BY <2>1, <2>2, NoneAssumption DEF IdOf
    <3> QED BY <1>1, <2>3, <3>1 DEF Indexes
  <2> DEFINE read == [w.read EXCEPT ![s][f] = edition]
             chunks == Added(chroma[c].chunks, s, f, edition)
  <2>6. /\ worker' = [worker EXCEPT ![r] = v]
        /\ v.at = "adding" /\ v.n = w.n /\ v.todo = w.todo \ {f} /\ w.marks \subseteq v.marks
        /\ v.read = read
    BY <1>1, <2>1 DEF Worker
  <2>7. \A q \in Sources, g \in Stems :
          read[q][g] = IF q = s /\ g = f THEN edition ELSE w.read[q][g]
    BY <2>3 DEF Contents
  <2>8. chroma[c].chunks \in Contents
    BY <2>5 DEF Chunks
  <2>9. /\ chunks \in Contents
        /\ \A q \in Sources, g \in Stems :
             chunks[q][g] = IF q = s /\ g = f /\ chroma[c].chunks[s][f] = None THEN edition
                            ELSE chroma[c].chunks[q][g]
    BY <2>3, <2>4, <2>8 DEF Added, Contents
  <2>10. chroma' = [chroma EXCEPT ![c].chunks = chunks]
    BY <2>1
  <2> HIDE DEF edition, read, chunks
  <2>11. /\ \A d \in Collections \ {c} : chroma'[d] = chroma[d]
         /\ chroma'[c] \in Chunks /\ chroma'[c].chunks = chunks
    BY <1>1, <2>3, <2>5, <2>9, <2>10 DEF Indexes, Chunks
  <2>12. chroma'[c] # None
    BY <2>11, NoneAssumption
  <2>13. Adds(w, v, chroma, chroma', f, edition)
    BY <1>6, <2>1, <2>6, <2>7, <2>9, <2>11, <2>12 DEF Adds
  <2>14. w \in Worker /\ Filling(w, chroma) /\ w.n <= Len(Manifest) /\ f \in w.todo
    BY <1>1, <1>4, <2>2
  <2> HIDE DEF w, v, c, s
  <2>15. Filling(v, chroma')
    BY <2>4, <2>13, <2>14, AddFills
  <2> QED BY <2>6, <2>15
<1>13. CASE LoseFile(r)
  <2>1. PICK f \in w.todo :
          /\ w.at = "adding" /\ chroma' = chroma
          /\ worker' = [worker EXCEPT ![r].todo = @ \ {f}, ![r].marks = Marked(r, "lost")]
    BY <1>13 DEF LoseFile
  <2>2. /\ worker' = [worker EXCEPT ![r] = v]
        /\ v.at = "adding" /\ v.n = w.n /\ v.todo = w.todo \ {f} /\ v.read = w.read
        /\ v.marks = w.marks \cup {<<"lost", Manifest[w.n]>>}
    BY <1>1, <1>6, <2>1 DEF Marked, Worker
  <2>3. w.n <= Len(Manifest)
    BY <1>1, <2>1 DEF Placed
  <2> QED BY <1>1, <1>2, <1>4, <2>1, <2>2, <2>3, LoseFills
<1>14. CASE CloseSource(r)
  <2>1. /\ worker' = [worker EXCEPT ![r] = v] /\ chroma' = chroma
        /\ w.at = "adding" /\ w.todo = {} /\ v.at = "source" /\ v.n = w.n + 1
        /\ v.todo = w.todo /\ v.read = w.read /\ v.marks = w.marks
    BY <1>1, <1>14 DEF CloseSource, Worker
  <2>2. w.n <= Len(Manifest)
    BY <1>1, <2>1 DEF Placed
  <2> QED BY <1>1, <1>2, <1>4, <2>1, <2>2, CloseFills
<1>15. CASE Exit(r)
  <2>1. /\ worker' = [worker EXCEPT ![r] = v] /\ chroma' = chroma
        /\ w.at = "source" /\ v.at = "exited" /\ w.n > Len(Manifest)
        /\ v.n = w.n /\ v.todo = w.todo /\ v.read = w.read /\ v.marks = w.marks
    BY <1>1, <1>15 DEF Exit, Goes, Worker
  <2> QED BY <1>1, <1>2, <1>4, <2>1, MoveFills
<1> QED
  BY <1>7, <1>8, <1>9, <1>10, <1>11, <1>12, <1>13, <1>14, <1>15 DEF IndexStep

(* The steps of the thread. *)
LEMMA ThreadReads ==
  ASSUME IInv, AsRead, NEW r \in Requests, ThreadStep(r) \/ ChromaAnswers(r)
  PROVE  AsRead'
<1> DEFINE w == worker[r]
           v == worker'[r]
<1>1. worker \in [Requests -> Worker] /\ w \in Worker /\ None \notin Requests
  BY NoneAssumption DEF IInv, TypeOK
<1>2. v \in Worker
  BY ThreadKeeps, EndKeeps DEF ThreadStep, IInv, TypeOK
<1>3. InProgress(r)
  BY DEF ThreadStep, StartThread, Spawn, Break, Complete, Fail, ChromaAnswers, InProgress, HasThread
<1>4. w.at # "broken" => Filling(w, chroma)
  BY <1>3 DEF AsRead, Counts
<1>5. CASE StartThread(r) \/ Spawn(r)
  <2>1. /\ worker' = [worker EXCEPT ![r] = v] /\ UNCHANGED <<chroma, job>>
        /\ w.at \in {"accepted", "started"} /\ v.at \in {"started", "source"}
        /\ v.n = w.n /\ v.todo = w.todo /\ v.read = w.read /\ v.marks = w.marks
    BY <1>1, <1>5 DEF StartThread, Spawn, Goes, Worker
  <2>2. Filling(v, chroma')
    BY <1>1, <1>2, <1>4, <2>1, MoveFills
  <2> QED BY <1>3, <2>1, <2>2, WorkerCounts
<1>6. CASE Break(r)
  <2>1. worker' = [worker EXCEPT ![r] = v] /\ UNCHANGED job /\ v.at = "broken"
    BY <1>1, <1>6 DEF Break, Idle
  <2> QED BY <1>3, <2>1, WorkerCounts
<1>7. CASE Complete(r) \/ Fail(r)
  <2>1. /\ worker' = [worker EXCEPT ![r] = v] /\ chroma' = chroma
        /\ v.at = "over" /\ v.n = w.n /\ v.todo = w.todo /\ v.read = w.read /\ v.marks = w.marks
    BY <1>1, <1>7 DEF Complete, Fail, End, Goes, Worker
  <2>2. LastRefresh' \in {r, None} /\ (LastRefresh' = r => Complete(r))
    <3>1. job # None /\ job.id = r /\ job \in Job
      BY <1>3, NoneIsLast DEF IInv, TypeOK
    <3>2. CASE Complete(r)
      BY <3>1, <3>2 DEF Complete, End, LastRefresh, Job
    <3>3. CASE Fail(r)
      <4>1. job'.status = "failed"
        BY <3>1, <3>3 DEF Fail, End, Job
      <4> QED BY <1>1, <4>1 DEF LastRefresh
    <3> QED BY <1>7, <3>2, <3>3
  <2> SUFFICES ASSUME NEW q \in Requests, Counts(q)' PROVE Filling(worker'[q], chroma')
    BY DEF AsRead
  <2>3. q = r /\ LastRefresh' = r
    <3>1. ~InProgress(q)'
      <4>1. CASE q = r
        BY <2>1, <4>1 DEF InProgress, HasThread, Indexing
      <4>2. CASE q # r
        BY <1>1, <1>3, <2>1, <4>2, NoneIsLast DEF InProgress, HasThread
      <4> QED BY <4>1, <4>2
    <3> QED BY <1>1, <2>2, <3>1 DEF Counts
  <2>4. Complete(r)
    BY <2>2, <2>3
  <2>5. w.at = "answered" /\ Filling(w, chroma)
    BY <1>4, <2>4 DEF Complete
  <2>6. w.n > Len(Manifest)
    BY <2>5 DEF Filling
  <2> QED BY <1>1, <1>2, <2>1, <2>3, <2>5, <2>6, MoveFills
<1>8. CASE ChromaAnswers(r)
  <2>1. /\ worker' = [worker EXCEPT ![r] = v] /\ UNCHANGED <<chroma, job>>
        /\ w.at = "exited" /\ v.at = "answered"
        /\ v.n = w.n /\ v.todo = w.todo /\ v.read = w.read /\ v.marks = w.marks
    BY <1>1, <1>8 DEF ChromaAnswers, Goes, Worker
  <2>2. w.n > Len(Manifest)
    BY <1>4, <2>1 DEF Filling
  <2>3. Filling(v, chroma')
    BY <1>1, <1>2, <1>4, <2>1, <2>2, MoveFills
  <2> QED BY <1>3, <2>1, <2>3, WorkerCounts
<1> QED BY <1>5, <1>6, <1>7, <1>8 DEF ThreadStep

(* No refresh is the last one that completed, and nobody works on the index. *)
LEMMA NobodyCounts ==
  ASSUME \A r \in Requests : ~InProgress(r), LastRefresh = None
  PROVE  AsRead
<1>1. None \notin Requests
  BY NoneAssumption
<1> QED BY <1>1 DEF AsRead, Counts

(* A worker that begins has read nothing yet. *)
LEMMA AcceptReads ==
  ASSUME IInv, NEW r \in Requests, Accept(r)
  PROVE  AsRead'
<1> DEFINE w == [Idle EXCEPT !.at = "accepted"]
<1>1. /\ job'.status = "running" /\ \A q \in Requests : ~InProgress(q)
      /\ \A q \in Requests : q # r => (worker'[q] = worker[q] \/ worker'[q] = Over)
      /\ worker'[r] = w
  BY DEF Accept, MayStart, IInv, Owned, RunsJob, IsRunning
<1>2. LastRefresh' = None /\ None \notin Requests
  BY <1>1, NoneAssumption DEF LastRefresh
<1>3. Over.at = "over" /\ w.at = "accepted" /\ w.n = 1 /\ w.todo = {} /\ w.read = Empty
  BY DEF Over, Idle
<1> HIDE DEF w
<1>4. ASSUME NEW q \in Requests, Counts(q)' PROVE q = r
  <2> SUFFICES ASSUME q # r PROVE FALSE
    OBVIOUS
  <2>1. CASE worker'[q] = worker[q]
    BY <1>1, <1>2, <1>4, <2>1 DEF Counts, InProgress, HasThread
  <2>2. CASE worker'[q] = Over
    BY <1>2, <1>3, <1>4, <2>2 DEF Counts, InProgress, HasThread, Indexing
  <2> QED BY <1>1, <2>1, <2>2
<1>5. Filling(w, chroma')
  <2>1. Unread(w)
    BY <1>3, ManifestFacts DEF Unread, Empty
  <2>2. Filled(w, chroma') /\ Bearing(w)
    BY <1>3, ManifestFacts DEF Filled, Begun, Bearing
  <2> QED BY <1>3, <2>1, <2>2 DEF Filling, Deleted
<1> QED BY <1>1, <1>4, <1>5 DEF AsRead

(* What takes no part in the refresh. *)
LEMMA OthersRead ==
  ASSUME AsRead, UNCHANGED <<chroma, job, worker>>
  PROVE  AsRead'
BY DEF AsRead, Counts, InProgress, HasThread, LastRefresh

(* Every step leaves in the index what was read. *)
LEMMA StepReads ==
  ASSUME IInv, AsRead, [Next]_vars
  PROVE  AsRead'
<1>1. ASSUME NEW r \in Requests, RequestStep(r) PROVE AsRead'
  <2>1. CASE Accept(r)
    BY <2>1, AcceptReads
  <2>2. CASE StartFails(r)
    <3>1. worker \in [Requests -> Worker] /\ worker[r] \in Worker /\ InProgress(r)
      BY <2>2 DEF IInv, TypeOK, StartFails, InProgress
    <3>2. /\ LastRefresh' = None /\ \A q \in Requests : InProgress(q) => q = r
          /\ UNCHANGED job /\ worker' = [worker EXCEPT ![r].at = "over"]
      BY <2>2, <3>1, NoneIsLast DEF StartFails, Goes, LastRefresh
    <3>3. worker'[r].at = "over" /\ \A q \in Requests \ {r} : worker'[q] = worker[q]
      BY <3>1, <3>2 DEF Worker
    <3>4. ASSUME NEW q \in Requests PROVE ~InProgress(q)'
      BY <3>2, <3>3 DEF InProgress, HasThread, Indexing
    <3> QED BY <3>2, <3>4, NoneAssumption DEF AsRead, Counts
  <2> QED BY <1>1, <2>1, <2>2 DEF RequestStep
<1>2. CASE Restart
  <2>1. worker' = [r \in Requests |-> IF InProgress(r) THEN Over ELSE worker[r]] /\ job' = None
    BY <1>2 DEF Restart
  <2>2. Over.at = "over"
    BY IdleGood
  <2>3. ASSUME NEW q \in Requests PROVE ~InProgress(q)'
    BY <2>1, <2>2 DEF InProgress, HasThread, Indexing
  <2>4. LastRefresh' = None /\ None \notin Requests
    BY <2>1, NoneAssumption DEF LastRefresh
  <2> QED BY <2>3, <2>4 DEF AsRead, Counts
<1>3. CASE (\E v \in Viewers : ViewerStep(v)) \/ (\E g \in Generations : GenStep(g)) \/ EditFiles
  <2>1. UNCHANGED <<chroma, job, worker>>
    BY <1>3 DEF ViewerStep, ListCollections, Answer, StatusFails, Shows,
                GenStep, Begin, LoadCollection, Search, Finish, EditFiles
  <2> QED BY <2>1, OthersRead
<1>4. CASE UNCHANGED vars
  BY <1>4, OthersRead DEF vars
<1> QED BY <1>1, <1>2, <1>3, <1>4, IndexReads, ThreadReads DEF Next

(* Nobody works on the index at first. *)
LEMMA InitReads ==
  ASSUME Init
  PROVE  AsRead
<1>1. LastRefresh = None /\ \A r \in Requests : worker[r].at = "none"
  BY DEF Init, LastRefresh, Idle
<1>2. \A r \in Requests : ~InProgress(r)
  BY <1>1 DEF InProgress, HasThread, Indexing
<1> QED BY <1>1, <1>2, NobodyCounts

(* What the last refresh has left in a collection. *)
LEMMA LastHolds ==
  ASSUME IInv, AsRead, LastRefresh # None, NEW s \in Sources,
         ~IsMarked(worker[LastRefresh], {"empty", "kept"}, CollectionOf[s])
  PROVE  Holds(chroma, worker[LastRefresh], CollectionOf[s])
<1> DEFINE w == worker[LastRefresh]
<1>1. LastRefresh \in Requests /\ w.at = "over"
  BY LastIsOver
<1>2. Filling(w, chroma)
  BY <1>1 DEF AsRead, Counts
<1>3. w \in Worker /\ w.n \in Nat /\ w.n > Len(Manifest)
  BY <1>1, <1>2, ManifestFacts DEF IInv, TypeOK, Worker, Filling
<1> HIDE DEF w
<1>4. PICK k \in 1 .. Len(Manifest) : s = Manifest[k]
  BY ManifestFacts
<1>5. Begun(w, CollectionOf[s]) /\ CollectionOf[s] \in Collections
  <2>1. k < w.n
    BY <1>3, <1>4, ManifestFacts
  <2> QED BY <1>4, <2>1, ManifestFacts DEF Begun, Into
<1>6. ~IsMarked(w, {"empty", "kept"}, CollectionOf[s])
  BY DEF w
<1> QED BY <1>2, <1>5, <1>6 DEF Filling, Filled, w

(* A completed refresh left in the collections what it read from the files *)
(* of their sources, and nothing else, for any manifest that names no      *)
(* source twice.                                                           *)
THEOREM Fresh == Spec => []CompletedIsFresh
<1>1. Init => IInv /\ AsRead
  BY InitKeeps, InitReads
<1>2. IInv /\ AsRead /\ [Next]_vars => IInv' /\ AsRead'
  BY NextKeeps, StepReads
<1>3. IInv /\ AsRead => CompletedIsFresh
  BY LastHolds DEF CompletedIsFresh, Holds
<1> QED BY <1>1, <1>2, <1>3, PTL DEF Spec

-----------------------------------------------------------------------------

(* What was found in a collection is what was read for it. *)
Good(w, chunk, c) ==
  (\E s \in Sources : CollectionOf[s] = c) /\ ~IsMarked(w, {"empty", "kept", "lost"}, c) =>
    /\ chunk # None
    /\ CollectionOf[chunk.source] = c
    /\ chunk.edition = w.read[chunk.source][chunk.file]

(* The searches up to the one before n found something good. *)
Supported(w, found, n) ==
  \A k \in 1 .. Len(Searched) : k < n => Good(w, found[k], Searched[k])

(* Who created a collection of an index. *)
Owner(index, c) == IF index[c] = None THEN None ELSE index[c].id

(* A generation knows the collections of an index it has loaded, and has   *)
(* found in them what the worker has read.                                 *)
Current(y, w, index) ==
  /\ y.at = "loading" =>
       \A k \in 1 .. y.n - 1 : y.handles[Configured[k]] = Owner(index, Configured[k])
  /\ y.at = "searching" =>
       /\ \A c \in Collections : y.handles[c] = Owner(index, c)
       /\ Supported(w, y.found, y.n)
  /\ y.at = "done" => Supported(w, y.found, Len(Searched) + 1)

(* Where a generation is. *)
Located(y) ==
  /\ y.at = "idle" => y.n = 1 /\ y.found = <<>>
  /\ y.at = "loading" => y.n \in 1 .. Len(Configured) /\ y.found = <<>>
  /\ y.at = "searching" => y.n = Len(y.found) + 1

(* A generation begins after a refresh that is over, and knows its index   *)
(* as long as that refresh is the last one.                                *)
Based(g) ==
  /\ Located(gen[g])
  /\ gen[g].after # None => worker[gen[g].after].at = "over"
  /\ LastRefresh # None /\ gen[g].after = LastRefresh =>
       Current(gen[g], worker[LastRefresh], chroma)

AllBased == \A g \in Generations : Based(g)

(* What a search of a collection that is as it was read comes upon.        *)
LEMMA SearchFinds ==
  ASSUME IInv, AsRead, LastRefresh # None, NEW c \in Collections, NEW chunk,
         \/ chroma[c] = None
         \/ ChunksOf(c) = {}
         \/ \E found \in ChunksOf(c) :
              chunk = [source |-> found[1], file |-> found[2],
                       edition |-> chroma[c].chunks[found[1]][found[2]]]
  PROVE  Good(worker[LastRefresh], chunk, c)
<1> DEFINE w == worker[LastRefresh]
<1> SUFFICES ASSUME NEW s \in Sources, CollectionOf[s] = c,
                    ~IsMarked(w, {"empty", "kept", "lost"}, c)
             PROVE  /\ chunk # None /\ CollectionOf[chunk.source] = c
                    /\ chunk.edition = w.read[chunk.source][chunk.file]
  BY DEF Good
<1>1. ~IsMarked(w, {"empty", "kept"}, c) /\ ~IsMarked(w, {"empty", "lost"}, c)
  BY DEF IsMarked
<1>2. Holds(chroma, w, c)
  BY <1>1, LastHolds
<1>3. LastRefresh \in Requests /\ w.at = "over" /\ Filling(w, chroma) /\ w \in Worker
  BY LastIsOver DEF AsRead, Counts, IInv, TypeOK
<1>4. c \in Collections /\ chroma[c] # None /\ chroma \in Indexes
  BY <1>2, ManifestAssumption DEF Holds, IInv, TypeOK, Indexes
<1>5. PICK f \in Stems : w.read[s][f] # None
  <2>1. PICK k \in 1 .. Len(Manifest) : s = Manifest[k]
    BY ManifestFacts
  <2>2. k < w.n
    BY <1>3, <2>1, ManifestFacts DEF Filling, Worker
  <2>3. HasRead(w, s)
    BY <1>1, <1>3, <2>1, <2>2 DEF Filling, Bearing, Into
  <2> QED BY <2>3 DEF HasRead
<1>6. chroma[c].chunks[s][f] # None
  BY <1>2, <1>5 DEF Holds
<1>7. <<s, f>> \in ChunksOf(c)
  BY <1>6 DEF ChunksOf
<1>8. PICK found \in ChunksOf(c) :
        chunk = [source |-> found[1], file |-> found[2],
                 edition |-> chroma[c].chunks[found[1]][found[2]]]
  BY <1>4, <1>7
<1> DEFINE edition == chroma[c].chunks[found[1]][found[2]]
<1>9. found[1] \in Sources /\ found[2] \in Stems /\ edition # None
  BY DEF ChunksOf
<1>10. CollectionOf[found[1]] = c /\ edition = w.read[found[1]][found[2]]
  BY <1>2, <1>9 DEF Holds
<1>11. edition \in Editions
  <2>1. chroma[c] \in Chunks
    BY <1>4 DEF Indexes
  <2>2. chroma[c].chunks \in Contents
    BY <2>1 DEF Chunks
  <2> QED BY <1>9, <2>2 DEF Contents
<1> HIDE DEF edition, w
<1>12. chunk = [source |-> found[1], file |-> found[2], edition |-> edition]
  BY <1>8 DEF edition
<1>13. chunk \in Chunk
  BY <1>9, <1>11, <1>12 DEF Chunk
<1> QED BY <1>10, <1>12, <1>13, NoneAssumption

(* A generation that goes on while job, workers and index stay as they are. *)
LEMMA GenerationGoesOn ==
  ASSUME IInv, AllBased, UNCHANGED <<chroma, job, worker>>, NEW g \in Generations, NEW y,
         gen' = [gen EXCEPT ![g] = y], Located(y),
         y.after # None => worker[y.after].at = "over",
         LastRefresh # None /\ y.after = LastRefresh => Current(y, worker[LastRefresh], chroma)
  PROVE  AllBased'
<1> SUFFICES ASSUME NEW h \in Generations PROVE Based(h)'
  BY DEF AllBased
<1>1. gen \in [Generations -> Generation]
  BY DEF IInv, TypeOK
<1>2. CASE h = g
  BY <1>1, <1>2 DEF Based, LastRefresh
<1>3. CASE h # g
  <2>1. gen'[h] = gen[h] /\ Based(h)
    BY <1>1, <1>3 DEF AllBased
  <2> QED BY <2>1 DEF Based, LastRefresh
<1> QED BY <1>2, <1>3

(* The steps of a generation. *)
LEMMA GenerationBased ==
  ASSUME IInv, AsRead, AllBased, NEW g \in Generations, GenStep(g)
  PROVE  AllBased'
<1> DEFINE x == gen[g]
           w == worker[LastRefresh]
<1>1. /\ gen \in [Generations -> Generation] /\ x \in Generation /\ Based(g)
      /\ UNCHANGED <<chroma, job, worker>> /\ Len(Configured) \in Nat \ {0}
  <2>1. Configured \in Seq(Collections) /\ Configured # <<>>
    BY ManifestAssumption
  <2>2. Len(Configured) \in Nat \ {0}
    BY <2>1
  <2> QED BY <2>2 DEF IInv, TypeOK, AllBased, GenStep, Begin, LoadCollection, Search, Finish
<1>2. Searched \in Seq(Collections) /\ Len(Searched) \in Nat
  BY SearchedType
<1>3. CASE Begin(g)
  <2> DEFINE y == [x EXCEPT !.at = "loading", !.after = LastRefresh]
  <2>1. gen' = [gen EXCEPT ![g] = y] /\ x.at = "idle"
    BY <1>1, <1>3 DEF Begin
  <2>2. y.at = "loading" /\ y.n = 1 /\ y.after = LastRefresh /\ y.found = <<>>
    BY <1>1, <2>1 DEF Based, Located, Generation
  <2> HIDE DEF y
  <2>3. Located(y) /\ Current(y, w, chroma)
    BY <1>1, <2>2 DEF Located, Current
  <2>4. y.after # None => worker[y.after].at = "over"
    BY <2>2, LastIsOver
  <2> QED BY <1>1, <2>1, <2>3, <2>4, GenerationGoesOn
<1>4. CASE LoadCollection(g)
  <2> DEFINE c == Configured[x.n]
             last == x.n = Len(Configured)
             y == [x EXCEPT !.at = IF last THEN "searching" ELSE "loading",
                            !.n = IF last THEN 1 ELSE x.n + 1,
                            !.handles = [x.handles EXCEPT ![c] = IdOf(c)]]
  <2>1. gen' = [gen EXCEPT ![g] = y] /\ x.at = "loading"
    BY <1>1, <1>4 DEF LoadCollection
  <2>2. x.n \in 1 .. Len(Configured) /\ c \in Collections
    BY <1>1, <2>1, ManifestAssumption DEF Based, Located
  <2>3. /\ y.at = (IF last THEN "searching" ELSE "loading") /\ y.n = (IF last THEN 1 ELSE x.n + 1)
        /\ y.after = x.after /\ y.found = <<>>
        /\ \A d \in Collections :
             y.handles[d] = IF d = c THEN Owner(chroma, c) ELSE x.handles[d]
    BY <1>1, <2>1, <2>2 DEF Generation, IdOf, Owner, Based, Located
  <2> HIDE DEF y
  <2>4. Located(y)
    BY <1>1, <2>2, <2>3 DEF Located
  <2>5. ASSUME LastRefresh # None, x.after = LastRefresh PROVE Current(y, w, chroma)
    <3>1. \A k \in 1 .. x.n - 1 : x.handles[Configured[k]] = Owner(chroma, Configured[k])
      BY <1>1, <2>1, <2>5 DEF Based, Current
    <3>2. \A k \in 1 .. Len(Configured) : Configured[k] \in Collections
      BY ManifestAssumption
    <3>3. \A k \in 1 .. x.n : y.handles[Configured[k]] = Owner(chroma, Configured[k])
      BY <1>1, <2>2, <2>3, <3>1, <3>2
    <3>4. CASE last
      <4>1. \A d \in Collections : \E k \in 1 .. x.n : d = Configured[k]
        BY <3>4 DEF Collections, ToSet
      <4>2. \A d \in Collections : y.handles[d] = Owner(chroma, d)
        BY <3>3, <4>1
      <4> QED BY <1>2, <2>3, <3>4, <4>2 DEF Current, Supported
    <3>5. CASE ~last
      BY <2>2, <2>3, <3>3, <3>5 DEF Current
    <3> QED BY <3>4, <3>5
  <2>6. x.after # None => worker[x.after].at = "over"
    BY <1>1 DEF Based
  <2> QED BY <1>1, <2>1, <2>3, <2>4, <2>5, <2>6, GenerationGoesOn
<1>5. CASE Search(g)
  <2> DEFINE c == Searched[x.n]
             handle == x.handles[c]
             Found(chunk) == gen' = [gen EXCEPT ![g].n = @ + 1, ![g].found = Append(@, chunk)]
  <2>1. x.at = "searching" /\ x.n \in 1 .. Len(Searched) /\ x.n = Len(x.found) + 1
        /\ x.found \in Seq(Chunk \cup {None}) /\ c \in Collections
    <3>1. x.at = "searching" /\ x.n <= Len(Searched) /\ x.n = Len(x.found) + 1
          /\ x.found \in Seq(Chunk \cup {None})
      BY <1>1, <1>5 DEF Search, Based, Located, Generation
    <3>2. x.n \in 1 .. Len(Searched)
      BY <1>2, <3>1
    <3> QED BY <1>2, <3>1, <3>2
  <2> HIDE DEF c
  <2>2. ASSUME NEW chunk \in Chunk \cup {None}, Found(chunk),
               LastRefresh # None /\ x.after = LastRefresh => Good(w, chunk, c)
        PROVE  AllBased'
    <3> DEFINE found == Append(x.found, chunk)
               y == [x EXCEPT !.n = x.n + 1, !.found = found]
    <3>1. gen' = [gen EXCEPT ![g] = y]
      BY <1>1, <2>2
    <3>2. /\ Len(found) = x.n
          /\ \A k \in 1 .. x.n : found[k] = IF k = x.n THEN chunk ELSE x.found[k]
      BY <2>1
    <3> HIDE DEF found
    <3>3. y.at = "searching" /\ y.n = x.n + 1 /\ y.after = x.after /\ y.handles = x.handles
          /\ y.found = found
      BY <1>1, <2>1 DEF Generation
    <3> HIDE DEF y
    <3>4. Located(y)
      BY <3>2, <3>3 DEF Located
    <3>5. ASSUME LastRefresh # None, x.after = LastRefresh PROVE Current(y, w, chroma)
      <4>1. (\A d \in Collections : x.handles[d] = Owner(chroma, d)) /\ Supported(w, x.found, x.n)
        BY <1>1, <2>1, <3>5 DEF Based, Current
      <4>2. ASSUME NEW k \in 1 .. Len(Searched), k < x.n + 1 PROVE Good(w, found[k], Searched[k])
        <5>1. CASE k = x.n
          BY <2>1, <2>2, <3>2, <3>5, <5>1 DEF c
        <5>2. CASE k # x.n
          <6>1. k < x.n /\ found[k] = x.found[k]
            BY <1>2, <2>1, <3>2, <4>2, <5>2
          <6> QED BY <4>1, <6>1 DEF Supported
        <5> QED BY <5>1, <5>2
      <4> QED BY <3>3, <4>1, <4>2 DEF Current, Supported
    <3>6. x.after # None => worker[x.after].at = "over"
      BY <1>1 DEF Based
    <3> QED BY <1>1, <3>1, <3>3, <3>4, <3>5, <3>6, GenerationGoesOn
  <2>3. LastRefresh # None /\ x.after = LastRefresh => handle = Owner(chroma, c)
    BY <1>1, <2>1 DEF Based, Current
  <2>4. CASE handle = None /\ Found(None)
    <3>1. handle = Owner(chroma, c) => chroma[c] = None
      <4> SUFFICES ASSUME handle = Owner(chroma, c), chroma[c] # None PROVE FALSE
        OBVIOUS
      <4>1. chroma[c] \in Chunks
        BY <2>1 DEF IInv, TypeOK
      <4> QED BY <2>4, <4>1, NoneAssumption DEF Owner, Chunks
    <3>2. LastRefresh # None /\ x.after = LastRefresh => Good(w, None, c)
      BY <2>1, <2>3, <3>1, SearchFinds
    <3> QED BY <2>2, <2>4, <3>2
  <2>5. CASE Fails(g)
    <3>1. gen' = [gen EXCEPT ![g] = Unstarted]
      BY <2>5 DEF Fails
    <3>2. Unstarted.at = "idle" /\ Unstarted.n = 1 /\ Unstarted.after = None
          /\ Unstarted.found = <<>>
      BY DEF Unstarted
    <3>3. Located(Unstarted)
      BY <3>2 DEF Located
    <3> QED BY <1>1, <3>1, <3>2, <3>3, GenerationGoesOn
  <2>6. CASE ChunksOf(c) = {} /\ Found(None)
    BY <2>1, <2>2, <2>6, SearchFinds
  <2>7. ASSUME NEW chunk \in ChunksOf(c), chroma[c] # None,
               Found([source |-> chunk[1], file |-> chunk[2],
                      edition |-> chroma[c].chunks[chunk[1]][chunk[2]]])
        PROVE  AllBased'
    <3> DEFINE edition == chroma[c].chunks[chunk[1]][chunk[2]]
               found == [source |-> chunk[1], file |-> chunk[2], edition |-> edition]
    <3>1. LastRefresh # None => Good(w, found, c)
      BY <2>1, SearchFinds
    <3>2. Found(found)
      BY <2>7
    <3>3. chunk[1] \in Sources /\ chunk[2] \in Stems /\ edition # None
      BY DEF ChunksOf
    <3>4. edition \in Editions
      <4>1. chroma[c].chunks \in Contents
        BY <2>1, <2>7 DEF IInv, TypeOK, Chunks
      <4> QED BY <3>3, <4>1 DEF Contents
    <3> HIDE DEF edition
    <3>5. found \in Chunk
      BY <3>3, <3>4 DEF Chunk
    <3> HIDE DEF found
    <3> QED BY <2>2, <3>1, <3>2, <3>5
  <2> QED BY <1>5, <2>4, <2>5, <2>6, <2>7 DEF Search, c, IdOf
<1>6. CASE Finish(g)
  <2> DEFINE y == [x EXCEPT !.at = "done", !.handles = Unstarted.handles]
  <2>1. gen' = [gen EXCEPT ![g] = y] /\ x.at = "searching" /\ x.n > Len(Searched)
    BY <1>1, <1>6 DEF Finish
  <2>2. y.at = "done" /\ y.after = x.after /\ y.found = x.found
    BY <1>1 DEF Generation
  <2> HIDE DEF y
  <2>3. Located(y)
    BY <2>2 DEF Located
  <2>4. ASSUME LastRefresh # None, x.after = LastRefresh PROVE Current(y, w, chroma)
    <3>1. Supported(w, x.found, x.n) /\ x.n \in Nat
      BY <1>1, <2>1, <2>4 DEF Based, Current, Generation
    <3>2. Supported(w, x.found, Len(Searched) + 1)
      BY <1>2, <2>1, <3>1 DEF Supported
    <3> QED BY <2>2, <3>2 DEF Current
  <2>5. x.after # None => worker[x.after].at = "over"
    BY <1>1 DEF Based
  <2> QED BY <1>1, <2>1, <2>2, <2>3, <2>4, <2>5, GenerationGoesOn
<1> QED BY <1>3, <1>4, <1>5, <1>6 DEF GenStep

(* While a refresh runs, and when it ends, nobody has begun after it yet.   *)
LEMMA RefreshBased ==
  ASSUME IInv, AllBased,
         \A g \in Generations : gen'[g] = gen[g] \/ gen'[g] = Unstarted,
         \A r \in Requests : worker[r].at = "over" => worker'[r].at = "over",
         LastRefresh' # None => worker[LastRefresh'].at # "over"
  PROVE  AllBased'
<1> SUFFICES ASSUME NEW g \in Generations PROVE Based(g)'
  BY DEF AllBased
<1>1. gen[g] \in Generation /\ Based(g)
  BY DEF IInv, TypeOK, AllBased
<1>2. CASE gen'[g] = gen[g]
  <2>1. gen[g].after # None => gen[g].after \in Requests /\ worker[gen[g].after].at = "over"
    BY <1>1 DEF Based, Generation
  <2> QED BY <1>1, <1>2, <2>1 DEF Based
<1>3. CASE gen'[g] = Unstarted
  <2>1. gen'[g].at = "idle" /\ gen'[g].n = 1 /\ gen'[g].after = None /\ gen'[g].found = <<>>
    BY <1>3 DEF Unstarted
  <2> QED BY <2>1 DEF Based, Located
<1> QED BY <1>2, <1>3

(* Every step leaves the generations based on the last refresh. *)
LEMMA StepBased ==
  ASSUME IInv, AsRead, AllBased, [Next]_vars
  PROVE  AllBased'
<1>1. worker \in [Requests -> Worker] /\ None \notin Requests
  BY NoneAssumption DEF IInv, TypeOK
<1>2. ASSUME NEW r \in Requests, Accept(r) PROVE AllBased'
  <2>1. LastRefresh' = None /\ UNCHANGED gen /\ worker[r].at = "none"
    BY <1>2, NoneAssumption DEF Accept, LastRefresh
  <2>2. \A q \in Requests : worker[q].at = "over" => worker'[q].at = "over"
    BY <1>2, <2>1, IdleGood DEF Accept
  <2> QED BY <2>1, <2>2, RefreshBased
<1>3. ASSUME NEW r \in Requests, StartFails(r) \/ ThreadStep(r) \/ IndexStep(r) \/ ChromaAnswers(r)
      PROVE  AllBased'
  <2>1. InProgress(r) /\ UNCHANGED gen /\ \E v : worker' = [worker EXCEPT ![r] = v]
    BY <1>3 DEF StartFails, ThreadStep, StartThread, Spawn, Break, Complete, Fail, End, ChromaAnswers, IndexStep,
                SkipSource, OpenSource, DeleteCollection, KeepCollection, CreateCollection,
                AddFile, LoseFile, CloseSource, Exit, Goes, InProgress, HasThread, Indexing
  <2>2. worker[r].at # "over" /\ job # None /\ job.id = r /\ job.status = "running"
    BY <2>1, NoneIsLast DEF InProgress, HasThread, Indexing
  <2>3. \A q \in Requests : worker[q].at = "over" => worker'[q].at = "over"
    BY <1>1, <2>1, <2>2
  <2>4. LastRefresh' \in {r, None}
    <3>1. job \in Job
      BY <2>2 DEF IInv, TypeOK
    <3>2. CASE UNCHANGED job
      BY <2>2, <3>2 DEF LastRefresh
    <3>3. ASSUME NEW status, End(r, status) PROVE LastRefresh' \in {r, None}
      <4>1. job' = [job EXCEPT !.status = status]
        BY <2>2, <3>3 DEF End
      <4> QED BY <2>2, <3>1, <4>1 DEF LastRefresh, Job
    <3> QED BY <1>3, <3>2, <3>3
        DEF StartFails, ThreadStep, StartThread, Spawn, Break, Complete, Fail, ChromaAnswers, IndexStep,
            SkipSource, OpenSource, DeleteCollection, KeepCollection, CreateCollection,
            AddFile, LoseFile, CloseSource, Exit, Goes
  <2> QED BY <2>1, <2>2, <2>3, <2>4, RefreshBased
<1>4. CASE Restart
  <2>1. /\ LastRefresh' = None
        /\ \A q \in Requests : worker'[q] = IF InProgress(q) THEN Over ELSE worker[q]
        /\ \A g \in Generations : gen'[g] = gen[g] \/ gen'[g] = Unstarted
    BY <1>4 DEF Restart, LastRefresh
  <2>2. \A q \in Requests : worker[q].at = "over" => worker'[q].at = "over"
    BY <2>1, IdleGood
  <2> QED BY <2>1, <2>2, RefreshBased
<1>5. CASE (\E v \in Viewers : ViewerStep(v)) \/ EditFiles \/ UNCHANGED vars
  <2>1. UNCHANGED <<chroma, job, worker, gen>>
    BY <1>5 DEF ViewerStep, ListCollections, Answer, StatusFails, Shows, EditFiles, vars
  <2> QED BY <2>1 DEF AllBased, Based, LastRefresh
<1> QED BY <1>2, <1>3, <1>4, <1>5, GenerationBased DEF Next, RequestStep

(* A policy generated after a refresh and before the next one is written   *)
(* from what that refresh read, whatever it searches.                      *)
THEOREM Evidence == Spec => []EvidenceIsCurrent
<1> DEFINE Inv == IInv /\ AsRead /\ AllBased
<1>1. Init => Inv
  <2> SUFFICES ASSUME Init PROVE AllBased
    BY InitKeeps, InitReads
  <2>1. \A g \in Generations : gen[g] = Unstarted
    BY DEF Init
  <2>2. Unstarted.at = "idle" /\ Unstarted.n = 1 /\ Unstarted.after = None /\ Unstarted.found = <<>>
    BY DEF Unstarted
  <2> QED BY <2>1, <2>2 DEF AllBased, Based, Located
<1>2. Inv /\ [Next]_vars => Inv'
  BY NextKeeps, StepReads, StepBased
<1>3. Inv => EvidenceIsCurrent
  <2> SUFFICES ASSUME Inv, NEW g \in Generations, gen[g].at = "done", LastRefresh # None,
                      gen[g].after = LastRefresh, NEW n \in 1 .. Len(Searched)
               PROVE  Good(worker[LastRefresh], gen[g].found[n], Searched[n])
    BY DEF EvidenceIsCurrent, Good
  <2>1. Supported(worker[LastRefresh], gen[g].found, Len(Searched) + 1)
    BY DEF AllBased, Based, Current
  <2>2. Len(Searched) \in Nat
    BY SearchedType
  <2> QED BY <2>1, <2>2 DEF Supported
<1> QED BY <1>1, <1>2, <1>3, PTL DEF Spec

(* A plan has a step for every source of the required families and for     *)
(* none besides, whatever the manifest and the order of the families.       *)
THEOREM PlanIsWhole == ToSet(Plan) = {s \in Sources : FamilyOf[s] \in ToSet(Families)}
<1>1. Families \in Seq(ToSet(Families)) /\ Len(Families) \in Nat /\ Len(Manifest) \in Nat
      /\ Manifest \in Seq(Sources)
  BY FamiliesAssumption, ManifestAssumption
<1>2. ASSUME NEW family
      PROVE  /\ OfFamily(family) \in Seq(Sources)
             /\ \A s : s \in ToSet(OfFamily(family)) <=> s \in Sources /\ FamilyOf[s] = family
  <2> DEFINE seqs == [i \in 1 .. Len(Manifest) |->
                        IF FamilyOf[Manifest[i]] = family THEN <<Manifest[i]>> ELSE <<>>]
  <2>1. \A i \in 1 .. Len(Manifest) : seqs[i] \in Seq(Sources)
    BY <1>1
  <2>2. seqs \in Seq(Seq(Sources)) /\ Len(seqs) = Len(Manifest)
    BY <1>1, <2>1
  <2>3. \A i \in 1 .. Len(Manifest) : \A s :
          s \in ToSet(seqs[i]) <=> s = Manifest[i] /\ FamilyOf[s] = family
    BY DEF ToSet
  <2> HIDE DEF seqs
  <2>4. FlattenSeq(seqs) \in Seq(Sources)
    BY <2>2, FlattenType
  <2>5. \A s : s \in ToSet(FlattenSeq(seqs)) <=>
               \E i \in 1 .. Len(Manifest) : s = Manifest[i] /\ FamilyOf[s] = family
    BY <2>2, <2>3, FlattenElements
  <2> QED BY <2>4, <2>5, ManifestFacts DEF OfFamily, seqs
<1> DEFINE plans == [k \in 1 .. Len(Families) |-> OfFamily(Families[k])]
<1>3. plans \in Seq(Seq(Sources)) /\ Len(plans) = Len(Families)
      /\ \A k \in 1 .. Len(Families) : plans[k] = OfFamily(Families[k])
  BY <1>1, <1>2
<1> HIDE DEF plans
<1>4. \A s : s \in ToSet(FlattenSeq(plans)) <=>
             \E k \in 1 .. Len(Families) : s \in Sources /\ FamilyOf[s] = Families[k]
  BY <1>2, <1>3, FlattenElements
<1>5. \A x : x \in ToSet(Families) <=> \E k \in 1 .. Len(Families) : x = Families[k]
  BY <1>1 DEF ToSet
<1>6. Plan = FlattenSeq(plans)
  BY DEF Plan, plans
<1> QED BY <1>4, <1>5, <1>6
=============================================================================
