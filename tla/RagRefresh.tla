------------------------------ MODULE RagRefresh ------------------------------
(***************************************************************************)
(* The refresh of the retrieval index of policy-agent: a request starts a  *)
(* job, the job's thread runs the indexing script as a process under a     *)
(* timeout, the script deletes, creates and fills the collections of       *)
(* Chroma one call at a time, and meanwhile the state of the index is      *)
(* asked for and policies are generated from what is found in it.          *)
(*                                                                         *)
(* A request that starts a job gives it its name; one that finds a job     *)
(* running is answered with that job and changes nothing. Job, lock and    *)
(* threads live in the memory of one process and are gone when it restarts.*)
(*                                                                         *)
(* A file is known by its stem and has editions; its chunks stand or fall  *)
(* together. A search finds one of the chunks of a collection, or nothing. *)
(* The refresh is allowed (POLICY_AGENT_ALLOW_RAG_REFRESH).                *)
(***************************************************************************)
EXTENDS Naturals, SequencesExt

CONSTANTS
  Requests,      \* the requests that start a job
  Viewers,       \* who asks for the status, until told that all is ready
  Generations,   \* the policies generated, a failed one again
  Configured,    \* the collections of policy_agent.yaml, in order
  Manifest,      \* the sources of rag_sources.yaml, in order
  CollectionOf,  \* the collection a source is indexed into
  FamilyOf,      \* the family a source belongs to
  Families,      \* the families a policy's context requires, in order
  Stems,         \* the names files have
  Editions,      \* what a file may say
  Textless,      \* those of them no text can be extracted from
  Folders,       \* what the folders of the sources may contain
  None

Collections == ToSet(Configured)
Sources == ToSet(Manifest)

(* build_retrieval_plan: a step for every source of a required family. *)
OfFamily(family) ==
  FlattenSeq([i \in 1 .. Len(Manifest) |->
                IF FamilyOf[Manifest[i]] = family THEN <<Manifest[i]>> ELSE <<>>])

Plan == FlattenSeq([k \in 1 .. Len(Families) |-> OfFamily(Families[k])])

(* The collections a generation searches, in order: one for every step of  *)
(* its plan or, if it has none, all of them.                               *)
Searched ==
  IF Plan = <<>> THEN Configured ELSE [n \in 1 .. Len(Plan) |-> CollectionOf[Plan[n]]]

ASSUME ManifestAssumption ==
  /\ Configured \in Seq(Collections) \ {<<>>}
  /\ Manifest \in Seq(Sources)
  /\ CollectionOf \in [Sources -> Collections]
  /\ FamilyOf \in [Sources -> ToSet(Families) \cup {None}]

(* validate_rag_source_manifest: no id twice. *)
ASSUME SourcesAssumption == IsInjective(Manifest)

ASSUME FamiliesAssumption == Families \in Seq(ToSet(Families))

Job == [id : Requests, status : {"running", "completed", "failed"}]

Contents == [Sources -> [Stems -> Editions \cup {None}]]

Chunks == [id : Requests, chunks : Contents]

Chunk == [source : Sources, file : Stems, edition : Editions]

ASSUME NoneAssumption ==
  None \notin Editions \cup Requests /\ None \notin Job \cup Chunks \cup Chunk

ASSUME FoldersAssumption == Folders \subseteq Contents /\ Textless \subseteq Editions

VARIABLES
  folders,  \* the files of each source
  cached,   \* whether the embedding model is in the local cache
  chroma,   \* each collection: None, or who created it and what is in it
  job,      \* _RAG_REFRESH_JOB
  worker,   \* the thread and the process of each request's job
  viewer,   \* where each one's look at the status stands
  gen       \* where each generation stands

vars == <<folders, cached, chroma, job, worker, viewer, gen>>

Empty == [s \in Sources |-> [f \in Stems |-> None]]

Idle == [at |-> "none", n |-> 1, todo |-> {}, handle |-> None, read |-> Empty, marks |-> {}]

Unstarted ==
  [at |-> "idle", n |-> 1, after |-> None, handles |-> [c \in Collections |-> None],
   found |-> <<>>]

Unasked == [at |-> "idle", whole |-> FALSE, job |-> None]

Init ==
  /\ folders \in Folders
  /\ cached = FALSE
  /\ chroma = [c \in Collections |-> None]
  /\ job = None
  /\ worker = [r \in Requests |-> Idle]
  /\ viewer = [v \in Viewers |-> Unasked]
  /\ gen = [g \in Generations |-> Unstarted]

IsRunning == job # None /\ job.status = "running"

(***************************************************************************)
(* The request: refresh_system_state and refresh_rag_runtime               *)
(***************************************************************************)

(* Mutant: a running job does not keep another from starting. *)
MayStartAlways == TRUE

(* What the lock decides. *)
MayStart == ~IsRunning

Over == [Idle EXCEPT !.at = "over"]

(* A new job, in place of the last one, with all that is known of it; the  *)
(* thread is started after the lock is released.                           *)
Accept(r) ==
  /\ worker[r].at = "none"
  /\ MayStart
  /\ job' = [id |-> r, status |-> "running"]
  /\ worker' = [q \in Requests |->
                  IF q = r THEN [Idle EXCEPT !.at = "accepted"]
                  ELSE IF worker[q].at = "over" THEN Over ELSE worker[q]]
  /\ UNCHANGED <<folders, cached, chroma, viewer, gen>>

Goes(r, at) ==
  /\ worker' = [worker EXCEPT ![r].at = at]
  /\ UNCHANGED <<folders, cached, chroma, viewer, gen>>

StartThread(r) == worker[r].at = "accepted" /\ Goes(r, "started") /\ UNCHANGED job

(* No thread can be started: the job stays as it is, and nobody runs it. *)
StartFails(r) == worker[r].at = "accepted" /\ Goes(r, "over") /\ UNCHANGED job

(* refresh_system_state: a request that does not reach policy-agent, or is *)
(* refused there, changes nothing; every answer brings the status along,   *)
(* which is looked at as by any viewer.                                    *)
RequestStep(r) == Accept(r) \/ StartFails(r)

(***************************************************************************)
(* The status: get_system_status and get_rag_runtime_status                *)
(***************************************************************************)

(* The model is in the cache, and all collections are there. *)
IsWhole == cached /\ \A c \in Collections : chroma[c] # None

(* Model and collections are looked at first, ...                          *)
ListCollections(v) ==
  /\ viewer[v].at = "idle"
  /\ viewer' = [viewer EXCEPT
                  ![v] = IF IsWhole THEN [at |-> "listed", whole |-> TRUE, job |-> job]
                         ELSE [at |-> "listed", whole |-> FALSE, job |-> None]]
  /\ UNCHANGED <<folders, cached, chroma, job, worker, gen>>

(* Mutant: the job is not looked at. *)
IsReadyByName(v) == viewer[v].whole

IsReady(v) == viewer[v].whole /\ ~IsRunning

Shows(v, ready) ==
  /\ viewer[v].at = "listed"
  /\ viewer' = [viewer EXCEPT ![v] = [Unasked EXCEPT !.at = IF ready THEN "ready" ELSE "idle"]]
  /\ UNCHANGED <<folders, cached, chroma, job, worker, gen>>

(* ... and the job after that. *)
Answer(v) == Shows(v, IsReady(v))

(* Chroma, policy-agent or another service is not ready or not reached. *)
StatusFails(v) == Shows(v, FALSE)

(***************************************************************************)
(* The thread: _run_rag_refresh_job and _run_rag_refresh_command           *)
(***************************************************************************)

Indexing == {"source", "delete", "create", "adding"}

Spawn(r) == worker[r].at = "started" /\ Goes(r, "source") /\ UNCHANGED job

(* The process cannot be started, ends with an exception, or is killed     *)
(* when its time is over: the thread is left with a failure.               *)
Break(r) ==
  /\ worker[r].at \in Indexing \cup {"started"}
  /\ worker' = [worker EXCEPT ![r] = [Idle EXCEPT !.at = "broken"]]
  /\ UNCHANGED <<folders, cached, chroma, job, viewer, gen>>

(* Mutant: only a success is written to the job. *)
EndIfCompleted(r, status) ==
  /\ Goes(r, "over")
  /\ job' = IF job # None /\ job.id = r /\ status = "completed"
            THEN [job EXCEPT !.status = status] ELSE job

End(r, status) ==
  /\ Goes(r, "over")
  /\ job' = IF job # None /\ job.id = r THEN [job EXCEPT !.status = status] ELSE job

(* Before it says so, the thread asks Chroma for the state of the index: an *)
(* error is part of what is reported, but no timeout ends the waiting.     *)
ChromaAnswers(r) == worker[r].at = "exited" /\ Goes(r, "answered") /\ UNCHANGED job

Complete(r) == worker[r].at = "answered" /\ End(r, "completed")

Fail(r) == worker[r].at = "broken" /\ End(r, "failed")

(***************************************************************************)
(* The process: index_pdfs_to_chroma.py --reindex                          *)
(***************************************************************************)

Source(r) == Manifest[worker[r].n]
Target(r) == CollectionOf[Source(r)]

Present(s) == {f \in Stems : folders[s][f] # None}

Marked(r, kind) == worker[r].marks \cup {<<kind, Source(r)>>}

(* A source without files is logged, and its collection left as it is.     *)
SkipSource(r) ==
  /\ worker[r].at = "source"
  /\ worker[r].n <= Len(Manifest)
  /\ Present(Source(r)) = {}
  /\ worker' = [worker EXCEPT ![r].n = @ + 1, ![r].marks = Marked(r, "empty")]
  /\ UNCHANGED <<folders, cached, chroma, job, viewer, gen>>

(* Mutant: every source deletes the collection it goes to. *)
DeletesAlways(r) == TRUE

(* Mutant: no source does. *)
DeletesNever(r) == FALSE

(* The first source of a collection deletes it, one without files too. *)
DeletesFirst(r) == \A k \in 1 .. worker[r].n - 1 : CollectionOf[Manifest[k]] # Target(r)

(* The files are looked up, and the model is downloaded, unless it is in   *)
(* the cache.                                                              *)
OpenSource(r) ==
  /\ worker[r].at = "source"
  /\ worker[r].n <= Len(Manifest)
  /\ Present(Source(r)) # {}
  /\ cached' = TRUE
  /\ worker' = [worker EXCEPT ![r].at = IF DeletesFirst(r) THEN "delete" ELSE "create",
                              ![r].todo = Present(Source(r))]
  /\ UNCHANGED <<folders, chroma, job, viewer, gen>>

DeleteCollection(r) ==
  /\ worker[r].at = "delete"
  /\ chroma' = [chroma EXCEPT ![Target(r)] = None]
  /\ worker' = [worker EXCEPT ![r].at = "create"]
  /\ UNCHANGED <<folders, cached, job, viewer, gen>>

(* The exception of a deletion that fails is passed over in silence. *)
KeepCollection(r) ==
  /\ worker[r].at = "delete"
  /\ chroma[Target(r)] # None
  /\ worker' = [worker EXCEPT ![r].at = "create", ![r].marks = Marked(r, "kept")]
  /\ UNCHANGED <<folders, cached, chroma, job, viewer, gen>>

IdOf(c) == IF chroma[c] = None THEN None ELSE chroma[c].id

(* get_or_create_collection *)
CreateCollection(r) ==
  LET c == Target(r)
      collection == IF chroma[c] = None THEN [id |-> r, chunks |-> Empty] ELSE chroma[c]
  IN
  /\ worker[r].at = "create"
  /\ chroma' = [chroma EXCEPT ![c] = collection]
  /\ worker' = [worker EXCEPT ![r].at = "adding", ![r].handle = collection.id]
  /\ UNCHANGED <<folders, cached, job, viewer, gen>>

(* What Chroma does with chunks whose ids it has: nothing. *)
Added(chunks, s, f, edition) ==
  IF chunks[s][f] = None THEN [chunks EXCEPT ![s][f] = edition] ELSE chunks

(* The next file, all of its batches; that of one the answer was lost, and  *)
(* it counts as failed.                                                    *)
AddFile(r) ==
  \E f \in worker[r].todo :
    LET c == Target(r)
        s == Source(r)
    IN
    /\ worker[r].at = "adding"
    /\ folders[s][f] \notin Textless \cup {None}
    /\ IdOf(c) = worker[r].handle
    /\ chroma' = [chroma EXCEPT ![c].chunks = Added(@, s, f, folders[s][f])]
    /\ \E marks \in {worker[r].marks, Marked(r, "lost")} :
         worker' = [worker EXCEPT ![r].todo = @ \ {f}, ![r].read[s][f] = folders[s][f],
                                  ![r].marks = marks]
    /\ UNCHANGED <<folders, cached, job, viewer, gen>>

(* A batch that fails is logged, and the next one follows; a file without  *)
(* text has none.                                                          *)
LoseFile(r) ==
  \E f \in worker[r].todo :
    /\ worker[r].at = "adding"
    /\ folders[Source(r)][f] # None
    /\ worker' = [worker EXCEPT ![r].todo = @ \ {f}, ![r].marks = Marked(r, "lost")]
    /\ UNCHANGED <<folders, cached, chroma, job, viewer, gen>>

CloseSource(r) ==
  /\ worker[r].at = "adding"
  /\ worker[r].todo = {}
  /\ worker' = [worker EXCEPT ![r].at = "source", ![r].n = @ + 1, ![r].handle = None]
  /\ UNCHANGED <<folders, cached, chroma, job, viewer, gen>>

Exit(r) ==
  /\ worker[r].at = "source"
  /\ worker[r].n > Len(Manifest)
  /\ Goes(r, "exited")
  /\ UNCHANGED job

IndexStep(r) ==
  \/ SkipSource(r) \/ OpenSource(r) \/ DeleteCollection(r) \/ KeepCollection(r)
  \/ CreateCollection(r) \/ AddFile(r) \/ LoseFile(r) \/ CloseSource(r) \/ Exit(r)

(***************************************************************************)
(* The generation: RAGProcessor                                            *)
(***************************************************************************)

Fails(g) == gen' = [gen EXCEPT ![g] = Unstarted]

(* The refresh that has completed, and none has started since. *)
LastRefresh == IF job # None /\ job.status = "completed" THEN job.id ELSE None

(* The clients are built: there is no policy without the model. *)
Begin(g) ==
  /\ gen[g].at = "idle"
  /\ cached
  /\ gen' = [gen EXCEPT ![g].at = "loading", ![g].after = LastRefresh]
  /\ UNCHANGED <<folders, cached, chroma, job, worker, viewer>>

(* load_collection: a collection that is missing is logged. After the last *)
(* one the search begins.                                                  *)
LoadCollection(g) ==
  LET c == Configured[gen[g].n]
      last == gen[g].n = Len(Configured)
  IN
  /\ gen[g].at = "loading"
  /\ gen' = [gen EXCEPT ![g].at = IF last THEN "searching" ELSE "loading",
                        ![g].n = IF last THEN 1 ELSE @ + 1,
                        ![g].handles[c] = IdOf(c)]
  /\ UNCHANGED <<folders, cached, chroma, job, worker, viewer>>

(* The chunks of a collection, each with its source and file. *)
ChunksOf(c) ==
  {chunk \in Sources \X Stems : chroma[c].chunks[chunk[1]][chunk[2]] # None}

(* The best match, from the collection that was loaded; a collection that  *)
(* is not there any more is an error.                                      *)
Search(g) ==
  LET c == Searched[gen[g].n]
      handle == gen[g].handles[c]
      Found(chunk) == gen' = [gen EXCEPT ![g].n = @ + 1, ![g].found = Append(@, chunk)]
  IN
  /\ gen[g].at = "searching"
  /\ gen[g].n <= Len(Searched)
  /\ \/ handle = None /\ Found(None)
     \/ handle # None /\ handle # IdOf(c) /\ Fails(g)
     \/ /\ handle # None /\ handle = IdOf(c)
        /\ IF ChunksOf(c) = {} THEN Found(None)
           ELSE \E chunk \in ChunksOf(c) :
                  Found([source |-> chunk[1], file |-> chunk[2],
                         edition |-> chroma[c].chunks[chunk[1]][chunk[2]]])
  /\ UNCHANGED <<folders, cached, chroma, job, worker, viewer>>

(* The policy is written from what was found, were it nothing. *)
Finish(g) ==
  /\ gen[g].at = "searching"
  /\ gen[g].n > Len(Searched)
  /\ gen' = [gen EXCEPT ![g].at = "done", ![g].handles = Unstarted.handles]
  /\ UNCHANGED <<folders, cached, chroma, job, worker, viewer>>

GenStep(g) ==
  Begin(g) \/ LoadCollection(g) \/ Search(g) \/ Finish(g)

(***************************************************************************)
(* The surroundings                                                        *)
(***************************************************************************)

(* Files are added, replaced or removed. *)
EditFiles ==
  /\ folders' \in Folders \ {folders}
  /\ UNCHANGED <<cached, chroma, job, worker, viewer, gen>>

HasThread(r) == worker[r].at \in Indexing \cup {"started", "exited", "answered", "broken"}

InProgress(r) == HasThread(r) \/ worker[r].at = "accepted"

(* policy-agent restarts: the job is forgotten, its threads and processes  *)
(* end where they are, and whoever waits for an answer gets none. (With no *)
(* job running it would only forget how the last one ended. The server is  *)
(* its container's first process, and takes the others along when it ends; *)
(* that is not so of the reloader of a server that runs in debug mode.)    *)
Restart ==
  /\ IsRunning
  /\ job' = None
  /\ worker' = [r \in Requests |->
                  IF InProgress(r) THEN Over ELSE worker[r]]
  /\ viewer' = [v \in Viewers |->
                  IF viewer[v].at = "listed" THEN Unasked ELSE viewer[v]]
  /\ gen' = [g \in Generations |->
               IF gen[g].at \in {"loading", "searching"} THEN Unstarted ELSE gen[g]]
  /\ UNCHANGED <<folders, cached, chroma>>

(* What a thread does itself: it waits for its process and gives up on it. *)
ThreadStep(r) == StartThread(r) \/ Spawn(r) \/ Break(r) \/ Complete(r) \/ Fail(r)

ViewerStep(v) == ListCollections(v) \/ Answer(v) \/ StatusFails(v)

Next ==
  \/ \E r \in Requests : RequestStep(r) \/ ThreadStep(r) \/ IndexStep(r) \/ ChromaAnswers(r)
  \/ \E v \in Viewers : ViewerStep(v)
  \/ \E g \in Generations : GenStep(g)
  \/ EditFiles
  \/ Restart

Spec == Init /\ [][Next]_vars

(* A thread that runs goes on; nothing is assumed of the process, nor of   *)
(* Chroma.                                                                 *)
FairSpec == Spec /\ \A r \in Requests : WF_vars(ThreadStep(r))

(***************************************************************************)
(* Properties                                                              *)
(***************************************************************************)

Mark == {"empty", "kept", "lost"} \X Sources

Worker ==
  [at : Indexing \cup {"none", "accepted", "started", "exited", "answered", "broken", "over"},
   n : 1 .. Len(Manifest) + 1, todo : SUBSET Stems, handle : Requests \cup {None},
   read : Contents, marks : SUBSET Mark]

Viewer ==
  [at : {"idle", "listed", "ready"}, whole : BOOLEAN, job : Job \cup {None}]

Generation ==
  [at : {"idle", "loading", "searching", "done"}, n : Nat \ {0}, after : Requests \cup {None},
   handles : [Collections -> Requests \cup {None}], found : Seq(Chunk \cup {None})]

(* The shape of the index, of the job and of whoever works with them; a    *)
(* process has files left to read only at the source they belong to.       *)
TypeOK ==
  /\ folders \in Contents
  /\ cached \in BOOLEAN
  /\ chroma \in [Collections -> Chunks \cup {None}]
  /\ job \in Job \cup {None}
  /\ worker \in [Requests -> Worker]
  /\ \A r \in Requests :
       worker[r].todo # {} => worker[r].at \in Indexing \ {"source"} /\ worker[r].n <= Len(Manifest)
  /\ viewer \in [Viewers -> Viewer]
  /\ gen \in [Generations -> Generation]

(* Two requests never index at the same time, whatever fails, restarts or  *)
(* gives up waiting: the lock is held for a moment only, and it is the     *)
(* status of the job that keeps the others out (logic.py:761).             *)
OneIndexer == \A q, r \in Requests : InProgress(q) /\ InProgress(r) => q = r

(* The sources of a collection about which something is marked. *)
IsMarked(w, kinds, c) == \E mark \in w.marks : mark[1] \in kinds /\ CollectionOf[mark[2]] = c

(* A completed refresh left in a collection nothing but what it read from  *)
(* the files of the collection's sources, unless one of these has no files *)
(* or the old collection could not be deleted; and all of it, unless a     *)
(* batch failed. The job completes all the same in these three cases       *)
(* (index_pdfs_to_chroma.py:206, 226, 261).                                *)
CompletedIsFresh ==
  LastRefresh # None =>
    LET w == worker[LastRefresh] IN
    \A s \in Sources :
      LET c == CollectionOf[s] IN
      ~IsMarked(w, {"empty", "kept"}, c) =>
        /\ chroma[c] # None
        /\ \A q \in Sources, f \in Stems :
              /\ chroma[c].chunks[q][f] # None =>
                    CollectionOf[q] = c /\ chroma[c].chunks[q][f] = w.read[q][f]
              /\ CollectionOf[q] = c => chroma[c].chunks[q][f] = w.read[q][f]

(* A policy generated after a refresh has completed, and before the next   *)
(* one starts, is written from what that refresh read, with something      *)
(* found in every collection it searched that a source goes into;          *)
(* overlapping a refresh it may find nothing, or half (rag.py:46,          *)
(* client.py:70).                                                          *)
EvidenceIsCurrent ==
  \A g \in Generations :
    gen[g].at = "done" /\ LastRefresh # None /\ gen[g].after = LastRefresh =>
      \A n \in 1 .. Len(Searched) :
        LET c == Searched[n]
            chunk == gen[g].found[n]
            w == worker[LastRefresh]
        IN  (\E s \in Sources : CollectionOf[s] = c) /\ ~IsMarked(w, {"empty", "kept", "lost"}, c) =>
              /\ chunk # None
              /\ CollectionOf[chunk.source] = c
              /\ chunk.edition = w.read[chunk.source][chunk.file]

(* Whoever is told that the index is ready is told so while no refresh     *)
(* runs; and every collection is there, unless a refresh began or ended    *)
(* since the collections were listed (logic.py:558 and 576).               *)
ReadyIsTrue ==
  [][\A v \in Viewers :
       viewer[v].at = "listed" /\ viewer'[v].at = "ready" =>
         /\ ~IsRunning
         /\ viewer[v].job = job => IsWhole]_vars

RunsJob(r) == job # None /\ job.id = r /\ job.status = "running"

(* A job whose thread was started ends, whatever its process does, as long *)
(* as Chroma answers when the thread asks it for the state of the index;   *)
(* if it does not, the job runs for ever, for the call has no timeout      *)
(* (logic.py:675, http_client.py:17), and so does one whose thread could   *)
(* not be started.                                                         *)
StartedJobEnds ==
  \A r \in Requests :
    []<>(worker[r].at # "exited") => (RunsJob(r) /\ HasThread(r) ~> ~RunsJob(r))
=============================================================================
