------------------------- MODULE RecognitionProviders -------------------------
(***************************************************************************)
(* The worker threads that share the cached detector and embedder of one   *)
(* Settings object (provider_factory and the two local providers).  A      *)
(* cache lock guards get-or-create; each instance has a lock of its own    *)
(* around lazy loading and inference; neither is taken while the other is  *)
(* held.  A detector's native object keeps the input size it was last      *)
(* given, and the instance remembers that size.                            *)
(***************************************************************************)
EXTENDS Naturals, FiniteSets

CONSTANTS
    Threads,     \* worker threads
    Sizes,       \* dimensions of the images they decode
    DefaultSize, \* FACE_DETECTOR_INPUT_SIZE_PX, squared
    MaxTasks,    \* bound: tasks in a behaviour
    Nobody       \* no thread, no instance

Providers == {"detector", "embedder"}

\* The nth instance made of a provider; bound: one for each task.
Instances == Providers \X (1 .. MaxTasks)

VARIABLES
    cache,      \* the cached instance of each provider
    cacheLock,  \* the thread inside get-or-create
    made,       \* instances constructed so far, of each provider
    model,      \* instance -> [loaded, native, recorded, lock]
    thread,     \* what each worker thread is doing
    tasks       \* tasks started so far

providerVars == <<cache, cacheLock, made, model, thread, tasks>>

ThreadPoints == {"idle", "get", "look", "make", "wait", "load", "resize", "record", "infer", "leave"}

Fresh == [loaded |-> FALSE, native |-> DefaultSize, recorded |-> DefaultSize, lock |-> Nobody]

\* A worker's program point, job, image size, the provider it is at and the
\* instance it found in the cache.
Task(pc, job, size, p, found) ==
    [pc |-> pc, job |-> job, size |-> size, provider |-> p, found |-> found]

Resting == Task("idle", "none", DefaultSize, "detector", Nobody)

ProviderInit ==
    /\ cache = [p \in Providers |-> Nobody] /\ cacheLock = Nobody
    /\ made = [p \in Providers |-> 0]
    /\ model = [i \in Instances |-> Fresh]
    /\ thread = [t \in Threads |-> Resting]
    /\ tasks = 0

At(t, pc) == thread[t].pc = pc

StepTo(t, pc) == thread' = [thread EXCEPT ![t].pc = pc]

Mine(t) == model[thread[t].found]

\* get_detector or get_embedder returns instance i.
Return(t, i) ==
    /\ thread' = [thread EXCEPT ![t] = Task("wait", @.job, @.size, @.provider, i)]
    /\ cacheLock' = Nobody

\* Embed a photo of some size, or answer a health request.
Start(t) ==
    /\ At(t, "idle") /\ tasks < MaxTasks
    /\ \E job \in {"embed", "health"}, size \in Sizes :
          thread' = [thread EXCEPT ![t] = Task("get", job, size, "detector", Nobody)]
    /\ tasks' = tasks + 1
    /\ UNCHANGED <<cache, cacheLock, made, model>>

(***************************************************************************)
(* get_detector, get_embedder.                                             *)
(***************************************************************************)
EnterCache(t) ==
    /\ At(t, "get") /\ cacheLock = Nobody
    /\ cacheLock' = t /\ StepTo(t, "look")
    /\ UNCHANGED <<cache, made, model, tasks>>

Look(t) ==
    /\ At(t, "look")
    /\ LET hit == cache[thread[t].provider]
       IN  IF hit = Nobody THEN StepTo(t, "make") /\ UNCHANGED cacheLock
           ELSE Return(t, hit)
    /\ UNCHANGED <<cache, made, model, tasks>>

Make(t) ==
    /\ At(t, "make")
    /\ LET p   == thread[t].provider
           new == <<p, made[p] + 1>>
       IN  /\ made' = [made EXCEPT ![p] = @ + 1]
           /\ cache' = [cache EXCEPT ![p] = new]
           /\ Return(t, new)
    /\ UNCHANGED <<model, tasks>>

(***************************************************************************)
(* _ensure_loaded, detect and embed, under the instance's RLock.           *)
(***************************************************************************)
\* Once loaded, a health probe has nothing more to do.
Ready(t) ==
    IF thread[t].job = "health" THEN "leave"
    ELSE IF thread[t].provider = "detector" /\ thread[t].size # Mine(t).recorded
         THEN "resize" ELSE "infer"

Enter(t) ==
    /\ At(t, "wait") /\ Mine(t).lock = Nobody
    /\ model' = [model EXCEPT ![thread[t].found].lock = t]
    /\ StepTo(t, IF Mine(t).loaded THEN Ready(t) ELSE "load")
    /\ UNCHANGED <<cache, cacheLock, made, tasks>>

\* Verifies the artifact and loads it.
LoadModel(t) ==
    /\ At(t, "load")
    /\ model' = [model EXCEPT ![thread[t].found] =
          [loaded |-> TRUE, native |-> DefaultSize, recorded |-> DefaultSize, lock |-> @.lock]]
    /\ StepTo(t, IF thread[t].job = "embed" /\ thread[t].provider = "detector"
                  /\ thread[t].size # DefaultSize THEN "resize"
               ELSE IF thread[t].job = "embed" THEN "infer" ELSE "leave")
    /\ UNCHANGED <<cache, cacheLock, made, tasks>>

\* Mutant: the size is recorded before the native object has taken it.
ResizeRecordedFirst(t) ==
    /\ At(t, "resize")
    /\ model' = [model EXCEPT ![thread[t].found].recorded = thread[t].size]
    /\ \/ StepTo(t, "leave")
       \/ StepTo(t, "record")
    /\ UNCHANGED <<cache, cacheLock, made, tasks>>

Resize(t) ==
    /\ At(t, "resize")
    /\ model' = [model EXCEPT ![thread[t].found].native = thread[t].size]
    /\ StepTo(t, "record")
    /\ UNCHANGED <<cache, cacheLock, made, tasks>>

Record(t) ==
    /\ At(t, "record")
    /\ model' = [model EXCEPT ![thread[t].found].recorded = thread[t].size]
    /\ StepTo(t, "infer")
    /\ UNCHANGED <<cache, cacheLock, made, tasks>>

Infer(t) ==
    /\ At(t, "infer") /\ StepTo(t, "leave")
    /\ UNCHANGED <<cache, cacheLock, made, model, tasks>>

\* The artifact, the native resize or the inference fails: the task ends.
FailTask(t) ==
    /\ thread[t].pc \in {"load", "resize", "infer"}
    /\ thread' = [thread EXCEPT ![t] =
          Task("leave", IF @.job = "health" THEN "health" ELSE "failed",
               @.size, @.provider, @.found)]
    /\ UNCHANGED <<cache, cacheLock, made, model, tasks>>

\* Releases the instance; the embedder follows the detector.
Leave(t) ==
    /\ At(t, "leave")
    /\ model' = [model EXCEPT ![thread[t].found].lock = Nobody]
    /\ thread' = [thread EXCEPT ![t] =
          IF @.provider = "detector" /\ @.job # "failed"
          THEN Task("get", @.job, @.size, "embedder", @.found) ELSE Resting]
    /\ UNCHANGED <<cache, cacheLock, made, tasks>>

TaskStep(t) ==
    \/ Start(t) \/ EnterCache(t) \/ Look(t) \/ Make(t)
    \/ Enter(t) \/ LoadModel(t) \/ Resize(t) \/ Record(t) \/ Infer(t) \/ FailTask(t) \/ Leave(t)

ProviderNext == \E t \in Threads : TaskStep(t)

ProviderSpec == ProviderInit /\ [][ProviderNext]_providerVars

(***************************************************************************)
(* Properties.                                                             *)
(***************************************************************************)
\* Whatever order threads, failures and image sizes come in, a native model
\* never serves two threads at once (one instance of each provider, on which
\* loading and inference do not overlap), and the native detector infers at the
\* size of the image it is given.
InferenceIsolated ==
    /\ \A p \in Providers : made[p] <= 1
    /\ \A t, u \in Threads :
          /\ t # u /\ thread[t].found # Nobody /\ thread[t].found = thread[u].found
          /\ thread[t].pc \in {"load", "resize", "record", "infer"}
          => thread[u].pc \notin {"load", "resize", "record", "infer"}
    /\ \A t \in Threads : At(t, "infer") /\ thread[t].provider = "detector" =>
          Mine(t).native = thread[t].size
=============================================================================
