--------------------------- MODULE ProcessingProofs ---------------------------
(***************************************************************************)
(* Proofs about the processing of samples: the rows the calls write, and   *)
(* the providers their threads share.                                      *)
(***************************************************************************)
EXTENDS SampleProcessing, RecognitionProviders, WellFoundedInduction, TLAPS

(***************************************************************************)
(* For every number of calls and samples: the processing state of a row is *)
(* justified whoever wrote its columns, and a sample that has left the     *)
(* active zone for good gains no embedding.                                *)
(***************************************************************************)

\* A row that nobody has answered for has no failure reason.
PendingClean == \A k \in Samples : state[k] = "pending_processing" => reason[k] = NoReason

\* What a session loaded of the samples it still has to process.
LoadedRows(r) ==
    work[r].pc # "idle" => \A k \in work[r].todo :
        /\ work[r].state[k] \in {"pending_processing", "processing_failed"}
        /\ work[r].state[k] = "pending_processing" => work[r].reason[k] = NoReason
        /\ work[r].state[k] = "processing_failed" =>
              work[r].reason[k] # NoReason /\ state[k] # "pending_processing"

\* A call fails with a reason.
FailureHasCode(r) == work[r].pc = "fail" => work[r].code # NoReason

\* The rows of samples whose file is in the active zone, or whose embedding a call
\* is about to store.
InActiveZone == {"active", "deletion_pending"}

FilesInZone == \A k \in file : status[k] \in InActiveZone

SuccessInZone(r) == work[r].pc = "succeed" => status[CurrentSample(r)] \in InActiveZone

IInv ==
    /\ SampleTypeOK
    /\ PendingClean
    /\ StateJustified
    /\ FilesInZone
    /\ \A r \in Processors : LoadedRows(r) /\ FailureHasCode(r) /\ SuccessInZone(r)

(***************************************************************************)
(* Helpers.                                                                *)
(***************************************************************************)
Call0 == [pc : CallPoints, todo : SUBSET Samples, code : Codes \cup {NoReason},
          state : [Samples -> States], reason : [Samples -> Codes \cup {NoReason}]]

\* The sample a call works on is one of those it has left.
LEMMA CurrentIsLeft ==
    ASSUME SampleTypeOK, NEW r \in Processors, work[r].pc # "idle"
    PROVE  CurrentSample(r) \in work[r].todo /\ CurrentSample(r) \in Samples
  <1>1. work[r].todo \in SUBSET Nat /\ work[r].todo # {} /\ work[r].todo \subseteq Samples
    BY SamplesAssumption DEF SampleTypeOK
  <1>2. \E k \in work[r].todo : \A j \in work[r].todo : k <= j
    <2>1. PICK R : IsWellFoundedOn(R, Nat) /\ R = {p \in Nat \X Nat : p[1] < p[2]}
      BY NatLessThanWellFounded DEF OpToRel
    <2>2. \A j, k \in Nat : <<j, k>> \in R <=> j < k
      BY <2>1
    <2>3. PICK k \in work[r].todo : \A j \in work[r].todo : <<j, k>> \notin R
      BY <1>1, <2>1, WFMin
    <2>4. ASSUME NEW j \in work[r].todo PROVE k <= j
      <3>1. j \in Nat /\ k \in Nat
        BY <1>1
      <3>2. ~ (j < k)
        BY <3>1, <2>2, <2>3
      <3>3. QED  BY <3>1, <3>2
    <2>5. QED  BY <2>4
  <1>3. QED  BY <1>1, <1>2 DEF CurrentSample

\* A call that has committed one sample goes on to the next or ends.
LEMMA AdvanceLeaves ==
    ASSUME SampleTypeOK, NEW r \in Processors, work[r].pc # "idle", Advance(r)
    PROVE  /\ work' \in [Processors -> Call0]
           /\ \A q \in Processors \ {r} : work'[q] = work[q]
           /\ work'[r].pc \in {"idle", "start"}
           /\ work'[r].pc = "start" =>
                /\ work'[r].todo # {} /\ work'[r].todo \subseteq work[r].todo
                /\ work'[r].state = work[r].state /\ work'[r].reason = work[r].reason
  <1>1. CurrentSample(r) \in work[r].todo
    BY CurrentIsLeft
  <1>2. work \in [Processors -> Call0]
    BY DEF SampleTypeOK, Call0
  <1>3. CASE work[r].todo = {CurrentSample(r)}
    BY <1>2, <1>3, ReasonsAssumption DEF Advance, NoCall, Call0, CallPoints, States, Codes
  <1>4. CASE work[r].todo # {CurrentSample(r)}
    BY <1>1, <1>2, <1>4 DEF Advance, Call0, CallPoints
  <1>5. QED  BY <1>3, <1>4

\* A step that writes no row keeps what is known of the calls it leaves alone.
LEMMA QuietStep ==
    ASSUME IInv, NEW r \in Processors, UNCHANGED <<sampleRows, file, embedding, audited>>,
           work' \in [Processors -> Call0], \A q \in Processors \ {r} : work'[q] = work[q],
           work'[r].pc # "idle" => work'[r].todo # {},
           LoadedRows(r)', FailureHasCode(r)', SuccessInZone(r)'
    PROVE  IInv'
  <1>1. SampleTypeOK'
    BY DEF IInv, SampleTypeOK, Call0, sampleRows
  <1>2. PendingClean' /\ StateJustified' /\ FilesInZone'
    BY DEF IInv, PendingClean, StateJustified, FilesInZone, sampleRows
  <1>3. ASSUME NEW q \in Processors \ {r}
        PROVE  LoadedRows(q)' /\ FailureHasCode(q)' /\ SuccessInZone(q)'
    <2>1. work'[q] = work[q] /\ status' = status /\ state' = state
      BY DEF sampleRows
    <2>2. QED  BY <2>1 DEF IInv, LoadedRows, FailureHasCode, SuccessInZone, CurrentSample
  <1>4. QED  BY <1>1, <1>2, <1>3 DEF IInv

LEMMA LoadStep ==
    ASSUME IInv, NEW r \in Processors, work[r].pc = "idle", NEW S \in SUBSET Samples,
           \A k \in S : state[k] \in {"pending_processing", "processing_failed"},
           LoadRows(r, S), UNCHANGED <<sampleRows, file, embedding, audited>>
    PROVE  IInv'
  <1>1. CASE S = {}
    <2>1. work' = work /\ work \in [Processors -> Call0]
      BY <1>1 DEF LoadRows, IInv, SampleTypeOK, Call0
    <2>2. LoadedRows(r)' /\ FailureHasCode(r)' /\ SuccessInZone(r)'
      BY <2>1 DEF LoadedRows, FailureHasCode, SuccessInZone
    <2>3. QED  BY <2>1, <2>2, QuietStep DEF IInv, SampleTypeOK
  <1>2. CASE S # {}
    <2>1. /\ work' \in [Processors -> Call0] /\ \A q \in Processors \ {r} : work'[q] = work[q]
          /\ work'[r].pc = "start" /\ work'[r].todo = S
          /\ work'[r].state = state /\ work'[r].reason = reason
      <3>1. work' = [work EXCEPT ![r] = [pc |-> "start", todo |-> S, code |-> NoReason,
                                       state |-> state, reason |-> reason]]
        BY <1>2 DEF LoadRows, NoCall
      <3>2. QED  BY <3>1 DEF IInv, SampleTypeOK, Call0, CallPoints
    <2>2. LoadedRows(r)'
      BY <2>1 DEF LoadedRows, IInv, PendingClean, StateJustified, sampleRows
    <2>3. FailureHasCode(r)' /\ SuccessInZone(r)'
      BY <2>1 DEF FailureHasCode, SuccessInZone
    <2>4. QED  BY <1>2, <2>1, <2>2, <2>3, QuietStep
  <1>3. QED  BY <1>1, <1>2

LEMMA CallStep == ASSUME IInv, NEW r \in Processors, Call(r) PROVE IInv'
  <1>1. ASSUME NEW k \in Samples, ProcessSample(r, k) \/ RetrySample(r, k) PROVE IInv'
    BY <1>1, LoadStep DEF ProcessSample, RetrySample
  <1>2. ASSUME NEW limit \in 1 .. Ceiling + 1, ProcessPendingBatch(r, limit) PROVE IInv'
    <2>1. /\ Oldest(Awaiting, Bounded(limit)) \in SUBSET Samples
          /\ \A k \in Oldest(Awaiting, Bounded(limit)) : state[k] = "pending_processing"
      BY DEF Oldest, Awaiting
    <2>2. QED  BY <1>2, <2>1, LoadStep DEF ProcessPendingBatch
  <1>3. QED  BY <1>1, <1>2 DEF Call

\* A call goes on with the same sample.
GoesOn(r, pc, code) ==
    /\ work' \in [Processors -> Call0] /\ \A q \in Processors \ {r} : work'[q] = work[q]
    /\ work'[r].pc = pc /\ work'[r].code = code /\ work'[r].todo = work[r].todo
    /\ work'[r].state = work[r].state /\ work'[r].reason = work[r].reason

LEMMA GoOn ==
    ASSUME IInv, NEW r \in Processors, work[r].pc # "idle", NEW pc, NEW code, GoesOn(r, pc, code),
           pc = "fail" => code # NoReason,
           pc = "succeed" => status[CurrentSample(r)] \in InActiveZone,
           UNCHANGED <<sampleRows, file, embedding, audited>>
    PROVE  IInv'
  <1>1. LoadedRows(r)'
    BY DEF GoesOn, LoadedRows, IInv, sampleRows
  <1>2. FailureHasCode(r)' /\ SuccessInZone(r)'
    BY DEF GoesOn, FailureHasCode, SuccessInZone, CurrentSample, sampleRows
  <1>3. QED  BY <1>1, <1>2, QuietStep DEF GoesOn, IInv, SampleTypeOK

LEMMA EmbedStep == ASSUME IInv, NEW r \in Processors, MarkStarted(r) \/ Embed(r) PROVE IInv'
  <1>1. work \in [Processors -> Call0]
    BY DEF IInv, SampleTypeOK, Call0
  <1>2. CASE MarkStarted(r)
    <2>1. GoesOn(r, "embed", work[r].code)
      BY <1>1, <1>2 DEF MarkStarted, MoveTo, GoesOn, Call0, CallPoints
    <2>2. QED  BY <1>2, <2>1, GoOn DEF MarkStarted
  <1>3. CASE Embed(r) /\ CurrentSample(r) \in file /\ MoveTo(r, "succeed")
    <2>1. GoesOn(r, "succeed", work[r].code)
      BY <1>1, <1>3 DEF MoveTo, GoesOn, Call0, CallPoints
    <2>2. status[CurrentSample(r)] \in InActiveZone
      BY <1>3 DEF IInv, FilesInZone
    <2>3. QED  BY <1>3, <2>1, <2>2, GoOn DEF Embed
  <1>4. ASSUME Embed(r), NEW c \in Codes, work' = [work EXCEPT ![r].pc = "fail", ![r].code = c]
        PROVE  IInv'
    <2>1. GoesOn(r, "fail", c)
      BY <1>1, <1>4 DEF GoesOn, Call0, CallPoints
    <2>2. c # NoReason
      BY ReasonsAssumption DEF Codes
    <2>3. QED  BY <1>4, <2>1, <2>2, GoOn DEF Embed
  <1>5. QED  BY <1>2, <1>3, <1>4 DEF Embed, Codes

\* The answer for one sample: whatever its columns were, they stay justified.
LEMMA PersistStep ==
    ASSUME IInv, NEW r \in Processors, PersistSuccess(r) \/ PersistFailure(r)
    PROVE  IInv'
  <1> DEFINE k == CurrentSample(r)
  <1>1. work[r].pc # "idle" /\ k \in work[r].todo /\ k \in Samples
    BY CurrentIsLeft DEF PersistSuccess, PersistFailure, IInv
  <1>2. /\ work' \in [Processors -> Call0] /\ \A q \in Processors \ {r} : work'[q] = work[q]
        /\ work'[r].pc \in {"idle", "start"}
        /\ work'[r].pc = "start" =>
              /\ work'[r].todo # {} /\ work'[r].todo \subseteq work[r].todo
              /\ work'[r].state = work[r].state /\ work'[r].reason = work[r].reason
    BY <1>1, AdvanceLeaves DEF PersistSuccess, PersistFailure, IInv
  <1>3. /\ work[r].state[k] \in {"pending_processing", "processing_failed"}
        /\ work[r].state[k] = "pending_processing" => work[r].reason[k] = NoReason
        /\ work[r].state[k] = "processing_failed" =>
              work[r].reason[k] # NoReason /\ state[k] # "pending_processing"
    BY <1>1 DEF IInv, LoadedRows
  <1>4. /\ status' = status /\ file' = file
        /\ state' \in [Samples -> States] /\ reason' \in [Samples -> Codes \cup {NoReason}]
        /\ embedding' \subseteq Samples
        /\ audited' \in [success : SUBSET Samples, failure : SUBSET Samples]
        /\ \A j \in Samples \ {k} : state'[j] = state[j] /\ reason'[j] = reason[j]
        /\ embedding \subseteq embedding' /\ audited.success \subseteq audited'.success
        /\ audited.failure \subseteq audited'.failure
    <2>1. CASE PersistSuccess(r)
      BY <1>1, <2>1 DEF PersistSuccess, Written, IInv, SampleTypeOK, States
    <2>2. CASE PersistFailure(r)
      BY <1>1, <2>2 DEF PersistFailure, Written, IInv, SampleTypeOK, States
    <2>3. QED  BY <2>1, <2>2
  <1>5. /\ state'[k] # "pending_processing"
        /\ state'[k] = "processed" => k \in embedding' \cap audited'.success
        /\ state'[k] = "processing_failed" => reason'[k] # NoReason /\ k \in audited'.failure
    <2>1. CASE PersistSuccess(r)
      BY <1>1, <1>3, <2>1 DEF PersistSuccess, Written, IInv, SampleTypeOK, StateJustified, States
    <2>2. CASE PersistFailure(r)
      <3>1. work[r].code # NoReason
        BY <2>2 DEF PersistFailure, IInv, FailureHasCode
      <3>2. QED
        BY <1>1, <1>3, <2>2, <3>1 DEF PersistFailure, Written, IInv, SampleTypeOK, StateJustified, States
    <2>3. QED  BY <2>1, <2>2
  <1>6. SampleTypeOK'
    BY <1>2, <1>4 DEF IInv, SampleTypeOK, Call0
  <1>7. PendingClean' /\ StateJustified' /\ FilesInZone'
    BY <1>4, <1>5 DEF IInv, PendingClean, StateJustified, FilesInZone
  <1>8. ASSUME NEW q \in Processors
        PROVE  LoadedRows(q)' /\ FailureHasCode(q)' /\ SuccessInZone(q)'
    <2>1. \A j \in Samples : state[j] # "pending_processing" => state'[j] # "pending_processing"
      BY <1>4, <1>5
    <2>2. CASE q = r
      <3>1. FailureHasCode(r)' /\ SuccessInZone(r)'
        BY <1>2 DEF FailureHasCode, SuccessInZone
      <3>2. work[r].todo \subseteq Samples /\ LoadedRows(r)
        BY DEF IInv, SampleTypeOK
      <3>3. LoadedRows(r)'
        BY <1>1, <1>2, <2>1, <3>2 DEF LoadedRows
      <3>4. QED  BY <2>2, <3>1, <3>3
    <2>3. CASE q # r
      <3>1. work'[q] = work[q] /\ work[q].todo \subseteq Samples
        BY <1>2, <2>3 DEF IInv, SampleTypeOK
      <3>2. QED
        BY <1>4, <2>1, <3>1 DEF IInv, LoadedRows, FailureHasCode, SuccessInZone, CurrentSample
    <2>4. QED  BY <2>2, <2>3
  <1>9. QED  BY <1>6, <1>7, <1>8 DEF IInv

LEMMA AbortStep == ASSUME IInv, NEW r \in Processors, AbortCall(r) PROVE IInv'
  <1>1. /\ work' \in [Processors -> Call0] /\ \A q \in Processors \ {r} : work'[q] = work[q]
        /\ work'[r].pc = "idle"
    BY ReasonsAssumption DEF AbortCall, NoCall, IInv, SampleTypeOK, Call0, CallPoints, States, Codes
  <1>2. QED
    BY <1>1, QuietStep DEF AbortCall, LoadedRows, FailureHasCode, SuccessInZone

\* The lifecycle waits for the calls that hold the row.
LEMMA LifecycleStep == ASSUME IInv, NEW k \in Samples, Lifecycle(k) PROVE IInv'
  <1>1. /\ UNCHANGED <<state, reason, embedding, audited, work>>
        /\ status' \in [Samples -> SampleStatuses] /\ file' \subseteq Samples
        /\ \A j \in Samples \ {k} : status'[j] = status[j]
    BY DEF Lifecycle, ActivateSample, RequestRemoval, QuarantineFile, FinishRemoval, sampleRows,
        IInv, SampleTypeOK, SampleStatuses
  <1>2. SampleTypeOK' /\ PendingClean' /\ StateJustified'
    BY <1>1 DEF IInv, SampleTypeOK, PendingClean, StateJustified
  <1>3. FilesInZone'
    BY DEF Lifecycle, ActivateSample, RequestRemoval, QuarantineFile, FinishRemoval, sampleRows,
        IInv, SampleTypeOK, FilesInZone, InActiveZone
  <1>4. ASSUME NEW r \in Processors PROVE LoadedRows(r)' /\ FailureHasCode(r)'
    BY <1>1 DEF IInv, LoadedRows, FailureHasCode
  <1>5. ASSUME NEW r \in Processors, work[r].pc = "succeed"
        PROVE  status'[CurrentSample(r)] \in InActiveZone
    <2>1. CurrentSample(r) \in Samples /\ status[CurrentSample(r)] \in InActiveZone
      BY <1>5, CurrentIsLeft DEF IInv, SuccessInZone
    <2>2. CASE CurrentSample(r) # k
      BY <1>1, <2>1, <2>2
    <2>3. CASE CurrentSample(r) = k
      <3>1. Holds(r, k)
        BY <1>5, <2>3 DEF Holds
      <3>2. status' = status \/ status[k] = "pending"
        BY <3>1 DEF Lifecycle, ActivateSample, RequestRemoval, QuarantineFile, FinishRemoval, sampleRows
      <3>3. QED  BY <2>1, <2>3, <3>2 DEF InActiveZone
    <2>4. QED  BY <2>2, <2>3
  <1>6. \A r \in Processors : SuccessInZone(r)'
    BY <1>1, <1>5 DEF SuccessInZone, CurrentSample
  <1>7. QED  BY <1>2, <1>3, <1>4, <1>6 DEF IInv

(***************************************************************************)
(* The theorems.                                                           *)
(***************************************************************************)
LEMMA InitIInv == ASSUME SampleInit PROVE IInv
  <1>1. SampleTypeOK
    BY ReasonsAssumption DEF SampleInit, SampleTypeOK, NoCall, SampleStatuses, States, CallPoints, Codes
  <1>2. QED
    BY <1>1 DEF SampleInit, IInv, PendingClean, StateJustified, FilesInZone, LoadedRows,
        FailureHasCode, SuccessInZone, NoCall

LEMMA StepIInv == ASSUME IInv, [SampleNext]_sampleVars PROVE IInv'
  <1>1. CASE UNCHANGED sampleVars
    <2>1. UNCHANGED <<status, file, state, reason, embedding, audited, work>>
      BY <1>1 DEF sampleVars
    <2>2. QED
      BY <2>1 DEF IInv, SampleTypeOK, PendingClean, StateJustified, FilesInZone, LoadedRows,
          FailureHasCode, SuccessInZone, CurrentSample
  <1>2. ASSUME NEW r \in Processors, Work(r) PROVE IInv'
    BY <1>2, EmbedStep, PersistStep DEF Work
  <1>3. QED  BY <1>1, <1>2, CallStep, AbortStep, LifecycleStep DEF SampleNext

LEMMA Invariance == SampleSpec => []IInv
  BY InitIInv, StepIInv, PTL DEF SampleSpec

\* Every variable keeps its type, and a call that works has a sample to work on,
\* for any number of samples, calls and reasons.
THEOREM ProcessingTypeCorrect == SampleSpec => []SampleTypeOK
  <1>1. IInv => SampleTypeOK
    BY DEF IInv
  <1>2. QED  BY <1>1, Invariance, PTL

\* Whatever calls overlap on a row and whichever versions of it they had loaded,
\* PROCESSED means an active embedding and an audited success, a failure an audited
\* failure with its reason.
THEOREM StatesAreJustified == SampleSpec => []StateJustified
  <1>1. IInv => StateJustified
    BY DEF IInv
  <1>2. QED  BY <1>1, Invariance, PTL

\* No embedding is stored for a sample whose row says QUARANTINED or DELETED: the
\* call that is about to store one holds the row.
THEOREM RemovedSamplesGainNothing == SampleSpec => RemovedGainsNoEmbedding
  <1>1. ASSUME IInv, [SampleNext]_sampleVars
        PROVE  [\A k \in embedding' \ embedding : status[k] \in {"active", "deletion_pending"}]_sampleVars
    <2>1. CASE embedding' = embedding
      BY <2>1
    <2>2. ASSUME NEW r \in Processors, PersistSuccess(r)
          PROVE  \A k \in embedding' \ embedding : status[k] \in {"active", "deletion_pending"}
      BY <1>1, <2>2 DEF PersistSuccess, IInv, SuccessInZone, InActiveZone
    <2>3. embedding' = embedding \/ \E r \in Processors : PersistSuccess(r)
      BY <1>1 DEF SampleNext, sampleVars, Lifecycle, ActivateSample, RequestRemoval, QuarantineFile, FinishRemoval,
          Call, ProcessSample, RetrySample, ProcessPendingBatch, Work, MarkStarted, Embed,
          PersistFailure, AbortCall
    <2>4. QED  BY <2>1, <2>2, <2>3
  <1>2. QED  BY <1>1, Invariance, PTL DEF SampleSpec, RemovedGainsNoEmbedding

(***************************************************************************)
(* The locks of the cached providers isolate inference for any number of   *)
(* threads and image sizes.  The argument is the invariant of a lock: who  *)
(* is past its acquisition is the one it names.                            *)
(***************************************************************************)

\* The bound on the tasks is a number, and Nobody is nobody.
Distinguished == MaxTasks \in Nat /\ Nobody \notin Threads \cup Instances

InCache == {"look", "make"}

\* Past Enter and before Leave.
Holding == {"load", "resize", "record", "infer", "leave"}

Only(p) == <<p, 1>>

Model == [loaded : BOOLEAN, native : Sizes \cup {DefaultSize},
          recorded : Sizes \cup {DefaultSize}, lock : Threads \cup {Nobody}]

TaskType == [pc : ThreadPoints, job : {"none", "embed", "health", "failed"},
             size : Sizes \cup {DefaultSize}, provider : Providers,
             found : Instances \cup {Nobody}]

Typed ==
    /\ cache \in [Providers -> Instances \cup {Nobody}]
    /\ cacheLock \in Threads \cup {Nobody}
    /\ made \in [Providers -> Nat]
    /\ model \in [Instances -> Model]
    /\ thread \in [Threads -> TaskType]
    /\ tasks \in 0 .. MaxTasks

\* Get-or-create: one instance of each provider, and whoever is inside knows
\* that the cache is empty before it makes one.
CacheSound ==
    /\ \A p \in Providers : \/ made[p] = 0 /\ cache[p] = Nobody
                            \/ made[p] = 1 /\ cache[p] = Only(p)
    /\ \A t \in Threads : thread[t].pc \in InCache => cacheLock = t
    /\ \A t \in Threads : At(t, "make") => cache[thread[t].provider] = Nobody
    /\ \A t \in Threads : ~At(t, "idle") => tasks >= 1

\* The instance's lock names the thread that is past Enter.
LocksSound ==
    \A t \in Threads :
        /\ At(t, "wait") => thread[t].found \in Instances
        /\ thread[t].pc \in Holding =>
              /\ thread[t].found \in Instances
              /\ Mine(t).lock = t

\* The size of the native detector is the recorded one, except between the two
\* assignments of its holder.
SizesSound ==
    /\ \A i \in Instances :
          \/ model[i].native = model[i].recorded
          \/ \E t \in Threads : At(t, "record") /\ thread[t].found = i
    /\ \A t \in Threads : At(t, "record") => Mine(t).native = thread[t].size
    /\ \A t \in Threads : At(t, "infer") /\ thread[t].provider = "detector" =>
          Mine(t).native = thread[t].size

ProviderInv == Typed /\ CacheSound /\ LocksSound /\ SizesSound

LEMMA InitProviderInv ==
  ASSUME Distinguished PROVE ProviderInit => ProviderInv
  BY DEF Distinguished, ProviderInit, ProviderInv, Typed, Model, TaskType, CacheSound,
         LocksSound, SizesSound, Fresh,
         Resting, Task, Providers, ThreadPoints, At, InCache, Holding

\* A thread at or past the instance's lock has found an instance.
LEMMA FoundOne ==
  ASSUME ProviderInv, NEW t \in Threads, thread[t].pc \in Holding \cup {"wait"}
  PROVE  /\ thread[t].found \in Instances
         /\ thread[t].pc \in Holding => model[thread[t].found].lock = t
  BY DEF ProviderInv, LocksSound, Holding, At, Mine

\* A thread that is about to make an instance makes the first one.
LEMMA MakesTheFirst ==
  ASSUME Distinguished, ProviderInv, NEW t \in Threads, At(t, "make")
  PROVE  /\ thread[t].provider \in Providers
         /\ made[thread[t].provider] = 0
         /\ <<thread[t].provider, 1>> \in Instances
  <1> USE DEF ProviderInv
  <1>1. thread[t].provider \in Providers
    BY DEF Typed, Model, TaskType
  <1>2. tasks >= 1 /\ cache[thread[t].provider] = Nobody
    BY DEF CacheSound, At
  <1>3. 1 \in 1 .. MaxTasks
    BY <1>2 DEF Typed, Distinguished
  <1>4. <<thread[t].provider, 1>> \in Instances
    BY <1>1, <1>3 DEF Instances
  <1>5. Nobody # Only(thread[t].provider)
    BY <1>4 DEF Distinguished, Only
  <1>6. made[thread[t].provider] = 0
    BY <1>1, <1>2, <1>5 DEF CacheSound
  <1>7. QED  BY <1>1, <1>4, <1>6

\* The lock of an instance is taken by a thread, and an instance is given the size
\* of a task's image.
LEMMA ModelsStayTyped ==
  ASSUME Typed, NEW i \in Instances, NEW t \in Threads
  PROVE  /\ model' = [model EXCEPT ![i].lock = t] => model' \in [Instances -> Model]
         /\ model' = [model EXCEPT ![i].native = thread[t].size]
               => model' \in [Instances -> Model]
         /\ model' = [model EXCEPT ![i].recorded = thread[t].size]
               => model' \in [Instances -> Model]
  <1>1. model' = [model EXCEPT ![i].lock = t] => model' \in [Instances -> Model]
    BY DEF Typed, Model
  <1>2. model' = [model EXCEPT ![i].native = thread[t].size]
            => model' \in [Instances -> Model]
    BY DEF Typed, Model, TaskType
  <1>3. model' = [model EXCEPT ![i].recorded = thread[t].size]
            => model' \in [Instances -> Model]
    BY SMTT(30) DEF Typed, Model, TaskType
  <1>4. QED  BY <1>1, <1>2, <1>3

LEMMA StepKeepsTypes ==
  ASSUME Distinguished, ProviderInv, NEW t \in Threads, TaskStep(t)
  PROVE  Typed'
  <1>0. /\ thread[t].pc \in Holding \cup {"wait"} => thread[t].found \in Instances
        /\ thread[t].pc \in Holding => model[thread[t].found].lock = t
    BY FoundOne
  <1> USE DEF Distinguished, ProviderInv, Typed, Model, TaskType, Providers, ThreadPoints,
              Holding, At,
              StepTo
  <1>1. CASE Start(t)
    BY <1>1 DEF Start, Resting, Task
  <1>2. CASE EnterCache(t)
    BY <1>2, SMTT(30) DEF EnterCache
  <1>3. CASE Look(t)
    BY <1>3 DEF Look, Return, Task
  <1>4. CASE Make(t)
    <2>1. At(t, "make")
      BY <1>4 DEF Make
    <2>2. /\ made[thread[t].provider] = 0
          /\ <<thread[t].provider, 1>> \in Instances
      BY <2>1, MakesTheFirst
    <2>3. QED  BY <1>4, <2>2 DEF Make, Return, Task
  <1>5. CASE Enter(t)
    <2>1. model' \in [Instances -> Model]
      <3> HIDE DEF Model, TaskType, Typed
      <3>1. /\ thread[t].found \in Instances /\ Typed
            /\ model' = [model EXCEPT ![thread[t].found].lock = t]
        BY <1>0, <1>5 DEF Enter
      <3>2. QED  BY <3>1, ModelsStayTyped
    <2>2. thread' \in [Threads -> TaskType]
      BY <1>5 DEF Enter, Ready
    <2>3. QED  BY <1>5, <2>1, <2>2 DEF Enter
  <1>6. CASE LoadModel(t)
    BY <1>0, <1>6 DEF LoadModel
  <1>7. CASE Resize(t) \/ Record(t)
    <2>1. model' \in [Instances -> Model]
      <3> HIDE DEF Model, TaskType, Typed
      <3>1. /\ thread[t].found \in Instances /\ Typed
            /\ \/ model' = [model EXCEPT ![thread[t].found].native = thread[t].size]
               \/ model' = [model EXCEPT ![thread[t].found].recorded = thread[t].size]
        BY <1>0, <1>7 DEF Resize, Record
      <3>2. QED  BY <3>1, ModelsStayTyped
    <2>2. thread' \in [Threads -> TaskType]
      BY <1>7 DEF Resize, Record
    <2>3. QED  BY <1>7, <2>1, <2>2 DEF Resize, Record
  <1>8. CASE Infer(t) \/ FailTask(t)
    BY <1>0, <1>8 DEF Infer, FailTask, Task
  <1>9. CASE Leave(t)
    BY <1>0, <1>9, SMTT(30) DEF Leave, Resting, Task
  <1>10. QED
    BY <1>1, <1>2, <1>3, <1>4, <1>5, <1>6, <1>7, <1>8, <1>9 DEF TaskStep

LEMMA StepKeepsCache ==
  ASSUME Distinguished, ProviderInv, NEW t \in Threads, TaskStep(t)
  PROVE  CacheSound'
  <1>0. /\ thread[t].pc \in Holding \cup {"wait"} => thread[t].found \in Instances
        /\ thread[t].pc \in Holding => model[thread[t].found].lock = t
    BY FoundOne
  <1> USE DEF Distinguished, ProviderInv, Typed, Model, TaskType, CacheSound,
              Providers, InCache, Holding, At, StepTo, Only
  <1>1. CASE Start(t)
    BY <1>1 DEF Start, Resting, Task
  <1>2. CASE EnterCache(t)
    BY <1>2 DEF EnterCache
  <1>3. CASE Look(t)
    BY <1>3, SMTT(30) DEF Look, Return, Task
  <1>4. CASE Make(t)
    <2>1. At(t, "make")
      BY <1>4 DEF Make
    <2>2. /\ made[thread[t].provider] = 0
          /\ <<thread[t].provider, 1>> \in Instances
      BY <2>1, MakesTheFirst
    <2>3. QED  BY <1>4, <2>2 DEF Make, Return, Task
  <1>5. CASE Enter(t)
    BY <1>0, <1>5 DEF Enter, Ready, Mine
  <1>6. CASE LoadModel(t) \/ Resize(t) \/ Record(t)
    <2>1. CASE LoadModel(t)
      BY <1>0, <2>1 DEF LoadModel
    <2>2. CASE Resize(t)
      BY <1>0, <2>2 DEF Resize
    <2>3. CASE Record(t)
      BY <1>0, <2>3 DEF Record
    <2>4. QED  BY <1>6, <2>1, <2>2, <2>3
  <1>7. CASE Infer(t) \/ FailTask(t)
    <2>1. CASE Infer(t)
      BY <1>0, <2>1 DEF Infer
    <2>2. CASE FailTask(t)
      BY <1>0, <2>2 DEF FailTask, Task
    <2>3. QED  BY <1>7, <2>1, <2>2
  <1>8. CASE Leave(t)
    BY <1>0, <1>8 DEF Leave, Resting, Task
  <1>9. QED
    BY <1>1, <1>2, <1>3, <1>4, <1>5, <1>6, <1>7, <1>8 DEF TaskStep

LEMMA StepKeepsLocks ==
  ASSUME Distinguished, ProviderInv, NEW t \in Threads, TaskStep(t)
  PROVE  LocksSound'
  <1>0. /\ thread[t].pc \in Holding \cup {"wait"} => thread[t].found \in Instances
        /\ thread[t].pc \in Holding => model[thread[t].found].lock = t
    BY FoundOne
  <1> USE DEF Distinguished, ProviderInv, Typed, Model, TaskType, LocksSound,
              Providers, Holding, At, StepTo, Mine
  <1>1. CASE Start(t)
    BY <1>1 DEF Start, Resting, Task
  <1>2. CASE EnterCache(t)
    BY <1>2 DEF EnterCache
  <1>3. CASE Look(t)
    BY <1>3 DEF Look, Return, Task
  <1>4. CASE Make(t)
    <2>1. At(t, "make")
      BY <1>4 DEF Make
    <2>2. /\ made[thread[t].provider] = 0
          /\ <<thread[t].provider, 1>> \in Instances
      BY <2>1, MakesTheFirst
    <2>3. QED  BY <1>4, <2>2 DEF Make, Return, Task
  <1>5. CASE Enter(t)
    BY <1>0, <1>5 DEF Enter, Ready
  <1>6. CASE LoadModel(t) \/ Resize(t) \/ Record(t)
    <2>1. CASE LoadModel(t)
      BY <1>0, <2>1 DEF LoadModel
    <2>2. CASE Resize(t)
      BY <1>0, <2>2 DEF Resize
    <2>3. CASE Record(t)
      BY <1>0, <2>3 DEF Record
    <2>4. QED  BY <1>6, <2>1, <2>2, <2>3
  <1>7. CASE Infer(t) \/ FailTask(t)
    <2>1. CASE Infer(t)
      BY <1>0, <2>1 DEF Infer
    <2>2. CASE FailTask(t)
      BY <1>0, <2>2 DEF FailTask, Task
    <2>3. QED  BY <1>7, <2>1, <2>2
  <1>8. CASE Leave(t)
    BY <1>0, <1>8 DEF Leave, Resting, Task
  <1>9. QED
    BY <1>1, <1>2, <1>3, <1>4, <1>5, <1>6, <1>7, <1>8 DEF TaskStep

LEMMA StepKeepsSizes ==
  ASSUME Distinguished, ProviderInv, NEW t \in Threads, TaskStep(t)
  PROVE  SizesSound'
  <1>0. /\ thread[t].pc \in Holding \cup {"wait"} => thread[t].found \in Instances
        /\ thread[t].pc \in Holding => model[thread[t].found].lock = t
    BY FoundOne
  <1> USE DEF Distinguished, ProviderInv, Typed, Model, TaskType, LocksSound,
              SizesSound, Providers, Holding, At,
              StepTo, Mine
  <1>1. CASE Start(t)
    BY <1>1 DEF Start, Resting, Task
  <1>2. CASE EnterCache(t)
    BY <1>2 DEF EnterCache
  <1>3. CASE Look(t)
    BY <1>3, SMTT(30) DEF Look, Return, Task
  <1>4. CASE Make(t)
    BY <1>4 DEF Make, Return, Task
  <1>5. CASE Enter(t)
    BY <1>0, <1>5 DEF Enter, Ready
  <1>6. CASE LoadModel(t)
    BY <1>0, <1>6 DEF LoadModel
  <1>7. CASE Resize(t)
    BY <1>0, <1>7 DEF Resize
  <1>8. CASE Record(t)
    BY <1>0, <1>8 DEF Record
  <1>9. CASE Infer(t) \/ FailTask(t)
    <2>1. CASE Infer(t)
      BY <1>0, <2>1 DEF Infer
    <2>2. CASE FailTask(t)
      BY <1>0, <2>2 DEF FailTask, Task
    <2>3. QED  BY <1>9, <2>1, <2>2
  <1>10. CASE Leave(t)
    BY <1>0, <1>10 DEF Leave, Resting, Task
  <1>11. QED
    BY <1>1, <1>2, <1>3, <1>4, <1>5, <1>6, <1>7, <1>8, <1>9, <1>10 DEF TaskStep

LEMMA NextKeepsProviderInv ==
  ASSUME Distinguished PROVE ProviderInv /\ [ProviderNext]_providerVars => ProviderInv'
  <1> SUFFICES ASSUME ProviderInv, [ProviderNext]_providerVars PROVE ProviderInv'
    OBVIOUS
  <1>1. CASE ProviderNext
    BY <1>1, StepKeepsTypes, StepKeepsCache, StepKeepsLocks, StepKeepsSizes
       DEF ProviderNext, ProviderInv
  <1>2. CASE UNCHANGED providerVars
    BY <1>2 DEF providerVars, ProviderInv, Typed, Model, TaskType, CacheSound, LocksSound,
                SizesSound, At, Mine
  <1>3. QED  BY <1>1, <1>2

\* However many threads, image sizes, failures and tasks: a native model serves one
\* thread at a time, and the native detector has the size of the image it is given.
THEOREM ThreadsAreIsolated ==
  ASSUME Distinguished PROVE ProviderSpec => []InferenceIsolated
  <1>1. ProviderInit => ProviderInv
    BY InitProviderInv
  <1>2. ProviderInv /\ [ProviderNext]_providerVars => ProviderInv'
    BY NextKeepsProviderInv
  <1>3. ProviderInv => InferenceIsolated
    BY DEF Distinguished, ProviderInv, Typed, Model, TaskType, CacheSound, LocksSound,
           SizesSound,
           InferenceIsolated, Holding, Mine, Providers
  <1>4. QED  BY <1>1, <1>2, <1>3, PTL DEF ProviderSpec
===============================================================================
