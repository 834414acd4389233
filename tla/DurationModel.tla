----------------------------- MODULE DurationModel ---------------------------
(***************************************************************************)
(* The trained duration model of backend/duration_model.py while several   *)
(* requests use it at once and the training script rewrites its file.      *)
(*                                                                         *)
(* Requests run on threads of one process (the handlers of main.py are     *)
(* plain functions), so they share the parsed model, its stamp and the     *)
(* memo of predictions.  A step of a thread is what it does between two    *)
(* places where another thread can come in between and make a difference.  *)
(*                                                                         *)
(* Every change of the file is counted, and the count serves as its stamp  *)
(* (path, mtime, size) and as the name of the model written with it.       *)
(***************************************************************************)
EXTENDS Integers, Sequences, FiniteSets, Functions

CONSTANTS
  Workers,     \* threads that apply learned durations to a program
  Probes,      \* threads that serve /api/health (model_info)
  Features,    \* what a prediction depends on: step type and flash size
  Jobs,        \* Jobs[w]: the features of the steps of w's program
  MaxChanges,  \* bound on the changes of the file
  Nobody       \* the holder of a free lock

ASSUME DurationAssumption ==
  /\ Workers \cap Probes = {}
  /\ Nobody \notin Workers \cup Probes
  /\ Jobs \in [Workers -> Seq(Features)]
  /\ MaxChanges \in Nat \ {0}

Threads == Workers \cup Probes

\* No model and no stamp.
None == 0

VARIABLES
  file,          \* "absent", "torn" (being written) or "whole"
  changes,       \* how often the file was changed
  cached_stamp,  \* _cached_stamp
  cached_model,  \* _cached_model, None or the model parsed last
  lock,          \* who holds _cache_lock
  memo,          \* the lru_cache of _predict_cached: features -> model used
  pc,            \* where each thread stands
  stamp,         \* what a thread's last stat found
  model,         \* what a thread has read from the file or the cache
  used,          \* used[w]: the models w's predictions came from so far
  since          \* history: how many changes there were when w began

vars == <<file, changes, cached_stamp, cached_model, lock, memo,
          pc, stamp, model, used, since>>
shared == <<cached_stamp, cached_model, lock, memo>>
disk == <<file, changes>>

Init ==
  /\ \/ file = "absent" /\ changes = 0
     \/ file = "whole" /\ changes = 1
  /\ cached_stamp = None
  /\ cached_model = None
  /\ lock = Nobody
  /\ memo = [f \in {} |-> None]
  /\ pc = [t \in Threads |-> "idle"]
  /\ stamp = [t \in Threads |-> None]
  /\ model = [t \in Threads |-> None]
  /\ used = [w \in Workers |-> <<>>]
  /\ since = [w \in Workers |-> 0]

-----------------------------------------------------------------------------
(* The file: write_text truncates and then writes.  The script may die in  *)
(* between and be run again.                                               *)

Change(to) ==
  /\ changes < MaxChanges
  /\ file' = to
  /\ changes' = changes + 1
  /\ UNCHANGED <<shared, pc, stamp, model, used, since>>

Truncate == Change("torn")
FinishWrite == file = "torn" /\ Change("whole")
Remove == file # "absent" /\ Change("absent")

-----------------------------------------------------------------------------
(* _apply_learned_durations and _load_model                                *)

At(t, place) == pc[t] = place
GoTo(t, place) == pc' = [pc EXCEPT ![t] = place]

\* Locals that are not read again are forgotten.
Forgotten(local, t) == local' = [local EXCEPT ![t] = None]

FileStamp == IF file = "absent" THEN None ELSE changes

\* is_available() decides whether the durations are touched at all.
Begin(w) ==
  /\ At(w, "idle")
  /\ GoTo(w, IF FileStamp = None \/ Jobs[w] = <<>> THEN "done" ELSE "stat")
  /\ since' = [since EXCEPT ![w] = changes]
  /\ UNCHANGED <<disk, shared, stamp, model, used>>

\* model_info loads the model outright.
BeginProbe(p) ==
  /\ At(p, "idle")
  /\ GoTo(p, "stat")
  /\ UNCHANGED <<disk, shared, stamp, model, used, since>>

Stat(t) ==
  /\ At(t, "stat")
  /\ stamp' = [stamp EXCEPT ![t] = FileStamp]
  /\ GoTo(t, IF FileStamp = None THEN "forget" ELSE "compare")
  /\ UNCHANGED <<disk, shared, model, used, since>>

\* There is no file: forget the parsed model, then the predictions.
Forget(t) ==
  /\ At(t, "forget")
  /\ lock = Nobody
  /\ cached_stamp' = None
  /\ cached_model' = None
  /\ GoTo(t, "forget_memo")
  /\ UNCHANGED <<disk, lock, memo, stamp, model, used, since>>

\* A slip: any parsed model will do.
HitAny(t) == cached_model # None

Hit(t) == stamp[t] = cached_stamp /\ cached_model # None

\* The fast path, without the lock.
Compare(t) ==
  /\ At(t, "compare")
  /\ GoTo(t, IF Hit(t) THEN "return" ELSE "lock")
  /\ UNCHANGED <<disk, shared, stamp, model, used, since>>

\* _load_model returns a model: a worker goes on to predict with it.
Found(t) == GoTo(t, IF t \in Probes THEN "done" ELSE "lookup") /\ Forgotten(stamp, t)

\* A slip: the file is read without waiting for the lock.
AcquireAnyway(t) ==
  /\ At(t, "lock")
  /\ GoTo(t, "read")
  /\ lock' = t
  /\ UNCHANGED <<disk, cached_stamp, cached_model, memo, stamp, model, used, since>>

\* Another thread may have loaded the file while this one waited; the model is
\* then returned before the lock is released.
Acquire(t) ==
  /\ At(t, "lock")
  /\ lock = Nobody
  /\ IF Hit(t)
       THEN Found(t) /\ UNCHANGED lock
       ELSE GoTo(t, "read") /\ lock' = t /\ UNCHANGED stamp
  /\ UNCHANGED <<disk, cached_stamp, cached_model, memo, model, used, since>>

\* A slip: the lock is not released when parsing raises.
ReadKeepsLock(t) ==
  /\ At(t, "read")
  /\ IF file = "whole"
       THEN model' = [model EXCEPT ![t] = changes] /\ GoTo(t, "store")
       ELSE GoTo(t, "failed") /\ UNCHANGED model
  /\ UNCHANGED <<disk, cached_stamp, cached_model, lock, memo, stamp, used, since>>

\* Reading and parsing under the lock.  A file that is gone or torn raises, and
\* the lock is released on the way out.
Read(t) ==
  /\ At(t, "read")
  /\ IF file = "whole"
       THEN model' = [model EXCEPT ![t] = changes] /\ GoTo(t, "store") /\ UNCHANGED lock
       ELSE GoTo(t, "failed") /\ lock' = Nobody /\ UNCHANGED model
  /\ UNCHANGED <<disk, cached_stamp, cached_model, memo, stamp, used, since>>

\* A slip: the stamp is taken again once the model is read.
StoreCurrentStamp(t) ==
  /\ At(t, "store")
  /\ cached_model' = model[t]
  /\ cached_stamp' = FileStamp
  /\ lock' = Nobody
  /\ GoTo(t, "clear")
  /\ Forgotten(model, t)
  /\ UNCHANGED <<disk, memo, stamp, used, since>>

\* The model is kept under the stamp taken before it was read.
Store(t) ==
  /\ At(t, "store")
  /\ cached_model' = model[t]
  /\ cached_stamp' = stamp[t]
  /\ lock' = Nobody
  /\ GoTo(t, "clear")
  /\ Forgotten(model, t)
  /\ UNCHANGED <<disk, memo, stamp, used, since>>

\* _predict_cached.cache_clear(), after the lock is released.
ClearMemo(t) ==
  /\ pc[t] \in {"clear", "forget_memo"}
  /\ memo' = [f \in {} |-> None]
  /\ GoTo(t, "return")
  /\ UNCHANGED <<disk, cached_stamp, cached_model, lock, stamp, model, used, since>>

-----------------------------------------------------------------------------
(* predict_seconds, called once per step of the program                    *)

Feature(w) == Jobs[w][Len(used[w]) + 1]

\* The prediction for the current step came from model m; None leaves the step's
\* duration as it was.
Predicted(w, m) ==
  /\ used' = [used EXCEPT ![w] = Append(@, m)]
  /\ GoTo(w, IF Len(used[w]) + 1 = Len(Jobs[w]) THEN "done" ELSE "stat")

\* Elsewhere _load_model returns what the cache holds by now, or None where no
\* file was found.
ReturnModel(t) ==
  /\ At(t, "return")
  /\ IF stamp[t] # None /\ cached_model # None
       THEN Found(t) /\ UNCHANGED used
       ELSE /\ \/ t \in Probes /\ GoTo(t, "done") /\ UNCHANGED used
               \/ t \in Workers /\ Predicted(t, None)
            /\ Forgotten(stamp, t)
  /\ UNCHANGED <<disk, shared, model, since>>

\* _predict_cached finds its result memoised or starts to compute it.
Lookup(w) ==
  /\ At(w, "lookup")
  /\ IF Feature(w) \in DOMAIN memo
       THEN Predicted(w, memo[Feature(w)])
       ELSE GoTo(w, "compute") /\ UNCHANGED used
  /\ UNCHANGED <<disk, shared, stamp, model, since>>

\* A slip: a model that has been forgotten meanwhile is not noticed.
ComputeUnchecked(w) ==
  /\ At(w, "compute")
  /\ GoTo(w, "remember") /\ model' = [model EXCEPT ![w] = cached_model]
  /\ UNCHANGED <<disk, shared, stamp, used, since>>

\* The prediction is made with whatever model is cached now; none is an error.
Compute(w) ==
  /\ At(w, "compute")
  /\ IF cached_model = None
       THEN GoTo(w, "failed") /\ UNCHANGED model
       ELSE GoTo(w, "remember") /\ model' = [model EXCEPT ![w] = cached_model]
  /\ UNCHANGED <<disk, shared, stamp, used, since>>

\* The memo keeps the first of two results for the same features.
Remember(w) ==
  /\ At(w, "remember")
  /\ memo' = [f \in DOMAIN memo \cup {Feature(w)} |->
                IF f \in DOMAIN memo THEN memo[f] ELSE model[w]]
  /\ Predicted(w, model[w])
  /\ Forgotten(model, w)
  /\ UNCHANGED <<disk, cached_stamp, cached_model, lock, stamp, since>>

Load(t) == Stat(t) \/ Forget(t) \/ Compare(t) \/ Acquire(t) \/ Read(t) \/ Store(t)
             \/ ClearMemo(t) \/ ReturnModel(t)
Predict(w) == Lookup(w) \/ Compute(w) \/ Remember(w)

Next ==
  \/ Truncate \/ FinishWrite \/ Remove
  \/ \E w \in Workers : Begin(w) \/ Predict(w)
  \/ \E p \in Probes : BeginProbe(p)
  \/ \E t \in Threads : Load(t)

\* A thread that has begun goes on; requests and retraining may never come.
Spec ==
  /\ Init /\ [][Next]_vars
  /\ \A t \in Threads : WF_vars(Load(t))
  /\ \A w \in Workers : WF_vars(Predict(w))

-----------------------------------------------------------------------------
TypeOK ==
  /\ file \in {"absent", "torn", "whole"}
  /\ changes \in 0..MaxChanges
  /\ {cached_stamp, cached_model} \subseteq 0..changes
  /\ lock \in Threads \cup {Nobody}
  /\ \A f \in DOMAIN memo : f \in Features /\ memo[f] \in 1..changes
  /\ \A t \in Threads : stamp[t] \in 0..changes /\ model[t] \in 0..changes
  /\ \A w \in Workers : Len(used[w]) <= Len(Jobs[w]) /\ Range(used[w]) \subseteq 0..changes
  /\ \A t \in Threads : pc[t] \in {"read", "store"} <=> lock = t

\* The cached model is never older than the stamp it is kept under, so a stamp
\* that matches the file vouches for the model: a thread that waited long for
\* the lock stores an old stamp, but never an old model under a new one.
CacheNotBehindStamp == cached_stamp <= cached_model

\* A request that began after the last change of the file and has loaded the
\* model finds that file's model in the cache and no older one, whatever slow
\* threads still do, unless one of them saw no file and has just forgotten it.
LoadIsCurrent ==
  \A w \in Workers :
    pc[w] \in {"lookup", "compute"} /\ since[w] = changes =>
      cached_model \in {changes, None}

\* Loading never goes back to an older model.
NeverBackToOlder == [][cached_model' # None => cached_model' >= cached_model]_vars

\* Every request ends, in predictions or in an error: no thread waits for ever
\* for a lock that a failed one has kept.
EveryRequestEnds == \A t \in Threads : pc[t] # "idle" ~> pc[t] \in {"done", "failed"}

\* Retraining is picked up (duration_model.py:92): a request that began after the
\* last change of the file takes no prediction from an older model.
FreshAfterRetraining ==
  \A w \in Workers :
    pc[w] = "done" /\ since[w] = changes /\ file = "whole" =>
      Range(used[w]) \subseteq {changes, None}
=============================================================================
