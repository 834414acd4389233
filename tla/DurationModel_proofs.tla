------------------------- MODULE DurationModel_proofs ------------------------
(***************************************************************************)
(* Proofs about DurationModel, for any number of requests, health checks   *)
(* and changes of the file: what the cache holds is never older than what  *)
(* vouches for it, and whatever is cached, held or used is a model that    *)
(* the file has had.                                                       *)
(***************************************************************************)
EXTENDS DurationModel, TLAPS

Places == {"idle", "stat", "forget", "forget_memo", "compare", "lock", "read", "store",
           "clear", "return", "lookup", "compute", "remember", "done", "failed"}

\* The state's shape, as far as the argument below needs it.
Shape ==
  /\ changes \in Nat
  /\ cached_stamp \in Nat /\ cached_model \in Nat
  /\ pc \in [Threads -> Places]
  /\ stamp \in [Threads -> Nat]
  /\ model \in [Threads -> Nat]
  /\ since \in [Workers -> Nat]
  /\ Nobody \notin Threads

\* Only the holder of the lock reads the file and stores what it read, and what
\* it is about to store is no older than its stamp nor than the cached model.
LockInv ==
  /\ \A t \in Threads : pc[t] \in {"read", "store"} => lock = t
  /\ \A t \in Threads : pc[t] = "store" =>
       stamp[t] <= model[t] /\ cached_model <= model[t] /\ model[t] <= changes

\* Stamps and models come from the past, and the cache is not behind its stamp.
PastInv ==
  /\ cached_stamp <= cached_model /\ cached_model <= changes
  /\ \A t \in Threads : stamp[t] <= changes
  /\ \A w \in Workers : since[w] <= changes

\* A request's stamp and what it reads are no older than the request.
SinceInv ==
  \A w \in Workers :
    /\ pc[w] \in {"compare", "lock", "read", "store", "clear"} => since[w] <= stamp[w]
    /\ pc[w] \in {"compare", "lock", "read", "store", "clear"} => stamp[w] # None
    /\ pc[w] = "store" => since[w] <= model[w]
    /\ pc[w] = "return" => stamp[w] = None \/ since[w] <= stamp[w]
    /\ pc[w] \in {"forget", "forget_memo"} => stamp[w] = None

\* The request began after the last change and has loaded the model.
Fresh(w) ==
  /\ since[w] = changes
  /\ \/ pc[w] \in {"clear", "lookup", "compute"}
     \/ pc[w] = "return" /\ stamp[w] # None

\* From then on neither the cache nor the thread about to store has an older one.
FreshInv ==
  \A w \in Workers : Fresh(w) =>
    /\ cached_model \in {changes, None}
    /\ \A t \in Threads : pc[t] = "store" => model[t] = changes

IInv == Shape /\ LockInv /\ PastInv /\ SinceInv /\ FreshInv

-----------------------------------------------------------------------------

\* At first nobody has loaded anything.
LEMMA InitInv == Init => IInv
  BY DurationAssumption DEF Init, IInv, Shape, LockInv, PastInv, SinceInv, FreshInv,
       Fresh, Threads, Places, None

\* A change of the file makes every request and every stamp one of the past.
LEMMA ChangeInv ==
  ASSUME IInv, Truncate \/ FinishWrite \/ Remove
  PROVE  IInv'
<1>1. /\ changes' = changes + 1
      /\ UNCHANGED <<cached_stamp, cached_model, lock, pc, stamp, model, since>>
  BY DEF Truncate, FinishWrite, Remove, Change, shared
<1> USE DEF IInv, Shape
<1>2. Shape' /\ LockInv' /\ PastInv' /\ SinceInv'
  BY <1>1 DEF LockInv, PastInv, SinceInv, Threads
<1>3. FreshInv'
  BY <1>1 DEF FreshInv, Fresh, PastInv, Threads
<1> QED BY <1>1, <1>2, <1>3

\* A request that begins has loaded nothing.
LEMMA BeginInv ==
  ASSUME IInv, NEW w \in Workers, Begin(w)
  PROVE  IInv'
<1> USE DEF Begin, FileStamp, At, GoTo, IInv, Shape, shared, disk, Threads, None
<1>1. Shape'
  BY DEF Places
<1>2. LockInv'
  BY DEF LockInv, PastInv
<1>3. PastInv'
  BY DEF PastInv, LockInv
<1>4. SinceInv'
  BY DEF SinceInv, PastInv
<1>5. FreshInv'
  BY DEF FreshInv, Fresh, PastInv, SinceInv, LockInv
<1> QED BY <1>1, <1>2, <1>3, <1>4, <1>5

\* Nor has a health check.
LEMMA BeginProbeInv ==
  ASSUME IInv, NEW p \in Probes, BeginProbe(p)
  PROVE  IInv'
<1> USE DEF BeginProbe, At, GoTo, IInv, Shape, shared, disk, Threads, None
<1>1. Shape'
  BY DEF Places
<1>2. LockInv'
  BY DEF LockInv, PastInv
<1>3. PastInv'
  BY DEF PastInv, LockInv
<1>4. SinceInv'
  BY DEF SinceInv, PastInv
<1>5. FreshInv'
  BY DEF FreshInv, Fresh, PastInv, SinceInv, LockInv
<1> QED BY <1>1, <1>2, <1>3, <1>4, <1>5

\* The stamp taken is that of the last change, or none.
LEMMA StatInv ==
  ASSUME IInv, NEW t \in Threads, Stat(t)
  PROVE  IInv'
<1> USE DEF Stat, FileStamp, At, GoTo, IInv, Shape, shared, disk, Threads, None
<1>1. Shape'
  BY DEF Places
<1>2. LockInv'
  BY DEF LockInv, PastInv
<1>3. PastInv'
  BY DEF PastInv, LockInv
<1>4. SinceInv'
  BY DEF SinceInv, PastInv
<1>5. FreshInv'
  BY DEF FreshInv, Fresh, PastInv, SinceInv, LockInv
<1> QED BY <1>1, <1>2, <1>3, <1>4, <1>5

\* Forgetting leaves nothing to be behind, and nobody is storing meanwhile.
LEMMA ForgetInv ==
  ASSUME IInv, NEW t \in Threads, Forget(t)
  PROVE  IInv'
<1> USE DEF Forget, At, GoTo, IInv, Shape, shared, disk, Threads, None
<1>1. Shape'
  BY DEF Places
<1>2. LockInv'
  BY DEF LockInv, PastInv
<1>3. PastInv'
  BY DEF PastInv, LockInv
<1>4. SinceInv'
  BY DEF SinceInv, PastInv
<1>5. FreshInv'
  BY DEF FreshInv, Fresh, PastInv, SinceInv, LockInv
<1> QED BY <1>1, <1>2, <1>3, <1>4, <1>5

\* A hit on a fresh stamp is a hit on a fresh model.
LEMMA CompareInv ==
  ASSUME IInv, NEW t \in Threads, Compare(t)
  PROVE  IInv'
<1> USE DEF Compare, Hit, At, GoTo, IInv, Shape, shared, disk, Threads, None
<1>1. Shape'
  BY DEF Places
<1>2. LockInv'
  BY DEF LockInv, PastInv
<1>3. PastInv'
  BY DEF PastInv, LockInv
<1>4. SinceInv'
  BY DEF SinceInv, PastInv
<1>5. FreshInv'
  BY DEF FreshInv, Fresh, PastInv, SinceInv, LockInv
<1> QED BY <1>1, <1>2, <1>3, <1>4, <1>5

\* And so it is under the lock.
LEMMA AcquireInv ==
  ASSUME IInv, NEW t \in Threads, Acquire(t)
  PROVE  IInv'
<1> USE DEF Acquire, Hit, Found, Forgotten, At, GoTo, IInv, Shape, shared, disk, Threads, None
<1>1. Shape'
  BY DEF Places
<1>2. LockInv'
  BY DEF LockInv, PastInv
<1>3. PastInv'
  BY DEF PastInv, LockInv
<1>4. SinceInv'
  BY DEF SinceInv, PastInv
<1>5. FreshInv'
  BY DEF FreshInv, Fresh, PastInv, SinceInv, LockInv
<1> QED BY <1>1, <1>2, <1>3, <1>4, <1>5

\* What is read is the newest there is.
LEMMA ReadInv ==
  ASSUME IInv, NEW t \in Threads, Read(t)
  PROVE  IInv'
<1> USE DEF Read, At, GoTo, IInv, Shape, shared, disk, Threads, None
<1>1. Shape'
  BY DEF Places
<1>2. LockInv'
  BY DEF LockInv, PastInv
<1>3. PastInv'
  BY DEF PastInv, LockInv
<1>4. SinceInv'
  BY DEF SinceInv, PastInv
<1>5. FreshInv'
  BY DEF FreshInv, Fresh, PastInv, SinceInv, LockInv
<1> QED BY <1>1, <1>2, <1>3, <1>4, <1>5

\* What is stored is no older than what it replaces.
LEMMA StoreInv ==
  ASSUME IInv, NEW t \in Threads, Store(t)
  PROVE  IInv'
<1> USE DEF Store, Forgotten, At, GoTo, IInv, Shape, shared, disk, Threads, None
<1>1. Shape'
  BY DEF Places
<1>2. LockInv'
  BY DEF LockInv, PastInv
<1>3. PastInv'
  BY DEF PastInv, LockInv
<1>4. SinceInv'
  BY DEF SinceInv, PastInv
<1>5. FreshInv'
  BY DEF FreshInv, Fresh, PastInv, SinceInv, LockInv
<1> QED BY <1>1, <1>2, <1>3, <1>4, <1>5

\* The memo does not matter to the cache.
LEMMA ClearMemoInv ==
  ASSUME IInv, NEW t \in Threads, ClearMemo(t)
  PROVE  IInv'
<1> USE DEF ClearMemo, At, GoTo, IInv, Shape, shared, disk, Threads, None
<1>1. Shape'
  BY DEF Places
<1>2. LockInv'
  BY DEF LockInv, PastInv
<1>3. PastInv'
  BY DEF PastInv, LockInv
<1>4. SinceInv'
  BY DEF SinceInv, PastInv
<1>5. FreshInv'
  BY DEF FreshInv, Fresh, PastInv, SinceInv, LockInv
<1> QED BY <1>1, <1>2, <1>3, <1>4, <1>5

\* Returning a model needs a stamp.
LEMMA ReturnModelInv ==
  ASSUME IInv, NEW t \in Threads, ReturnModel(t)
  PROVE  IInv'
<1>1. PICK place \in {"done", "lookup", "stat"} :
        /\ pc' = [pc EXCEPT ![t] = place]
        /\ place = "lookup" => stamp[t] # None
  BY DEF ReturnModel, Found, Predicted, GoTo
<1>2. /\ pc[t] = "return"
      /\ stamp' = [stamp EXCEPT ![t] = None]
      /\ UNCHANGED <<file, changes, cached_stamp, cached_model, lock, model, since>>
  BY DEF ReturnModel, Found, Forgotten, At, shared, disk
<1> USE DEF IInv, Shape, Threads, None
<1>3. Shape'
  BY <1>1, <1>2 DEF Places
<1>4. LockInv'
  BY <1>1, <1>2 DEF LockInv, PastInv
<1>5. PastInv'
  BY <1>1, <1>2 DEF PastInv
<1>6. SinceInv'
  BY <1>1, <1>2 DEF SinceInv
<1>7. FreshInv'
  BY <1>1, <1>2 DEF FreshInv, Fresh, PastInv, LockInv
<1> QED BY <1>3, <1>4, <1>5, <1>6, <1>7

\* Predicting leaves the cache alone.
LEMMA LookupInv ==
  ASSUME IInv, NEW w \in Workers, Lookup(w)
  PROVE  IInv'
<1> USE DEF Lookup, Predicted, At, GoTo, IInv, Shape, shared, disk, Threads, None
<1>1. Shape'
  BY DEF Places
<1>2. LockInv'
  BY DEF LockInv, PastInv
<1>3. PastInv'
  BY DEF PastInv, LockInv
<1>4. SinceInv'
  BY DEF SinceInv, PastInv
<1>5. FreshInv'
  BY DEF FreshInv, Fresh, PastInv, SinceInv, LockInv
<1> QED BY <1>1, <1>2, <1>3, <1>4, <1>5

\* Computing does, too.
LEMMA ComputeInv ==
  ASSUME IInv, NEW w \in Workers, Compute(w)
  PROVE  IInv'
<1> USE DEF Compute, At, GoTo, IInv, Shape, shared, disk, Threads, None
<1>1. Shape'
  BY DEF Places
<1>2. LockInv'
  BY DEF LockInv, PastInv
<1>3. PastInv'
  BY DEF PastInv, LockInv
<1>4. SinceInv'
  BY DEF SinceInv, PastInv
<1>5. FreshInv'
  BY DEF FreshInv, Fresh, PastInv, SinceInv, LockInv
<1> QED BY <1>1, <1>2, <1>3, <1>4, <1>5

\* And so does remembering the result.
LEMMA RememberInv ==
  ASSUME IInv, NEW w \in Workers, Remember(w)
  PROVE  IInv'
<1> USE DEF Remember, Predicted, Forgotten, At, GoTo, IInv, Shape, shared, disk, Threads, None
<1>1. Shape'
  BY DEF Places
<1>2. LockInv'
  BY DEF LockInv, PastInv
<1>3. PastInv'
  BY DEF PastInv, LockInv
<1>4. SinceInv'
  BY DEF SinceInv, PastInv
<1>5. FreshInv'
  BY DEF FreshInv, Fresh, PastInv, SinceInv, LockInv
<1> QED BY <1>1, <1>2, <1>3, <1>4, <1>5

\* Without a change of the variables there is nothing to show.
LEMMA StutterInv ==
  ASSUME IInv, UNCHANGED vars
  PROVE  IInv'
  BY DEF IInv, Shape, LockInv, PastInv, SinceInv, FreshInv, Fresh, vars

\* Every step of the system keeps the invariant.
LEMMA NextInv ==
  ASSUME IInv, [Next]_vars
  PROVE  IInv'
<1>1. CASE Truncate \/ FinishWrite \/ Remove
  BY <1>1, ChangeInv
<1>2. ASSUME NEW w \in Workers, Begin(w) \/ Predict(w)
      PROVE  IInv'
  BY <1>2, BeginInv, LookupInv, ComputeInv, RememberInv DEF Predict
<1>3. ASSUME NEW p \in Probes, BeginProbe(p)
      PROVE  IInv'
  BY <1>3, BeginProbeInv
<1>4. ASSUME NEW t \in Threads, Load(t)
      PROVE  IInv'
  BY <1>4, StatInv, ForgetInv, CompareInv, AcquireInv, ReadInv, StoreInv, ClearMemoInv,
     ReturnModelInv DEF Load
<1>5. CASE UNCHANGED vars
  BY <1>5, StutterInv
<1> QED BY <1>1, <1>2, <1>3, <1>4, <1>5 DEF Next

THEOREM Invariance == Spec => []IInv
  BY InitInv, NextInv, PTL DEF Spec

\* The model in the cache is never older than the stamp that vouches for it
\* (_load_model), for any number of threads and any timing of theirs.
THEOREM CacheCorrect == Spec => []CacheNotBehindStamp
<1>1. IInv => CacheNotBehindStamp
  BY DEF IInv, PastInv, CacheNotBehindStamp
<1> QED BY <1>1, Invariance, PTL

\* A request that began after the last change of the file finds that file's model
\* in the cache once it has loaded it, or none (_load_model, _predict_cached).
THEOREM LoadCorrect == Spec => []LoadIsCurrent
<1>1. IInv => LoadIsCurrent
  BY DEF IInv, FreshInv, Fresh, LoadIsCurrent
<1> QED BY <1>1, Invariance, PTL

\* A parsed model is replaced by one no older (_load_model): only Store puts a
\* model in the cache, and its thread holds the lock since it read the file.
THEOREM NoReturn == Spec => NeverBackToOlder
<1>1. ASSUME IInv, [Next]_vars
      PROVE  cached_model' # None => cached_model' >= cached_model
  <2> USE DEF IInv, Shape
  <2>1. CASE cached_model' = cached_model
    BY <1>1, <2>1
  <2>2. CASE \E t \in Threads : Forget(t)
    BY <1>1, <2>2 DEF Forget, None
  <2>3. CASE \E t \in Threads : Store(t)
    BY <1>1, <2>3 DEF Store, At, LockInv, Threads
  <2>4. \/ cached_model' = cached_model
        \/ \E t \in Threads : Forget(t) \/ Store(t)
    BY <1>1 DEF Next, vars, Truncate, FinishWrite, Remove, Change, Begin, BeginProbe,
       Predict, Lookup, Compute, Remember, Load, Stat, Compare, Acquire, Read, ClearMemo,
       ReturnModel, shared
  <2> QED BY <2>1, <2>2, <2>3, <2>4
<1> QED BY <1>1, Invariance, PTL DEF Spec, NeverBackToOlder

-----------------------------------------------------------------------------
(* The types of the rest of the state                                      *)

\* A prediction is being made for the current step of the program.
Underway == Places \ {"idle", "done", "failed"}

\* The file has a model only after a change, and changes are bounded.
FileInv ==
  /\ file \in {"absent", "torn", "whole"}
  /\ changes <= MaxChanges
  /\ file # "absent" => changes > 0

\* Whoever reads or stores has the lock, and only workers predict.
HolderInv ==
  /\ lock \in Threads \cup {Nobody}
  /\ \A t \in Threads : lock = t => pc[t] \in {"read", "store"}
  /\ \A t \in Threads : pc[t] \in {"lookup", "compute", "remember"} => t \in Workers

\* A model in a thread's hands or behind a memoised prediction was read from the
\* file.
ModelInv ==
  /\ \A t \in Threads : model[t] <= changes /\ (pc[t] = "remember" => model[t] # None)
  /\ \A f \in DOMAIN memo : f \in Features /\ memo[f] \in 1..changes

\* A program has no more predictions than steps, and one step is left as long as
\* one is being predicted.
UsedInv ==
  /\ used \in [Workers -> Seq(Nat)]
  /\ \A w \in Workers :
       /\ \A i \in DOMAIN used[w] : used[w][i] <= changes
       /\ pc[w] = "idle" => used[w] = <<>>
       /\ pc[w] \in Underway => Len(used[w]) < Len(Jobs[w])
       /\ Len(used[w]) <= Len(Jobs[w])

TypeInv == FileInv /\ HolderInv /\ ModelInv /\ UsedInv

LEMMA TypeInit == Init => TypeInv
<1> SUFFICES ASSUME Init PROVE TypeInv
  OBVIOUS
<1>1. FileInv /\ HolderInv /\ ModelInv
  BY DurationAssumption DEF Init, FileInv, HolderInv, ModelInv, Threads, None
<1>2. UsedInv
  <2>1. \A w \in Workers : used[w] = <<>> /\ Len(Jobs[w]) \in Nat /\ pc[w] = "idle"
    BY DurationAssumption DEF Init, Threads
  <2>2. used \in [Workers -> Seq(Nat)]
    BY DEF Init
  <2> QED BY <2>1, <2>2 DEF UsedInv, Underway
<1> QED BY <1>1, <1>2 DEF TypeInv

\* Only the script changes the file.
LEMMA FileStep ==
  ASSUME IInv, TypeInv, [Next]_vars
  PROVE  FileInv' /\ changes <= changes'
<1> USE DEF TypeInv, FileInv, IInv, Shape
<1>1. CASE Truncate \/ FinishWrite \/ Remove
  BY <1>1, DurationAssumption DEF Truncate, FinishWrite, Remove, Change
<1>2. CASE UNCHANGED disk
  BY <1>2 DEF disk
<1>3. Truncate \/ FinishWrite \/ Remove \/ UNCHANGED disk
  BY DEF Next, vars, Begin, BeginProbe, Predict, Lookup, Compute, Remember, Load, Stat, Forget,
     Compare, Acquire, Read, Store, ClearMemo, ReturnModel, disk
<1> QED BY <1>1, <1>2, <1>3

\* The lock is taken to read and given back by whoever stops reading or storing.
LEMMA HolderStep ==
  ASSUME IInv, TypeInv, [Next]_vars
  PROVE  HolderInv'
<1> USE DurationAssumption
    DEF IInv, Shape, LockInv, TypeInv, HolderInv, At, GoTo, Threads
<1>1. CASE Truncate \/ FinishWrite \/ Remove
  BY <1>1 DEF Truncate, FinishWrite, Remove, Change, shared
<1>2. ASSUME NEW w \in Workers, Begin(w) \/ Lookup(w) \/ Compute(w) \/ Remember(w)
      PROVE  HolderInv'
  BY <1>2 DEF Begin, Lookup, Compute, Remember, Predicted, shared
<1>3. ASSUME NEW p \in Probes, BeginProbe(p)
      PROVE  HolderInv'
  BY <1>3 DEF BeginProbe, shared
<1>4. ASSUME NEW t \in Threads, Stat(t) \/ Forget(t) \/ Compare(t) \/ ClearMemo(t)
      PROVE  HolderInv'
  BY <1>4 DEF Stat, Forget, Compare, ClearMemo, shared
<1>5. ASSUME NEW t \in Threads, Acquire(t)
      PROVE  HolderInv'
  BY <1>5 DEF Acquire, Found
<1>6. ASSUME NEW t \in Threads, Read(t)
      PROVE  HolderInv'
  BY <1>6 DEF Read
<1>7. ASSUME NEW t \in Threads, Store(t)
      PROVE  HolderInv'
  BY <1>7 DEF Store
<1>8. ASSUME NEW t \in Threads, ReturnModel(t)
      PROVE  HolderInv'
  BY <1>8 DEF ReturnModel, Found, Predicted, shared
<1>9. CASE UNCHANGED vars
  BY <1>9 DEF vars
<1> QED BY <1>1, <1>2, <1>3, <1>4, <1>5, <1>6, <1>7, <1>8, <1>9 DEF Next, Load, Predict

\* A model comes from the file, from there into the cache, and from the cache
\* into the memo.
LEMMA ModelStep ==
  ASSUME IInv, TypeInv, [Next]_vars
  PROVE  ModelInv'
<1> USE DEF IInv, Shape, PastInv, TypeInv, ModelInv
<1>1. \/ UNCHANGED <<model, memo>> /\ \A t \in Threads : pc'[t] = "remember" => pc[t] = "remember"
      \/ \E t \in Threads : Read(t) \/ Store(t) \/ ClearMemo(t)
      \/ \E w \in Workers : Compute(w) \/ Remember(w)
  BY DEF Next, vars, Truncate, FinishWrite, Remove, Change, Begin, BeginProbe, Predict, Lookup,
     Load, Stat, Forget, Compare, Acquire, ReturnModel, Found, Predicted, GoTo, shared, Threads
<1>2. CASE UNCHANGED <<model, memo>> /\ \A t \in Threads : pc'[t] = "remember" => pc[t] = "remember"
  <2>1. changes <= changes' /\ changes' \in Nat
    BY FileStep, NextInv
  <2>2. \A t \in Threads : model'[t] <= changes' /\ (pc'[t] = "remember" => model'[t] # None)
    BY <1>2, <2>1
  <2>3. \A f \in DOMAIN memo' : f \in Features /\ memo'[f] \in 1 .. changes'
    BY <1>2, <2>1
  <2> QED BY <2>2, <2>3
<1>3. ASSUME NEW t \in Threads, Read(t)
      PROVE  ModelInv'
  BY <1>3 DEF Read, At, GoTo, disk
<1>4. ASSUME NEW t \in Threads, Store(t)
      PROVE  ModelInv'
  BY <1>4 DEF Store, Forgotten, At, GoTo, disk, None
<1>5. ASSUME NEW t \in Threads, ClearMemo(t)
      PROVE  ModelInv'
  BY <1>5 DEF ClearMemo, At, GoTo, disk
<1>6. ASSUME NEW w \in Workers, Compute(w)
      PROVE  ModelInv'
  BY <1>6 DEF Compute, At, GoTo, disk, shared, Threads
<1>7. ASSUME NEW w \in Workers, Remember(w)
      PROVE  ModelInv'
  <2>1. /\ w \in Threads /\ model[w] \in 1 .. changes
        /\ memo' = [f \in DOMAIN memo \cup {Feature(w)} |->
                      IF f \in DOMAIN memo THEN memo[f] ELSE model[w]]
        /\ model' = [model EXCEPT ![w] = None]
        /\ changes' = changes
    BY <1>7 DEF Remember, Forgotten, At, disk, Threads, None
  <2>2. Feature(w) \in Features
    <3>1. Jobs[w] \in Seq(Features) /\ used[w] \in Seq(Nat) /\ Len(used[w]) < Len(Jobs[w])
      BY <1>7, DurationAssumption DEF Remember, At, UsedInv, Underway, Places
    <3>2. Len(used[w]) + 1 \in 1 .. Len(Jobs[w])
      BY <3>1
    <3> QED BY <3>1, <3>2 DEF Feature
  <2>3. \A f \in DOMAIN memo' : f \in Features /\ memo'[f] \in 1 .. changes'
    BY <2>1, <2>2
  <2>4. \A t \in Threads : model'[t] <= changes' /\ (pc'[t] = "remember" => model'[t] # None)
    BY <1>7, <2>1 DEF Remember, Predicted, GoTo, None
  <2> QED BY <2>3, <2>4
<1> QED BY <1>1, <1>2, <1>3, <1>4, <1>5, <1>6, <1>7

\* A thread that makes no prediction has none more, and begins none anew.
LEMMA UsedKept ==
  ASSUME IInv, TypeInv, changes <= changes', changes' \in Nat, used' = used,
         \A w \in Workers : /\ pc'[w] = "idle" => pc[w] = "idle"
                            /\ pc'[w] \in Underway => pc[w] \in Underway
  PROVE  UsedInv'
<1>1. \A w \in Workers : \A i \in DOMAIN used[w] : used[w][i] \in Nat
  BY DEF TypeInv, UsedInv
<1> QED BY <1>1 DEF TypeInv, UsedInv, IInv, Shape

\* A prediction is the next one of its program, and the last one ends it.
LEMMA UsedMore ==
  ASSUME IInv, TypeInv, NEW w \in Workers, NEW m \in Nat, m <= changes, changes' = changes,
         pc[w] \in Underway, Predicted(w, m)
  PROVE  UsedInv'
<1>1. /\ used \in [Workers -> Seq(Nat)] /\ Len(used[w]) < Len(Jobs[w])
      /\ used' = [used EXCEPT ![w] = Append(used[w], m)]
      /\ Len(Jobs[w]) \in Nat
      /\ pc' = [pc EXCEPT ![w] = IF Len(used[w]) + 1 = Len(Jobs[w]) THEN "done" ELSE "stat"]
  BY DurationAssumption DEF TypeInv, UsedInv, Predicted, GoTo
<1>2. used' \in [Workers -> Seq(Nat)]
  BY <1>1
<1>3. ASSUME NEW v \in Workers, v # w
      PROVE  used'[v] = used[v] /\ pc'[v] = pc[v]
  BY <1>1, <1>3 DEF IInv, Shape, Threads
<1>4. /\ used'[w] = Append(used[w], m) /\ Len(used'[w]) = Len(used[w]) + 1
      /\ \A i \in DOMAIN used'[w] : used'[w][i] <= changes
  BY <1>1 DEF TypeInv, UsedInv
<1>5. pc'[w] = IF Len(used[w]) + 1 = Len(Jobs[w]) THEN "done" ELSE "stat"
  BY <1>1 DEF IInv, Shape, Threads
<1> QED BY <1>1, <1>2, <1>3, <1>4, <1>5 DEF TypeInv, UsedInv, Underway

LEMMA UsedStep ==
  ASSUME IInv, TypeInv, [Next]_vars
  PROVE  UsedInv'
<1> USE DEF IInv, Shape, Threads
<1>1. changes <= changes' /\ changes' \in Nat
  BY FileStep, NextInv
<1>2. CASE Truncate \/ FinishWrite \/ Remove \/ UNCHANGED vars
  BY <1>1, <1>2, UsedKept DEF Truncate, FinishWrite, Remove, Change, vars
<1>3. ASSUME NEW w \in Workers, Begin(w)
      PROVE  UsedInv'
  <2>1. /\ used' = used /\ changes' = changes /\ pc[w] = "idle"
        /\ \/ pc' = [pc EXCEPT ![w] = "done"]
           \/ pc' = [pc EXCEPT ![w] = "stat"] /\ Jobs[w] # <<>>
    BY <1>3 DEF Begin, At, GoTo, disk
  <2>2. Jobs[w] # <<>> => 0 < Len(Jobs[w])
    BY DurationAssumption
  <2>3. Len(used[w]) = 0
    BY <2>1 DEF TypeInv, UsedInv
  <2> QED BY <2>1, <2>2, <2>3 DEF TypeInv, UsedInv, Underway
<1>4. ASSUME NEW t \in Threads,
             (BeginProbe(t) /\ t \in Probes) \/ Stat(t) \/ Forget(t) \/ Compare(t) \/ Acquire(t)
               \/ Read(t) \/ Store(t) \/ ClearMemo(t)
      PROVE  UsedInv'
  <2>1. PICK place \in Places \ {"idle"} :
           pc' = [pc EXCEPT ![t] = place] /\ (t \in Workers => pc[t] \in Underway)
    BY <1>4, DurationAssumption DEF BeginProbe, Stat, Forget, Compare, Acquire, Read, Store,
       ClearMemo, Found, At, GoTo, Underway, Places
  <2>2. used' = used
    BY <1>4 DEF BeginProbe, Stat, Forget, Compare, Acquire, Read, Store, ClearMemo
  <2> QED BY <1>1, <2>1, <2>2, UsedKept DEF Underway
<1>5. ASSUME NEW t \in Threads, ReturnModel(t)
      PROVE  UsedInv'
  <2>1. changes' = changes /\ pc[t] \in Underway
    BY <1>5 DEF ReturnModel, At, disk, Underway, Places
  <2>2. CASE t \in Workers /\ Predicted(t, None)
    BY <2>1, <2>2, UsedMore DEF None
  <2>3. CASE used' = used /\ \E place \in {"done", "lookup"} : pc' = [pc EXCEPT ![t] = place]
    BY <1>1, <2>1, <2>3, UsedKept DEF Underway
  <2> QED BY <1>5, <2>2, <2>3 DEF ReturnModel, Found, GoTo
<1>6. ASSUME NEW w \in Workers, Lookup(w)
      PROVE  UsedInv'
  <2>1. changes' = changes /\ pc[w] \in Underway
    BY <1>6 DEF Lookup, At, disk, Underway, Places
  <2>2. CASE Feature(w) \in DOMAIN memo /\ Predicted(w, memo[Feature(w)])
    BY <2>1, <2>2, UsedMore DEF TypeInv, ModelInv
  <2>3. CASE used' = used /\ pc' = [pc EXCEPT ![w] = "compute"]
    BY <1>1, <2>1, <2>3, UsedKept DEF Underway
  <2> QED BY <1>6, <2>2, <2>3 DEF Lookup, GoTo
<1>7. ASSUME NEW w \in Workers, Compute(w)
      PROVE  UsedInv'
  <2>1. /\ used' = used /\ pc[w] \in Underway
        /\ \E place \in {"failed", "remember"} : pc' = [pc EXCEPT ![w] = place]
    BY <1>7 DEF Compute, At, GoTo, Underway, Places
  <2> QED BY <1>1, <2>1, UsedKept DEF Underway
<1>8. ASSUME NEW w \in Workers, Remember(w)
      PROVE  UsedInv'
  <2>1. changes' = changes /\ pc[w] \in Underway /\ Predicted(w, model[w])
    BY <1>8 DEF Remember, At, disk, Underway, Places
  <2>2. model[w] \in Nat /\ model[w] <= changes
    BY DEF TypeInv, ModelInv
  <2> QED BY <2>1, <2>2, UsedMore
<1> QED BY <1>2, <1>3, <1>4, <1>5, <1>6, <1>7, <1>8 DEF Next, Load, Predict

\* The state keeps its types, predictions come from models that were in the file,
\* and a thread reads or stores exactly while it holds the lock (_load_model).
THEOREM TypeCorrect == Spec => []TypeOK
<1>1. Init => TypeInv
  BY TypeInit
<1>2. IInv /\ TypeInv /\ [Next]_vars => TypeInv'
  BY FileStep, HolderStep, ModelStep, UsedStep DEF TypeInv
<1>3. IInv /\ TypeInv => TypeOK
  <2> SUFFICES ASSUME IInv, TypeInv PROVE TypeOK
    OBVIOUS
  <2>1. file \in {"absent", "torn", "whole"} /\ changes \in 0 .. MaxChanges
    BY DurationAssumption DEF IInv, Shape, TypeInv, FileInv
  <2>2. {cached_stamp, cached_model} \subseteq 0 .. changes
    BY DEF IInv, Shape, PastInv
  <2>3. \A t \in Threads : stamp[t] \in 0 .. changes /\ model[t] \in 0 .. changes
    BY DEF IInv, Shape, PastInv, TypeInv, ModelInv
  <2>4. \A f \in DOMAIN memo : f \in Features /\ memo[f] \in 1 .. changes
    BY DEF TypeInv, ModelInv
  <2>5. ASSUME NEW w \in Workers
        PROVE  Len(used[w]) <= Len(Jobs[w]) /\ Range(used[w]) \subseteq 0 .. changes
    BY DEF IInv, Shape, TypeInv, UsedInv, Range
  <2>6. /\ lock \in Threads \cup {Nobody}
        /\ \A t \in Threads : pc[t] \in {"read", "store"} <=> lock = t
    BY DEF IInv, LockInv, TypeInv, HolderInv
  <2> QED BY <2>1, <2>2, <2>3, <2>4, <2>5, <2>6 DEF TypeOK
<1> QED BY <1>1, <1>2, <1>3, Invariance, PTL DEF Spec

=============================================================================
