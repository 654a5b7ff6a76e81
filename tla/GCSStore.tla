------------------------------ MODULE GCSStore ------------------------------
(***************************************************************************)
(* The registry kept in a Cloud Storage bucket (internal/storage/gcs.go),  *)
(* and the AdminServer calls that change it.                               *)
(*                                                                         *)
(* Each service instance holds both maps in memory behind one RWMutex and  *)
(* reads them from the bucket only when it starts.  A creation changes the *)
(* map, then overwrites the whole object with it while it still holds the  *)
(* lock, and takes the change back when the write reports an error.  The   *)
(* write may report an error although it took effect.  Instances crash at  *)
(* any point.  Nothing stops two instances from sharing a bucket; what     *)
(* holds with one and what breaks with two are both checked.               *)
(*                                                                         *)
(* Assumed of Cloud Storage (external): an object write is atomic, and one *)
(* whose outcome was reported, or whose writer is gone, does not take      *)
(* effect later.                                                           *)
(***************************************************************************)
EXTENDS Registry

CONSTANTS
    Instances,   \* service instances that share the bucket
    AdminCalls,  \* CreateProducer and CreateJobType calls; each is made once
    None         \* no value

ASSUME NoneAssumption == None \notin AdminCalls

VARIABLES
    st,          \* "down", "loading" or "up", for each instance
    mu,          \* the call that holds the write lock of each instance
    memP,        \* GCSStore.producers of each instance
    memT,        \* GCSStore.jobTypes of each instance
    bucketP,     \* the object producers.json
    bucketT,     \* the object job_types.json
    apc,         \* where each admin call is
    acall,       \* what each admin call asks for, and of which instance
    areply,      \* the status each administrator got
    seenP, seenT \* producers and job type keys some reader was ever shown

memory == <<memP, memT>>
bucket == <<bucketP, bucketT>>
calls  == <<apc, acall, areply>>
seen   == <<seenP, seenT>>
vars   == <<st, mu, memory, bucket, calls, seen>>

Init ==
    /\ st = [i \in Instances |-> "down"]
    /\ mu = [i \in Instances |-> None]
    /\ memP = [i \in Instances |-> {}]
    /\ memT = [i \in Instances |-> EmptyMap]
    /\ bucketP = {}
    /\ bucketT = EmptyMap
    /\ apc = [a \in AdminCalls |-> "idle"]
    /\ acall = [a \in AdminCalls |-> None]
    /\ areply = [a \in AdminCalls |-> "none"]
    /\ seenP = {}
    /\ seenT = {}

-----------------------------------------------------------------------------
(* Starting: load reads one object, then the other.  What it read counts   *)
(* as the memory of the instance from then on; nobody else sees it before  *)
(* the instance is up.                                                     *)

LoadProducers(i) ==
    /\ st[i] = "down"
    /\ st' = [st EXCEPT ![i] = "loading"]
    /\ memP' = [memP EXCEPT ![i] = bucketP]
    /\ UNCHANGED <<mu, memT, bucket, calls, seen>>

LoadJobTypes(i) ==
    /\ st[i] = "loading"
    /\ st' = [st EXCEPT ![i] = "up"]
    /\ memT' = [memT EXCEPT ![i] = bucketT]
    /\ UNCHANGED <<mu, memP, bucket, calls, seen>>

\* A read error ends the process.
LoadFails(i) ==
    /\ st[i] = "loading"
    /\ st' = [st EXCEPT ![i] = "down"]
    /\ UNCHANGED <<mu, memory, bucket, calls, seen>>

-----------------------------------------------------------------------------
(* AdminServer: validation, then a wait for the store's write lock. *)

CallCreateProducer(a, i, p, name) ==
    /\ apc[a] = "idle"
    /\ st[i] = "up"
    /\ acall' = [acall EXCEPT ![a] = [op |-> "producer", inst |-> i,
                                      producer |-> p, entry |-> None]]
    /\ \/ /\ name = <<>>
          /\ apc' = [apc EXCEPT ![a] = "done"]
          /\ areply' = [areply EXCEPT ![a] = "InvalidArgument"]
       \/ /\ name # <<>>
          /\ apc' = [apc EXCEPT ![a] = "waiting"]
          /\ UNCHANGED areply
    /\ UNCHANGED <<st, mu, memory, bucket, seen>>

\* Mutant: the name of a job type is not required.
FieldMissing_AnyName(p, n) == p = <<>>

FieldMissing(p, n) == p = <<>> \/ n = <<>>

CallCreateJobType(a, i, p, n, q, r) ==
    /\ apc[a] = "idle"
    /\ st[i] = "up"
    /\ acall' = [acall EXCEPT ![a] = [op |-> "jobType", inst |-> i, producer |-> p,
                                      entry |-> NewJobType(p, n, q, r)]]
    /\ \/ /\ FieldMissing(p, n)
          /\ apc' = [apc EXCEPT ![a] = "done"]
          /\ areply' = [areply EXCEPT ![a] = "InvalidArgument"]
       \/ /\ ~FieldMissing(p, n)
          /\ apc' = [apc EXCEPT ![a] = "waiting"]
          /\ UNCHANGED areply
    /\ UNCHANGED <<st, mu, memory, bucket, seen>>

-----------------------------------------------------------------------------
(* GCSStore.CreateProducer and GCSStore.CreateJobType. *)

Inst(a) == acall[a].inst
KeyOf(a) == jobTypeKey(acall[a].producer, acall[a].entry.name)

\* The call gets the lock.
Locks(a, op) ==
    /\ apc[a] = "waiting"
    /\ acall[a].op = op
    /\ mu[Inst(a)] = None

\* The call ends with the given status and the lock free.
Answer(a, status) ==
    /\ apc' = [apc EXCEPT ![a] = "done"]
    /\ areply' = [areply EXCEPT ![a] = status]
    /\ mu' = [mu EXCEPT ![Inst(a)] = None]
    /\ UNCHANGED acall

\* The call keeps the lock and writes the object.
StartSave(a) ==
    /\ apc' = [apc EXCEPT ![a] = "saving"]
    /\ mu' = [mu EXCEPT ![Inst(a)] = a]
    /\ UNCHANGED <<acall, areply>>

\* Mutant: CreateProducer does not look for one with its id.
DuplicateProducer_Unchecked(a) == FALSE

DuplicateProducer(a) == acall[a].producer \in memP[Inst(a)]

\* Mutant: CreateJobType does not look for its producer.
ProducerKnown_Unchecked(a) == TRUE

ProducerKnown(a) == acall[a].producer \in memP[Inst(a)]

\* Mutant: CreateJobType does not look for one with its key.
DuplicateJobType_Unchecked(a) == FALSE

DuplicateJobType(a) == KeyOf(a) \in DOMAIN memT[Inst(a)]

ProducerExists(a) ==
    /\ Locks(a, "producer")
    /\ DuplicateProducer(a)
    /\ Answer(a, "AlreadyExists")
    /\ UNCHANGED <<st, memory, bucket, seen>>

InsertProducer(a) ==
    /\ Locks(a, "producer")
    /\ ~DuplicateProducer(a)
    /\ memP' = [memP EXCEPT ![Inst(a)] = @ \cup {acall[a].producer}]
    /\ StartSave(a)
    /\ UNCHANGED <<st, memT, bucket, seen>>

ProducerMissing(a) ==
    /\ Locks(a, "jobType")
    /\ ~ProducerKnown(a)
    /\ Answer(a, "NotFound")
    /\ UNCHANGED <<st, memory, bucket, seen>>

JobTypeExists(a) ==
    /\ Locks(a, "jobType")
    /\ ProducerKnown(a)
    /\ DuplicateJobType(a)
    /\ Answer(a, "AlreadyExists")
    /\ UNCHANGED <<st, memory, bucket, seen>>

InsertJobType(a) ==
    /\ Locks(a, "jobType")
    /\ ProducerKnown(a)
    /\ ~DuplicateJobType(a)
    /\ memT' = [memT EXCEPT ![Inst(a)] = Put(@, KeyOf(a), acall[a].entry)]
    /\ StartSave(a)
    /\ UNCHANGED <<st, memP, bucket, seen>>

\* The write takes effect: the object becomes the whole map in memory.
Commit(a) ==
    \/ /\ acall[a].op = "producer"
       /\ bucketP' = memP[Inst(a)]
       /\ UNCHANGED bucketT
    \/ /\ acall[a].op = "jobType"
       /\ bucketT' = memT[Inst(a)]
       /\ UNCHANGED bucketP

\* Memory without what the call put in it: the part readers ever saw.
VisibleP(i) ==
    IF mu[i] # None /\ acall[mu[i]].op = "producer"
    THEN memP[i] \ {acall[mu[i]].producer} ELSE memP[i]

VisibleT(i) ==
    IF mu[i] # None /\ acall[mu[i]].op = "jobType"
    THEN Delete(memT[i], KeyOf(mu[i])) ELSE memT[i]

\* Mutant: a failed save is not taken back.
Rollback_Forgotten(i) == UNCHANGED memory

\* Mutant: a failed save reads the objects again.
Rollback_Reloads(i) ==
    /\ memP' = [memP EXCEPT ![i] = bucketP]
    /\ memT' = [memT EXCEPT ![i] = bucketT]

Rollback(i) ==
    /\ memP' = [memP EXCEPT ![i] = VisibleP(i)]
    /\ memT' = [memT EXCEPT ![i] = VisibleT(i)]

SaveOk(a) ==
    /\ apc[a] = "saving"
    /\ Commit(a)
    /\ apc' = [apc EXCEPT ![a] = "saved"]
    /\ UNCHANGED <<st, mu, memory, acall, areply, seen>>

\* Mutant: a write error is swallowed.
SaveFails_Swallowed(a) ==
    /\ apc[a] = "saving"
    /\ Commit(a) \/ UNCHANGED bucket
    /\ apc' = [apc EXCEPT ![a] = "saved"]
    /\ UNCHANGED <<st, mu, memory, acall, areply, seen>>

\* Mutant: the error return leaves the lock taken.
SaveFails_KeepsLock(a) ==
    /\ apc[a] = "saving"
    /\ Commit(a) \/ UNCHANGED bucket
    /\ Rollback(Inst(a))
    /\ apc' = [apc EXCEPT ![a] = "done"]
    /\ areply' = [areply EXCEPT ![a] = "Internal"]
    /\ UNCHANGED <<st, mu, acall, seen>>

\* The write reports an error, and took effect or did not.
SaveFails(a) ==
    /\ apc[a] = "saving"
    /\ Commit(a) \/ UNCHANGED bucket
    /\ Rollback(Inst(a))
    /\ Answer(a, "Internal")
    /\ UNCHANGED <<st, seen>>

Finish(a) ==
    /\ apc[a] = "saved"
    /\ Answer(a, "OK")
    /\ UNCHANGED <<st, memory, bucket, seen>>

-----------------------------------------------------------------------------
(* Readers take the read lock. *)

\* Mutant: readers do not take the lock.
Readable_NoLock(i) == st[i] = "up"

Readable(i) == st[i] = "up" /\ mu[i] = None

\* GetProducer and ListProducers.
ReadProducers(i) ==
    /\ Readable(i)
    /\ seenP' = seenP \cup memP[i]
    /\ UNCHANGED <<st, mu, memory, bucket, calls, seenT>>

\* GetJobType and ListJobTypes.
ReadJobTypes(i) ==
    /\ Readable(i)
    /\ seenT' = seenT \cup DOMAIN memT[i]
    /\ UNCHANGED <<st, mu, memory, bucket, calls, seenP>>

-----------------------------------------------------------------------------
\* The instance stops.  Its calls are never answered; a write in progress took
\* effect or did not.  What its memory held for readers is kept as history
\* until the instance is started again.
Crash(i) ==
    /\ st[i] = "up"
    /\ st' = [st EXCEPT ![i] = "down"]
    /\ \/ UNCHANGED bucket
       \/ mu[i] # None /\ apc[mu[i]] = "saving" /\ Commit(mu[i])
    /\ Rollback(i)
    /\ mu' = [mu EXCEPT ![i] = None]
    /\ LET Cut(a) == apc[a] \notin {"idle", "done"} /\ Inst(a) = i
       IN  /\ apc' = [a \in AdminCalls |-> IF Cut(a) THEN "done" ELSE apc[a]]
           /\ areply' = [a \in AdminCalls |-> IF Cut(a) THEN "lost" ELSE areply[a]]
    /\ UNCHANGED <<acall, seen>>

-----------------------------------------------------------------------------
NameInputs == JobTypeNames \cup {<<>>}

Create(a) ==
    \/ ProducerExists(a) \/ InsertProducer(a)
    \/ ProducerMissing(a) \/ JobTypeExists(a) \/ InsertJobType(a)

Save(a) == SaveOk(a) \/ SaveFails(a) \/ Finish(a)

CallSome(a) ==
    \E i \in Instances, n \in NameInputs :
        \/ \E p \in ProducerIds : CallCreateProducer(a, i, p, n)
        \/ \E p \in ProducerIds \cup {<<>>}, q \in Queues, r \in RetryInputs :
              CallCreateJobType(a, i, p, n, q, r)

Load(i) == LoadProducers(i) \/ LoadJobTypes(i) \/ LoadFails(i)

Next ==
    \/ \E a \in AdminCalls : CallSome(a) \/ Create(a) \/ Save(a)
    \/ \E i \in Instances : Load(i) \/ ReadProducers(i) \/ ReadJobTypes(i) \/ Crash(i)

Spec == Init /\ [][Next]_vars

\* A save ends, with an answer from Cloud Storage or with its context; the
\* RWMutex does not starve a waiting writer.
Fairness ==
    \A a \in AdminCalls : WF_vars(Save(a)) /\ SF_vars(Create(a))

FairSpec == Spec /\ Fairness

-----------------------------------------------------------------------------
(* Properties *)

AdminCall == [op: {"producer", "jobType"}, inst: Instances,
              producer: ProducerIds \cup {<<>>},
              entry: [producer: ProducerIds \cup {<<>>}, name: NameInputs,
                      queue: Queues, maxRetries: Int] \cup {None}]

IsJobTypeMap(m) == DOMAIN m \subseteq Keys /\ m \in [DOMAIN m -> JobTypeEntry]

\* Every variable holds what the code's types allow.
TypeOK ==
    /\ st \in [Instances -> {"down", "loading", "up"}]
    /\ mu \in [Instances -> AdminCalls \cup {None}]
    /\ memP \in [Instances -> SUBSET ProducerIds]
    /\ memT = [i \in Instances |-> memT[i]]
    /\ \A i \in Instances : IsJobTypeMap(memT[i])
    /\ bucketP \subseteq ProducerIds
    /\ IsJobTypeMap(bucketT)
    /\ apc \in [AdminCalls -> {"idle", "waiting", "saving", "saved", "done"}]
    /\ acall \in [AdminCalls -> AdminCall \cup {None}]
    /\ areply \in [AdminCalls -> {"none", "OK", "InvalidArgument", "AlreadyExists",
                                   "NotFound", "Internal", "lost"}]
    /\ seenP \subseteq ProducerIds
    /\ seenT \subseteq Keys

\* The maps p and t hold what call a created.
Holds(p, t, a) ==
    \/ acall[a].op = "producer" /\ acall[a].producer \in p
    \/ /\ acall[a].op = "jobType"
       /\ KeyOf(a) \in DOMAIN t
       /\ t[KeyOf(a)] = acall[a].entry

\* What a CreateProducer or CreateJobType call was confirmed is in the bucket
\* for good: rollbacks, ambiguous writes, crashes, reloads and the saves of
\* other calls never remove it (GCSStore.CreateProducer, CreateJobType, save*).
ConfirmedDurable ==
    \A a \in AdminCalls : areply[a] = "OK" => Holds(bucketP, bucketT, a)

\* What was confirmed is shown by every instance that can be read: ListProducers
\* and ListJobTypes return all that is registered.
ConfirmedVisible ==
    \A a \in AdminCalls, i \in Instances :
        areply[a] = "OK" /\ Readable(i) => Holds(memP[i], memT[i], a)

\* Nobody is ever shown a registration that is not in the bucket: readers wait
\* while a save is undecided, and a save that reported failure leaves nothing
\* behind in memory (the RWMutex, gcs.go:219-222 and 273-276).
SeenDurable == seenP \subseteq bucketP /\ seenT \subseteq DOMAIN bucketT

\* A job type's producer is registered wherever the job type is, in the bucket
\* and in the memory of an instance that is up, although the two maps are
\* saved and loaded one after the other.
RefIntegrity ==
    /\ \A k \in DOMAIN bucketT : bucketT[k].producer \in bucketP
    /\ \A i \in Instances : st[i] = "up" =>
          \A k \in DOMAIN memT[i] : memT[i][k].producer \in memP[i]

\* What an instance looks up under a registered producer and a job type name is
\* that producer's entry of that name, although keys are joined with a colon
\* and a name may hold one (jobTypeKey, storage.go:17).
OwnEntries ==
    \A i \in Instances : \A p \in memP[i], n \in JobTypeNames :
        jobTypeKey(p, n) \in DOMAIN memT[i] =>
            /\ memT[i][jobTypeKey(p, n)].producer = p
            /\ memT[i][jobTypeKey(p, n)].name = n

\* Two calls that create the same producer or job type are not both told OK,
\* not even with crashes and reloads between them.
UniqueConfirm ==
    \A a, b \in AdminCalls :
        /\ areply[a] = "OK" /\ areply[b] = "OK" /\ acall[a].op = acall[b].op
        /\ acall[a].op = "producer" => acall[a].producer = acall[b].producer
        /\ acall[a].op = "jobType" => KeyOf(a) = KeyOf(b)
        => a = b

\* As long as an instance runs, its readers never lose an entry they could
\* already see, and a job type never changes (no dirty reads of a rollback),
\* even when other instances write to the same bucket.
MonotonicReads ==
    [][\A i \in Instances : st[i] = "up" /\ st'[i] = "up" =>
          /\ VisibleP(i) \subseteq VisibleP(i)'
          /\ DOMAIN VisibleT(i) \subseteq DOMAIN VisibleT(i)'
          /\ \A k \in DOMAIN VisibleT(i) : VisibleT(i)'[k] = VisibleT(i)[k]]_vars

\* A call that waits for the lock is answered in the end, or its instance dies:
\* no path leaves the mutex locked.
AdminAnswered ==
    \A a \in AdminCalls : apc[a] = "waiting" ~> apc[a] = "done"

\* One instance implements the registry the rest of the service relies on: the
\* maps as its readers see them only ever gain what a creation adds, a crash
\* and reload included.
TheInstance == CHOOSE i \in Instances : TRUE

Reg == INSTANCE Store WITH producers <- VisibleP(TheInstance),
                           jobTypes  <- VisibleT(TheInstance)

ImplementsStore == Reg!StoreSpec
=============================================================================
