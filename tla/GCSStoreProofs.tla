--------------------------- MODULE GCSStoreProofs ---------------------------
(***************************************************************************)
(* Proofs about GCSStore, for any administrators' calls and any registry   *)
(* contents.  StoreInv holds for any number of instances on one bucket;    *)
(* BucketInv(i) needs that i is the only one, which is what GCSStoreLost   *)
(* shows.                                                                  *)
(***************************************************************************)
EXTENDS GCSStore, SequenceTheorems, TLAPS

-----------------------------------------------------------------------------
(* The inductive invariants. *)

InFlight == {"waiting", "saving", "saved"}
Locked == {"saving", "saved"}

\* The call a has asked for something that its operation takes; once it waits
\* for the lock, all its fields are there.
Asked(a) ==
    /\ acall[a] \in AdminCall
    /\ acall[a].op = "producer" => acall[a].producer \in ProducerIds
    /\ acall[a].op = "jobType" =>
          \E n \in NameInputs, q \in Queues, r \in RetryInputs :
              acall[a].entry = NewJobType(acall[a].producer, n, q, r)
    /\ apc[a] \in InFlight /\ acall[a].op = "jobType" =>
          acall[a].producer # <<>> /\ acall[a].entry.name # <<>>

CallShape == \A a \in AdminCalls : apc[a] # "idle" => Asked(a)

\* A call holds the lock of its instance exactly while it saves, and calls in
\* progress have an instance that runs.
LockShape ==
    /\ \A a \in AdminCalls : apc[a] \in InFlight => st[Inst(a)] = "up"
    /\ \A a \in AdminCalls : apc[a] \in Locked => mu[Inst(a)] = a
    /\ \A i \in Instances : mu[i] # None =>
          apc[mu[i]] \in Locked /\ Inst(mu[i]) = i

\* Whoever holds the lock has put its entry into memory, under a producer that is
\* there.
MemShape ==
    \A a \in AdminCalls : apc[a] \in Locked =>
        /\ acall[a].producer \in memP[Inst(a)]
        /\ acall[a].op = "jobType" =>
              /\ KeyOf(a) \in DOMAIN memT[Inst(a)]
              /\ memT[Inst(a)][KeyOf(a)] = acall[a].entry

\* Every entry of the map m was made by CreateJobType and is under its own key.
Registered(m) ==
    \A k \in DOMAIN m :
        \E p \in ProducerIds, n \in JobTypeNames, q \in Queues, r \in RetryInputs :
            k = jobTypeKey(p, n) /\ m[k] = NewJobType(p, n, q, r)

Keyed == Registered(bucketT) /\ \A i \in Instances : Registered(memT[i])

StoreInv == TypeOK /\ CallShape /\ LockShape /\ MemShape /\ Keyed

\* What readers of instance i see is in the bucket, and the bucket holds at most
\* one producer and one job type more: the last one whose write reported an
\* error and took effect.
Behind(i) ==
    /\ VisibleP(i) \subseteq bucketP
    /\ \A p, q \in bucketP \ VisibleP(i) : p = q
    /\ DOMAIN VisibleT(i) \subseteq DOMAIN bucketT
    /\ \A k \in DOMAIN VisibleT(i) : bucketT[k] = VisibleT(i)[k]
    /\ \A k, l \in DOMAIN bucketT \ DOMAIN VisibleT(i) : k = l

\* A job type in the bucket belongs to a producer readers see.
Rooted(i) == \A k \in DOMAIN bucketT : bucketT[k].producer \in VisibleP(i)

\* A save that succeeded wrote what is in memory.
Written ==
    \A a \in AdminCalls : apc[a] = "saved" =>
        /\ acall[a].op = "producer" => bucketP = memP[Inst(a)]
        /\ acall[a].op = "jobType" => bucketT = memT[Inst(a)]

\* What was ever shown or confirmed is still shown.
Shown(i) ==
    /\ seenP \subseteq VisibleP(i) /\ seenT \subseteq DOMAIN VisibleT(i)
    /\ \A a \in AdminCalls : areply[a] = "OK" =>
          apc[a] = "done" /\ Holds(VisibleP(i), VisibleT(i), a)

BucketInv(i) ==
    /\ StoreInv
    /\ Behind(i) /\ Rooted(i) /\ Written /\ Shown(i) /\ UniqueConfirm
-----------------------------------------------------------------------------
(* The maps. *)

\* Delete removes one key and keeps the others.
LEMMA DeleteFacts ==
    ASSUME NEW m, NEW k
    PROVE  /\ DOMAIN Delete(m, k) = DOMAIN m \ {k}
           /\ \A x \in DOMAIN m : x # k => Delete(m, k)[x] = m[x]
    BY DEF Delete

\* Taking back a creation of a new key restores the map.
LEMMA DeletePut ==
    ASSUME NEW m, NEW k, NEW v, k \notin DOMAIN m, m = [x \in DOMAIN m |-> m[x]]
    PROVE  Delete(Put(m, k, v), k) = m
    BY DEF Put, Delete

\* The map without a key is the map a creation of that key started from.
LEMMA PutDelete ==
    ASSUME NEW m, NEW k, k \in DOMAIN m, m = [x \in DOMAIN m |-> m[x]]
    PROVE  Put(Delete(m, k), k, m[k]) = m
    BY DEF Put, Delete

\* A map of a store: CreateJobType made all its entries.
GoodMap(m) == IsJobTypeMap(m) /\ Registered(m)

\* A good map is a function.
LEMMA GoodIsFunction ==
    ASSUME NEW m, GoodMap(m)
    PROVE  m = [x \in DOMAIN m |-> m[x]]
    BY DEF GoodMap, IsJobTypeMap

\* CreateJobType's entries are well typed.
LEMMA NewJobTypeType ==
    ASSUME NEW p \in ProducerIds \cup {<<>>}, NEW n \in NameInputs,
           NEW q \in Queues, NEW r \in RetryInputs
    PROVE  /\ NewJobType(p, n, q, r).producer = p
           /\ NewJobType(p, n, q, r).name = n
           /\ NewJobType(p, n, q, r) \in
                [producer: ProducerIds \cup {<<>>}, name: NameInputs,
                 queue: Queues, maxRetries: Int]
           /\ p \in ProducerIds /\ n \in JobTypeNames =>
                NewJobType(p, n, q, r) \in JobTypeEntry
    <1>1. MaxRetriesOf(r) \in Int
        BY RegistryAssumption DEF MaxRetriesOf, RegistryAssumption
    <1> HIDE DEF MaxRetriesOf
    <1> QED BY <1>1 DEF NewJobType, JobTypeEntry

\* Nothing is a good map.
LEMMA EmptyGood == GoodMap(EmptyMap)
    BY DEF GoodMap, IsJobTypeMap, Registered, EmptyMap

\* A creation keeps a map good.
LEMMA GoodPut ==
    ASSUME NEW m, GoodMap(m), NEW p \in ProducerIds, NEW n \in JobTypeNames,
           NEW q \in Queues, NEW r \in RetryInputs
    PROVE  GoodMap(Put(m, jobTypeKey(p, n), NewJobType(p, n, q, r)))
    <1> DEFINE k == jobTypeKey(p, n)
               v == NewJobType(p, n, q, r)
    <1>1. v \in JobTypeEntry
        BY NewJobTypeType DEF NameInputs
    <1>2. k \in Keys
        BY DEF Keys
    <1>3. \E pp \in ProducerIds, nn \in JobTypeNames, qq \in Queues, rr \in RetryInputs :
             k = jobTypeKey(pp, nn) /\ v = NewJobType(pp, nn, qq, rr)
        OBVIOUS
    <1> HIDE DEF k, v
    <1>4. /\ DOMAIN Put(m, k, v) = DOMAIN m \cup {k}
          /\ Put(m, k, v)[k] = v
          /\ \A x \in DOMAIN m : x # k => Put(m, k, v)[x] = m[x]
        BY DEF Put
    <1>5. IsJobTypeMap(Put(m, k, v))
        BY <1>1, <1>2 DEF GoodMap, IsJobTypeMap, Put
    <1>6. ASSUME NEW x \in DOMAIN Put(m, k, v)
          PROVE  \E pp \in ProducerIds, nn \in JobTypeNames, qq \in Queues,
                    rr \in RetryInputs : /\ x = jobTypeKey(pp, nn)
                                         /\ Put(m, k, v)[x] = NewJobType(pp, nn, qq, rr)
        <2>1. CASE x = k
            BY <2>1, <1>3, <1>4
        <2>2. CASE x # k
            <3>1. Put(m, k, v)[x] = m[x] /\ x \in DOMAIN m
                BY <2>2, <1>4
            <3> QED BY <3>1 DEF GoodMap, Registered
        <2> QED BY <2>1, <2>2
    <1>7. Registered(Put(m, k, v))
        BY <1>6 DEF Registered
    <1> QED BY <1>5, <1>7 DEF GoodMap, k, v

\* Taking one back does too.
LEMMA GoodDelete ==
    ASSUME NEW m, GoodMap(m), NEW k
    PROVE  GoodMap(Delete(m, k))
    <1>1. IsJobTypeMap(Delete(m, k))
        BY DEF GoodMap, IsJobTypeMap, Delete
    <1>2. Registered(Delete(m, k))
        <2> SUFFICES ASSUME NEW x \in DOMAIN m \ {k}
                     PROVE  \E pp \in ProducerIds, nn \in JobTypeNames,
                               qq \in Queues, rr \in RetryInputs :
                                 /\ x = jobTypeKey(pp, nn)
                                 /\ Delete(m, k)[x] = NewJobType(pp, nn, qq, rr)
            BY DeleteFacts DEF Registered
        <2>1. Delete(m, k)[x] = m[x] /\ x \in DOMAIN m
            BY DeleteFacts
        <2> QED BY <2>1 DEF GoodMap, Registered
    <1> QED BY <1>1, <1>2 DEF GoodMap

-----------------------------------------------------------------------------
(* StoreInv, one lemma for each kind of step. *)

\* A call in progress asks for an entry its store can take.
LEMMA AskedEntry ==
    ASSUME StoreInv, NEW a \in AdminCalls, apc[a] # "idle"
    PROVE  /\ acall[a] \in AdminCall
           /\ Inst(a) \in Instances
           /\ acall[a].op \in {"producer", "jobType"}
           /\ acall[a].op = "producer" => acall[a].producer \in ProducerIds
           /\ apc[a] \in InFlight /\ acall[a].op = "jobType" =>
                /\ acall[a].producer \in ProducerIds
                /\ \E n \in JobTypeNames, q \in Queues, r \in RetryInputs :
                      /\ acall[a].entry = NewJobType(acall[a].producer, n, q, r)
                      /\ KeyOf(a) = jobTypeKey(acall[a].producer, n)
                      /\ acall[a].entry.name = n
                /\ acall[a].entry.producer = acall[a].producer
    <1>1. Asked(a)
        BY DEF StoreInv, CallShape
    <1>2. acall[a] \in AdminCall
        BY <1>1 DEF Asked
    <1>3. /\ Inst(a) \in Instances
          /\ acall[a].op \in {"producer", "jobType"}
          /\ acall[a].producer \in ProducerIds \cup {<<>>}
        BY <1>2 DEF AdminCall, Inst
    <1>4. ASSUME apc[a] \in InFlight, acall[a].op = "jobType"
          PROVE  /\ acall[a].producer \in ProducerIds
                 /\ \E n \in JobTypeNames, q \in Queues, r \in RetryInputs :
                      /\ acall[a].entry = NewJobType(acall[a].producer, n, q, r)
                      /\ KeyOf(a) = jobTypeKey(acall[a].producer, n)
                      /\ acall[a].entry.name = n
                 /\ acall[a].entry.producer = acall[a].producer
        <2>1. PICK n \in NameInputs, q \in Queues, r \in RetryInputs :
                 acall[a].entry = NewJobType(acall[a].producer, n, q, r)
            BY <1>1, <1>4 DEF Asked
        <2>2. /\ acall[a].entry.name = n
              /\ acall[a].entry.producer = acall[a].producer
            BY <1>3, <2>1, NewJobTypeType
        <2>3. acall[a].producer # <<>> /\ acall[a].entry.name # <<>>
            BY <1>1, <1>4 DEF Asked
        <2>4. n \in JobTypeNames /\ acall[a].producer \in ProducerIds
            BY <1>3, <2>2, <2>3 DEF NameInputs
        <2> QED BY <2>1, <2>2, <2>4 DEF KeyOf
    <1>5. acall[a].op = "producer" => acall[a].producer \in ProducerIds
        BY <1>1 DEF Asked
    <1> QED BY <1>2, <1>3, <1>4, <1>5

\* What every instance and the bucket hold is good.
LEMMA StoreMaps ==
    ASSUME StoreInv
    PROVE  /\ bucketP \subseteq ProducerIds /\ GoodMap(bucketT)
           /\ \A i \in Instances : memP[i] \subseteq ProducerIds /\ GoodMap(memT[i])
    BY DEF StoreInv, TypeOK, Keyed, GoodMap

\* What readers see is good.
LEMMA VisibleGood ==
    ASSUME StoreInv, NEW i \in Instances
    PROVE  VisibleP(i) \subseteq ProducerIds /\ GoodMap(VisibleT(i))
    BY StoreMaps, GoodDelete DEF VisibleP, VisibleT

\* What a save writes is good.
LEMMA CommitGood ==
    ASSUME StoreInv, NEW a \in AdminCalls, apc[a] \in Locked, Commit(a)
    PROVE  bucketP' \subseteq ProducerIds /\ GoodMap(bucketT')
    <1>1. Inst(a) \in Instances
        BY AskedEntry DEF Locked
    <1> QED BY <1>1, StoreMaps DEF Commit

Replies == {"none", "OK", "InvalidArgument", "AlreadyExists", "NotFound", "Internal",
            "lost"}

\* TypeOK in two parts: the calls, and the registry.
CallTypes ==
    /\ st \in [Instances -> {"down", "loading", "up"}]
    /\ mu \in [Instances -> AdminCalls \cup {None}]
    /\ apc \in [AdminCalls -> {"idle", "waiting", "saving", "saved", "done"}]
    /\ acall \in [AdminCalls -> AdminCall \cup {None}]
    /\ areply \in [AdminCalls -> Replies]
    /\ seenP \subseteq ProducerIds
    /\ seenT \subseteq Keys

MapTypes ==
    /\ memP \in [Instances -> SUBSET ProducerIds]
    /\ memT = [i \in Instances |-> memT[i]]
    /\ \A i \in Instances : GoodMap(memT[i])
    /\ bucketP \subseteq ProducerIds
    /\ GoodMap(bucketT)

\* The parts of StoreInv as the proofs below establish them.
LEMMA StoreParts ==
    StoreInv <=> CallTypes /\ MapTypes /\ CallShape /\ LockShape /\ MemShape
    BY DEF StoreInv, TypeOK, Keyed, GoodMap, CallTypes, MapTypes, Replies

\* The same, after a step.
LEMMA StorePartsNext ==
    StoreInv' <=> CallTypes' /\ MapTypes' /\ CallShape' /\ LockShape' /\ MemShape'
    BY StoreParts, PTL

\* Initially nothing is registered and nobody asks.
LEMMA StoreInit == Init => StoreInv
    <1> SUFFICES ASSUME Init PROVE StoreInv
        OBVIOUS
    <1>1. CallTypes
        BY DEF Init, CallTypes, Replies
    <1>2. MapTypes
        BY EmptyGood DEF Init, MapTypes
    <1>3. CallShape /\ LockShape /\ MemShape
        BY DEF Init, CallShape, LockShape, MemShape, InFlight, Locked
    <1> QED BY <1>1, <1>2, <1>3, StoreParts

\* A new call changes nothing but itself, and asks for something.
LEMMA CallStep ==
    ASSUME StoreInv, NEW a \in AdminCalls, CallSome(a)
    PROVE  /\ apc[a] = "idle"
           /\ UNCHANGED <<st, mu, memory, bucket, seen>>
           /\ \E c \in AdminCall, w \in {"waiting", "done"},
                 s \in {areply[a], "InvalidArgument"} :
                 /\ acall' = [acall EXCEPT ![a] = c]
                 /\ apc' = [apc EXCEPT ![a] = w]
                 /\ areply' = [areply EXCEPT ![a] = s]
                 /\ st[c.inst] = "up"
                 /\ c.op = "producer" => c.producer \in ProducerIds
                 /\ c.op = "jobType" =>
                      \E n \in NameInputs, q \in Queues, r \in RetryInputs :
                          c.entry = NewJobType(c.producer, n, q, r)
                 /\ w = "waiting" /\ c.op = "jobType" =>
                      c.producer # <<>> /\ c.entry.name # <<>>
    <1> DEFINE Shape(c, w) ==
                 /\ c \in AdminCall
                 /\ st[c.inst] = "up"
                 /\ c.op = "producer" => c.producer \in ProducerIds
                 /\ c.op = "jobType" =>
                      \E n \in NameInputs, q \in Queues, r \in RetryInputs :
                          c.entry = NewJobType(c.producer, n, q, r)
                 /\ w = "waiting" /\ c.op = "jobType" =>
                      c.producer # <<>> /\ c.entry.name # <<>>
               Does(c, w, s) ==
                 /\ acall' = [acall EXCEPT ![a] = c]
                 /\ apc' = [apc EXCEPT ![a] = w]
                 /\ areply' = [areply EXCEPT ![a] = s]
    <1>0. areply = [areply EXCEPT ![a] = areply[a]]
        BY DEF StoreInv, TypeOK
    <1>1. PICK i \in Instances, n \in NameInputs :
             \/ \E p \in ProducerIds : CallCreateProducer(a, i, p, n)
             \/ \E p \in ProducerIds \cup {<<>>}, q \in Queues, r \in RetryInputs :
                   CallCreateJobType(a, i, p, n, q, r)
        BY DEF CallSome
    <1>2. CASE \E p \in ProducerIds : CallCreateProducer(a, i, p, n)
        <2>1. PICK p \in ProducerIds : CallCreateProducer(a, i, p, n)
            BY <1>2
        <2> DEFINE c == [op |-> "producer", inst |-> i, producer |-> p, entry |-> None]
        <2>2. c \in AdminCall
            BY DEF AdminCall
        <2>3. /\ apc[a] = "idle" /\ UNCHANGED <<st, mu, memory, bucket, seen>>
              /\ st[i] = "up"
              /\ \E w \in {"waiting", "done"}, s \in {areply[a], "InvalidArgument"} :
                    Does(c, w, s)
            BY <2>1, <1>0 DEF CallCreateProducer
        <2>4. \A w : Shape(c, w)
            BY <2>2, <2>3
        <2> QED BY <2>2, <2>3, <2>4
    <1>3. CASE \E p \in ProducerIds \cup {<<>>}, q \in Queues, r \in RetryInputs :
                   CallCreateJobType(a, i, p, n, q, r)
        <2>1. PICK p \in ProducerIds \cup {<<>>}, q \in Queues, r \in RetryInputs :
                   CallCreateJobType(a, i, p, n, q, r)
            BY <1>3
        <2> DEFINE e == NewJobType(p, n, q, r)
                   c == [op |-> "jobType", inst |-> i, producer |-> p, entry |-> e]
        <2>2. /\ e \in [producer: ProducerIds \cup {<<>>}, name: NameInputs,
                        queue: Queues, maxRetries: Int]
              /\ e.name = n
            BY NewJobTypeType
        <2>3. e = NewJobType(p, n, q, r)
            OBVIOUS
        <2>4. /\ apc[a] = "idle" /\ UNCHANGED <<st, mu, memory, bucket, seen>>
              /\ st[i] = "up"
              /\ acall' = [acall EXCEPT ![a] = c]
              /\ \/ /\ apc' = [apc EXCEPT ![a] = "done"]
                    /\ areply' = [areply EXCEPT ![a] = "InvalidArgument"]
                 \/ /\ p # <<>> /\ n # <<>>
                    /\ apc' = [apc EXCEPT ![a] = "waiting"]
                    /\ areply' = [areply EXCEPT ![a] = areply[a]]
            BY <2>1, <1>0 DEF CallCreateJobType, FieldMissing
        <2> HIDE DEF e
        <2>5. c \in AdminCall
            BY <2>2 DEF AdminCall
        <2>6. Shape(c, "done") /\ (p # <<>> /\ n # <<>> => Shape(c, "waiting"))
            BY <2>2, <2>3, <2>4, <2>5
        <2>7. \E w \in {"waiting", "done"}, s \in {areply[a], "InvalidArgument"} :
                 Does(c, w, s) /\ Shape(c, w)
            <3> HIDE DEF Shape
            <3> QED BY <2>4, <2>6
        <2> QED BY <2>4, <2>5, <2>7
    <1> QED BY <1>1, <1>2, <1>3

\* A new call keeps StoreInv.
LEMMA StoreCall ==
    ASSUME StoreInv, NEW a \in AdminCalls, CallSome(a)
    PROVE  StoreInv'
    <1>1. /\ apc[a] = "idle"
          /\ UNCHANGED <<st, mu, memP, memT, bucketP, bucketT, seenP, seenT>>
        BY CallStep DEF memory, bucket, seen
    <1>2. PICK c \in AdminCall, w \in {"waiting", "done"},
                 s \in {areply[a], "InvalidArgument"} :
                 /\ acall' = [acall EXCEPT ![a] = c]
                 /\ apc' = [apc EXCEPT ![a] = w]
                 /\ areply' = [areply EXCEPT ![a] = s]
                 /\ st[c.inst] = "up"
                 /\ c.op = "producer" => c.producer \in ProducerIds
                 /\ c.op = "jobType" =>
                      \E n \in NameInputs, q \in Queues, r \in RetryInputs :
                          c.entry = NewJobType(c.producer, n, q, r)
                 /\ w = "waiting" /\ c.op = "jobType" =>
                      c.producer # <<>> /\ c.entry.name # <<>>
        BY CallStep
    <1>3. CallTypes /\ MapTypes /\ CallShape /\ LockShape /\ MemShape
        BY StoreParts
    <1>4. /\ acall'[a] = c /\ apc'[a] = w
          /\ \A b \in AdminCalls : b # a => acall'[b] = acall[b] /\ apc'[b] = apc[b]
        BY <1>2, <1>3 DEF CallTypes
    <1>5. \A b \in AdminCalls : apc'[b] \in Locked => apc[b] \in Locked /\ b # a
        BY <1>4, <1>1 DEF Locked
    <1>6. CallTypes'
        BY <1>1, <1>2, <1>3 DEF CallTypes, Replies
    <1>7. MapTypes'
        BY <1>1, <1>3 DEF MapTypes
    <1>8. CallShape'
        <2> SUFFICES ASSUME NEW b \in AdminCalls, apc'[b] # "idle"
                     PROVE  Asked(b)'
            BY DEF CallShape
        <2>1. CASE b = a
            BY <2>1, <1>2, <1>4 DEF Asked, InFlight
        <2>2. CASE b # a
            BY <2>2, <1>3, <1>4 DEF Asked, CallShape
        <2> QED BY <2>1, <2>2
    <1>9. LockShape'
        <2>1. \A b \in AdminCalls : apc'[b] \in InFlight => st'[Inst(b)'] = "up"
            BY <1>1, <1>2, <1>3, <1>4 DEF LockShape, Inst
        <2>2. \A b \in AdminCalls : apc'[b] \in Locked => mu'[Inst(b)'] = b
            BY <1>1, <1>3, <1>4, <1>5 DEF LockShape, Inst
        <2>3. ASSUME NEW i \in Instances, mu'[i] # None
              PROVE  apc'[mu'[i]] \in Locked /\ acall'[mu'[i]].inst = i
            <3>1. mu[i] \in AdminCalls /\ apc[mu[i]] \in Locked /\ Inst(mu[i]) = i
                BY <1>1, <1>3, <2>3 DEF LockShape, CallTypes
            <3>2. mu[i] # a
                BY <3>1, <1>1 DEF Locked
            <3> QED BY <1>1, <3>1, <3>2, <1>4 DEF Inst
        <2> QED BY <2>1, <2>2, <2>3 DEF LockShape, Inst
    <1>10. MemShape'
        BY <1>1, <1>3, <1>4, <1>5 DEF MemShape, Inst, KeyOf
    <1> QED BY <1>6, <1>7, <1>8, <1>9, <1>10, StorePartsNext

\* The calls after one of them was answered, with or without the lock.
LEMMA AnswerShape ==
    ASSUME StoreInv, NEW a \in AdminCalls, apc[a] \in InFlight, NEW status \in Replies,
           Answer(a, status), mu[Inst(a)] \in {None, a}, UNCHANGED <<st, seen>>
    PROVE  /\ CallTypes' /\ CallShape' /\ LockShape'
           /\ \A b \in AdminCalls : apc'[b] \in Locked =>
                 apc[b] \in Locked /\ Inst(b) # Inst(a) /\ Inst(b) \in Instances
    <1>1. CallTypes /\ MapTypes /\ CallShape /\ LockShape /\ MemShape
        BY StoreParts
    <1>2. Inst(a) \in Instances
        BY AskedEntry DEF InFlight
    <1>3. /\ apc' = [apc EXCEPT ![a] = "done"]
          /\ areply' = [areply EXCEPT ![a] = status]
          /\ mu' = [mu EXCEPT ![Inst(a)] = None]
          /\ UNCHANGED <<acall, st, seenP, seenT>>
        BY DEF Answer, seen
    <1>4. CallTypes'
        BY <1>1, <1>2, <1>3 DEF CallTypes
    <1>5. CallShape'
        BY <1>1, <1>3 DEF CallShape, CallTypes, Asked, InFlight
    <1>6. \A b \in AdminCalls : apc'[b] \in Locked =>
             apc[b] \in Locked /\ Inst(b) # Inst(a) /\ Inst(b) \in Instances
        <2> SUFFICES ASSUME NEW b \in AdminCalls, apc'[b] \in Locked
                     PROVE  apc[b] \in Locked /\ Inst(b) # Inst(a) /\ Inst(b) \in Instances
            OBVIOUS
        <2>1. b # a /\ apc[b] \in Locked
            BY <1>1, <1>3 DEF CallTypes, Locked
        <2>2. mu[Inst(b)] = b /\ b # None
            BY <1>1, <2>1, NoneAssumption DEF LockShape, NoneAssumption
        <2>3. Inst(b) \in Instances
            BY <2>1, AskedEntry DEF Locked
        <2> QED BY <2>1, <2>2, <2>3
    <1>7. LockShape'
        <2>1. \A b \in AdminCalls : apc'[b] \in InFlight => st'[Inst(b)'] = "up"
            BY <1>1, <1>3 DEF LockShape, Inst, CallTypes, InFlight
        <2>2. \A b \in AdminCalls : apc'[b] \in Locked => mu'[Inst(b)'] = b
            BY <1>1, <1>3, <1>6 DEF LockShape, Inst, CallTypes
        <2>3. ASSUME NEW i \in Instances, mu'[i] # None
              PROVE  apc'[mu'[i]] \in Locked /\ acall'[mu'[i]].inst = i
            <3>1. i # Inst(a) /\ mu'[i] = mu[i]
                BY <1>1, <1>2, <1>3, <2>3 DEF CallTypes
            <3>2. apc[mu[i]] \in Locked /\ Inst(mu[i]) = i /\ mu[i] \in AdminCalls
                BY <1>1, <2>3, <3>1 DEF LockShape, CallTypes
            <3>3. mu[i] # a
                BY <3>1, <3>2
            <3> QED BY <1>1, <1>3, <3>1, <3>2, <3>3 DEF CallTypes, Inst
        <2> QED BY <2>1, <2>2, <2>3 DEF LockShape, Inst
    <1> QED BY <1>4, <1>5, <1>6, <1>7

\* Answering a call that did not change memory keeps StoreInv.
LEMMA StoreAnswer ==
    ASSUME StoreInv, NEW a \in AdminCalls, apc[a] \in InFlight, NEW status \in Replies,
           Answer(a, status), mu[Inst(a)] \in {None, a},
           UNCHANGED <<st, memory, bucket, seen>>
    PROVE  StoreInv'
    <1>1. CallTypes /\ MapTypes /\ CallShape /\ LockShape /\ MemShape
        BY StoreParts
    <1>2. UNCHANGED <<memP, memT, bucketP, bucketT, acall>>
        BY DEF memory, bucket, Answer
    <1>3. /\ CallTypes' /\ CallShape' /\ LockShape'
          /\ \A b \in AdminCalls : apc'[b] \in Locked => apc[b] \in Locked
        BY AnswerShape
    <1>4. MapTypes'
        BY <1>1, <1>2 DEF MapTypes
    <1>5. MemShape'
        BY <1>1, <1>2, <1>3 DEF MemShape, Inst, KeyOf
    <1> QED BY <1>3, <1>4, <1>5, StorePartsNext

\* The calls after one of them took the lock.
LEMMA StartShape ==
    ASSUME StoreInv, NEW a \in AdminCalls, NEW op, Locks(a, op), StartSave(a),
           UNCHANGED <<st, seen>>
    PROVE  /\ CallTypes' /\ CallShape' /\ LockShape'
           /\ \A b \in AdminCalls : apc'[b] \in Locked /\ b # a =>
                 apc[b] \in Locked /\ Inst(b) # Inst(a) /\ Inst(b) \in Instances
    <1>1. CallTypes /\ MapTypes /\ CallShape /\ LockShape /\ MemShape
        BY StoreParts
    <1>0. apc[a] = "waiting" /\ mu[Inst(a)] = None
        BY DEF Locks
    <1>2. Inst(a) \in Instances /\ st[Inst(a)] = "up"
        BY <1>0, <1>1, AskedEntry DEF InFlight, LockShape
    <1>3. /\ apc' = [apc EXCEPT ![a] = "saving"]
          /\ mu' = [mu EXCEPT ![Inst(a)] = a]
          /\ UNCHANGED <<acall, areply, st, seenP, seenT>>
        BY DEF StartSave, seen
    <1>4. CallTypes'
        BY <1>1, <1>2, <1>3 DEF CallTypes
    <1>5. CallShape'
        BY <1>0, <1>1, <1>3 DEF CallShape, CallTypes, Asked, InFlight
    <1>6. \A b \in AdminCalls : apc'[b] \in Locked /\ b # a =>
             apc[b] \in Locked /\ Inst(b) # Inst(a) /\ Inst(b) \in Instances
        <2> SUFFICES ASSUME NEW b \in AdminCalls, apc'[b] \in Locked, b # a
                     PROVE  apc[b] \in Locked /\ Inst(b) # Inst(a) /\ Inst(b) \in Instances
            OBVIOUS
        <2>1. apc[b] \in Locked
            BY <1>1, <1>3 DEF CallTypes, Locked
        <2>2. mu[Inst(b)] = b /\ b # None
            BY <1>1, <2>1, NoneAssumption DEF LockShape, NoneAssumption
        <2>3. Inst(b) \in Instances
            BY <2>1, AskedEntry DEF Locked
        <2> QED BY <1>0, <2>1, <2>2, <2>3
    <1>7. LockShape'
        <2>1. \A b \in AdminCalls : apc'[b] \in InFlight => st'[Inst(b)'] = "up"
            BY <1>1, <1>2, <1>3 DEF LockShape, Inst, CallTypes, InFlight
        <2>2. \A b \in AdminCalls : apc'[b] \in Locked => mu'[Inst(b)'] = b
            BY <1>1, <1>2, <1>3, <1>6 DEF LockShape, Inst, CallTypes
        <2>3. ASSUME NEW i \in Instances, mu'[i] # None
              PROVE  apc'[mu'[i]] \in Locked /\ acall'[mu'[i]].inst = i
            <3>1. CASE i = Inst(a)
                BY <3>1, <1>1, <1>2, <1>3 DEF CallTypes, Inst, Locked
            <3>2. CASE i # Inst(a)
                <4>1. mu'[i] = mu[i]
                    BY <1>1, <1>3, <3>2 DEF CallTypes
                <4>2. apc[mu[i]] \in Locked /\ Inst(mu[i]) = i /\ mu[i] \in AdminCalls
                    BY <1>1, <2>3, <4>1 DEF LockShape, CallTypes
                <4>3. mu[i] # a
                    BY <3>2, <4>2
                <4> QED BY <1>1, <1>3, <4>1, <4>2, <4>3 DEF CallTypes, Inst
            <3> QED BY <3>1, <3>2
        <2> QED BY <2>1, <2>2, <2>3 DEF LockShape, Inst
    <1> QED BY <1>4, <1>5, <1>6, <1>7

\* A creation in memory keeps StoreInv.
LEMMA StoreInsert ==
    ASSUME StoreInv, NEW a \in AdminCalls, InsertProducer(a) \/ InsertJobType(a)
    PROVE  StoreInv'
    <1>1. CallTypes /\ MapTypes /\ CallShape /\ LockShape /\ MemShape
        BY StoreParts
    <1>2. apc[a] = "waiting" /\ Inst(a) \in Instances
        BY AskedEntry DEF InsertProducer, InsertJobType, Locks
    <1>3. /\ CallTypes' /\ CallShape' /\ LockShape'
          /\ \A b \in AdminCalls : apc'[b] \in Locked /\ b # a =>
                 apc[b] \in Locked /\ Inst(b) # Inst(a) /\ Inst(b) \in Instances
        BY StartShape DEF InsertProducer, InsertJobType
    <1>4. UNCHANGED <<acall, bucketP, bucketT>>
        BY DEF InsertProducer, InsertJobType, StartSave, bucket
    <1>5. CASE InsertProducer(a)
        <2>1. /\ acall[a].op = "producer" /\ acall[a].producer \in ProducerIds
              /\ memP' = [memP EXCEPT ![Inst(a)] = @ \cup {acall[a].producer}]
              /\ memT' = memT
            BY <1>2, <1>5, AskedEntry DEF InsertProducer, Locks
        <2>2. MapTypes'
            BY <1>1, <1>2, <1>4, <2>1 DEF MapTypes
        <2>3. MemShape'
            BY <1>1, <1>2, <1>3, <1>4, <2>1 DEF MemShape, MapTypes, Inst, KeyOf
        <2> QED BY <1>3, <2>2, <2>3, StorePartsNext
    <1>6. CASE InsertJobType(a)
        <2>1. /\ acall[a].op = "jobType" /\ acall[a].producer \in memP[Inst(a)]
              /\ memT' = [memT EXCEPT ![Inst(a)] = Put(@, KeyOf(a), acall[a].entry)]
              /\ memP' = memP
            BY <1>6 DEF InsertJobType, Locks, ProducerKnown
        <2>2. GoodMap(Put(memT[Inst(a)], KeyOf(a), acall[a].entry))
            <3>1. PICK n \in JobTypeNames, q \in Queues, r \in RetryInputs :
                     /\ acall[a].entry = NewJobType(acall[a].producer, n, q, r)
                     /\ KeyOf(a) = jobTypeKey(acall[a].producer, n)
                BY <1>2, <2>1, AskedEntry DEF InFlight
            <3>2. acall[a].producer \in ProducerIds /\ GoodMap(memT[Inst(a)])
                BY <1>1, <1>2, <2>1 DEF MapTypes
            <3> QED BY <3>1, <3>2, GoodPut
        <2>3. MapTypes'
            BY <1>1, <1>2, <1>4, <2>1, <2>2 DEF MapTypes
        <2>4. /\ memT'[Inst(a)] = Put(memT[Inst(a)], KeyOf(a), acall[a].entry)
              /\ \A i \in Instances : i # Inst(a) => memT'[i] = memT[i]
            BY <1>1, <1>2, <2>1 DEF MapTypes
        <2>5. /\ KeyOf(a) \in DOMAIN memT'[Inst(a)]
              /\ memT'[Inst(a)][KeyOf(a)] = acall[a].entry
            BY <2>4 DEF Put
        <2>6. MemShape'
            <3> SUFFICES ASSUME NEW b \in AdminCalls, apc'[b] \in Locked
                         PROVE  /\ acall[b].producer \in memP[Inst(b)]
                                /\ acall[b].op = "jobType" =>
                                      /\ KeyOf(b) \in DOMAIN memT'[Inst(b)]
                                      /\ memT'[Inst(b)][KeyOf(b)] = acall[b].entry
                BY <1>4, <2>1 DEF MemShape, Inst, KeyOf
            <3>1. CASE b = a
                BY <2>1, <2>5, <3>1
            <3>2. CASE b # a
                BY <1>1, <1>3, <2>4, <3>2 DEF MemShape
            <3> QED BY <3>1, <3>2
        <2> QED BY <1>3, <2>3, <2>6, StorePartsNext
    <1> QED BY <1>5, <1>6

\* A save that succeeds keeps StoreInv.
LEMMA StoreSaveOk ==
    ASSUME StoreInv, NEW a \in AdminCalls, SaveOk(a)
    PROVE  StoreInv'
    <1>1. CallTypes /\ MapTypes /\ CallShape /\ LockShape /\ MemShape
        BY StoreParts
    <1>2. /\ apc[a] = "saving" /\ Commit(a)
          /\ apc' = [apc EXCEPT ![a] = "saved"]
          /\ UNCHANGED <<st, mu, memP, memT, acall, areply, seenP, seenT>>
        BY DEF SaveOk, memory, seen
    <1>3. bucketP' \subseteq ProducerIds /\ GoodMap(bucketT')
        BY <1>2, CommitGood DEF Locked
    <1>4. \A b \in AdminCalls : /\ apc'[b] \in Locked <=> apc[b] \in Locked
                                /\ apc'[b] \in InFlight <=> apc[b] \in InFlight
                                /\ apc'[b] = "idle" <=> apc[b] = "idle"
        BY <1>1, <1>2 DEF CallTypes, Locked, InFlight
    <1>5. CallTypes'
        BY <1>1, <1>2 DEF CallTypes
    <1>6. MapTypes'
        BY <1>1, <1>2, <1>3 DEF MapTypes
    <1>7. CallShape'
        BY <1>1, <1>2, <1>4 DEF CallShape, Asked
    <1>8. LockShape'
        <2>1. \A i \in Instances : mu[i] # None => mu[i] \in AdminCalls
            BY <1>1 DEF CallTypes
        <2> QED BY <1>1, <1>2, <1>4, <2>1 DEF LockShape, Inst
    <1>9. MemShape'
        BY <1>1, <1>2, <1>4 DEF MemShape, Inst, KeyOf
    <1> QED BY <1>5, <1>6, <1>7, <1>8, <1>9, StorePartsNext

\* Taking a creation back keeps the types of memory, and the memory of the others.
LEMMA RollbackMaps ==
    ASSUME StoreInv, NEW i \in Instances, Rollback(i),
           bucketP' \subseteq ProducerIds, GoodMap(bucketT')
    PROVE  /\ MapTypes'
           /\ memP'[i] = VisibleP(i) /\ memT'[i] = VisibleT(i)
           /\ \A j \in Instances : j # i => memP'[j] = memP[j] /\ memT'[j] = memT[j]
    <1>1. MapTypes
        BY StoreParts
    <1>2. VisibleP(i) \subseteq ProducerIds /\ GoodMap(VisibleT(i))
        BY VisibleGood
    <1> QED BY <1>1, <1>2 DEF MapTypes, Rollback

\* So does a save that fails.
LEMMA StoreSaveFails ==
    ASSUME StoreInv, NEW a \in AdminCalls, SaveFails(a)
    PROVE  StoreInv'
    <1>1. CallTypes /\ MapTypes /\ CallShape /\ LockShape /\ MemShape
        BY StoreParts
    <1>2. /\ apc[a] = "saving"
          /\ Commit(a) \/ (bucketP' = bucketP /\ bucketT' = bucketT)
          /\ Rollback(Inst(a)) /\ Answer(a, "Internal") /\ UNCHANGED <<st, seen>>
          /\ UNCHANGED acall
        BY DEF SaveFails, bucket, Answer
    <1>3. Inst(a) \in Instances /\ mu[Inst(a)] = a
        BY <1>1, <1>2, AskedEntry DEF LockShape, Locked
    <1>4. bucketP' \subseteq ProducerIds /\ GoodMap(bucketT')
        BY <1>1, <1>2, CommitGood DEF Locked, MapTypes
    <1>5. /\ CallTypes' /\ CallShape' /\ LockShape'
          /\ \A b \in AdminCalls : apc'[b] \in Locked =>
                 apc[b] \in Locked /\ Inst(b) # Inst(a) /\ Inst(b) \in Instances
        BY <1>2, <1>3, AnswerShape DEF InFlight, Replies
    <1>6. /\ MapTypes'
          /\ \A j \in Instances : j # Inst(a) => memP'[j] = memP[j] /\ memT'[j] = memT[j]
        BY <1>2, <1>3, <1>4, RollbackMaps
    <1>7. MemShape'
        BY <1>1, <1>2, <1>5, <1>6 DEF MemShape, Inst, KeyOf
    <1> QED BY <1>5, <1>6, <1>7, StorePartsNext

\* Calls in progress belong to instances that are up.
LEMMA LockedUp ==
    ASSUME StoreInv, NEW a \in AdminCalls, apc[a] \in Locked
    PROVE  st[Inst(a)] = "up" /\ Inst(a) \in Instances /\ mu[Inst(a)] = a
    BY AskedEntry DEF StoreInv, LockShape, InFlight, Locked

\* Loading keeps StoreInv: an instance that starts has no calls.
LEMMA StoreLoad ==
    ASSUME StoreInv, NEW i \in Instances, Load(i)
    PROVE  StoreInv'
    <1>1. CallTypes /\ MapTypes /\ CallShape /\ LockShape /\ MemShape
        BY StoreParts
    <1>2. /\ st[i] # "up"
          /\ \E s \in {"down", "loading", "up"} : st' = [st EXCEPT ![i] = s]
          /\ UNCHANGED <<mu, bucketP, bucketT, apc, acall, areply, seenP, seenT>>
          /\ memP' \in {memP, [memP EXCEPT ![i] = bucketP]}
          /\ memT' \in {memT, [memT EXCEPT ![i] = bucketT]}
        BY DEF Load, LoadProducers, LoadJobTypes, LoadFails, memory, bucket, calls, seen
    <1>3. CallTypes'
        BY <1>1, <1>2 DEF CallTypes
    <1>4. MapTypes'
        BY <1>1, <1>2 DEF MapTypes
    <1>5. CallShape'
        BY <1>1, <1>2 DEF CallShape, Asked
    <1>6. LockShape'
        BY <1>1, <1>2 DEF LockShape, Inst, CallTypes
    <1>7. \A j \in Instances : j # i => memP'[j] = memP[j] /\ memT'[j] = memT[j]
        BY <1>1, <1>2 DEF MapTypes
    <1>8. MemShape'
        <2>1. \A a \in AdminCalls : apc[a] \in Locked => Inst(a) \in Instances /\ Inst(a) # i
            BY <1>2, LockedUp
        <2> QED BY <1>1, <1>2, <1>7, <2>1 DEF MemShape, Inst, KeyOf
    <1> QED BY <1>3, <1>4, <1>5, <1>6, <1>8, StorePartsNext

\* A step that changes only what readers were shown keeps StoreInv.
LEMMA StoreRead ==
    ASSUME StoreInv, NEW i \in Instances, ReadProducers(i) \/ ReadJobTypes(i)
    PROVE  StoreInv'
    <1>1. CallTypes /\ MapTypes /\ CallShape /\ LockShape /\ MemShape
        BY StoreParts
    <1>2. /\ UNCHANGED <<st, mu, memP, memT, bucketP, bucketT, apc, acall, areply>>
          /\ seenP' \in {seenP, seenP \cup memP[i]}
          /\ seenT' \in {seenT, seenT \cup DOMAIN memT[i]}
        BY DEF ReadProducers, ReadJobTypes, memory, bucket, calls
    <1>3. memP[i] \subseteq ProducerIds /\ DOMAIN memT[i] \subseteq Keys
        BY <1>1 DEF MapTypes, GoodMap, IsJobTypeMap
    <1>4. CallTypes'
        BY <1>1, <1>2, <1>3 DEF CallTypes
    <1>5. MapTypes' /\ CallShape' /\ LockShape' /\ MemShape'
        BY <1>1, <1>2 DEF MapTypes, CallShape, Asked, LockShape, MemShape, Inst, KeyOf
    <1> QED BY <1>4, <1>5, StorePartsNext

\* A crash keeps StoreInv.
LEMMA StoreCrash ==
    ASSUME StoreInv, NEW i \in Instances, Crash(i)
    PROVE  StoreInv'
    <1>1. CallTypes /\ MapTypes /\ CallShape /\ LockShape /\ MemShape
        BY StoreParts
    <1>2. /\ st' = [st EXCEPT ![i] = "down"]
          /\ Rollback(i)
          /\ mu' = [mu EXCEPT ![i] = None]
          /\ UNCHANGED <<acall, seenP, seenT>>
        BY DEF Crash, seen
    <1>3. /\ apc' = [a \in AdminCalls |-> IF apc[a] \notin {"idle", "done"} /\ Inst(a) = i
                                          THEN "done" ELSE apc[a]]
          /\ areply' = [a \in AdminCalls |-> IF apc[a] \notin {"idle", "done"} /\ Inst(a) = i
                                          THEN "lost" ELSE areply[a]]
        BY DEF Crash
    <1>4. \/ bucketP' = bucketP /\ bucketT' = bucketT
          \/ mu[i] # None /\ apc[mu[i]] = "saving" /\ Commit(mu[i])
        BY DEF Crash, bucket
    <1>5. bucketP' \subseteq ProducerIds /\ GoodMap(bucketT')
        <2>1. mu[i] # None => mu[i] \in AdminCalls
            BY <1>1 DEF CallTypes
        <2> QED BY <1>1, <1>4, <2>1, CommitGood DEF MapTypes, Locked
    <1>6. /\ MapTypes'
          /\ \A j \in Instances : j # i => memP'[j] = memP[j] /\ memT'[j] = memT[j]
        BY <1>2, <1>5, RollbackMaps
    <1>7. \A a \in AdminCalls : apc'[a] \in InFlight => apc'[a] = apc[a] /\ Inst(a) # i
        BY <1>1, <1>3 DEF CallTypes, InFlight
    <1>8. CallTypes'
        BY <1>1, <1>2, <1>3 DEF CallTypes, Replies
    <1>9. CallShape'
        BY <1>1, <1>2, <1>3, <1>7 DEF CallShape, Asked, CallTypes
    <1>10. LockShape'
        <2>1. \A a \in AdminCalls : apc'[a] \in InFlight => st'[Inst(a)'] = "up"
            BY <1>1, <1>2, <1>7 DEF LockShape, Inst, CallTypes
        <2>2. \A a \in AdminCalls : apc'[a] \in Locked => mu'[Inst(a)'] = a
            BY <1>1, <1>2, <1>7 DEF LockShape, Inst, CallTypes, Locked, InFlight
        <2>3. ASSUME NEW j \in Instances, mu'[j] # None
              PROVE  apc'[mu'[j]] \in Locked /\ acall'[mu'[j]].inst = j
            <3>1. j # i /\ mu'[j] = mu[j] /\ mu[j] \in AdminCalls
                BY <1>1, <1>2, <2>3 DEF CallTypes
            <3>2. apc[mu[j]] \in Locked /\ Inst(mu[j]) = j
                BY <1>1, <2>3, <3>1 DEF LockShape
            <3> QED BY <1>2, <1>3, <3>1, <3>2 DEF Inst
        <2> QED BY <2>1, <2>2, <2>3 DEF LockShape, Inst
    <1>11. MemShape'
        <2>1. \A a \in AdminCalls : apc'[a] \in Locked =>
                 apc[a] \in Locked /\ Inst(a) \in Instances /\ Inst(a) # i
            BY <1>7, LockedUp DEF Locked, InFlight
        <2> QED BY <1>1, <1>2, <1>6, <2>1 DEF MemShape, Inst, KeyOf
    <1> QED BY <1>6, <1>8, <1>9, <1>10, <1>11, StorePartsNext

\* Every step keeps StoreInv.
LEMMA StoreStep == StoreInv /\ [Next]_vars => StoreInv'
    <1> SUFFICES ASSUME StoreInv, [Next]_vars PROVE StoreInv'
        OBVIOUS
    <1>1. ASSUME NEW a \in AdminCalls, CallSome(a) PROVE StoreInv'
        BY <1>1, StoreCall
    <1>2. ASSUME NEW a \in AdminCalls,
                 ProducerExists(a) \/ ProducerMissing(a) \/ JobTypeExists(a)
          PROVE  StoreInv'
        <2>1. /\ apc[a] \in InFlight /\ mu[Inst(a)] = None
              /\ \E s \in Replies : Answer(a, s)
              /\ UNCHANGED <<st, memory, bucket, seen>>
            BY <1>2 DEF ProducerExists, ProducerMissing, JobTypeExists, Locks, InFlight,
                        Replies
        <2> QED BY <2>1, StoreAnswer
    <1>3. ASSUME NEW a \in AdminCalls, InsertProducer(a) \/ InsertJobType(a) PROVE StoreInv'
        BY <1>3, StoreInsert
    <1>4. ASSUME NEW a \in AdminCalls, SaveOk(a) PROVE StoreInv'
        BY <1>4, StoreSaveOk
    <1>5. ASSUME NEW a \in AdminCalls, SaveFails(a) PROVE StoreInv'
        BY <1>5, StoreSaveFails
    <1>6. ASSUME NEW a \in AdminCalls, Finish(a) PROVE StoreInv'
        <2>1. /\ apc[a] \in Locked /\ apc[a] \in InFlight
              /\ Answer(a, "OK") /\ "OK" \in Replies
              /\ UNCHANGED <<st, memory, bucket, seen>>
            BY <1>6 DEF Finish, Locked, InFlight, Replies
        <2>2. mu[Inst(a)] = a
            BY <2>1, LockedUp
        <2> QED BY <2>1, <2>2, StoreAnswer
    <1>7. ASSUME NEW i \in Instances, Load(i) PROVE StoreInv'
        BY <1>7, StoreLoad
    <1>8. ASSUME NEW i \in Instances, ReadProducers(i) \/ ReadJobTypes(i) PROVE StoreInv'
        BY <1>8, StoreRead
    <1>9. ASSUME NEW i \in Instances, Crash(i) PROVE StoreInv'
        BY <1>9, StoreCrash
    <1>10. CASE UNCHANGED vars
        <2>1. UNCHANGED <<st, mu, memP, memT, bucketP, bucketT, apc, acall, areply,
                          seenP, seenT>>
            BY <1>10 DEF vars, memory, bucket, calls, seen
        <2> QED BY <2>1, StoreParts, StorePartsNext
                DEF CallTypes, MapTypes, CallShape, Asked, LockShape, MemShape, Inst, KeyOf
    <1> QED BY <1>1, <1>2, <1>3, <1>4, <1>5, <1>6, <1>7, <1>8, <1>9, <1>10
            DEF Next, Create, Save

\* StoreInv holds for any number of instances.
LEMMA StoreInvariant == Spec => []StoreInv
    <1> QED BY StoreInit, StoreStep, PTL DEF Spec

-----------------------------------------------------------------------------
(* What readers see. *)

\* Readers of instance i see the same as before.
Same(i) == VisibleP(i)' = VisibleP(i) /\ VisibleT(i)' = VisibleT(i)

\* Without a save in progress, readers see memory.
LEMMA VisibleFree ==
    ASSUME NEW i, mu[i] = None
    PROVE  VisibleP(i) = memP[i] /\ VisibleT(i) = memT[i]
    BY DEF VisibleP, VisibleT

\* The same, after a step.
LEMMA VisibleFreeNext ==
    ASSUME NEW i, mu'[i] = None
    PROVE  VisibleP(i)' = memP'[i] /\ VisibleT(i)' = memT'[i]
    BY DEF VisibleP, VisibleT

\* The holder of the lock hides what it created.
LEMMA VisibleHeld ==
    ASSUME StoreInv, NEW a \in AdminCalls, apc[a] \in Locked
    PROVE  /\ acall[a].op = "producer" =>
                /\ acall[a].producer \notin VisibleP(Inst(a))
                /\ memP[Inst(a)] = VisibleP(Inst(a)) \cup {acall[a].producer}
                /\ VisibleT(Inst(a)) = memT[Inst(a)]
           /\ acall[a].op = "jobType" =>
                /\ VisibleP(Inst(a)) = memP[Inst(a)]
                /\ KeyOf(a) \notin DOMAIN VisibleT(Inst(a))
                /\ memT[Inst(a)] = Put(VisibleT(Inst(a)), KeyOf(a), acall[a].entry)
    <1>1. mu[Inst(a)] = a /\ a # None /\ Inst(a) \in Instances
        BY LockedUp, NoneAssumption DEF NoneAssumption
    <1>2. /\ acall[a].producer \in memP[Inst(a)]
          /\ acall[a].op = "jobType" =>
                /\ KeyOf(a) \in DOMAIN memT[Inst(a)]
                /\ memT[Inst(a)][KeyOf(a)] = acall[a].entry
        BY DEF StoreInv, MemShape
    <1>3. acall[a].op = "producer" =>
             /\ VisibleP(Inst(a)) = memP[Inst(a)] \ {acall[a].producer}
             /\ VisibleT(Inst(a)) = memT[Inst(a)]
        BY <1>1 DEF VisibleP, VisibleT
    <1>4. acall[a].op = "jobType" =>
             /\ VisibleP(Inst(a)) = memP[Inst(a)]
             /\ VisibleT(Inst(a)) = Delete(memT[Inst(a)], KeyOf(a))
        BY <1>1 DEF VisibleP, VisibleT
    <1>5. memT[Inst(a)] = [x \in DOMAIN memT[Inst(a)] |-> memT[Inst(a)][x]]
        BY <1>1, StoreMaps, GoodIsFunction
    <1>6. ASSUME acall[a].op = "jobType"
          PROVE  /\ KeyOf(a) \notin DOMAIN Delete(memT[Inst(a)], KeyOf(a))
                 /\ memT[Inst(a)] = Put(Delete(memT[Inst(a)], KeyOf(a)), KeyOf(a),
                                        acall[a].entry)
        <2>1. KeyOf(a) \notin DOMAIN Delete(memT[Inst(a)], KeyOf(a))
            BY DEF Delete
        <2>2. Put(Delete(memT[Inst(a)], KeyOf(a)), KeyOf(a), memT[Inst(a)][KeyOf(a)])
                 = memT[Inst(a)]
            BY <1>2, <1>5, <1>6, PutDelete
        <2> QED BY <1>2, <1>6, <2>1, <2>2
    <1> QED BY <1>2, <1>3, <1>4, <1>6

\* What readers of i see depends on the memory of i and the holder of its lock.
LEMMA VisibleFrame ==
    ASSUME NEW i, mu'[i] = mu[i], memP'[i] = memP[i], memT'[i] = memT[i],
           mu[i] # None => acall'[mu[i]] = acall[mu[i]]
    PROVE  Same(i)
    BY DEF Same, VisibleP, VisibleT, KeyOf

\* An instance that is not up has nobody holding its lock.
LEMMA FreeWhenDown ==
    ASSUME StoreInv, NEW i \in Instances, st[i] # "up"
    PROVE  mu[i] = None
    BY DEF StoreInv, LockShape, TypeOK, Locked, InFlight

\* A new call is not seen.
LEMMA VisibleCall ==
    ASSUME StoreInv, NEW i \in Instances, NEW a \in AdminCalls, CallSome(a)
    PROVE  Same(i)
    <1>1. apc[a] = "idle" /\ UNCHANGED <<mu, memP, memT>>
        BY CallStep DEF memory
    <1>2. mu[i] # None => mu[i] \in AdminCalls /\ mu[i] # a
        BY <1>1 DEF StoreInv, TypeOK, LockShape, Locked
    <1>3. \A b \in AdminCalls : b # a => acall'[b] = acall[b]
        BY CallStep DEF StoreInv, TypeOK
    <1> QED BY <1>1, <1>2, <1>3, VisibleFrame

\* Nor is a refusal.
LEMMA VisibleRefusal ==
    ASSUME StoreInv, NEW i \in Instances, NEW a \in AdminCalls,
           ProducerExists(a) \/ ProducerMissing(a) \/ JobTypeExists(a)
    PROVE  Same(i)
    <1>1. apc[a] = "waiting" /\ mu[Inst(a)] = None
          /\ mu' = [mu EXCEPT ![Inst(a)] = None] /\ UNCHANGED <<acall, memP, memT>>
        BY DEF ProducerExists, ProducerMissing, JobTypeExists, Locks, Answer, memory
    <1>2. mu'[i] = mu[i]
        BY <1>1 DEF StoreInv, TypeOK
    <1> QED BY <1>1, <1>2, VisibleFrame

\* A creation in memory is hidden until it is saved.
LEMMA VisibleInsert ==
    ASSUME StoreInv, NEW i \in Instances, NEW a \in AdminCalls,
           InsertProducer(a) \/ InsertJobType(a)
    PROVE  Same(i)
    <1>1. /\ apc[a] = "waiting" /\ mu[Inst(a)] = None
          /\ mu' = [mu EXCEPT ![Inst(a)] = a] /\ UNCHANGED acall
        BY DEF InsertProducer, InsertJobType, Locks, StartSave
    <1>2. Inst(a) \in Instances
        BY <1>1, AskedEntry
    <1>3. a # None
        BY NoneAssumption DEF NoneAssumption
    <1>4. CASE i # Inst(a)
        <2>1. mu'[i] = mu[i] /\ memP'[i] = memP[i] /\ memT'[i] = memT[i]
            BY <1>1, <1>4 DEF StoreInv, TypeOK, InsertProducer, InsertJobType
        <2> QED BY <1>1, <2>1, VisibleFrame
    <1>5. CASE i = Inst(a) /\ InsertProducer(a)
        <2>1. /\ acall[a].op = "producer" /\ acall[a].producer \notin memP[i]
              /\ memP'[i] = memP[i] \cup {acall[a].producer} /\ memT' = memT
              /\ mu'[i] = a
            BY <1>1, <1>5 DEF StoreInv, TypeOK, InsertProducer, Locks, DuplicateProducer
        <2>2. VisibleP(i)' = memP'[i] \ {acall[a].producer} /\ VisibleT(i)' = memT'[i]
            BY <1>1, <1>3, <2>1 DEF VisibleP, VisibleT
        <2> QED BY <1>1, <1>5, <2>1, <2>2, VisibleFree DEF Same
    <1>6. CASE i = Inst(a) /\ InsertJobType(a)
        <2>1. /\ acall[a].op = "jobType" /\ KeyOf(a) \notin DOMAIN memT[i]
              /\ memT'[i] = Put(memT[i], KeyOf(a), acall[a].entry) /\ memP' = memP
              /\ mu'[i] = a
            BY <1>1, <1>6 DEF StoreInv, TypeOK, InsertJobType, Locks, DuplicateJobType
        <2>2. VisibleP(i)' = memP'[i] /\ VisibleT(i)' = Delete(memT'[i], KeyOf(a))
            BY <1>1, <1>3, <2>1 DEF VisibleP, VisibleT, KeyOf
        <2>3. memT[i] = [x \in DOMAIN memT[i] |-> memT[i][x]]
            BY StoreMaps, GoodIsFunction
        <2>4. Delete(memT'[i], KeyOf(a)) = memT[i]
            BY <2>1, <2>3, DeletePut
        <2> QED BY <1>1, <1>6, <2>1, <2>2, <2>4, VisibleFree DEF Same
    <1> QED BY <1>4, <1>5, <1>6

\* Neither is a write, nor one that is taken back.
LEMMA VisibleSave ==
    ASSUME StoreInv, NEW i \in Instances, NEW a \in AdminCalls, SaveOk(a) \/ SaveFails(a)
    PROVE  Same(i)
    <1>1. CASE SaveOk(a)
        BY <1>1, VisibleFrame DEF SaveOk, memory
    <1>2. CASE SaveFails(a)
        <2>1. /\ Inst(a) \in Instances /\ Rollback(Inst(a)) /\ UNCHANGED acall
              /\ mu' = [mu EXCEPT ![Inst(a)] = None]
            BY <1>2, LockedUp DEF SaveFails, Locked, Answer
        <2>2. CASE i = Inst(a)
            <3>1. mu'[i] = None /\ memP'[i] = VisibleP(i) /\ memT'[i] = VisibleT(i)
                BY <2>1, <2>2 DEF StoreInv, TypeOK, Rollback
            <3> QED BY <3>1, VisibleFreeNext DEF Same
        <2>3. CASE i # Inst(a)
            <3>1. mu'[i] = mu[i] /\ memP'[i] = memP[i] /\ memT'[i] = memT[i]
                BY <2>1, <2>3 DEF StoreInv, TypeOK, Rollback
            <3> QED BY <2>1, <3>1, VisibleFrame
        <2> QED BY <2>2, <2>3
    <1> QED BY <1>1, <1>2

\* The entry of call a becomes visible to the readers of instance i.
Appears(a, i) ==
    \/ /\ acall[a].op = "producer"
       /\ acall[a].producer \notin VisibleP(i)
       /\ VisibleP(i)' = VisibleP(i) \cup {acall[a].producer}
       /\ VisibleT(i)' = VisibleT(i)
    \/ /\ acall[a].op = "jobType"
       /\ KeyOf(a) \notin DOMAIN VisibleT(i)
       /\ VisibleP(i)' = VisibleP(i)
       /\ VisibleT(i)' = Put(VisibleT(i), KeyOf(a), acall[a].entry)

\* The end of a successful save shows its entry, and only on its instance.
LEMMA VisibleFinish ==
    ASSUME StoreInv, NEW i \in Instances, NEW a \in AdminCalls, Finish(a)
    PROVE  IF i = Inst(a) THEN Appears(a, i) ELSE Same(i)
    <1>1. /\ apc[a] \in Locked /\ UNCHANGED <<acall, memP, memT>>
          /\ mu' = [mu EXCEPT ![Inst(a)] = None]
        BY DEF Finish, Locked, Answer, memory
    <1>2. CASE i = Inst(a)
        <2>1. mu'[i] = None
            BY <1>1, <1>2 DEF StoreInv, TypeOK
        <2>2. VisibleP(i)' = memP[i] /\ VisibleT(i)' = memT[i]
            BY <1>1, <2>1, VisibleFreeNext
        <2>3. acall[a].op \in {"producer", "jobType"}
            BY <1>1, AskedEntry DEF Locked
        <2> QED BY <1>1, <1>2, <2>2, <2>3, VisibleHeld DEF Appears
    <1>3. CASE i # Inst(a)
        <2>1. mu'[i] = mu[i]
            BY <1>1, <1>3 DEF StoreInv, TypeOK
        <2> QED BY <1>1, <1>3, <2>1, VisibleFrame
    <1> QED BY <1>2, <1>3

\* Loading shows the objects of the bucket, on the instance that loads.
LEMMA VisibleLoad ==
    ASSUME StoreInv, NEW i \in Instances, NEW j \in Instances, Load(j)
    PROVE  \/ Same(i)
           \/ LoadProducers(i) /\ VisibleP(i)' = bucketP /\ VisibleT(i)' = VisibleT(i)
           \/ LoadJobTypes(i) /\ VisibleP(i)' = VisibleP(i) /\ VisibleT(i)' = bucketT
    <1>1. mu' = mu /\ mu[j] = None /\ acall' = acall
        BY FreeWhenDown DEF Load, LoadProducers, LoadJobTypes, LoadFails, calls
    <1>2. CASE i # j
        <2>1. memP'[i] = memP[i] /\ memT'[i] = memT[i]
            BY <1>2 DEF Load, LoadProducers, LoadJobTypes, LoadFails, memory, StoreInv, TypeOK
        <2> QED BY <1>1, <2>1, VisibleFrame
    <1>3. CASE i = j
        <2>1. /\ VisibleP(i) = memP[i] /\ VisibleT(i) = memT[i]
              /\ VisibleP(i)' = memP'[i] /\ VisibleT(i)' = memT'[i]
            BY <1>1, <1>3, VisibleFree, VisibleFreeNext
        <2>2. CASE LoadProducers(i)
            BY <2>1, <2>2 DEF LoadProducers, StoreInv, TypeOK
        <2>3. CASE LoadJobTypes(i)
            BY <2>1, <2>3 DEF LoadJobTypes, StoreInv, TypeOK
        <2>4. CASE LoadFails(i)
            BY <2>1, <2>4 DEF LoadFails, memory, Same
        <2> QED BY <1>3, <2>2, <2>3, <2>4 DEF Load
    <1> QED BY <1>2, <1>3

\* Reading changes nothing.
LEMMA VisibleRead ==
    ASSUME NEW i, NEW j, ReadProducers(j) \/ ReadJobTypes(j)
    PROVE  Same(i)
    <1>1. UNCHANGED <<mu, memP, memT, acall>>
        BY DEF ReadProducers, ReadJobTypes, memory, calls
    <1> QED BY <1>1, VisibleFrame

\* What readers saw is kept as history over a crash.
LEMMA VisibleCrash ==
    ASSUME StoreInv, NEW i \in Instances, NEW j \in Instances, Crash(j)
    PROVE  Same(i)
    <1>1. Rollback(j) /\ mu' = [mu EXCEPT ![j] = None] /\ UNCHANGED acall
        BY DEF Crash
    <1>2. CASE i = j
        <2>1. mu'[i] = None /\ memP'[i] = VisibleP(i) /\ memT'[i] = VisibleT(i)
            BY <1>1, <1>2 DEF StoreInv, TypeOK, Rollback
        <2> QED BY <2>1, VisibleFreeNext DEF Same
    <1>3. CASE i # j
        <2>1. mu'[i] = mu[i] /\ memP'[i] = memP[i] /\ memT'[i] = memT[i]
            BY <1>1, <1>3 DEF StoreInv, TypeOK, Rollback
        <2> QED BY <1>1, <2>1, VisibleFrame
    <1> QED BY <1>2, <1>3

\* All steps: what readers of an instance see changes when one of its saves ends
\* and when it loads, and only then.
LEMMA VisibleStep ==
    ASSUME StoreInv, [Next]_vars, NEW i \in Instances
    PROVE  \/ Same(i)
           \/ \E a \in AdminCalls : Finish(a) /\ Inst(a) = i /\ Appears(a, i)
           \/ LoadProducers(i) /\ VisibleP(i)' = bucketP /\ VisibleT(i)' = VisibleT(i)
           \/ LoadJobTypes(i) /\ VisibleP(i)' = VisibleP(i) /\ VisibleT(i)' = bucketT
    <1>1. ASSUME NEW a \in AdminCalls, CallSome(a) \/ Create(a) \/ SaveOk(a) \/ SaveFails(a)
          PROVE  Same(i)
        BY <1>1, VisibleCall, VisibleRefusal, VisibleInsert, VisibleSave DEF Create
    <1>2. ASSUME NEW j \in Instances, ReadProducers(j) \/ ReadJobTypes(j) \/ Crash(j)
          PROVE  Same(i)
        BY <1>2, VisibleRead, VisibleCrash
    <1>3. CASE UNCHANGED vars
        <2>1. UNCHANGED <<mu, memP, memT, acall>>
            BY <1>3 DEF vars, memory, calls
        <2> QED BY <2>1, VisibleFrame
    <1>4. ASSUME NEW a \in AdminCalls, Finish(a)
          PROVE  Same(i) \/ (Inst(a) = i /\ Appears(a, i))
        BY <1>4, VisibleFinish
    <1> QED BY <1>1, <1>2, <1>3, <1>4, VisibleLoad DEF Next, Save

-----------------------------------------------------------------------------
(* Theorems for any number of instances that share the bucket. *)

\* Every variable of the store keeps its type.
THEOREM GCSTypeCorrect == Spec => []TypeOK
    <1>1. StoreInv => TypeOK
        BY DEF StoreInv
    <1> QED BY <1>1, StoreInvariant, PTL

\* Readers of a running instance never lose an entry they saw and never see one
\* change: rollbacks are hidden by the lock and only creations become visible,
\* whatever other instances do to the bucket (GCSStore.CreateProducer,
\* CreateJobType, and the read lock in the getters).
THEOREM ReadsMonotonic == Spec => MonotonicReads
    <1> DEFINE Kept(i) ==
                 /\ VisibleP(i) \subseteq VisibleP(i)'
                 /\ DOMAIN VisibleT(i) \subseteq DOMAIN VisibleT(i)'
                 /\ \A k \in DOMAIN VisibleT(i) : VisibleT(i)'[k] = VisibleT(i)[k]
               Mono == \A i \in Instances : st[i] = "up" /\ st'[i] = "up" => Kept(i)
    <1>1. ASSUME StoreInv, [Next]_vars PROVE Mono
        <2> SUFFICES ASSUME NEW i \in Instances, st[i] = "up"
                     PROVE  Kept(i)
            OBVIOUS
        <2>1. CASE Same(i)
            BY <2>1 DEF Same
        <2>2. ASSUME NEW a \in AdminCalls, Appears(a, i) PROVE Kept(i)
            BY <2>2 DEF Appears, Put
        <2>3. ~LoadProducers(i) /\ ~LoadJobTypes(i)
            BY DEF LoadProducers, LoadJobTypes
        <2> QED BY <1>1, <2>1, <2>2, <2>3, VisibleStep
    <1>2. StoreInv /\ [Next]_vars => [Mono]_vars
        BY <1>1
    <1> QED BY <1>2, StoreInvariant, PTL DEF Spec, MonotonicReads

-----------------------------------------------------------------------------
(* Keys. *)

\* Where the characters of a joined key come from.
LEMMA JoinFacts ==
    ASSUME NEW S, NEW c \in S, NEW p \in Seq(S), NEW n \in Seq(S)
    PROVE  /\ Len(p \o <<c>> \o n) = Len(p) + 1 + Len(n)
           /\ \A x \in 1 .. Len(p) : (p \o <<c>> \o n)[x] = p[x]
           /\ (p \o <<c>> \o n)[Len(p) + 1] = c
           /\ \A x \in 1 .. Len(n) : (p \o <<c>> \o n)[Len(p) + 1 + x] = n[x]
    <1> DEFINE h == p \o <<c>>
    <1>1. /\ h \in Seq(S) /\ Len(h) = Len(p) + 1
          /\ \A x \in 1 .. Len(p) : h[x] = p[x]
          /\ h[Len(p) + 1] = c
        OBVIOUS
    <1> HIDE DEF h
    <1>2. /\ Len(h \o n) = Len(h) + Len(n)
          /\ \A x \in 1 .. Len(h) : (h \o n)[x] = h[x]
          /\ \A x \in 1 .. Len(n) : (h \o n)[Len(h) + x] = n[x]
        <2>1. /\ Len(h \o n) = Len(h) + Len(n)
              /\ \A x \in 1 .. Len(h) + Len(n) : (h \o n)[x] =
                    IF x <= Len(h) THEN h[x] ELSE n[x - Len(h)]
            BY <1>1, ConcatProperties
        <2>2. Len(h) \in Nat /\ Len(n) \in Nat
            BY <1>1
        <2>3. \A x \in 1 .. Len(h) : x \in 1 .. Len(h) + Len(n) /\ x <= Len(h)
            BY <2>2
        <2>4. \A x \in 1 .. Len(n) : /\ Len(h) + x \in 1 .. Len(h) + Len(n)
                                     /\ ~(Len(h) + x <= Len(h))
                                     /\ Len(h) + x - Len(h) = x
            BY <2>2
        <2> QED BY <2>1, <2>3, <2>4
    <1>3. Len(p) \in Nat /\ Len(n) \in Nat
        OBVIOUS
    <1>4. p \o <<c>> \o n = h \o n
        BY DEF h
    <1> HIDE <1>4
    <1>5. /\ Len(h \o n) = Len(p) + 1 + Len(n)
          /\ \A x \in 1 .. Len(p) : (h \o n)[x] = p[x]
          /\ (h \o n)[Len(p) + 1] = c
          /\ \A x \in 1 .. Len(n) : (h \o n)[Len(p) + 1 + x] = n[x]
        BY <1>1, <1>2, <1>3
    <1> QED BY <1>4, <1>5

\* A producer id holds no colon, so the first colon of a key ends it: one key
\* never stands for two job types, although names may hold colons.
LEMMA KeyInjective ==
    ASSUME NEW p \in ProducerIds, NEW q \in ProducerIds,
           NEW n \in JobTypeNames, NEW m \in JobTypeNames,
           jobTypeKey(p, n) = jobTypeKey(q, m)
    PROVE  p = q /\ n = m
    <1> DEFINE S == STRING \cup {":"}
               s == p \o <<":">> \o n
               t == q \o <<":">> \o m
    <1>1. p \in Seq(S) /\ q \in Seq(S) /\ n \in Seq(S) /\ m \in Seq(S) /\ ":" \in S
        BY RegistryAssumption DEF RegistryAssumption
    <1>2. /\ \A x \in 1 .. Len(p) : p[x] # ":"
          /\ \A x \in 1 .. Len(q) : q[x] # ":"
        BY <1>1, RegistryAssumption DEF RegistryAssumption
    <1> HIDE DEF S
    <1>3. /\ Len(s) = Len(p) + 1 + Len(n)
          /\ \A x \in 1 .. Len(p) : s[x] = p[x]
          /\ s[Len(p) + 1] = ":"
          /\ \A x \in 1 .. Len(n) : s[Len(p) + 1 + x] = n[x]
        BY <1>1, JoinFacts
    <1>4. /\ Len(t) = Len(q) + 1 + Len(m)
          /\ \A x \in 1 .. Len(q) : t[x] = q[x]
          /\ t[Len(q) + 1] = ":"
          /\ \A x \in 1 .. Len(m) : t[Len(q) + 1 + x] = m[x]
        BY <1>1, JoinFacts
    <1>5. s = t
        BY DEF jobTypeKey
    <1> HIDE DEF s, t
    <1>6. Len(p) \in Nat /\ Len(q) \in Nat /\ Len(n) \in Nat /\ Len(m) \in Nat
        BY <1>1
    <1>7. Len(p) = Len(q)
        <2>1. ~(Len(p) < Len(q))
            <3> SUFFICES ASSUME Len(p) < Len(q) PROVE FALSE
                OBVIOUS
            <3>1. Len(p) + 1 \in 1 .. Len(q)
                BY <1>6
            <3>2. t[Len(p) + 1] = q[Len(p) + 1]
                BY <3>1, <1>4
            <3>3. t[Len(p) + 1] = ":"
                BY <1>3, <1>5
            <3> QED BY <3>1, <3>2, <3>3, <1>2
        <2>2. ~(Len(q) < Len(p))
            <3> SUFFICES ASSUME Len(q) < Len(p) PROVE FALSE
                OBVIOUS
            <3>1. Len(q) + 1 \in 1 .. Len(p)
                BY <1>6
            <3>2. s[Len(q) + 1] = p[Len(q) + 1]
                BY <3>1, <1>3
            <3>3. s[Len(q) + 1] = ":"
                BY <1>4, <1>5
            <3> QED BY <3>1, <3>2, <3>3, <1>2
        <2>3. \A a, b \in Nat : ~(a < b) /\ ~(b < a) => a = b
            OBVIOUS
        <2> DEFINE a == Len(p)
                   b == Len(q)
        <2>4. a \in Nat /\ b \in Nat /\ ~(a < b) /\ ~(b < a)
            BY <1>6, <2>1, <2>2
        <2> HIDE DEF a, b
        <2>5. a = b
            BY <2>3, <2>4
        <2> QED BY <2>5, Zenon DEF a, b
    <1>8. Len(n) = Len(m)
        <2> DEFINE a == Len(p)
                   b == Len(n)
                   c == Len(m)
        <2>1. a \in Nat /\ b \in Nat /\ c \in Nat
            BY <1>6
        <2>2. a + 1 + b = a + 1 + c
            BY <1>3, <1>4, <1>5, <1>7, Zenon
        <2> HIDE DEF a, b, c
        <2>3. b = c
            BY <2>1, <2>2
        <2> QED BY <2>3, Zenon DEF b, c
    <1>9. \A x \in 1 .. Len(p) : p[x] = q[x]
        BY <1>3, <1>4, <1>5, <1>7
    <1>10. \A x \in 1 .. Len(n) : n[x] = m[x]
        BY <1>3, <1>4, <1>5, <1>7, <1>8
    <1>11. p = q
        BY <1>1, <1>7, <1>9, SeqEqual
    <1>12. n = m
        BY <1>1, <1>8, <1>10, SeqEqual
    <1> QED BY <1>11, <1>12

\* What an instance looks up under a registered producer and a name is that
\* producer's entry of that name: every entry is made by CreateJobType under
\* its own key, and keys do not collide (jobTypeKey).
THEOREM LookupsOwn == Spec => []OwnEntries
    <1>1. StoreInv => OwnEntries
        <2> SUFFICES ASSUME StoreInv, NEW i \in Instances, NEW p \in memP[i],
                            NEW n \in JobTypeNames, jobTypeKey(p, n) \in DOMAIN memT[i]
                     PROVE  /\ memT[i][jobTypeKey(p, n)].producer = p
                            /\ memT[i][jobTypeKey(p, n)].name = n
            BY DEF OwnEntries
        <2>1. p \in ProducerIds /\ Registered(memT[i])
            BY DEF StoreInv, TypeOK, Keyed
        <2>2. PICK pp \in ProducerIds, nn \in JobTypeNames, q \in Queues, r \in RetryInputs :
                 /\ jobTypeKey(p, n) = jobTypeKey(pp, nn)
                 /\ memT[i][jobTypeKey(p, n)] = NewJobType(pp, nn, q, r)
            BY <2>1 DEF Registered
        <2>3. pp = p /\ nn = n
            BY <2>1, <2>2, KeyInjective
        <2>4. NewJobType(p, n, q, r).producer = p /\ NewJobType(p, n, q, r).name = n
            BY DEF NewJobType
        <2> QED BY <2>2, <2>3, <2>4
    <1> QED BY <1>1, StoreInvariant, PTL

-----------------------------------------------------------------------------
(* One instance.  The lemmas have its name, i. *)

\* A free lock means that no call is saving.
LEMMA NobodySaves ==
    ASSUME StoreInv, NEW i, Instances = {i}, mu[i] = None, NEW a \in AdminCalls
    PROVE  apc[a] \notin Locked
    BY LockedUp, NoneAssumption DEF NoneAssumption

\* While a call saves, no other does.
LEMMA OneSaves ==
    ASSUME StoreInv, NEW i, Instances = {i}, NEW a \in AdminCalls, apc[a] \in Locked,
           NEW b \in AdminCalls, apc[b] \in Locked
    PROVE  a = b /\ Inst(a) = i /\ mu[i] = a
    BY LockedUp

\* The bucket changes when a save takes effect, and only then; readers do not see it.
LEMMA BucketStep ==
    ASSUME StoreInv, [Next]_vars, NEW i \in Instances
    PROVE  \/ UNCHANGED <<bucketP, bucketT>>
           \/ Same(i) /\ \E a \in AdminCalls : apc[a] = "saving" /\ Commit(a)
    <1>1. ASSUME NEW a \in AdminCalls, CallSome(a) PROVE UNCHANGED <<bucketP, bucketT>>
        BY <1>1, CallStep DEF bucket
    <1>2. ASSUME NEW a \in AdminCalls, Create(a) \/ Finish(a)
          PROVE  UNCHANGED <<bucketP, bucketT>>
        BY <1>2 DEF Create, ProducerExists, InsertProducer, ProducerMissing,
                    JobTypeExists, InsertJobType, Finish, bucket
    <1>3. ASSUME NEW a \in AdminCalls, SaveOk(a) \/ SaveFails(a)
          PROVE  \/ UNCHANGED <<bucketP, bucketT>>
                 \/ Same(i) /\ apc[a] = "saving" /\ Commit(a)
        <2>1. Same(i)
            BY <1>3, VisibleSave
        <2>2. \/ UNCHANGED <<bucketP, bucketT>>
              \/ apc[a] = "saving" /\ Commit(a)
            BY <1>3 DEF SaveOk, SaveFails, bucket
        <2> QED BY <2>1, <2>2
    <1>4. ASSUME NEW j \in Instances, Load(j) \/ ReadProducers(j) \/ ReadJobTypes(j)
          PROVE  UNCHANGED <<bucketP, bucketT>>
        BY <1>4 DEF Load, LoadProducers, LoadJobTypes, LoadFails, ReadProducers,
                    ReadJobTypes, bucket
    <1>5. ASSUME NEW j \in Instances, Crash(j)
          PROVE  \/ UNCHANGED <<bucketP, bucketT>>
                 \/ Same(i) /\ \E a \in AdminCalls : apc[a] = "saving" /\ Commit(a)
        <2>1. Same(i)
            BY <1>5, VisibleCrash
        <2>2. \/ UNCHANGED <<bucketP, bucketT>>
              \/ mu[j] # None /\ apc[mu[j]] = "saving" /\ Commit(mu[j])
            BY <1>5 DEF Crash, bucket
        <2>3. mu[j] # None => mu[j] \in AdminCalls
            BY DEF StoreInv, TypeOK
        <2> QED BY <2>1, <2>2, <2>3
    <1>6. CASE UNCHANGED vars
        BY <1>6 DEF vars, bucket
    <1> QED BY <1>1, <1>2, <1>3, <1>4, <1>5, <1>6 DEF Next, Save

\* A save that takes effect adds one entry to the bucket that readers do not see
\* yet, and drops one that an earlier failed save left there.
LEMMA BehindCommit ==
    ASSUME StoreInv, NEW i, Instances = {i}, Behind(i), Rooted(i), Same(i),
           NEW a \in AdminCalls, apc[a] = "saving", Commit(a)
    PROVE  Behind(i)' /\ Rooted(i)'
    <1>1. Inst(a) = i /\ apc[a] \in Locked
        BY OneSaves DEF Locked
    <1>2. VisibleP(i)' = VisibleP(i) /\ VisibleT(i)' = VisibleT(i)
        BY DEF Same
    <1> DEFINE P == VisibleP(i)
               T == VisibleT(i)
               p == acall[a].producer
               k == KeyOf(a)
               e == acall[a].entry
    <1>3. CASE acall[a].op = "producer"
        <2>1. bucketP' = P \cup {p} /\ bucketT' = bucketT
            BY <1>1, <1>3, VisibleHeld DEF Commit
        <2> QED BY <1>2, <2>1 DEF Behind, Rooted
    <1>4. CASE acall[a].op = "jobType"
        <2>1. bucketT' = Put(T, k, e) /\ bucketP' = bucketP /\ k \notin DOMAIN T
            BY <1>1, <1>4, VisibleHeld DEF Commit
        <2>2. e.producer = p /\ p \in P
            <3>1. e.producer = p
                BY <1>1, <1>4, AskedEntry DEF Locked, InFlight
            <3>2. p \in memP[i] /\ P = memP[i]
                BY <1>1, <1>4, VisibleHeld DEF StoreInv, MemShape
            <3> QED BY <3>1, <3>2
        <2>3. /\ DOMAIN T \subseteq DOMAIN bucketT
              /\ \A x \in DOMAIN T : bucketT[x] = T[x] /\ T[x].producer \in P
            BY DEF Behind, Rooted
        <2>4. /\ P \subseteq bucketP /\ \A x, y \in bucketP \ P : x = y
            BY DEF Behind
        <2> HIDE DEF P, T, p, k, e
        <2>5. /\ DOMAIN bucketT' = DOMAIN T \cup {k}
              /\ bucketT'[k] = e
              /\ \A x \in DOMAIN T : bucketT'[x] = T[x]
            BY <2>1 DEF Put
        <2>6. /\ \A x, y \in DOMAIN bucketT' \ DOMAIN T : x = y
              /\ \A x \in DOMAIN bucketT' : bucketT'[x].producer \in P
            BY <2>2, <2>3, <2>5
        <2>7. VisibleP(i)' = P /\ VisibleT(i)' = T
            BY <1>2 DEF P, T
        <2> QED BY <2>1, <2>4, <2>5, <2>6, <2>7 DEF Behind, Rooted
    <1>5. acall[a].op \in {"producer", "jobType"}
        BY DEF Commit
    <1> QED BY <1>3, <1>4, <1>5

\* Readers never see more than the bucket holds, and at most one entry less.
LEMMA BehindStep ==
    ASSUME StoreInv, NEW i, Instances = {i}, Behind(i), Rooted(i), Written, [Next]_vars
    PROVE  Behind(i)' /\ Rooted(i)'
    <1>1. CASE Same(i)
        <2>1. CASE UNCHANGED <<bucketP, bucketT>>
            BY <1>1, <2>1 DEF Same, Behind, Rooted
        <2> QED BY <1>1, <2>1, BucketStep, BehindCommit
    <1>2. ASSUME NEW a \in AdminCalls, Finish(a), Inst(a) = i, Appears(a, i)
          PROVE  Behind(i)' /\ Rooted(i)'
        <2>1. UNCHANGED <<bucketP, bucketT, memP, memT>> /\ apc[a] = "saved"
            BY <1>2 DEF Finish, bucket, memory
        <2>2. /\ acall[a].op = "producer" => bucketP = memP[i]
              /\ acall[a].op = "jobType" => bucketT = memT[i]
            BY <1>2, <2>1 DEF Written
        <2>3. CASE acall[a].op = "producer"
            <3>1. VisibleP(i)' = bucketP /\ VisibleT(i)' = VisibleT(i)
                BY <1>2, <2>1, <2>2, <2>3, VisibleHeld DEF Appears, Locked
            <3> QED BY <2>1, <3>1 DEF Behind, Rooted
        <2>4. CASE acall[a].op = "jobType"
            <3>1. VisibleP(i)' = VisibleP(i) /\ VisibleT(i)' = bucketT
                BY <1>2, <2>1, <2>2, <2>4, VisibleHeld DEF Appears, Locked
            <3> QED BY <2>1, <3>1 DEF Behind, Rooted
        <2> QED BY <1>2, <2>3, <2>4 DEF Appears
    <1>3. CASE LoadProducers(i) /\ VisibleP(i)' = bucketP /\ VisibleT(i)' = VisibleT(i)
        BY <1>3 DEF LoadProducers, bucket, Behind, Rooted
    <1>4. CASE LoadJobTypes(i) /\ VisibleP(i)' = VisibleP(i) /\ VisibleT(i)' = bucketT
        BY <1>4 DEF LoadJobTypes, bucket, Behind, Rooted
    <1> QED BY <1>1, <1>2, <1>3, <1>4, VisibleStep

\* A save that succeeded leaves the object equal to memory until its lock is free.
LEMMA WrittenStep ==
    ASSUME StoreInv, NEW i, Instances = {i}, Written, [Next]_vars
    PROVE  Written'
    <1> DEFINE Quiet == \A b \in AdminCalls : apc'[b] # "saved"
    <1>0. apc \in [AdminCalls -> {"idle", "waiting", "saving", "saved", "done"}]
        BY DEF StoreInv, TypeOK
    <1>1. Quiet => Written'
        BY DEF Written
    <1>2. ASSUME NEW a \in AdminCalls, CallSome(a) PROVE Written'
        <2>1. apc[a] = "idle" /\ UNCHANGED <<memP, memT, bucketP, bucketT>>
            BY <1>2, CallStep DEF memory, bucket
        <2>2. \A b \in AdminCalls : apc'[b] = "saved" =>
                 apc[b] = "saved" /\ acall'[b] = acall[b]
            BY <1>2, CallStep DEF StoreInv, TypeOK
        <2> QED BY <2>1, <2>2 DEF Written, Inst
    <1>3. ASSUME NEW a \in AdminCalls, Create(a) PROVE Written'
        <2>1. mu[Inst(a)] = None /\ apc[a] = "waiting"
            BY <1>3 DEF Create, ProducerExists, InsertProducer, ProducerMissing,
                        JobTypeExists, InsertJobType, Locks
        <2>2. Inst(a) = i
            BY <2>1, AskedEntry
        <2>3. \A b \in AdminCalls : apc[b] # "saved"
            BY <2>1, <2>2, NobodySaves DEF Locked
        <2>4. apc' = [apc EXCEPT ![a] = "done"] \/ apc' = [apc EXCEPT ![a] = "saving"]
            BY <1>3 DEF Create, ProducerExists, InsertProducer, ProducerMissing,
                        JobTypeExists, InsertJobType, Answer, StartSave
        <2> QED BY <1>0, <1>1, <2>3, <2>4
    <1>4. ASSUME NEW a \in AdminCalls, SaveOk(a) PROVE Written'
        <2>1. /\ apc[a] = "saving" /\ Commit(a) /\ apc' = [apc EXCEPT ![a] = "saved"]
              /\ UNCHANGED <<memP, memT, acall>>
            BY <1>4 DEF SaveOk, memory
        <2>2. \A b \in AdminCalls : apc'[b] = "saved" => b = a
            BY <1>0, <2>1, OneSaves DEF Locked
        <2>3. /\ acall[a].op = "producer" => bucketP' = memP[Inst(a)]
              /\ acall[a].op = "jobType" => bucketT' = memT[Inst(a)]
            BY <2>1 DEF Commit
        <2> QED BY <2>1, <2>2, <2>3 DEF Written, Inst
    <1>5. ASSUME NEW a \in AdminCalls, SaveFails(a) \/ Finish(a) PROVE Written'
        <2>1. apc[a] \in Locked /\ apc' = [apc EXCEPT ![a] = "done"]
            BY <1>5 DEF SaveFails, Finish, Answer, Locked
        <2>2. Quiet
            BY <1>0, <2>1, OneSaves DEF Locked
        <2> QED BY <1>1, <2>2
    <1>6. ASSUME NEW j \in Instances, Load(j) PROVE Written'
        <2>1. st[j] # "up" /\ apc' = apc
            BY <1>6 DEF Load, LoadProducers, LoadJobTypes, LoadFails, calls
        <2>2. Quiet
            BY <2>1, FreeWhenDown, NobodySaves DEF Locked
        <2> QED BY <1>1, <2>2
    <1>7. ASSUME NEW j \in Instances, ReadProducers(j) \/ ReadJobTypes(j) PROVE Written'
        BY <1>7 DEF ReadProducers, ReadJobTypes, memory, bucket, calls, Written, Inst
    <1>8. ASSUME NEW j \in Instances, Crash(j) PROVE Written'
        <2>1. \A b \in AdminCalls : apc'[b] = "saved" => apc[b] = "saved" /\ Inst(b) # j
            BY <1>8 DEF Crash
        <2>2. Quiet
            BY <2>1, LockedUp DEF Locked
        <2> QED BY <1>1, <2>2
    <1>9. CASE UNCHANGED vars
        BY <1>9 DEF vars, memory, bucket, calls, Written, Inst
    <1> QED BY <1>2, <1>3, <1>4, <1>5, <1>6, <1>7, <1>8, <1>9 DEF Next, Save

\* A call is confirmed when its save ends, and keeps what it was told.
LEMMA OkStep ==
    ASSUME StoreInv, NEW i, Shown(i), [Next]_vars, NEW b \in AdminCalls, areply'[b] = "OK"
    PROVE  /\ apc'[b] = "done" /\ acall'[b] = acall[b]
           /\ areply[b] = "OK" \/ Finish(b)
    <1> DEFINE Goal == /\ apc'[b] = "done" /\ acall'[b] = acall[b]
                       /\ areply[b] = "OK" \/ Finish(b)
    <1>0. /\ apc \in [AdminCalls -> {"idle", "waiting", "saving", "saved", "done"}]
          /\ acall \in [AdminCalls -> AdminCall \cup {None}]
          /\ areply \in [AdminCalls -> Replies]
          /\ areply[b] = "OK" => apc[b] = "done"
        BY DEF StoreInv, TypeOK, Replies, Shown
    <1>1. ASSUME NEW a \in AdminCalls, CallSome(a) PROVE Goal
        <2>1. /\ apc[a] = "idle"
              /\ \E c, w, s : /\ s \in {areply[a], "InvalidArgument"}
                              /\ acall' = [acall EXCEPT ![a] = c]
                              /\ apc' = [apc EXCEPT ![a] = w]
                              /\ areply' = [areply EXCEPT ![a] = s]
            BY <1>1, CallStep
        <2> QED BY <1>0, <2>1
    <1>2. ASSUME NEW a \in AdminCalls, NEW s \in Replies, Answer(a, s), s # "OK",
                 apc[a] \in InFlight
          PROVE  Goal
        BY <1>0, <1>2 DEF Answer, InFlight
    <1>3. ASSUME NEW a \in AdminCalls, Create(a) \/ SaveFails(a) PROVE Goal
        <2>1. \/ apc' = [apc EXCEPT ![a] = "saving"] /\ UNCHANGED <<acall, areply>>
              \/ \E s \in Replies : Answer(a, s) /\ s # "OK"
            BY <1>3 DEF Create, ProducerExists, InsertProducer, ProducerMissing,
                        JobTypeExists, InsertJobType, StartSave, SaveFails, Replies
        <2>2. apc[a] \in {"waiting", "saving"}
            BY <1>3 DEF Create, ProducerExists, InsertProducer, ProducerMissing,
                        JobTypeExists, InsertJobType, Locks, SaveFails
        <2> QED BY <1>0, <1>2, <2>1, <2>2 DEF InFlight
    <1>4. ASSUME NEW a \in AdminCalls, SaveOk(a) PROVE Goal
        BY <1>0, <1>4 DEF SaveOk
    <1>5. ASSUME NEW a \in AdminCalls, Finish(a) PROVE Goal
        BY <1>0, <1>5 DEF Finish, Answer
    <1>6. ASSUME NEW j \in Instances, Load(j) \/ ReadProducers(j) \/ ReadJobTypes(j)
          PROVE  Goal
        <2>1. UNCHANGED <<apc, acall, areply>>
            BY <1>6 DEF Load, LoadProducers, LoadJobTypes, LoadFails, ReadProducers,
                        ReadJobTypes, calls
        <2> QED BY <1>0, <2>1
    <1>7. ASSUME NEW j \in Instances, Crash(j) PROVE Goal
        <2>1. /\ acall' = acall
              /\ apc'[b] = (IF apc[b] \notin {"idle", "done"} /\ Inst(b) = j
                            THEN "done" ELSE apc[b])
              /\ areply'[b] = (IF apc[b] \notin {"idle", "done"} /\ Inst(b) = j
                               THEN "lost" ELSE areply[b])
            BY <1>7 DEF Crash
        <2> QED BY <1>0, <2>1
    <1>8. CASE UNCHANGED vars
        BY <1>0, <1>8 DEF vars, calls
    <1> QED BY <1>1, <1>3, <1>4, <1>5, <1>6, <1>7, <1>8 DEF Next, Save

\* Readers see what is visible.
LEMMA SeenStep ==
    ASSUME StoreInv, NEW i, Instances = {i}, [Next]_vars
    PROVE  seenP' \subseteq seenP \cup VisibleP(i) /\ seenT' \subseteq seenT \cup DOMAIN VisibleT(i)
    <1>1. ASSUME NEW a \in AdminCalls, CallSome(a) \/ Create(a) \/ Save(a)
          PROVE  UNCHANGED <<seenP, seenT>>
        <2>1. CASE CallSome(a)
            BY <2>1, CallStep DEF seen
        <2>2. CASE Create(a) \/ Save(a)
            BY <2>2 DEF Create, ProducerExists, InsertProducer, ProducerMissing,
                        JobTypeExists, InsertJobType, Save, SaveOk, SaveFails, Finish, seen
        <2> QED BY <1>1, <2>1, <2>2
    <1>2. ASSUME NEW j \in Instances, Load(j) \/ Crash(j)
          PROVE  UNCHANGED <<seenP, seenT>>
        BY <1>2 DEF Load, LoadProducers, LoadJobTypes, LoadFails, Crash, seen
    <1>3. ASSUME NEW j \in Instances, ReadProducers(j) \/ ReadJobTypes(j)
          PROVE  /\ seenP' \subseteq seenP \cup VisibleP(i)
                 /\ seenT' \subseteq seenT \cup DOMAIN VisibleT(i)
        <2>1. mu[i] = None /\ j = i
            BY <1>3 DEF ReadProducers, ReadJobTypes, Readable
        <2> QED BY <1>3, <2>1, VisibleFree DEF ReadProducers, ReadJobTypes
    <1>4. CASE UNCHANGED vars
        BY <1>4 DEF vars, seen
    <1> QED BY <1>1, <1>2, <1>3, <1>4 DEF Next

\* With one instance what is visible only grows, loads included.
LEMMA VisibleGrows ==
    ASSUME StoreInv, NEW i, Instances = {i}, Behind(i), [Next]_vars
    PROVE  /\ VisibleP(i) \subseteq VisibleP(i)'
           /\ DOMAIN VisibleT(i) \subseteq DOMAIN VisibleT(i)'
           /\ \A k \in DOMAIN VisibleT(i) : VisibleT(i)'[k] = VisibleT(i)[k]
    <1> DEFINE Kept == /\ VisibleP(i) \subseteq VisibleP(i)'
                       /\ DOMAIN VisibleT(i) \subseteq DOMAIN VisibleT(i)'
                       /\ \A k \in DOMAIN VisibleT(i) : VisibleT(i)'[k] = VisibleT(i)[k]
    <1>1. CASE Same(i)
        BY <1>1 DEF Same
    <1>2. ASSUME NEW a \in AdminCalls, Appears(a, i) PROVE Kept
        BY <1>2 DEF Appears, Put
    <1>3. CASE VisibleP(i)' = bucketP /\ VisibleT(i)' = VisibleT(i)
        BY <1>3 DEF Behind
    <1>4. CASE VisibleP(i)' = VisibleP(i) /\ VisibleT(i)' = bucketT
        BY <1>4 DEF Behind
    <1> QED BY <1>1, <1>2, <1>3, <1>4, VisibleStep

\* What was shown or confirmed stays visible, and nothing is confirmed twice.
LEMMA ShownStep ==
    ASSUME StoreInv, NEW i, Instances = {i}, Behind(i), Shown(i), UniqueConfirm, [Next]_vars
    PROVE  Shown(i)' /\ UniqueConfirm'
    <1>1. /\ VisibleP(i) \subseteq VisibleP(i)'
          /\ DOMAIN VisibleT(i) \subseteq DOMAIN VisibleT(i)'
          /\ \A k \in DOMAIN VisibleT(i) : VisibleT(i)'[k] = VisibleT(i)[k]
        BY VisibleGrows
    <1>2. seenP' \subseteq VisibleP(i)' /\ seenT' \subseteq DOMAIN VisibleT(i)'
        BY <1>1, SeenStep DEF Shown
    <1>3. \A b \in AdminCalls : areply'[b] = "OK" =>
             /\ apc'[b] = "done" /\ acall'[b] = acall[b] /\ KeyOf(b)' = KeyOf(b)
             /\ areply[b] = "OK" \/ Finish(b)
        BY OkStep DEF KeyOf
    <1>4. ASSUME NEW b \in AdminCalls, Finish(b)
          PROVE  Appears(b, i) /\ areply[b] # "OK"
        <2>1. Inst(b) = i /\ areply[b] # "OK"
            BY <1>4, LockedUp DEF Finish, Locked, Shown
        <2> QED BY <1>4, <2>1, VisibleFinish
    <1>5. ASSUME NEW b \in AdminCalls, areply'[b] = "OK"
          PROVE  Holds(VisibleP(i), VisibleT(i), b)'
        <2>1. CASE areply[b] = "OK"
            <3>1. Holds(VisibleP(i), VisibleT(i), b)
                BY <2>1 DEF Shown
            <3> QED BY <1>1, <1>3, <1>5, <3>1 DEF Holds
        <2>2. CASE Finish(b)
            <3>1. Appears(b, i)
                BY <1>4, <2>2
            <3> QED BY <1>3, <1>5, <3>1 DEF Appears, Holds, Put
        <2> QED BY <1>3, <1>5, <2>1, <2>2
    <1>6. Shown(i)'
        BY <1>2, <1>3, <1>5 DEF Shown
    <1>7. ASSUME NEW a \in AdminCalls, NEW b \in AdminCalls, Finish(a), areply[b] = "OK",
                 acall[a].op = acall[b].op,
                 acall[a].op = "producer" => acall[a].producer = acall[b].producer,
                 acall[a].op = "jobType" => KeyOf(a) = KeyOf(b)
          PROVE  FALSE
        <2>1. Appears(a, i) /\ Holds(VisibleP(i), VisibleT(i), b)
            BY <1>4, <1>7 DEF Shown
        <2> QED BY <1>7, <2>1 DEF Appears, Holds
    <1>8. ASSUME NEW a \in AdminCalls, NEW b \in AdminCalls, Finish(a), Finish(b)
          PROVE  a = b
        BY <1>8, OneSaves DEF Finish, Locked
    <1>9. UniqueConfirm'
        <2> SUFFICES ASSUME NEW a \in AdminCalls, NEW b \in AdminCalls,
                            areply'[a] = "OK", areply'[b] = "OK",
                            acall[a].op = acall[b].op,
                            acall[a].op = "producer" =>
                                acall[a].producer = acall[b].producer,
                            acall[a].op = "jobType" => KeyOf(a) = KeyOf(b)
                     PROVE  a = b
            BY <1>3 DEF UniqueConfirm
        <2>1. CASE areply[a] = "OK" /\ areply[b] = "OK"
            BY <2>1 DEF UniqueConfirm
        <2>2. CASE Finish(a) /\ areply[b] = "OK"
            BY <2>2, <1>7
        <2>3. CASE areply[a] = "OK" /\ Finish(b)
            BY <2>3, <1>7
        <2>4. CASE Finish(a) /\ Finish(b)
            BY <2>4, <1>8
        <2> QED BY <1>3, <2>1, <2>2, <2>3, <2>4
    <1> QED BY <1>6, <1>9

\* Initially the bucket is empty and nobody saw anything.
LEMMA BucketInit ==
    ASSUME NEW i, Instances = {i}
    PROVE  Init => BucketInv(i)
    <1> SUFFICES ASSUME Init PROVE BucketInv(i)
        OBVIOUS
    <1>1. StoreInv
        BY StoreInit
    <1>2. VisibleP(i) = {} /\ VisibleT(i) = EmptyMap
        BY VisibleFree DEF Init
    <1>3. DOMAIN EmptyMap = {}
        BY DEF EmptyMap
    <1>4. Behind(i) /\ Rooted(i)
        BY <1>2, <1>3 DEF Init, Behind, Rooted
    <1>5. Written /\ Shown(i) /\ UniqueConfirm
        BY <1>2, <1>3 DEF Init, Written, Shown, UniqueConfirm
    <1> QED BY <1>1, <1>4, <1>5 DEF BucketInv

\* BucketInv holds of a single instance.
LEMMA BucketInvariant ==
    ASSUME NEW i, Instances = {i}
    PROVE  Spec => []BucketInv(i)
    <1>1. BucketInv(i) /\ [Next]_vars => BucketInv(i)'
        BY StoreStep, BehindStep, WrittenStep, ShownStep DEF BucketInv
    <1> QED BY <1>1, BucketInit, PTL DEF Spec

-----------------------------------------------------------------------------
(* Theorems for one instance.  With two, GCSStoreLost shows a confirmed     *)
(* creation overwritten.                                                   *)

\* What was confirmed is in the bucket for good: the objects are rewritten from
\* a memory that holds it, and every failed save, crash and reload leaves the
\* bucket at or ahead of memory.
THEOREM ConfirmationsDurable ==
    ASSUME NEW i, Instances = {i}
    PROVE  Spec => []ConfirmedDurable
    <1>1. BucketInv(i) => ConfirmedDurable
        BY DEF BucketInv, Behind, Shown, Holds, ConfirmedDurable
    <1> QED BY <1>1, BucketInvariant, PTL

\* What was confirmed is listed whenever the instance can be read.
THEOREM ConfirmationsVisible ==
    ASSUME NEW i, Instances = {i}
    PROVE  Spec => []ConfirmedVisible
    <1>1. BucketInv(i) => ConfirmedVisible
        BY VisibleFree DEF BucketInv, Shown, Readable, ConfirmedVisible
    <1> QED BY <1>1, BucketInvariant, PTL

\* Nobody was ever shown an entry that the bucket lost or never had.
THEOREM ReadsDurable ==
    ASSUME NEW i, Instances = {i}
    PROVE  Spec => []SeenDurable
    <1>1. BucketInv(i) => SeenDurable
        BY DEF BucketInv, Behind, Shown, SeenDurable
    <1> QED BY <1>1, BucketInvariant, PTL

\* A job type's producer is registered wherever the job type is, although each
\* object is written and read on its own.
THEOREM ReferencesHold ==
    ASSUME NEW i, Instances = {i}
    PROVE  Spec => []RefIntegrity
    <1>1. ASSUME BucketInv(i), NEW k \in DOMAIN memT[i]
          PROVE  memT[i][k].producer \in memP[i]
        <2>1. StoreInv /\ Behind(i) /\ Rooted(i)
            BY <1>1 DEF BucketInv
        <2>2. \A x \in DOMAIN VisibleT(i) : VisibleT(i)[x].producer \in VisibleP(i)
            BY <2>1 DEF Behind, Rooted
        <2>3. CASE mu[i] = None
            BY <1>1, <2>2, <2>3, VisibleFree
        <2>4. CASE mu[i] # None
            <3>1. /\ mu[i] \in AdminCalls /\ Inst(mu[i]) = i /\ apc[mu[i]] \in Locked
                  /\ acall[mu[i]].producer \in memP[i]
                BY <2>1, <2>4 DEF StoreInv, TypeOK, LockShape, MemShape
            <3>2. acall[mu[i]].op \in {"producer", "jobType"}
                BY <2>1, <3>1, AskedEntry DEF Locked
            <3>3. CASE acall[mu[i]].op = "producer"
                BY <1>1, <2>1, <2>2, <3>1, <3>3, VisibleHeld
            <3>4. CASE acall[mu[i]].op = "jobType"
                <4>1. acall[mu[i]].entry.producer \in memP[i]
                    BY <2>1, <3>1, <3>4, AskedEntry DEF Locked, InFlight
                <4>2. /\ memT[i] = Put(VisibleT(i), KeyOf(mu[i]), acall[mu[i]].entry)
                      /\ VisibleP(i) = memP[i]
                    BY <2>1, <3>1, <3>4, VisibleHeld
                <4> QED BY <1>1, <2>2, <4>1, <4>2 DEF Put
            <3> QED BY <3>2, <3>3, <3>4
        <2> QED BY <2>3, <2>4
    <1>2. BucketInv(i) => RefIntegrity
        BY <1>1 DEF BucketInv, Behind, Rooted, RefIntegrity
    <1> QED BY <1>2, BucketInvariant, PTL

\* No producer and no job type is confirmed to two calls.
THEOREM ConfirmationsUnique ==
    ASSUME NEW i, Instances = {i}
    PROVE  Spec => []UniqueConfirm
    <1>1. BucketInv(i) => UniqueConfirm
        BY DEF BucketInv
    <1> QED BY <1>1, BucketInvariant, PTL

\* Loading the job types shows at most one more, the one that the last failed
\* save left in the bucket.
LEMMA LoadAddsOne ==
    ASSUME NEW i, Instances = {i}, BucketInv(i), bucketT # VisibleT(i)
    PROVE  \E p \in VisibleP(i), n \in JobTypeNames, q \in Queues, r \in RetryInputs :
              /\ jobTypeKey(p, n) \notin DOMAIN VisibleT(i)
              /\ bucketT = Put(VisibleT(i), jobTypeKey(p, n), NewJobType(p, n, q, r))
    <1> DEFINE T == VisibleT(i)
    <1>1. StoreInv /\ Behind(i) /\ Rooted(i)
        BY DEF BucketInv
    <1>2. /\ bucketT = [x \in DOMAIN bucketT |-> bucketT[x]]
          /\ T = [x \in DOMAIN T |-> T[x]]
          /\ Registered(bucketT)
        BY <1>1, StoreMaps, VisibleGood, GoodIsFunction DEF GoodMap
    <1>3. /\ DOMAIN T \subseteq DOMAIN bucketT
          /\ \A k \in DOMAIN T : bucketT[k] = T[k]
          /\ \A k, l \in DOMAIN bucketT \ DOMAIN T : k = l
          /\ \A k \in DOMAIN bucketT : bucketT[k].producer \in VisibleP(i)
        BY <1>1 DEF Behind, Rooted
    <1> HIDE DEF T
    <1>4. PICK k \in DOMAIN bucketT : k \notin DOMAIN T
        <2> SUFFICES ASSUME DOMAIN bucketT = DOMAIN T PROVE FALSE
            BY <1>3
        <2>1. [x \in DOMAIN bucketT |-> bucketT[x]] = [x \in DOMAIN T |-> T[x]]
            BY <1>3
        <2> QED BY <1>2, <2>1 DEF T
    <1>5. PICK p \in ProducerIds, n \in JobTypeNames, q \in Queues, r \in RetryInputs :
             k = jobTypeKey(p, n) /\ bucketT[k] = NewJobType(p, n, q, r)
        BY <1>2 DEF Registered
    <1>6. p \in VisibleP(i)
        BY <1>3, <1>5 DEF NewJobType
    <1>7. DOMAIN bucketT = DOMAIN T \cup {k}
        BY <1>3, <1>4
    <1>8. bucketT = Put(T, k, bucketT[k])
        BY <1>2, <1>3, <1>7 DEF Put
    <1> QED BY <1>4, <1>5, <1>6, <1>8 DEF T

\* Every step is a step of the registry, or one its users do not see.
LEMMA RegistryStep ==
    ASSUME NEW i, Instances = {i}, TheInstance = i, BucketInv(i), [Next]_vars
    PROVE  [Reg!StoreNext]_<<VisibleP(TheInstance), VisibleT(TheInstance)>>
    <1>1. StoreInv /\ Behind(i)
        BY DEF BucketInv
    <1>2. CASE Same(i)
        BY <1>2 DEF Same
    <1>3. ASSUME NEW p \in ProducerIds, p \notin VisibleP(i),
                 VisibleP(i)' = VisibleP(i) \cup {p}, VisibleT(i)' = VisibleT(i)
          PROVE  Reg!StoreNext
        <2>1. Reg!CreateProducer(p)
            BY <1>3 DEF Reg!CreateProducer
        <2> QED BY <2>1 DEF Reg!StoreNext
    <1>4. ASSUME NEW p \in VisibleP(i), NEW n \in JobTypeNames, NEW q \in Queues,
                 NEW r \in RetryInputs, jobTypeKey(p, n) \notin DOMAIN VisibleT(i),
                 VisibleT(i)' = Put(VisibleT(i), jobTypeKey(p, n), NewJobType(p, n, q, r)),
                 VisibleP(i)' = VisibleP(i)
          PROVE  Reg!StoreNext
        <2>1. Reg!CreateJobType(p, n, q, r)
            BY <1>4 DEF Reg!CreateJobType, Reg!jobTypeKey, Reg!Put, Reg!NewJobType,
                        Reg!MaxRetriesOf, jobTypeKey, Put, NewJobType, MaxRetriesOf
        <2>2. p \in ProducerIds
            BY <1>1, VisibleGood
        <2> QED BY <2>1, <2>2 DEF Reg!StoreNext
    <1>5. ASSUME NEW a \in AdminCalls, Finish(a), Inst(a) = i, Appears(a, i)
          PROVE  Reg!StoreNext
        <2>1. apc[a] \in Locked /\ apc[a] \in InFlight /\ apc[a] # "idle"
            BY <1>5 DEF Finish, Locked, InFlight
        <2>2. CASE acall[a].op = "producer"
            BY <1>1, <1>3, <1>5, <2>1, <2>2, AskedEntry DEF Appears
        <2>3. CASE acall[a].op = "jobType"
            <3>1. PICK n \in JobTypeNames, q \in Queues, r \in RetryInputs :
                     /\ acall[a].entry = NewJobType(acall[a].producer, n, q, r)
                     /\ KeyOf(a) = jobTypeKey(acall[a].producer, n)
                BY <1>1, <2>1, <2>3, AskedEntry
            <3>2. acall[a].producer \in VisibleP(i)
                BY <1>1, <1>5, <2>1, <2>3, VisibleHeld DEF StoreInv, MemShape
            <3>3. /\ KeyOf(a) \notin DOMAIN VisibleT(i) /\ VisibleP(i)' = VisibleP(i)
                  /\ VisibleT(i)' = Put(VisibleT(i), KeyOf(a), acall[a].entry)
                BY <1>5, <2>3 DEF Appears
            <3> QED BY <1>4, <3>1, <3>2, <3>3
        <2> QED BY <1>5, <2>2, <2>3 DEF Appears
    <1>6. CASE VisibleP(i)' = bucketP /\ VisibleT(i)' = VisibleT(i)
        <2>1. CASE bucketP = VisibleP(i)
            BY <1>6, <2>1
        <2>2. CASE bucketP # VisibleP(i)
            <3>1. PICK p \in bucketP : p \notin VisibleP(i)
                BY <1>1, <2>2 DEF Behind
            <3>2. bucketP = VisibleP(i) \cup {p} /\ p \in ProducerIds
                BY <1>1, <3>1, StoreMaps DEF Behind
            <3> QED BY <1>3, <1>6, <3>1, <3>2
        <2> QED BY <2>1, <2>2
    <1>7. CASE VisibleP(i)' = VisibleP(i) /\ VisibleT(i)' = bucketT
        <2>1. CASE bucketT = VisibleT(i)
            BY <1>7, <2>1
        <2>2. CASE bucketT # VisibleT(i)
            BY <1>4, <1>7, <2>2, LoadAddsOne
        <2> QED BY <2>1, <2>2
    <1> QED BY <1>1, <1>2, <1>5, <1>6, <1>7, VisibleStep

\* One instance implements the registry: what its readers see only gains what a
\* creation adds, one entry at a time, over failed saves, crashes and reloads.
THEOREM RegistryImplemented ==
    ASSUME NEW i, Instances = {i}
    PROVE  Spec => ImplementsStore
    <1>1. TheInstance = i
        BY DEF TheInstance
    <1>2. Init => Reg!StoreInit
        <2> SUFFICES ASSUME Init PROVE Reg!StoreInit
            OBVIOUS
        <2>1. VisibleP(i) = {} /\ VisibleT(i) = EmptyMap
            BY VisibleFree DEF Init
        <2> QED BY <1>1, <2>1 DEF Reg!StoreInit, EmptyMap, Reg!EmptyMap
    <1>3. BucketInv(i) /\ [Next]_vars
             => [Reg!StoreNext]_<<VisibleP(TheInstance), VisibleT(TheInstance)>>
        BY <1>1, RegistryStep
    <1> QED BY <1>2, <1>3, BucketInvariant, PTL
            DEF Spec, ImplementsStore, Reg!StoreSpec, Reg!storeVars
=============================================================================
