------------------------------- MODULE Store --------------------------------
(***************************************************************************)
(* The configuration registry as its users see it: the contract of the     *)
(* storage.Store interface, which MemoryStore implements literally (every  *)
(* operation runs under one mutex), together with the AdminServer handlers *)
(* that call it.  Creations that are refused (empty name, AlreadyExists,   *)
(* NotFound) leave the registry alone and are not steps here; what each    *)
(* call is answered is modelled in GCSStore, which is shown to implement   *)
(* this specification.                                                     *)
(*                                                                         *)
(* producers is the key set of the producer map (a producer's other fields *)
(* are never read back by the service); jobTypes is the job type map, its  *)
(* domain the keys present.                                                *)
(***************************************************************************)
EXTENDS Registry

VARIABLES producers, jobTypes

storeVars == <<producers, jobTypes>>

-----------------------------------------------------------------------------
GetProducer(p) == p \in producers

HasJobType(p, n) == jobTypeKey(p, n) \in DOMAIN jobTypes

GetJobType(p, n) == jobTypes[jobTypeKey(p, n)]

-----------------------------------------------------------------------------
StoreInit ==
    /\ producers = {}
    /\ jobTypes = EmptyMap

CreateProducer(p) ==
    /\ p \notin producers
    /\ producers' = producers \cup {p}
    /\ UNCHANGED jobTypes

CreateJobType(p, n, q, r) ==
    /\ p \in producers
    /\ jobTypeKey(p, n) \notin DOMAIN jobTypes
    /\ jobTypes' = Put(jobTypes, jobTypeKey(p, n), NewJobType(p, n, q, r))
    /\ UNCHANGED producers

StoreNext ==
    \/ \E p \in ProducerIds : CreateProducer(p)
    \/ \E p \in ProducerIds, n \in JobTypeNames, q \in Queues,
          r \in RetryInputs : CreateJobType(p, n, q, r)

StoreSpec == StoreInit /\ [][StoreNext]_storeVars

-----------------------------------------------------------------------------
StoreTypeOK ==
    /\ producers \subseteq ProducerIds
    /\ DOMAIN jobTypes \subseteq Keys
    /\ jobTypes \in [DOMAIN jobTypes -> JobTypeEntry]
=============================================================================
