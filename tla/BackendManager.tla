--------------------------- MODULE BackendManager ---------------------------
(* The registry of backends. A library registers its backends while it is   *)
(* being loaded, on any thread, and may remove them again by its name. What *)
(* a backend is does not matter here: its identifier stands for it, and     *)
(* m_backendNames, which changes together with m_backends, is left out.     *)
EXTENDS Integers, Sequences, SequencesExt

CONSTANTS BackendIDs, BackendNames,
          Libraries,  \* pairs of a name and a backend that is registered under it
          none

ASSUME RegistryAssumption ==
  /\ BackendIDs \subseteq Nat \ {0} /\ none \notin BackendIDs /\ none # 0
  /\ Libraries \subseteq BackendNames \X BackendIDs

VARIABLES registering,    \* valid backends, with their names, on their way into the registry
          backends,       \* m_backends
          begin,          \* m_backends.begin(): the map has an order of its own
          backendIDs,     \* m_backendIDs
          backendIDGroup  \* m_backendIDGroup: name -> identifiers

registry == <<registering, backends, begin, backendIDs, backendIDGroup>>

RegistryInit ==
  /\ registering = {} /\ backends = {} /\ begin = none
  /\ backendIDs = <<>>
  /\ backendIDGroup = [name \in BackendNames |-> {}]

\* creator() and IsValidBackend, before the lock.
CreateBackend ==
  \E library \in Libraries :
    /\ registering' = registering \union {library}
    /\ UNCHANGED <<backends, begin, backendIDs, backendIDGroup>>

\* Mutant: only backends of the same library are compared.
OfThisName(name, id) == id \in backendIDGroup[name]
IsRegistered(name, id) == id \in ToSet(backendIDs)

\* What is left of the first members of the list when the backends removed
\* are found and erased, and of all of them. Each is in the list at most once
\* (RegistryAgrees), so that the first one found is the only one.
ErasedAfter(ids, removed) ==
  LET Rest[i \in 0..Len(ids)] ==
        IF i = 0 THEN <<>>
        ELSE IF ids[i] \in removed THEN Rest[i - 1] ELSE Append(Rest[i - 1], ids[i])
  IN Rest
Erased(ids, removed) == ErasedAfter(ids, removed)[Len(ids)]

\* RegisterBackend under the lock.
RegisterBackend ==
  \E library \in registering :
    LET name == library[1]
        id == library[2]
    IN
    /\ registering' = registering \ {library}
    /\ IF IsRegistered(name, id)
       THEN UNCHANGED <<backends, begin, backendIDs, backendIDGroup>>
       ELSE /\ backends' = backends \union {id}
            /\ begin' \in backends'
            /\ backendIDs' = Append(backendIDs, id)
            /\ backendIDGroup' = [backendIDGroup EXCEPT ![name] = @ \union {id}]

RemoveBackend ==
  \E name \in BackendNames :
    LET removed == backendIDGroup[name]
    IN /\ removed # {}
       /\ backends' = backends \ removed
       /\ begin' \in IF begin \in backends' THEN {begin}
                     ELSE IF backends' = {} THEN {none} ELSE backends'
       /\ backendIDs' = Erased(backendIDs, removed)
       /\ backendIDGroup' = [backendIDGroup EXCEPT ![name] = {}]
       /\ UNCHANGED registering

GetBackend(id) ==
  IF id = 0 THEN begin ELSE IF id \in backends THEN id ELSE none

RegistryNext == CreateBackend \/ RegisterBackend \/ RemoveBackend

\* The three tables of the registry tell the same backends apart, each in one
\* place only, whatever libraries register and remove in any order: a backend
\* that is removed by its name is gone from all of them.
RegistryAgrees ==
  /\ IsInjective(backendIDs) /\ ToSet(backendIDs) = backends
  /\ UNION {backendIDGroup[name] : name \in BackendNames} = backends
  /\ \A n1, n2 \in BackendNames : n1 # n2 => backendIDGroup[n1] \intersect backendIDGroup[n2] = {}
  /\ IF backends = {} THEN begin = none ELSE begin \in backends
=============================================================================
