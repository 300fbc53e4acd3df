------------------------ MODULE AptCacheMountProofs ------------------------
(***************************************************************************)
(* Proofs about the apt update and backup of AptCacheMount, for any number *)
(* of builds, index files and archive generations.                         *)
(***************************************************************************)
EXTENDS AptCacheMount, TLAPS

Done == {"copy", "resolved"}

(* The lists lock and the update execs agree: the holder is a build still  *)
(* moving index files, and a build moving index files holds the lock.      *)
LockHeldByUpdater ==
  /\ lock # NoBuild => pc[lock] = "fetch"
  /\ \A b \in Builds : pc[b] = "fetch" => lock = b

(* While apt-get update holds the lists lock, every index file it has      *)
(* already moved into the shared lists/ is the one it fetched.             *)
ListsWrittenByHolder ==
  lock # NoBuild =>
    \A f \in IndexFiles \ pending[lock] : lists[f] = gen[lock]

(* Generations only grow: no build fetched a generation the archive has    *)
(* not published, and the holder of the lock fetched no older a generation *)
(* than any build whose update is over.                                    *)
GenerationsOrdered ==
  /\ \A b \in Builds : gen[b] <= archive
  /\ \A b \in Builds : pc[b] \in {"fetch"} \cup Done => gen[b] # 0
  /\ \A b \in Builds :
       lock # NoBuild /\ pc[b] \in Done => gen[b] <= gen[lock]

(* A build whose update is over finds in the shared lists/, and puts into  *)
(* its backup, only files at least as new as the ones it fetched.          *)
CopiesFresh ==
  /\ \A b \in Builds : pc[b] \in Done =>
       /\ \A f \in IndexFiles : lists[f] >= gen[b]
       /\ \A f \in IndexFiles \ toCopy[b] : backup[b][f] >= gen[b]
  /\ \A b \in Builds : pc[b] = "resolved" => toCopy[b] = {}

IInv ==
  /\ TypeOK /\ LockHeldByUpdater /\ ListsWrittenByHolder
  /\ GenerationsOrdered /\ CopiesFresh

USE MaxGenAssumption, NoBuildAssumption

(* The initial state, with the lock free and nobody updating.             *)
LEMMA InitIInv == Init => IInv
BY SMTT(30) DEF Init, IInv, TypeOK, LockHeldByUpdater, ListsWrittenByHolder, Gens,
       GenerationsOrdered, CopiesFresh, Done

(* Every step of a build or of the archive keeps the lock, the updates,    *)
(* the shared lists and the backups in agreement.                          *)
LEMMA NextIInv == IInv /\ [Next]_vars => IInv'
<1> SUFFICES ASSUME IInv, [Next]_vars PROVE IInv'
  OBVIOUS
<1> USE DEF IInv, TypeOK, LockHeldByUpdater, ListsWrittenByHolder, Gens,
            GenerationsOrdered, CopiesFresh, Done
<1>1. CASE Publish
  BY <1>1 DEF Publish
<1>2. ASSUME NEW b \in Builds, UpdateLock(b) PROVE IInv'
  <2>1. \A c \in Builds : pc[c] # "fetch"
    BY <1>2 DEF UpdateLock
  <2>2. TypeOK'
    BY <1>2 DEF UpdateLock
  <2>3. LockHeldByUpdater'
    BY <1>2, <2>1 DEF UpdateLock
  <2>4. ListsWrittenByHolder'
    BY <1>2 DEF UpdateLock
  <2>5. GenerationsOrdered'
    BY <1>2 DEF UpdateLock
  <2>6. CopiesFresh'
    BY <1>2 DEF UpdateLock
  <2> QED BY <2>2, <2>3, <2>4, <2>5, <2>6
<1>3. ASSUME NEW b \in Builds, UpdateLockBusy(b) PROVE IInv'
  BY <1>3 DEF UpdateLockBusy
<1>4. ASSUME NEW b \in Builds, MoveIndex(b) PROVE IInv'
  <2>1. lock = b
    BY <1>4 DEF MoveIndex
  <2>2. PICK f \in pending[b] :
          /\ lists' = [lists EXCEPT ![f] = gen[b]]
          /\ pending' = [pending EXCEPT ![b] = pending[b] \ {f}]
    BY ZenonT(30), <1>4 DEF MoveIndex
  <2>3. TypeOK'
    BY <1>4, <2>2 DEF MoveIndex
  <2>4. LockHeldByUpdater'
    BY <1>4 DEF MoveIndex
  <2>5. ListsWrittenByHolder'
    BY <1>4, <2>1, <2>2 DEF MoveIndex
  <2>6. GenerationsOrdered'
    BY <1>4 DEF MoveIndex
  <2>7. CopiesFresh'
    BY <1>4, <2>1, <2>2 DEF MoveIndex
  <2> QED BY <2>3, <2>4, <2>5, <2>6, <2>7
<1>5. ASSUME NEW b \in Builds, UpdateDone(b) PROVE IInv'
  <2>1. lock = b
    BY <1>5 DEF UpdateDone
  <2>2. TypeOK'
    BY <1>5 DEF UpdateDone
  <2>3. LockHeldByUpdater'
    BY <1>5, <2>1 DEF UpdateDone
  <2>4. ListsWrittenByHolder'
    BY <1>5 DEF UpdateDone
  <2>5. GenerationsOrdered'
    BY <1>5, <2>1 DEF UpdateDone
  <2>6. \A f \in IndexFiles : lists[f] = gen[b]
    BY <1>5, <2>1 DEF UpdateDone
  <2>7. CopiesFresh'
    BY <1>5, <2>6 DEF UpdateDone
  <2> QED BY <2>2, <2>3, <2>4, <2>5, <2>7
<1>6. ASSUME NEW b \in Builds, CopyIndex(b) PROVE IInv'
  <2>1. PICK f \in toCopy[b] :
          /\ backup' = [backup EXCEPT ![b][f] = lists[f]]
          /\ toCopy' = [toCopy EXCEPT ![b] = toCopy[b] \ {f}]
    BY ZenonT(30), <1>6 DEF CopyIndex
  <2>2. TypeOK'
    BY <1>6, <2>1 DEF CopyIndex
  <2>3. CopiesFresh'
    BY <1>6, <2>1 DEF CopyIndex
  <2> QED BY <1>6, <2>2, <2>3 DEF CopyIndex
<1>7. ASSUME NEW b \in Builds, Download(b) PROVE IInv'
  BY <1>7 DEF Download
<1>8. CASE Finished \/ UNCHANGED vars
  BY <1>8 DEF Finished, vars
<1> QED
  BY <1>1, <1>2, <1>3, <1>4, <1>5, <1>6, <1>7, <1>8 DEF Next, Step

(* A build that resolves its packages fetched indexes itself and resolves  *)
(* from a backup no file of which is older than what its own apt-get       *)
(* update fetched, for every number of concurrent builds sharing the cache *)
(* volume (convert_package.go lines 68-87, the `&&` of Run line 124).      *)
THEOREM BackupFresh == Spec => []BackupFromOwnUpdate
<1>1. Init => IInv
  BY InitIInv
<1>2. IInv /\ [Next]_vars => IInv'
  BY NextIInv
<1>3. IInv => BackupFromOwnUpdate
  BY DEF IInv, BackupFromOwnUpdate, CopiesFresh, GenerationsOrdered, Done
<1> QED BY <1>1, <1>2, <1>3, PTL DEF Spec

=============================================================================
