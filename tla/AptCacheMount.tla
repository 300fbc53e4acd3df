--------------------------- MODULE AptCacheMount ---------------------------
(***************************************************************************)
(* The `apt update` phase of ADD --apt, across builds running at the same  *)
(* time on one build engine (convert_package.go, Dispatch lines 68-90).    *)
(*                                                                         *)
(* Every build mounts the same cache volume, id "btidor.syntax", with      *)
(* CacheMountShared at /btidor.syntax/state, and runs                      *)
(*     apt-get update ... && cp -r /btidor.syntax/state /btidor.syntax/backup *)
(* then, in the download exec, moves the backup back and runs              *)
(* `apt-get install --print-uris` against it.                              *)
(*                                                                         *)
(* apt-get update takes the lists lock (state/lists/lock) without waiting; *)
(* a build that finds it taken fails.  Holding it, apt moves each fetched  *)
(* index file into lists/ one at a time, then releases the lock on exit.   *)
(* The cp -r that follows reads the shared lists/ file by file, without    *)
(* the lock.  An index file's contents are abstracted to the generation of *)
(* the archive it was fetched from; the archive publishes new generations  *)
(* independently of the builds.                                            *)
(***************************************************************************)
EXTENDS Naturals, FiniteSets

CONSTANTS
  Builds,      \* the builds running ADD --apt concurrently
  IndexFiles,  \* the files apt keeps under lists/ (Release, Packages, ...)
  MaxGen,      \* the number of archive generations the run explores
  NoBuild      \* the lock's owner when nobody holds it

ASSUME MaxGenAssumption == MaxGen \in Nat \ {0}
ASSUME NoBuildAssumption == NoBuild \notin Builds

VARIABLES
  archive,  \* the generation the archive currently serves
  lists,    \* the shared cache volume: generation of each file in lists/, 0 if absent
  lock,     \* the owner of state/lists/lock
  pc,       \* each build's place in the update and download execs
  gen,      \* the generation each build's apt-get update fetched
  pending,  \* the fetched files apt has not yet moved into lists/
  toCopy,   \* the files cp -r has not yet copied to the backup
  backup    \* each build's /btidor.syntax/backup/lists, in its own image

vars == <<archive, lists, lock, pc, gen, pending, toCopy, backup>>

Gens == 0..MaxGen

Init ==
  /\ archive = 1
  /\ lists = [f \in IndexFiles |-> 0]
  /\ lock = NoBuild
  /\ pc = [b \in Builds |-> "update"]
  /\ gen = [b \in Builds |-> 0]
  /\ pending = [b \in Builds |-> {}]
  /\ toCopy = [b \in Builds |-> {}]
  /\ backup = [b \in Builds |-> [f \in IndexFiles |-> 0]]

(* The archive publishes a new generation of its indexes.                  *)
Publish ==
  /\ archive < MaxGen
  /\ archive' = archive + 1
  /\ UNCHANGED <<lists, lock, pc, gen, pending, toCopy, backup>>

(* mkdir -p state/lists/partial; apt-get update takes the free lists lock  *)
(* and fetches the archive's current indexes into lists/partial.          *)
UpdateLock(b) ==
  /\ pc[b] = "update"
  /\ lock = NoBuild
  /\ lock' = b
  /\ pc' = [pc EXCEPT ![b] = "fetch"]
  /\ gen' = [gen EXCEPT ![b] = archive]
  /\ pending' = [pending EXCEPT ![b] = IndexFiles]
  /\ UNCHANGED <<archive, lists, toCopy, backup>>

(* Mutant: the script joined with `;` instead of `&&` (Run, line 124):    *)
(* the failed update is ignored and cp -r backs up lists/ as it is.        *)
UpdateLockBusyIgnored(b) ==
  /\ pc[b] = "update"
  /\ lock # NoBuild
  /\ pc' = [pc EXCEPT ![b] = "copy"]
  /\ toCopy' = [toCopy EXCEPT ![b] = IndexFiles]
  /\ UNCHANGED <<archive, lists, lock, gen, pending, backup>>

(* apt-get update finds the lock held by another build's update: it exits *)
(* with an error, the exec fails, and with it the Solve in ReadFile.       *)
UpdateLockBusy(b) ==
  /\ pc[b] = "update"
  /\ lock # NoBuild
  /\ pc' = [pc EXCEPT ![b] = "failed"]
  /\ UNCHANGED <<archive, lists, lock, gen, pending, toCopy, backup>>

(* apt moves one verified index file from partial/ into the shared lists/. *)
MoveIndex(b) ==
  /\ pc[b] = "fetch"
  /\ \E f \in pending[b] :
       /\ lists' = [lists EXCEPT ![f] = gen[b]]
       /\ pending' = [pending EXCEPT ![b] = pending[b] \ {f}]
  /\ UNCHANGED <<archive, lock, pc, gen, toCopy, backup>>

(* apt-get update exits, which releases the lock; `&&` goes on to cp -r.   *)
UpdateDone(b) ==
  /\ pc[b] = "fetch" /\ pending[b] = {}
  /\ lock' = NoBuild
  /\ pc' = [pc EXCEPT ![b] = "copy"]
  /\ toCopy' = [toCopy EXCEPT ![b] = IndexFiles]
  /\ UNCHANGED <<archive, lists, gen, pending, backup>>

(* cp -r copies one file of the shared lists/ into the build's backup.     *)
CopyIndex(b) ==
  /\ pc[b] = "copy"
  /\ \E f \in toCopy[b] :
       /\ backup' = [backup EXCEPT ![b][f] = lists[f]]
       /\ toCopy' = [toCopy EXCEPT ![b] = toCopy[b] \ {f}]
  /\ UNCHANGED <<archive, lists, lock, pc, gen, pending>>

(* The update exec ends; the download exec moves the backup into place     *)
(* and resolves the URIs from it (lines 83-87).                            *)
Download(b) ==
  /\ pc[b] = "copy" /\ toCopy[b] = {}
  /\ pc' = [pc EXCEPT ![b] = "resolved"]
  /\ UNCHANGED <<archive, lists, lock, gen, pending, toCopy, backup>>

Step(b) ==
  \/ UpdateLock(b) \/ UpdateLockBusy(b) \/ MoveIndex(b)
  \/ UpdateDone(b) \/ CopyIndex(b) \/ Download(b)

(* Every build has finished its execs (the archive may still publish).     *)
AllFinished == \A b \in Builds : pc[b] \in {"resolved", "failed"}

Finished == AllFinished /\ archive = MaxGen /\ UNCHANGED vars

Next == Publish \/ (\E b \in Builds : Step(b)) \/ Finished

Spec == Init /\ [][Next]_vars

-----------------------------------------------------------------------------
(* Properties.                                                             *)

TypeOK ==
  /\ archive \in 1..MaxGen
  /\ lists \in [IndexFiles -> Gens]
  /\ lock \in Builds \cup {NoBuild}
  /\ pc \in [Builds -> {"update", "fetch", "copy", "resolved", "failed"}]
  /\ gen \in [Builds -> Gens]
  /\ pending \in [Builds -> SUBSET IndexFiles]
  /\ toCopy \in [Builds -> SUBSET IndexFiles]
  /\ backup \in [Builds -> [IndexFiles -> Gens]]

(* Spec section 5: the update exec copies the lists to a backup so that   *)
(* the download does not rely on the shared cache.  Whatever other builds  *)
(* do to the shared lists/ meanwhile, a build that resolves its packages   *)
(* did fetch indexes itself, and resolves from a backup no file of which   *)
(* is older than the generation its own apt-get update fetched: the `&&`   *)
(* runs cp -r only after a successful update, and the lists lock keeps     *)
(* an older update from overwriting a newer one.                           *)
BackupFromOwnUpdate ==
  \A b \in Builds :
    pc[b] = "resolved" =>
      /\ gen[b] # 0
      /\ \A f \in IndexFiles : backup[b][f] >= gen[b]

(* Spec section 5: the compiler does not rely on the shared cache for      *)
(* correctness, because it copies the lists to a backup.  The backup a     *)
(* download resolves from is then one generation of the archive's indexes. *)
BackupConsistent ==
  \A b \in Builds :
    pc[b] = "resolved" =>
      \A f, g \in IndexFiles : backup[b][f] = backup[b][g]

=============================================================================
