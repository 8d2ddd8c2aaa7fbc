----------------------------- MODULE MediaLibrary -----------------------------
(***************************************************************************)
(* The media library: rows of media_files, the bytes they point at on disk *)
(* and the requests that store and delete them.  Uploads of equal content  *)
(* share one file, so that a file may be removed only by whoever finds,    *)
(* under the advisory lock of its storage_path, that no active row is left *)
(* that points at it.                                                      *)
(*                                                                         *)
(* A file is named by the upload that stored it: storeMediaUpload writes   *)
(* to <year>/<month>/<id>, a path nobody else ever writes.                 *)
(***************************************************************************)
EXTENDS Naturals, FiniteSets

CONSTANTS
    Media,          \* ids of uploads, which are the ids of rows and the names of files
    Sha,            \* the SHA-256 of the bytes each upload carries
    Deletes,        \* DELETE requests
    Workers,        \* media-publisher processes, which release files (MediaPublisher)
    None,           \* NULL: no path
    NoOne,          \* the lock of a path is free
    MaxFaults       \* bound: failed calls and crashes

Actors == Media \cup Deletes \cup Workers

ASSUME MediaAssumption ==
    /\ None \notin Media
    /\ NoOne \notin Actors
    /\ Media \cap Deletes = {} /\ Media \cap Workers = {} /\ Deletes \cap Workers = {}
    /\ MaxFaults \in Nat

Paths == Media \cup {None}

VARIABLES
    row,            \* media_files: "absent", "active" or "deleted" (deleted_at set)
    storagePath,    \* media_files.storage_path
    files,          \* the files on disk
    lock,           \* who holds pg_advisory_xact_lock(hashtext(path))
    upload,         \* where each upload stands
    dedupPath,      \* the path an upload has found to share
    del,            \* where each DELETE stands
    target,         \* the row a DELETE has loaded
    delPath,        \* the storage_path it has loaded with it
    leaked,         \* files whose removal was lost to a crash or a failed rm
    faults          \* failures so far

uploads  == <<upload, dedupPath>>
deletes  == <<del, target, delPath>>
library  == <<row, storagePath, files, lock, upload, dedupPath, del, target, delPath, leaked, faults>>

LibraryTypeOK ==
    /\ row \in [Media -> {"absent", "active", "deleted"}]
    /\ storagePath \in [Media -> Paths]
    /\ files \subseteq Media
    /\ lock \in [Media -> Actors \cup {NoOne}]
    /\ upload \in [Media -> {"new", "stored", "found", "share", "own", "trim", "done"}]
    /\ dedupPath \in [Media -> Paths]
    /\ del \in [Deletes -> {"new", "loaded", "shared", "last", "remove", "done"}]
    /\ target \in [Deletes -> Paths]
    /\ delPath \in [Deletes -> Paths]
    /\ leaked \subseteq Media
    /\ faults \in 0..MaxFaults

LibraryInit ==
    /\ row = [m \in Media |-> "absent"]
    /\ storagePath = [m \in Media |-> None]
    /\ files = {}
    /\ lock = [m \in Media |-> NoOne]
    /\ upload = [m \in Media |-> "new"]
    /\ dedupPath = [m \in Media |-> None]
    /\ del = [d \in Deletes |-> "new"]
    /\ target = [d \in Deletes |-> None]
    /\ delPath = [d \in Deletes |-> None]
    /\ leaked = {}
    /\ faults = 0

Fault == faults < MaxFaults /\ faults' = faults + 1

\* loadActiveMediaFile
Active(m) == row[m] = "active"

\* storagePathInUse, and the sharing query of releaseIfEnabled: an active row
\* other than the given one points at the path.
InUse(f, except) == \E m \in Media \ {except} : Active(m) /\ storagePath[m] = f

-----------------------------------------------------------------------------
(* Uploads *)

\* storeMediaUpload: the bytes are on disk, under a path of their own.
StoreUpload(m) ==
    /\ upload[m] = "new"
    /\ files' = files \cup {m}
    /\ upload' = [upload EXCEPT ![m] = "stored"]
    /\ UNCHANGED <<row, storagePath, lock, dedupPath, deletes, leaked, faults>>

\* The paths the dedup query may return.  The panel's route asks for a row that
\* has a path; the public route takes whatever row comes first.
Candidates(m) ==
    LET same == {x \in Media : Active(x) /\ Sha[x] = Sha[m]}
        kept == {storagePath[x] : x \in same} \ {None}
    IN  IF kept = {} THEN {None}
        ELSE kept \cup {storagePath[x] : x \in same}

\* The dedup query, outside any lock.
FindDuplicate(m) ==
    /\ upload[m] = "stored"
    /\ \E f \in Candidates(m) : dedupPath' = [dedupPath EXCEPT ![m] = f]
    /\ upload' = [upload EXCEPT ![m] = "found"]
    /\ UNCHANGED <<row, storagePath, files, lock, deletes, leaked, faults>>

\* Mutant of LockDuplicate: the candidate is taken as the query found it.
LockDuplicateUnchecked(m) ==
    /\ upload[m] = "found" /\ dedupPath[m] # None
    /\ lock[dedupPath[m]] = NoOne
    /\ lock' = [lock EXCEPT ![dedupPath[m]] = m]
    /\ upload' = [upload EXCEPT ![m] = "share"]
    /\ UNCHANGED <<row, storagePath, files, dedupPath, deletes, leaked, faults>>

\* lockStoragePath, and the candidate checked again under the lock.
LockDuplicate(m) ==
    /\ upload[m] = "found" /\ dedupPath[m] # None
    /\ lock[dedupPath[m]] = NoOne
    /\ lock' = [lock EXCEPT ![dedupPath[m]] = m]
    /\ upload' = [upload EXCEPT ![m] = IF InUse(dedupPath[m], None) THEN "share" ELSE "own"]
    /\ UNCHANGED <<row, storagePath, files, dedupPath, deletes, leaked, faults>>

\* The locks of a transaction are freed as it ends.
Unlocked(a) == [f \in Media |-> IF lock[f] = a THEN NoOne ELSE lock[f]]

\* The insert, and its commit.  A row that shares another one's bytes leaves its
\* own file to be removed.
InsertUploadedMedia(m) ==
    /\ upload[m] \in {"share", "own"} \/ (upload[m] = "found" /\ dedupPath[m] = None)
    /\ storagePath' = [storagePath EXCEPT ![m] = IF upload[m] = "share" THEN dedupPath[m] ELSE m]
    /\ upload' = [upload EXCEPT ![m] = IF upload[m] = "share" THEN "trim" ELSE "done"]
    /\ row' = [row EXCEPT ![m] = "active"]
    /\ lock' = Unlocked(m)
    /\ UNCHANGED <<files, dedupPath, deletes, leaked, faults>>

\* The transaction fails, or the upload token has been redeemed meanwhile: the
\* file just stored is removed.
InsertFails(m) ==
    /\ upload[m] \in {"stored", "found", "share", "own"}
    /\ Fault
    /\ lock' = Unlocked(m)
    /\ upload' = [upload EXCEPT ![m] = "trim"]
    /\ UNCHANGED <<row, storagePath, files, dedupPath, deletes, leaked>>

\* Mutant of TrimUpload: the file of an upload that shares another's is kept.
TrimNothing(m) ==
    /\ upload[m] = "trim"
    /\ upload' = [upload EXCEPT ![m] = "done"]
    /\ UNCHANGED <<row, storagePath, files, lock, dedupPath, deletes, leaked, faults>>

\* rm of the file just stored.
TrimUpload(m) ==
    /\ upload[m] = "trim"
    /\ files' = files \ {m}
    /\ upload' = [upload EXCEPT ![m] = "done"]
    /\ UNCHANGED <<row, storagePath, lock, dedupPath, deletes, leaked, faults>>

-----------------------------------------------------------------------------
(* DELETE /api/v1/media/:id *)

LoadForDelete(d, m) ==
    /\ del[d] = "new" /\ Active(m)
    /\ target' = [target EXCEPT ![d] = m]
    /\ delPath' = [delPath EXCEPT ![d] = storagePath[m]]
    /\ del' = [del EXCEPT ![d] = "loaded"]
    /\ UNCHANGED <<row, storagePath, files, lock, uploads, leaked, faults>>

\* softDeleteMedia takes the lock of the path it has loaded, and asks whether
\* another row uses it.
LockForDelete(d) ==
    /\ del[d] = "loaded" /\ delPath[d] # None
    /\ lock[delPath[d]] = NoOne
    /\ lock' = [lock EXCEPT ![delPath[d]] = d]
    /\ del' = [del EXCEPT ![d] = IF InUse(delPath[d], target[d]) THEN "shared" ELSE "last"]
    /\ UNCHANGED <<row, storagePath, files, uploads, target, delPath, leaked, faults>>

\* It commits the row's deletion.
SoftDelete(d) ==
    /\ del[d] \in {"shared", "last"} \/ (del[d] = "loaded" /\ delPath[d] = None)
    /\ row' = [row EXCEPT ![target[d]] = "deleted"]
    /\ del' = [del EXCEPT ![d] = IF del[d] = "last" THEN "remove" ELSE "done"]
    /\ lock' = Unlocked(d)
    /\ UNCHANGED <<storagePath, files, uploads, target, delPath, leaked, faults>>

RemoveDeleted(d) ==
    /\ del[d] = "remove"
    /\ files' = files \ {delPath[d]}
    /\ del' = [del EXCEPT ![d] = "done"]
    /\ UNCHANGED <<row, storagePath, lock, uploads, target, delPath, leaked, faults>>

-----------------------------------------------------------------------------
(* Failures *)

\* An rm fails: the file stays.
RemovalFails ==
    /\ Fault
    /\ \/ \E m \in Media :
             /\ upload[m] = "trim"
             /\ upload' = [upload EXCEPT ![m] = "done"]
             /\ leaked' = leaked \cup {m}
             /\ UNCHANGED del
       \/ \E d \in Deletes :
             /\ del[d] = "remove"
             /\ del' = [del EXCEPT ![d] = "done"]
             /\ leaked' = leaked \cup {delPath[d]}
             /\ UNCHANGED upload
    /\ UNCHANGED <<row, storagePath, files, lock, dedupPath, target, delPath>>

Unrecorded == {m \in Media : upload[m] \in {"stored", "found", "share", "own", "trim"}}
Unremoved  == {delPath[d] : d \in {x \in Deletes : del[x] = "remove"}}

\* The API process dies: its transactions are rolled back and its locks freed; a
\* file it had stored and not recorded, or was about to remove, stays on disk.
ApiCrash ==
    /\ Unrecorded # {} \/ \E d \in Deletes : del[d] \in {"loaded", "shared", "last", "remove"}
    /\ Fault
    /\ lock' = [f \in Media |-> IF lock[f] \in Media \cup Deletes THEN NoOne ELSE lock[f]]
    /\ leaked' = leaked \cup (files \cap (Unrecorded \cup Unremoved))
    /\ upload' = [m \in Media |-> IF m \in Unrecorded THEN "done" ELSE upload[m]]
    /\ del' = [d \in Deletes |-> IF del[d] = "new" THEN "new" ELSE "done"]
    /\ UNCHANGED <<row, storagePath, files, dedupPath, target, delPath>>

LibraryNext ==
    \/ \E m \in Media :
          \/ StoreUpload(m) \/ FindDuplicate(m) \/ LockDuplicate(m)
          \/ InsertUploadedMedia(m) \/ InsertFails(m) \/ TrimUpload(m)
    \/ \E d \in Deletes :
          \/ \E m \in Media : LoadForDelete(d, m)
          \/ LockForDelete(d) \/ SoftDelete(d) \/ RemoveDeleted(d)
    \/ RemovalFails \/ ApiCrash
===============================================================================
