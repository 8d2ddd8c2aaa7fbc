------------------------ MODULE MediaPublisher_proofs ------------------------
(***************************************************************************)
(* The media library and the publication queue, for any number of rows,    *)
(* uploads, DELETEs and media-publisher workers.                           *)
(*                                                                         *)
(* Files: the bytes of an active row are on disk, and nothing else stays   *)
(* there.  The invariant says, of everyone who is about to share or to     *)
(* remove a file, what it has seen under the lock of the path and what is  *)
(* still true of it.                                                       *)
(*                                                                         *)
(* Queue: a claim is exclusive, and the calls and the videos of a row are  *)
(* bounded.  The invariant says of each job in hand that its row is under  *)
(* a lease, and of each row which calls and videos its attempts and its    *)
(* interruptions have paid for.                                            *)
(*                                                                         *)
(* Promise: the publisher implements MediaPromise.  Most of its steps are  *)
(* hidden; "published" follows from what was seen of the destination, and  *)
(* EvidenceInv says that a worker about to record an outcome, and a row    *)
(* with a finished session, have that evidence.                            *)
(***************************************************************************)
EXTENDS MediaPublisher, TLAPS

USE DEF uploads, deletes, library, rows, history, worker, pubVars

-----------------------------------------------------------------------------
(* Types *)

\* A DELETE that has loaded a row has its id, and the path it locks or removes.
LibraryRefs ==
    \A d \in Deletes :
        /\ del[d] \in {"loaded", "shared", "last"} => target[d] \in Media
        /\ del[d] \in {"shared", "last", "remove"} => delPath[d] \in Media

\* A worker that is not idle has a job, and releases a path.
JobRefs ==
    \A w \in Workers :
        /\ wpc[w] # "idle" => job[w] \in Jobs
        /\ wpc[w] \in {"release", "lock", "swap", "remove"} => job[w].path \in Media

LibraryTypes == LibraryTypeOK /\ LibraryRefs
Types == TypeOK /\ LibraryRefs /\ JobRefs

\* Every step of the routes keeps the types of the library.
LEMMA LibraryStepTypes ==
    ASSUME LibraryTypes, LibraryNext
    PROVE  LibraryTypes'
<1> USE MediaAssumption DEF LibraryTypes, LibraryTypeOK, LibraryRefs, Paths, Actors
<1>1. ASSUME NEW m \in Media, StoreUpload(m) PROVE LibraryTypes'
  BY Zenon, <1>1 DEF StoreUpload
<1>2. ASSUME NEW m \in Media, FindDuplicate(m) PROVE LibraryTypes'
  <2>1. Candidates(m) \subseteq Paths
    BY DEF Candidates
  <2> QED BY <1>2, <2>1 DEF FindDuplicate
<1>3. ASSUME NEW m \in Media, LockDuplicate(m) PROVE LibraryTypes'
  BY Zenon, <1>3 DEF LockDuplicate
<1>4. ASSUME NEW m \in Media, InsertUploadedMedia(m) PROVE LibraryTypes'
  BY Zenon, <1>4 DEF InsertUploadedMedia, Unlocked
<1>5. ASSUME NEW m \in Media, InsertFails(m) PROVE LibraryTypes'
  BY <1>5 DEF InsertFails, Unlocked, Fault
<1>6. ASSUME NEW m \in Media, TrimUpload(m) PROVE LibraryTypes'
  BY Zenon, <1>6 DEF TrimUpload
<1>7. ASSUME NEW d \in Deletes, NEW m \in Media, LoadForDelete(d, m) PROVE LibraryTypes'
  BY Zenon, <1>7 DEF LoadForDelete
<1>8. ASSUME NEW d \in Deletes, LockForDelete(d) PROVE LibraryTypes'
  BY Zenon, <1>8 DEF LockForDelete
<1>9. ASSUME NEW d \in Deletes, SoftDelete(d) PROVE LibraryTypes'
  BY Zenon, <1>9 DEF SoftDelete, Unlocked
<1>10. ASSUME NEW d \in Deletes, RemoveDeleted(d) PROVE LibraryTypes'
  BY Zenon, <1>10 DEF RemoveDeleted
<1>11. CASE RemovalFails
  BY <1>11 DEF RemovalFails, Fault
<1>12. CASE ApiCrash
  BY <1>12 DEF ApiCrash, Fault, Unrecorded, Unremoved
<1> QED
  BY Zenon, <1>1, <1>2, <1>3, <1>4, <1>5, <1>6, <1>7, <1>8, <1>9, <1>10, <1>11, <1>12 DEF LibraryNext

\* A publication is of a row of the library.
LEMMA PubMedia == ASSUME NEW p \in Pubs PROVE MediaOf(p) \in Media
BY Zenon DEF Pubs, MediaOf

\* What the worker has in hand.
LEMMA JobTypes ==
    ASSUME Types, NEW w \in Workers, wpc[w] # "idle"
    PROVE  job[w] \in Jobs /\ job[w].pub \in Pubs /\ job[w].attempts \in Nat /\ job[w].path \in Paths
BY Zenon DEF Types, JobRefs, Jobs

\* A worker that is done with its job.
LEMMA IdleTypes ==
    ASSUME Types, NEW w \in Workers, Idle(w)
    PROVE  /\ job' \in [Workers -> Jobs \cup {NoJob}]
           /\ wpc' \in [Workers -> {"idle", "giveup", "defer", "call", "record",
                                    "release", "lock", "swap", "remove"}]
           /\ outcome' \in [Workers -> Outcomes \cup {"none"}]
           /\ newSession' \in [Workers -> Sessions]
           /\ JobRefs'
BY ZenonT(60) DEF Types, TypeOK, Idle, JobRefs, Sessions

\* The failures counted stay within their bound.
LEMMA FaultTypes == ASSUME faults \in 0..MaxFaults, Fault PROVE faults' \in 0..MaxFaults
BY SMT, MediaAssumption DEF Fault

\* A worker that goes on to release the file of its job.
LEMMA OnwardTypes ==
    ASSUME Types, NEW w \in Workers, job[w] \in Jobs, job[w].path \in Media,
           NEW a \in {"release", "lock", "swap", "remove"}, wpc' = [wpc EXCEPT ![w] = a], job' = job
    PROVE  /\ wpc' \in [Workers -> {"idle", "giveup", "defer", "call", "record",
                                    "release", "lock", "swap", "remove"}]
           /\ JobRefs'
<1>1. wpc' \in [Workers -> {"idle", "giveup", "defer", "call", "record", "release", "lock", "swap", "remove"}]
  BY Zenon DEF Types, TypeOK
<1>2. DOMAIN wpc = Workers /\ JobRefs
  BY Zenon DEF Types, TypeOK
<1>3. ASSUME NEW v \in Workers
      PROVE  /\ wpc'[v] # "idle" => job'[v] \in Jobs
             /\ wpc'[v] \in {"release", "lock", "swap", "remove"} => job'[v].path \in Media
  <2>1. CASE v = w
    BY Zenon, <2>1
  <2>2. CASE v # w
    <3>1. wpc'[v] = wpc[v] /\ job'[v] = job[v]
      BY Zenon, <1>2, <2>2
    <3> QED BY ONLY Zenon, <1>2, <3>1 DEF JobRefs
  <2> QED BY Zenon, <2>1, <2>2
<1> QED BY Zenon, <1>1, <1>3 DEF JobRefs

\* The answer of a destination.
LEMMA AnswerTypes ==
    ASSUME Types, NEW w \in Workers, wpc[w] = "call", NEW r \in Outcomes, Answer(w, r), job' = job
    PROVE  /\ wpc' \in [Workers -> {"idle", "giveup", "defer", "call", "record",
                                    "release", "lock", "swap", "remove"}]
           /\ outcome' \in [Workers -> Outcomes \cup {"none"}]
           /\ calls' \in [Pubs -> Nat] /\ faults' \in 0..MaxFaults
           /\ JobRefs'
<1>1. job[w].pub \in Pubs /\ calls[job[w].pub] \in Nat
  BY Zenon, JobTypes DEF Types, TypeOK
<1>2. faults' \in 0..MaxFaults
  BY MediaAssumption DEF Answer, Fault, Types, TypeOK, LibraryTypeOK
<1> QED BY <1>1, <1>2 DEF Types, TypeOK, Answer, JobRefs

\* Every step of a worker keeps the types.
LEMMA WorkTypes ==
    ASSUME Types, NEW w \in Workers, Work(w)
    PROVE  Types'
<1> USE MediaAssumption, PublisherAssumption DEF TypeOK, LibraryTypeOK
<1>1. CASE ClaimDue(w)
  <2>1. PICK S \in SUBSET {p \in Pubs : Due(p)} :
          LET back == {p \in S : status[p] = "uploading"}
          IN  /\ attempts' = [p \in Pubs |-> IF p \in S THEN attempts[p] + InterruptedAttempt(p)
                                                       ELSE attempts[p]]
              /\ reclaims' = [p \in Pubs |-> IF p \in back THEN reclaims[p] + 1 ELSE reclaims[p]]
              /\ batch' = [batch EXCEPT ![w] =
                    {[pub |-> p, attempts |-> attempts'[p], interrupted |-> p \in back,
                      path |-> storagePath[MediaOf(p)]] : p \in S}]
              /\ status' = [p \in Pubs |-> IF p \in S THEN "uploading" ELSE status[p]]
              /\ nextAttempt' = [p \in Pubs |-> IF p \in S THEN "future" ELSE nextAttempt[p]]
    BY Zenon, <1>1 DEF ClaimDue
  <2>2. attempts' \in [Pubs -> Nat] /\ reclaims' \in [Pubs -> Nat]
    BY <2>1 DEF Types, InterruptedAttempt
  <2> DEFINE claimed == {[pub |-> p, attempts |-> attempts'[p],
                          interrupted |-> p \in {q \in S : status[q] = "uploading"},
                          path |-> storagePath[MediaOf(p)]] : p \in S}
  <2>3. claimed \subseteq Jobs
    <3> SUFFICES ASSUME NEW p \in S
                 PROVE  [pub |-> p, attempts |-> attempts'[p],
                         interrupted |-> p \in {q \in S : status[q] = "uploading"},
                         path |-> storagePath[MediaOf(p)]] \in Jobs
      OBVIOUS
    <3>1. p \in Pubs /\ attempts'[p] \in Nat /\ storagePath[MediaOf(p)] \in Paths
      BY ZenonT(60), <2>2, PubMedia DEF Types
    <3> QED BY <3>1 DEF Jobs
  <2>4. batch' = [batch EXCEPT ![w] = claimed]
    BY Zenon, <2>1
  <2> HIDE DEF claimed
  <2>5. batch' \in [Workers -> SUBSET Jobs]
    BY Zenon, <2>3, <2>4 DEF Types
  <2> QED BY ZenonT(30), <1>1, <2>1, <2>2, <2>5 DEF ClaimDue, Types, LibraryRefs, JobRefs
<1>2. ASSUME NEW j \in batch[w], StartJob(w, j) PROVE Types'
  <2>1. j \in Jobs
    BY Zenon DEF Types
  <2> QED BY <1>2, <2>1 DEF StartJob, Types, LibraryRefs, JobRefs
<1>3. CASE Telegram(w)
  BY Zenon, <1>3, AnswerTypes DEF Telegram, Types, LibraryRefs
<1>4. CASE YouTube(w)
  <2>1. /\ wpc[w] = "call" /\ job' = job /\ job[w].pub \in Pubs
        /\ videos[job[w].pub] \in Nat
    BY Zenon, <1>4, JobTypes DEF YouTube, Types
  <2>2. \A u \in Uploads(w) : u[1] \in Outcomes /\ u[2] \in Sessions
    BY ONLY SMT DEF Uploads, Outcomes, Sessions
  <2>3. PICK r \in Outcomes : Answer(w, r)
    <3>1. "linked" \in Outcomes /\ {"retry", "quota", "reject"} \subseteq Outcomes
      BY ONLY Zenon DEF Outcomes
    <3> QED BY ONLY Zenon, <1>4, <2>2, <3>1 DEF YouTube, YouTubeFails, FindUploaded, ResumeUpload, UploadAnew
  <2>4. /\ session' = session \/ \E s \in Sessions : session' = [session EXCEPT ![job[w].pub] = s]
        /\ newSession' = newSession \/ \E s \in Sessions : newSession' = [newSession EXCEPT ![w] = s]
    BY ONLY Zenon, <1>4, <2>2 DEF YouTube, YouTubeFails, FindUploaded, ResumeUpload, UploadAnew
  <2>5. videos' = videos \/ \E n \in {0, 1} : videos' = [videos EXCEPT ![job[w].pub] = @ + n]
    BY ONLY SMT, <1>4 DEF YouTube, YouTubeFails, FindUploaded, ResumeUpload, UploadAnew
  <2>6. videos' \in [Pubs -> Nat]
    <3>1. videos \in [Pubs -> Nat]
      BY Zenon DEF Types
    <3> QED BY ONLY SMT, <2>1, <2>5, <3>1
  <2>7. session' \in [Pubs -> Sessions] /\ newSession' \in [Workers -> Sessions]
    <3>1. session \in [Pubs -> Sessions] /\ newSession \in [Workers -> Sessions]
      BY Zenon DEF Types
    <3> QED BY ONLY Zenon, <2>4, <3>1
  <2>8. /\ wpc' \in [Workers -> {"idle", "giveup", "defer", "call", "record",
                                "release", "lock", "swap", "remove"}]
        /\ outcome' \in [Workers -> Outcomes \cup {"none"}]
        /\ calls' \in [Pubs -> Nat] /\ faults' \in 0..MaxFaults
        /\ JobRefs'
    BY Zenon, <2>1, <2>3, AnswerTypes
  <2>9. UNCHANGED <<row, storagePath, files, lock, uploads, deletes, leaked,
                    status, attempts, nextAttempt, reclaims, post, batch, job>>
    BY ONLY Zenon, <1>4 DEF YouTube
  <2>10. TypeOK /\ LibraryRefs
    BY Zenon DEF Types
  <2> QED BY ONLY Zenon, <2>6, <2>7, <2>8, <2>9, <2>10 DEF Types, TypeOK, LibraryTypeOK, LibraryRefs
<1>5. CASE MarkPublished(w)
  <2>1. CASE Idle(w)
    BY Zenon, <1>5, <2>1, IdleTypes DEF MarkPublished, SetStatus, Types, LibraryRefs, Sessions
  <2>2. CASE /\ job[w].path # None /\ wpc' = [wpc EXCEPT ![w] = "release"]
             /\ UNCHANGED <<job, outcome, newSession>>
    <3>1. job[w] \in Jobs /\ job[w].path \in Media
      BY Zenon, <1>5, <2>2, JobTypes DEF MarkPublished, Paths
    <3>2. JobRefs'
      BY Zenon, <2>2, <3>1, OnwardTypes
    <3> QED BY Zenon, <1>5, <2>2, <3>2 DEF MarkPublished, SetStatus, Types, LibraryRefs, Sessions
  <2> QED BY Zenon, <1>5, <2>1, <2>2 DEF MarkPublished
<1>6. CASE MarkRetry(w)
  <2>1. job[w].pub \in Pubs /\ job[w].attempts \in Nat
    BY Zenon, <1>6, JobTypes DEF MarkRetry
  <2>2. AttemptsAfter(w) \in Nat
    BY ONLY SMT, <2>1 DEF AttemptsAfter
  <2>3. SessionPatch(w) \in Sessions
    BY ZenonT(30), <2>1 DEF SessionPatch, Types
  <2> QED BY Zenon, <1>6, <2>2, <2>3, IdleTypes DEF MarkRetry, SetStatus, Types, LibraryRefs
<1>7. CASE MarkFailed(w)
  <2>1. job[w].attempts \in Nat
    BY Zenon, <1>7, JobTypes DEF MarkFailed
  <2>2. AttemptsAfter(w) \in Nat
    BY ONLY SMT, <2>1 DEF AttemptsAfter
  <2>3. attempts' \in [Pubs -> Nat]
    <3>1. \E n \in Nat : attempts' = [attempts EXCEPT ![job[w].pub] = n]
      BY ONLY Zenon, <1>7, <2>1, <2>2 DEF MarkFailed
    <3>2. attempts \in [Pubs -> Nat]
      BY Zenon DEF Types
    <3> QED BY ONLY Zenon, <3>1, <3>2
  <2>4. /\ Idle(w) /\ SetStatus(job[w].pub, "failed", "null")
        /\ session' = [session EXCEPT ![job[w].pub] = "none"]
        /\ UNCHANGED <<library, history, post, batch>>
    BY ONLY Zenon, <1>7 DEF MarkFailed
  <2> QED BY Zenon, <2>3, <2>4, IdleTypes DEF SetStatus, Types, LibraryRefs, Sessions
<1>8. CASE DeferUnconfigured(w)
  BY ZenonT(30), <1>8, IdleTypes DEF DeferUnconfigured, SetStatus, Types, LibraryRefs
<1>9. CASE CheckPending(w)
  <2>1. CASE Idle(w)
    BY Zenon, <1>9, <2>1, IdleTypes DEF CheckPending, Types, LibraryRefs
  <2>2. CASE wpc' = [wpc EXCEPT ![w] = "lock"] /\ UNCHANGED <<job, outcome, newSession>>
    <3>1. job[w] \in Jobs /\ job[w].path \in Media
      BY Zenon, <1>9 DEF CheckPending, Types, JobRefs
    <3> QED BY Zenon, <1>9, <2>2, <3>1, OnwardTypes DEF CheckPending, Types, LibraryRefs
  <2> QED BY Zenon, <1>9, <2>1, <2>2 DEF CheckPending
<1>10. CASE LockForRelease(w)
  <2>1. CASE Idle(w) /\ UNCHANGED lock
    BY Zenon, <1>10, <2>1, IdleTypes DEF LockForRelease, Types, LibraryRefs
  <2>2. CASE /\ lock' = [lock EXCEPT ![job[w].path] = w] /\ wpc' = [wpc EXCEPT ![w] = "swap"]
             /\ UNCHANGED <<job, outcome, newSession>>
    <3>1. job[w] \in Jobs /\ job[w].path \in Media
      BY Zenon, <1>10 DEF LockForRelease, Types, JobRefs
    <3>2. lock' \in [Media -> Actors \cup {NoOne}]
      BY Zenon, <2>2, <3>1 DEF Types, Actors
    <3> QED BY Zenon, <1>10, <2>2, <3>1, <3>2, OnwardTypes DEF LockForRelease, Types, LibraryRefs
  <2> QED BY Zenon, <1>10, <2>1, <2>2 DEF LockForRelease
<1>11. CASE SwapForLink(w)
  <2>1. lock' \in [Media -> Actors \cup {NoOne}]
    BY ZenonT(30), <1>11 DEF SwapForLink, Unlocked, Types
  <2>2. CASE Idle(w) /\ UNCHANGED storagePath
    BY Zenon, <1>11, <2>1, <2>2, IdleTypes DEF SwapForLink, Types, LibraryRefs
  <2>3. CASE /\ storagePath' = [storagePath EXCEPT ![MediaOf(job[w].pub)] = None]
             /\ wpc' = [wpc EXCEPT ![w] = "remove"] /\ UNCHANGED <<job, outcome, newSession>>
    <3>1. job[w] \in Jobs /\ job[w].path \in Media
      BY Zenon, <1>11 DEF SwapForLink, Types, JobRefs
    <3>2. storagePath' \in [Media -> Paths]
      BY Zenon, <2>3 DEF Types, Paths
    <3> QED BY Zenon, <1>11, <2>1, <2>3, <3>1, <3>2, OnwardTypes DEF SwapForLink, Types, LibraryRefs
  <2> QED BY Zenon, <1>11, <2>2, <2>3 DEF SwapForLink
<1>12. CASE RemoveReleased(w)
  <2>1. job[w].path \in Media
    BY Zenon, <1>12 DEF RemoveReleased, Types, JobRefs
  <2>2. files' \subseteq Media /\ leaked' \subseteq Media
    <3>1. files \subseteq Media /\ leaked \subseteq Media
      BY Zenon DEF Types
    <3> QED BY ONLY Zenon, <1>12, <2>1, <3>1 DEF RemoveReleased
  <2>3. faults' \in 0..MaxFaults
    BY ZenonT(30), <1>12, FaultTypes DEF RemoveReleased, Types
  <2> QED BY Zenon, <1>12, <2>2, <2>3, IdleTypes DEF RemoveReleased, Types, LibraryRefs
<1> QED
  BY Zenon, <1>1, <1>2, <1>3, <1>4, <1>5, <1>6, <1>7, <1>8, <1>9, <1>10, <1>11, <1>12 DEF Work

LEMMA InitTypes == Init => Types
BY MediaAssumption, PublisherAssumption
   DEF Init, LibraryInit, Types, TypeOK, LibraryTypeOK, LibraryRefs, JobRefs, Paths, Actors, Sessions

\* Every step keeps the types.
LEMMA StepTypes ==
    ASSUME Types, [Next]_vars
    PROVE  Types'
<1> USE MediaAssumption, PublisherAssumption DEF TypeOK, LibraryTypeOK
<1>1. CASE LibraryNext /\ UNCHANGED pubVars
  <2>1. LibraryTypes'
    BY Zenon, <1>1, LibraryStepTypes DEF LibraryTypes, Types
  <2> QED BY Zenon, <1>1, <2>1 DEF LibraryTypes, Types, JobRefs
<1>2. ASSUME NEW q \in Posts, NEW m \in Media, LoadForPost(q, m) PROVE Types'
  BY Zenon, <1>2 DEF LoadForPost, Types, LibraryRefs, JobRefs, Paths
<1>3. ASSUME NEW q \in Posts, InsertPublications(q) PROVE Types'
  <2>1. /\ status' \in [Pubs -> {"absent", "queued", "uploading", "published", "failed"}]
        /\ attempts' \in [Pubs -> Nat] /\ nextAttempt' \in [Pubs -> {"null", "future", "due"}]
        /\ session' \in [Pubs -> Sessions]
        /\ videos' \in [Pubs -> Nat] /\ calls' \in [Pubs -> Nat] /\ reclaims' \in [Pubs -> Nat]
    <3>1. PICK D \in SUBSET Destinations :
            \/ /\ status' = [p \in Pubs |-> IF p \in {post[q]} \X D THEN "queued" ELSE status[p]]
               /\ attempts' = [p \in Pubs |-> IF p \in {post[q]} \X D THEN 0 ELSE attempts[p]]
               /\ nextAttempt' = [p \in Pubs |-> IF p \in {post[q]} \X D THEN "due" ELSE nextAttempt[p]]
               /\ session' = [p \in Pubs |-> IF p \in {post[q]} \X D THEN "none" ELSE session[p]]
               /\ videos' = [p \in Pubs |-> IF p \in {post[q]} \X D THEN 0 ELSE videos[p]]
               /\ calls' = [p \in Pubs |-> IF p \in {post[q]} \X D THEN 0 ELSE calls[p]]
               /\ reclaims' = [p \in Pubs |-> IF p \in {post[q]} \X D THEN 0 ELSE reclaims[p]]
            \/ UNCHANGED <<rows, history>>
      BY <1>3, Zenon DEF InsertPublications
    <3> QED BY <3>1 DEF Types, Sessions
  <2> QED BY Zenon, <1>3, <2>1 DEF InsertPublications, Types, LibraryRefs, JobRefs
<1>4. ASSUME NEW p \in Pubs, DeletePublication(p) PROVE Types'
  BY Zenon, <1>4 DEF DeletePublication, Types, LibraryRefs, JobRefs
<1>5. ASSUME NEW p \in Pubs, NextAttemptComes(p) PROVE Types'
  BY Zenon, <1>5 DEF NextAttemptComes, Types, LibraryRefs, JobRefs
<1>6. ASSUME NEW w \in Workers, Work(w) PROVE Types'
  BY Zenon, <1>6, WorkTypes
<1>7. ASSUME NEW w \in Workers, BookkeepingFails(w) PROVE Types'
  <2>1. faults' \in 0..MaxFaults
    BY Zenon, <1>7, FaultTypes DEF BookkeepingFails, Types
  <2>2. lock' \in [Media -> Actors \cup {NoOne}]
    BY ZenonT(30), <1>7 DEF BookkeepingFails, Unlocked, Types
  <2> QED BY Zenon, <1>7, <2>1, <2>2, IdleTypes DEF BookkeepingFails, Types, LibraryRefs
<1>8. ASSUME NEW w \in Workers, WorkerCrash(w) PROVE Types'
  <2>1. faults' \in 0..MaxFaults
    BY Zenon, <1>8, FaultTypes DEF WorkerCrash, Types
  <2>2. lock' \in [Media -> Actors \cup {NoOne}]
    BY ZenonT(30), <1>8 DEF WorkerCrash, Unlocked, Types
  <2>3. leaked' \subseteq Media
    <3>1. leaked \subseteq Media /\ (wpc[w] = "remove" => job[w].path \in Media)
      BY Zenon DEF Types, JobRefs
    <3> QED BY ONLY Zenon, <1>8, <3>1 DEF WorkerCrash
  <2>4. batch' \in [Workers -> SUBSET Jobs]
    BY Zenon, <1>8 DEF WorkerCrash, Types
  <2> QED BY Zenon, <1>8, <2>1, <2>2, <2>3, <2>4, IdleTypes DEF WorkerCrash, Types, LibraryRefs
<1>9. CASE UNCHANGED vars
  BY Zenon, <1>9 DEF vars, Types, LibraryRefs, JobRefs
<1> QED BY Zenon, <1>1, <1>2, <1>3, <1>4, <1>5, <1>6, <1>7, <1>8, <1>9 DEF Next

\* Whatever the requests and the workers do, the tables and their own state keep
\* their types.  A path that is locked, released or removed is a path of the library,
\* and the attempts of a row never go below zero.
THEOREM TypeCorrect == Spec => []TypeOK
<1>1. Types /\ [Next]_vars => Types'
  BY Zenon, StepTypes
<1>2. Types => TypeOK
  BY Zenon DEF Types
<1> QED BY <1>1, <1>2, InitTypes, PTL DEF Spec

-----------------------------------------------------------------------------
(* The files *)

\* An upload whose transaction is still to commit.
Uncommitted(m) == upload[m] \in {"new", "stored", "found", "share", "own"}

\* A path that somebody has read.
Known(f) ==
    \/ \E x \in Media : storagePath[x] = f \/ dedupPath[x] = f
    \/ \E d \in Deletes : delPath[d] = f
    \/ \E w \in Workers : job[w].path = f \/ \E j \in batch[w] : j.path = f

\* Nobody knows the file of an upload that has not committed, and it is on disk
\* from the moment it is stored.
OwnFile ==
    \A m \in Media : Uncommitted(m) =>
        row[m] = "absent" /\ (upload[m] # "new" => m \in files) /\ ~Known(m)

\* Who is about to share a file holds its lock, and the file is in use.
Sharing ==
    \A m \in Media : upload[m] = "share" =>
        dedupPath[m] \in Media /\ lock[dedupPath[m]] = m /\ InUse(dedupPath[m], None)

\* No row points at the file of an upload that is about to remove it.
Trimming == \A m \in Media : upload[m] = "trim" => ~InUse(m, None)

\* A DELETE that has asked who uses the file holds its lock until it commits, and
\* removes a file that no row points at.
DeleteSafe(d) ==
    /\ del[d] \in {"loaded", "shared", "last"} =>
          ~Uncommitted(target[d]) /\ storagePath[target[d]] \in {delPath[d], None}
    /\ del[d] \in {"shared", "last"} => lock[delPath[d]] = d
    /\ del[d] = "last" => ~InUse(delPath[d], target[d])
    /\ del[d] = "remove" => ~InUse(delPath[d], None)
Deleting == \A d \in Deletes : DeleteSafe(d)

\* A DELETE that will leave the file alone leaves it to another row.
Leaving == \A d \in Deletes : del[d] = "shared" => InUse(delPath[d], target[d])

\* A worker that releases a file holds its lock until storage_path has given way,
\* and removes a file that no row points at.
ReleaseSafe(w) ==
    /\ wpc[w] = "swap" => lock[job[w].path] = w /\ ~InUse(job[w].path, MediaOf(job[w].pub))
    /\ wpc[w] = "remove" => ~InUse(job[w].path, None)
Releasing == \A w \in Workers : ReleaseSafe(w)

\* Why a file is on disk: a row points at it, somebody is still to record or to
\* remove it, or its removal was cut short.
Kept(f) ==
    \/ f \in leaked
    \/ \E x \in Media : Active(x) /\ storagePath[x] = f
    \/ f \in Unrecorded
    \/ \E d \in Deletes : del[d] = "remove" /\ delPath[d] = f
    \/ \E w \in Workers : wpc[w] = "remove" /\ job[w].path = f
Accounted == \A f \in files : Kept(f)

FileInv == /\ OwnFile /\ Sharing /\ Trimming /\ Deleting /\ Leaving /\ Releasing
           /\ StoredBytesExist /\ Accounted

\* The part of the types that the files depend on.
FileTypes ==
    /\ LibraryTypes
    /\ \A w \in Workers :
          /\ job[w].path \in Paths /\ \A j \in batch[w] : j.path \in Paths
          /\ wpc[w] \in {"lock", "swap", "remove"} => job[w].path \in Media

\* Who holds a lock keeps it while others move: a step of a only takes free locks
\* and frees locks of a.
LocksOf(a) == \A f \in Media : lock'[f] = lock[f] \/ lock[f] \in {NoOne, a}

\* No row comes to point at a file.
Shrinks ==
    \A m \in Media : (row'[m] = "active" => row[m] = "active") /\ storagePath'[m] \in {storagePath[m], None}

\* No active row stops pointing at a file.
Grows ==
    \A m \in Media : row[m] = "active" => row'[m] = "active" /\ storagePath'[m] = storagePath[m]

LEMMA Distinct ==
    /\ None \notin Media /\ NoOne \notin Media /\ NoOne \notin Deletes /\ NoOne \notin Workers
    /\ Media \cap Deletes = {} /\ Media \cap Workers = {} /\ Deletes \cap Workers = {}
BY Zenon, MediaAssumption DEF Actors

LEMMA Steady == ASSUME UNCHANGED <<row, storagePath>> PROVE Shrinks /\ Grows
BY Zenon DEF Shrinks, Grows

LEMMA NoNewUse ==
    ASSUME Shrinks, NEW f \in Media, NEW e, ~InUse(f, e)
    PROVE  ~InUse(f, e)'
<1>1. f # None
  BY ONLY Zenon, MediaAssumption, f \in Media
<1> QED BY ONLY Zenon, <1>1, Shrinks, ~InUse(f, e) DEF Shrinks, InUse, Active

LEMMA OwnFileKept ==
    ASSUME OwnFile,
           \A m \in Media : Uncommitted(m)' =>
               /\ Uncommitted(m) /\ row'[m] = row[m] /\ (Known(m)' => Known(m))
               /\ m \in files' \/ (upload'[m] = upload[m] /\ (m \in files => m \in files'))
    PROVE  OwnFile'
BY Zenon DEF OwnFile

LEMMA SharingKept ==
    ASSUME Sharing, NEW a, LocksOf(a), UNCHANGED <<row, storagePath>>,
           \A m \in Media : upload'[m] = "share" =>
               upload[m] = "share" /\ m # a /\ dedupPath'[m] = dedupPath[m]
    PROVE  Sharing'
<1> SUFFICES ASSUME NEW m \in Media, upload'[m] = "share"
             PROVE  (dedupPath[m] \in Media /\ lock[dedupPath[m]] = m /\ InUse(dedupPath[m], None))'
  BY Zenon DEF Sharing
<1>1. /\ m # a /\ dedupPath'[m] = dedupPath[m] /\ dedupPath[m] \in Media /\ lock[dedupPath[m]] = m
      /\ InUse(dedupPath[m], None)
  BY Zenon DEF Sharing
<1>2. InUse(dedupPath[m], None)'
  BY ONLY Zenon, <1>1, UNCHANGED <<row, storagePath, None>> DEF InUse, Active
<1> QED BY Zenon, Distinct, <1>1, <1>2 DEF LocksOf

LEMMA TrimmingKept ==
    ASSUME Trimming, Shrinks, \A m \in Media : upload'[m] = "trim" => upload[m] = "trim"
    PROVE  Trimming'
BY Zenon, NoNewUse DEF Trimming

LEMMA DeleteSafeKept ==
    ASSUME NEW d \in Deletes, DeleteSafe(d), LibraryRefs, Shrinks, NEW a, a # d, LocksOf(a),
           \A m \in Media : Uncommitted(m)' => Uncommitted(m),
           del'[d] = del[d], target'[d] = target[d], delPath'[d] = delPath[d]
    PROVE  DeleteSafe(d)'
<1>1. del'[d] = del[d] /\ target'[d] = target[d] /\ delPath'[d] = delPath[d]
  OBVIOUS
<1>2. /\ del[d] \in {"loaded", "shared", "last"} => target[d] \in Media
      /\ del[d] \in {"shared", "last", "remove"} => delPath[d] \in Media
  BY Zenon DEF LibraryRefs
<1>3. /\ del[d] \in {"loaded", "shared", "last"} =>
            ~Uncommitted(target[d]) /\ storagePath[target[d]] \in {delPath[d], None}
      /\ del[d] \in {"shared", "last"} => lock[delPath[d]] = d
      /\ del[d] = "last" => ~InUse(delPath[d], target[d])
      /\ del[d] = "remove" => ~InUse(delPath[d], None)
  BY Zenon DEF DeleteSafe
<1>4. (del[d] \in {"loaded", "shared", "last"} =>
          ~Uncommitted(target[d]) /\ storagePath[target[d]] \in {delPath[d], None})'
  <2>1. del[d] \in {"loaded", "shared", "last"} => ~(Uncommitted(target[d])')
    BY Zenon, <1>1, <1>2, <1>3 DEF Uncommitted
  <2>2. del[d] \in {"loaded", "shared", "last"} => storagePath'[target[d]] \in {delPath[d], None}
    BY ONLY Zenon, <1>2, <1>3, Shrinks DEF Shrinks
  <2> QED BY ONLY Zenon, <1>1, <2>1, <2>2
<1>5. (del[d] \in {"shared", "last"} => lock[delPath[d]] = d)'
  BY ONLY Zenon, LocksOf(a), Distinct, d \in Deletes, a # d, <1>1, <1>2, <1>3 DEF LocksOf
<1>6. (del[d] = "last" => ~InUse(delPath[d], target[d]))'
  BY ONLY Zenon, <1>1, <1>2, <1>3, Shrinks, Distinct DEF Shrinks, InUse, Active
<1>7. (del[d] = "remove" => ~InUse(delPath[d], None))'
  BY ONLY Zenon, <1>1, <1>2, <1>3, Shrinks, Distinct DEF Shrinks, InUse, Active
<1> QED BY Zenon, <1>4, <1>5, <1>6, <1>7 DEF DeleteSafe

LEMMA DeletingKept ==
    ASSUME Deleting, LibraryRefs, Shrinks, NEW a, LocksOf(a),
           \A m \in Media : Uncommitted(m)' => Uncommitted(m),
           \A d \in Deletes : del'[d] \in {"loaded", "shared", "last", "remove"} =>
               d # a /\ del'[d] = del[d] /\ target'[d] = target[d] /\ delPath'[d] = delPath[d]
    PROVE  Deleting'
<1> SUFFICES ASSUME NEW d \in Deletes PROVE DeleteSafe(d)'
  BY Zenon DEF Deleting
<1>1. CASE del'[d] \in {"loaded", "shared", "last", "remove"}
  BY Zenon, <1>1, DeleteSafeKept DEF Deleting
<1>2. CASE del'[d] \notin {"loaded", "shared", "last", "remove"}
  BY ONLY Zenon, <1>2 DEF DeleteSafe
<1> QED BY Zenon, <1>1, <1>2

LEMMA LeavingKept ==
    ASSUME Leaving, Grows,
           \A d \in Deletes : del'[d] = "shared" =>
               del[d] = "shared" /\ target'[d] = target[d] /\ delPath'[d] = delPath[d]
    PROVE  Leaving'
<1> SUFFICES ASSUME NEW d \in Deletes, del'[d] = "shared" PROVE InUse(delPath[d], target[d])'
  BY Zenon DEF Leaving
<1>1. target'[d] = target[d] /\ delPath'[d] = delPath[d] /\ InUse(delPath[d], target[d])
  BY Zenon DEF Leaving
<1> QED BY ONLY Zenon, <1>1, Grows DEF Grows, InUse, Active

LEMMA ReleaseSafeKept ==
    ASSUME NEW w \in Workers, ReleaseSafe(w), FileTypes, Shrinks, NEW a, a # w, LocksOf(a),
           wpc'[w] = wpc[w], job'[w] = job[w]
    PROVE  ReleaseSafe(w)'
<1>1. wpc'[w] = wpc[w] /\ job'[w] = job[w]
  OBVIOUS
<1>2. /\ wpc[w] \in {"swap", "remove"} => job[w].path \in Media
      /\ wpc[w] = "swap" => lock[job[w].path] = w /\ ~InUse(job[w].path, MediaOf(job[w].pub))
      /\ wpc[w] = "remove" => ~InUse(job[w].path, None)
  BY Zenon DEF ReleaseSafe, FileTypes
<1>3. (wpc[w] = "swap" => lock[job[w].path] = w)'
  BY ONLY Zenon, <1>1, <1>2, LocksOf(a), Distinct, w \in Workers, a # w DEF LocksOf
<1>4. (wpc[w] = "swap" => ~InUse(job[w].path, MediaOf(job[w].pub)))'
  BY ONLY Zenon, <1>1, <1>2, Shrinks, Distinct DEF Shrinks, InUse, Active, MediaOf
<1>5. (wpc[w] = "remove" => ~InUse(job[w].path, None))'
  BY ONLY Zenon, <1>1, <1>2, Shrinks, Distinct DEF Shrinks, InUse, Active
<1> QED BY Zenon, <1>3, <1>4, <1>5 DEF ReleaseSafe

LEMMA ReleasingKept ==
    ASSUME FileTypes, Releasing, Shrinks, NEW a, LocksOf(a),
           \A w \in Workers : wpc'[w] \in {"swap", "remove"} => w # a /\ wpc'[w] = wpc[w] /\ job'[w] = job[w]
    PROVE  Releasing'
<1> SUFFICES ASSUME NEW w \in Workers PROVE ReleaseSafe(w)'
  BY Zenon DEF Releasing
<1>1. CASE wpc'[w] \in {"swap", "remove"}
  BY Zenon, <1>1, ReleaseSafeKept DEF Releasing
<1>2. CASE wpc'[w] \notin {"swap", "remove"}
  BY ONLY Zenon, <1>2 DEF ReleaseSafe
<1> QED BY Zenon, <1>1, <1>2

\* A file stays accounted for when each reason for it stays, or gives way to another one.
LEMMA AccountedMoved ==
    ASSUME Accounted, leaked \subseteq leaked',
           \A f \in files' : f \in files \/ Kept(f)',
           \A f \in files' : (\E m \in Media : Active(m) /\ storagePath[m] = f) => Kept(f)',
           \A f \in files' : f \in Unrecorded => f \in Unrecorded' \/ Kept(f)',
           \A d \in Deletes : del[d] = "remove" =>
               (del'[d] = "remove" /\ delPath'[d] = delPath[d]) \/ delPath[d] \in leaked' \/ delPath[d] \notin files',
           \A w \in Workers : wpc[w] = "remove" =>
               (wpc'[w] = "remove" /\ job'[w] = job[w]) \/ job[w].path \in leaked' \/ job[w].path \notin files'
    PROVE  Accounted'
<1> SUFFICES ASSUME NEW f \in files' PROVE Kept(f)'
  BY Zenon DEF Accounted
<1>1. CASE f \in leaked \/ f \in Unrecorded \/ f \notin files
  BY Zenon, <1>1 DEF Kept
<1>2. CASE \E x \in Media : Active(x) /\ storagePath[x] = f
  BY Zenon, <1>2
<1>3. ASSUME NEW d \in Deletes, del[d] = "remove", delPath[d] = f PROVE Kept(f)'
  <2>1. (del'[d] = "remove" /\ delPath'[d] = f) \/ f \in leaked'
    BY Zenon, <1>3
  <2> QED BY ONLY Zenon, <2>1, d \in Deletes DEF Kept
<1>4. ASSUME NEW w \in Workers, wpc[w] = "remove", job[w].path = f PROVE Kept(f)'
  <2>1. (wpc'[w] = "remove" /\ job'[w] = job[w]) \/ f \in leaked'
    BY Zenon, <1>4
  <2> QED BY ONLY Zenon, <2>1, <1>4 DEF Kept
<1> QED BY Zenon, <1>1, <1>2, <1>3, <1>4 DEF Accounted, Kept

LEMMA AccountedKept ==
    ASSUME Accounted, Grows, leaked \subseteq leaked',
           \A f \in files' : f \in files \/ Kept(f)',
           \A f \in files' : f \in Unrecorded => f \in Unrecorded' \/ Kept(f)',
           \A d \in Deletes : del[d] = "remove" =>
               (del'[d] = "remove" /\ delPath'[d] = delPath[d]) \/ delPath[d] \in leaked' \/ delPath[d] \notin files',
           \A w \in Workers : wpc[w] = "remove" =>
               (wpc'[w] = "remove" /\ job'[w] = job[w]) \/ job[w].path \in leaked' \/ job[w].path \notin files'
    PROVE  Accounted'
<1>1. \A f \in files' : (\E m \in Media : Active(m) /\ storagePath[m] = f) => Kept(f)'
  BY ONLY ZenonT(30), Grows DEF Grows, Kept, Active
<1> QED BY Zenon, <1>1, AccountedMoved

LEMMA KnownKept ==
    ASSUME UNCHANGED <<storagePath, dedupPath, delPath, batch, job>>, NEW f
    PROVE  Known(f)' <=> Known(f)
BY Zenon DEF Known

\* A step of the upload m that writes no row leaves the DELETEs and the workers alone.
LEMMA UploadStep ==
    ASSUME FileTypes, FileInv, NEW m \in Media, LocksOf(m), Uncommitted(m)' => Uncommitted(m),
           \A x \in Media : x # m => upload'[x] = upload[x],
           UNCHANGED <<row, storagePath, del, target, delPath, job, wpc>>
    PROVE  Deleting' /\ Leaving' /\ Releasing'
<1>0. Shrinks /\ Grows
  BY Zenon, Steady
<1>1. Deleting /\ Leaving /\ Releasing /\ LibraryRefs
  BY Zenon DEF FileInv, FileTypes, LibraryTypes
<1>2. \A x \in Media : Uncommitted(x)' => Uncommitted(x)
  BY Zenon DEF Uncommitted
<1>3. \A d \in Deletes : d # m
  BY ONLY Zenon, Distinct, m \in Media
<1>4. \A w \in Workers : w # m
  BY ONLY Zenon, Distinct, m \in Media
<1>5. Deleting'
  BY Zenon, <1>0, <1>1, <1>2, <1>3, DeletingKept
<1>6. Leaving'
  BY Zenon, <1>0, <1>1, LeavingKept
<1>7. Releasing'
  BY Zenon, <1>0, <1>1, <1>4, ReleasingKept
<1> QED BY Zenon, <1>5, <1>6, <1>7

\* A step of a DELETE that writes no row leaves the uploads and the workers alone.
LEMMA DeleteStep ==
    ASSUME FileTypes, FileInv, NEW d \in Deletes, LocksOf(d),
           UNCHANGED <<row, storagePath, upload, dedupPath, job, wpc>>
    PROVE  Sharing' /\ Trimming' /\ Releasing'
<1>0. Shrinks /\ Grows
  BY Zenon, Steady
<1>1. Sharing /\ Trimming /\ Releasing
  BY Zenon DEF FileInv
<1>2. \A m \in Media : m # d
  BY ONLY Zenon, Distinct, d \in Deletes
<1>3. \A w \in Workers : w # d
  BY ONLY Zenon, Distinct, d \in Deletes
<1>4. Sharing'
  BY Zenon, <1>1, <1>2, SharingKept
<1>5. Trimming'
  BY Zenon, <1>0, <1>1, TrimmingKept
<1>6. Releasing'
  BY Zenon, <1>0, <1>1, <1>3, ReleasingKept
<1> QED BY Zenon, <1>4, <1>5, <1>6

\* The file of an upload is new to everyone.
LEMMA StoreUploadFiles ==
    ASSUME FileTypes, FileInv, NEW m \in Media, StoreUpload(m), UNCHANGED pubVars
    PROVE  FileInv'
<1>1. /\ upload[m] = "new" /\ upload'[m] = "stored" /\ \A x \in Media : x # m => upload'[x] = upload[x]
      /\ files' = files \cup {m}
      /\ UNCHANGED <<row, storagePath, lock, dedupPath, del, target, delPath, leaked, batch, job, wpc>>
  BY Zenon DEF StoreUpload, FileTypes, LibraryTypes, LibraryTypeOK
<1>2. /\ Shrinks /\ Grows /\ LocksOf(m) /\ LocksOf(NoOne)
      /\ OwnFile /\ Sharing /\ Trimming /\ StoredBytesExist /\ Accounted
  BY Zenon, <1>1, Steady DEF LocksOf, FileInv
<1>3. \A x \in Media : Uncommitted(x)' => Uncommitted(x)
  BY ONLY Zenon, <1>1 DEF Uncommitted
<1>4. OwnFile'
  BY Zenon, <1>1, <1>2, <1>3, KnownKept, OwnFileKept
<1>5. Sharing'
  BY Zenon, <1>1, <1>2, SharingKept
<1>6. Trimming'
  BY Zenon, <1>1, <1>2, TrimmingKept
<1>7. StoredBytesExist'
  BY ONLY Zenon, <1>1, <1>2 DEF StoredBytesExist, Active
<1>8. Accounted'
  <2>1. Kept(m)' /\ \A x \in Unrecorded : x \in Unrecorded'
    BY ONLY Zenon, <1>1, m \in Media DEF Kept, Unrecorded
  <2> QED BY Zenon, <1>1, <1>2, <2>1, AccountedKept
<1> QED BY Zenon, <1>1, <1>2, <1>3, <1>4, <1>5, <1>6, <1>7, <1>8, UploadStep DEF FileInv

\* The path an upload finds to share is that of a row.
LEMMA FindDuplicateFiles ==
    ASSUME FileTypes, FileInv, NEW m \in Media, FindDuplicate(m), UNCHANGED pubVars
    PROVE  FileInv'
<1>0. \A f \in Candidates(m) : f = None \/ \E x \in Media : storagePath[x] = f
  BY Zenon DEF Candidates
<1>1. /\ upload[m] = "stored" /\ upload'[m] = "found" /\ \A x \in Media : x # m => upload'[x] = upload[x]
      /\ dedupPath'[m] = None \/ \E x \in Media : storagePath[x] = dedupPath'[m]
      /\ \A x \in Media : x # m => dedupPath'[x] = dedupPath[x]
      /\ UNCHANGED <<row, storagePath, files, lock, del, target, delPath, leaked, batch, job, wpc>>
  BY ZenonT(60), <1>0 DEF FindDuplicate, FileTypes, LibraryTypes, LibraryTypeOK
<1>2. /\ Shrinks /\ Grows /\ LocksOf(m) /\ LocksOf(NoOne)
      /\ OwnFile /\ Sharing /\ Trimming /\ StoredBytesExist /\ Accounted
  BY Zenon, <1>1, Steady DEF LocksOf, FileInv
<1>3. \A x \in Media : Uncommitted(x)' => Uncommitted(x)
  BY ONLY Zenon, <1>1 DEF Uncommitted
<1>4. OwnFile'
  <2>1. \A x \in Media : Known(x)' => Known(x)
    BY ONLY ZenonT(60), <1>1, Distinct DEF Known
  <2>2. m \in files
    BY ONLY Zenon, <1>1, <1>2, m \in Media DEF OwnFile, Uncommitted
  <2> QED BY Zenon, <1>1, <1>2, <1>3, <2>1, <2>2, OwnFileKept
<1>5. Sharing'
  BY Zenon, <1>1, <1>2, SharingKept
<1>6. Trimming'
  BY Zenon, <1>1, <1>2, TrimmingKept
<1>7. StoredBytesExist'
  BY ONLY Zenon, <1>1, <1>2 DEF StoredBytesExist, Active
<1>8. Accounted'
  <2>1. \A x \in Unrecorded : x \in Unrecorded'
    BY ONLY Zenon, <1>1 DEF Unrecorded
  <2> QED BY Zenon, <1>1, <1>2, <2>1, AccountedKept
<1> QED BY Zenon, <1>1, <1>2, <1>3, <1>4, <1>5, <1>6, <1>7, <1>8, UploadStep DEF FileInv

\* The candidate is checked again under its lock.
LEMMA LockDuplicateFiles ==
    ASSUME FileTypes, FileInv, NEW m \in Media, LockDuplicate(m), UNCHANGED pubVars
    PROVE  FileInv'
<1>0. /\ upload \in [Media -> {"new", "stored", "found", "share", "own", "trim", "done"}]
      /\ DOMAIN lock = Media /\ dedupPath[m] \in Media
  BY Zenon DEF LockDuplicate, FileTypes, LibraryTypes, LibraryTypeOK, Paths
<1>1. /\ upload[m] = "found" /\ \A x \in Media : x # m => upload'[x] = upload[x]
      /\ upload'[m] \in {"share", "own"} /\ (upload'[m] = "share" => InUse(dedupPath[m], None))
      /\ lock[dedupPath[m]] = NoOne /\ lock'[dedupPath[m]] = m
      /\ \A f \in Media : f # dedupPath[m] => lock'[f] = lock[f]
      /\ UNCHANGED <<row, storagePath, files, dedupPath, del, target, delPath, leaked, batch, job, wpc>>
  BY Zenon, <1>0 DEF LockDuplicate
<1>2. /\ Shrinks /\ Grows /\ LocksOf(m)
      /\ OwnFile /\ Sharing /\ Trimming /\ StoredBytesExist /\ Accounted
  BY Zenon, <1>1, Steady DEF LocksOf, FileInv
<1>3. \A x \in Media : Uncommitted(x)' => Uncommitted(x)
  BY ONLY Zenon, <1>1 DEF Uncommitted
<1>4. OwnFile'
  <2>1. m \in files
    BY ONLY Zenon, <1>1, <1>2, m \in Media DEF OwnFile, Uncommitted
  <2> QED BY Zenon, <1>1, <1>2, <1>3, <2>1, KnownKept, OwnFileKept
<1>5. Sharing'
  <2>1. upload'[m] = "share" => (dedupPath[m] \in Media /\ lock[dedupPath[m]] = m /\ InUse(dedupPath[m], None))'
    BY Zenon, <1>0, <1>1 DEF InUse, Active
  <2>2. ASSUME NEW x \in Media, x # m, upload'[x] = "share"
        PROVE  (dedupPath[x] \in Media /\ lock[dedupPath[x]] = x /\ InUse(dedupPath[x], None))'
    <3>1. dedupPath[x] \in Media /\ lock[dedupPath[x]] = x /\ InUse(dedupPath[x], None)
      BY ONLY Zenon, <1>1, <1>2, <2>2 DEF Sharing
    <3>2. InUse(dedupPath[x], None)'
      BY ONLY Zenon, <1>1, <3>1 DEF InUse, Active
    <3> QED BY ONLY Zenon, <1>1, <3>1, <3>2, <2>2, Distinct
  <2> QED BY ONLY Zenon, <2>1, <2>2 DEF Sharing
<1>6. Trimming'
  BY Zenon, <1>1, <1>2, TrimmingKept
<1>7. StoredBytesExist'
  BY ONLY Zenon, <1>1, <1>2 DEF StoredBytesExist, Active
<1>8. Accounted'
  <2>1. \A x \in Unrecorded : x \in Unrecorded'
    BY ONLY Zenon, <1>1 DEF Unrecorded
  <2> QED BY Zenon, <1>1, <1>2, <2>1, AccountedKept
<1> QED BY Zenon, <1>1, <1>2, <1>3, <1>4, <1>5, <1>6, <1>7, <1>8, UploadStep DEF FileInv

\* The row commits with a path that is on disk: its own, or one in use until the lock is freed.
LEMMA InsertUploadedMediaFiles ==
    ASSUME FileTypes, FileInv, NEW m \in Media, InsertUploadedMedia(m), UNCHANGED pubVars
    PROVE  FileInv'
<1> DEFINE P == IF upload[m] = "share" THEN dedupPath[m] ELSE m
<1>0. /\ DOMAIN row = Media /\ DOMAIN storagePath = Media
      /\ upload \in [Media -> {"new", "stored", "found", "share", "own", "trim", "done"}] /\ LibraryRefs
      /\ OwnFile /\ Sharing /\ Trimming /\ Deleting /\ Leaving /\ Releasing /\ StoredBytesExist /\ Accounted
  BY Zenon DEF FileTypes, LibraryTypes, LibraryTypeOK, FileInv
<1>1. /\ upload[m] \in {"found", "share", "own"}
      /\ upload'[m] = IF upload[m] = "share" THEN "trim" ELSE "done"
      /\ storagePath'[m] = P /\ row'[m] = "active"
      /\ \A x \in Media : x # m => upload'[x] = upload[x] /\ storagePath'[x] = storagePath[x] /\ row'[x] = row[x]
      /\ \A f \in Media : lock[f] # m => lock'[f] = lock[f]
      /\ UNCHANGED <<files, dedupPath, del, target, delPath, leaked, batch, job, wpc>>
  BY Zenon, <1>0 DEF InsertUploadedMedia, Unlocked
<1>2. row[m] = "absent" /\ m \in files /\ ~Known(m) /\ Uncommitted(m)
  BY ONLY Zenon, <1>0, <1>1, m \in Media DEF OwnFile, Uncommitted
<1>3. P \in Media /\ ((P = m /\ upload[m] # "share") \/ (lock[P] = m /\ InUse(P, None) /\ P = dedupPath[m] /\ upload[m] = "share"))
  BY ONLY Zenon, <1>0, m \in Media DEF Sharing
<1> HIDE DEF P
<1>4. Grows /\ LocksOf(m)
  BY ONLY Zenon, <1>1, <1>2 DEF Grows, LocksOf
<1>5. ASSUME NEW f, f # P, NEW e, ~InUse(f, e) PROVE ~InUse(f, e)'
  BY ONLY Zenon, <1>1, <1>5 DEF InUse, Active
<1>6. OwnFile'
  <2>1. ASSUME NEW x \in Media, Uncommitted(x)' PROVE x # m /\ Uncommitted(x) /\ (Known(x)' => Known(x))
    <3>1. x # m /\ Uncommitted(x)
      BY ONLY Zenon, <1>1, <2>1 DEF Uncommitted
    <3>2. P = x => Known(x)
      BY ONLY Zenon, <1>3, <3>1, m \in Media DEF Known
    <3> QED BY ONLY Zenon, <1>1, <3>1, <3>2 DEF Known
  <2> QED BY Zenon, <1>0, <1>1, <2>1, OwnFileKept
<1>7. Sharing'
  <2> SUFFICES ASSUME NEW x \in Media, upload'[x] = "share"
               PROVE  (dedupPath[x] \in Media /\ lock[dedupPath[x]] = x /\ InUse(dedupPath[x], None))'
    BY Zenon DEF Sharing
  <2>1. /\ x # m /\ upload[x] = "share"
        /\ dedupPath[x] \in Media /\ lock[dedupPath[x]] = x /\ InUse(dedupPath[x], None)
    BY ONLY Zenon, <1>0, <1>1, x \in Media, upload'[x] = "share" DEF Sharing
  <2>2. InUse(dedupPath[x], None)'
    BY ONLY Zenon, <1>1, <1>4, <2>1 DEF Grows, InUse, Active
  <2> QED BY ONLY Zenon, <1>1, <2>1, <2>2
<1>8. Trimming'
  <2> SUFFICES ASSUME NEW x \in Media, upload'[x] = "trim" PROVE ~InUse(x, None)'
    BY Zenon DEF Trimming
  <2>1. CASE x = m
    <3>1. \A y \in Media : storagePath[y] # m /\ dedupPath[y] # m
      BY ONLY Zenon, <1>2 DEF Known
    <3>2. P # m
      BY ONLY Zenon, <1>1, <1>3, <2>1, <3>1, upload'[x] = "trim", m \in Media
    <3> QED BY ONLY Zenon, <1>1, <2>1, <3>1, <3>2, m \in Media DEF InUse, Active
  <2>2. CASE x # m
    <3>1. ~InUse(x, None)
      BY ONLY Zenon, <1>0, <1>1, <2>2, x \in Media, upload'[x] = "trim" DEF Trimming
    <3> QED BY Zenon, <1>3, <1>5, <2>2, <3>1
  <2> QED BY Zenon, <2>1, <2>2
<1>9. Deleting'
  <2> SUFFICES ASSUME NEW d \in Deletes PROVE DeleteSafe(d)'
    BY Zenon DEF Deleting
  <2>1. /\ del[d] \in {"loaded", "shared", "last"} => target[d] \in Media
        /\ del[d] \in {"shared", "last", "remove"} => delPath[d] \in Media
        /\ del[d] \in {"loaded", "shared", "last"} =>
              ~Uncommitted(target[d]) /\ storagePath[target[d]] \in {delPath[d], None}
        /\ del[d] \in {"shared", "last"} => lock[delPath[d]] = d
        /\ del[d] = "last" => ~InUse(delPath[d], target[d])
        /\ del[d] = "remove" => ~InUse(delPath[d], None)
    BY ONLY Zenon, <1>0, d \in Deletes DEF LibraryRefs, Deleting, DeleteSafe
  <2>2. m # d /\ delPath[d] # m
    BY ONLY Zenon, Distinct, <1>2, d \in Deletes, m \in Media DEF Known
  <2>3. del[d] \in {"shared", "last", "remove"} => delPath[d] # P
    BY ONLY Zenon, <1>3, <2>1, <2>2
  <2>4. (del[d] \in {"loaded", "shared", "last"} =>
            ~Uncommitted(target[d]) /\ storagePath[target[d]] \in {delPath[d], None})'
    BY ONLY Zenon, <1>1, <1>2, <2>1 DEF Uncommitted
  <2>5. (del[d] \in {"shared", "last"} => lock[delPath[d]] = d)'
    BY ONLY Zenon, <1>1, <2>1, <2>2
  <2>6. (del[d] = "last" => ~InUse(delPath[d], target[d]))'
    BY ONLY ZenonT(30), <1>1, <2>1, <2>3 DEF InUse, Active
  <2>7. (del[d] = "remove" => ~InUse(delPath[d], None))'
    BY ONLY ZenonT(30), <1>1, <2>1, <2>3 DEF InUse, Active
  <2> QED BY ONLY Zenon, <2>4, <2>5, <2>6, <2>7 DEF DeleteSafe
<1>10. Leaving'
  BY Zenon, <1>0, <1>1, <1>4, LeavingKept
<1>11. Releasing'
  <2> SUFFICES ASSUME NEW w \in Workers PROVE ReleaseSafe(w)'
    BY Zenon DEF Releasing
  <2>1. /\ wpc[w] \in {"swap", "remove"} => job[w].path \in Media
        /\ wpc[w] = "swap" => lock[job[w].path] = w /\ ~InUse(job[w].path, MediaOf(job[w].pub))
        /\ wpc[w] = "remove" => ~InUse(job[w].path, None)
    BY Zenon, <1>0 DEF Releasing, ReleaseSafe, FileTypes
  <2>2. m # w /\ job[w].path # m
    BY ONLY Zenon, Distinct, <1>2, w \in Workers, m \in Media DEF Known
  <2>3. wpc[w] \in {"swap", "remove"} => job[w].path # P
    BY ONLY Zenon, <1>3, <2>1, <2>2
  <2>4. (wpc[w] = "swap" => lock[job[w].path] = w)'
    BY ONLY Zenon, <1>1, <2>1, <2>2
  <2>5. (wpc[w] = "swap" => ~InUse(job[w].path, MediaOf(job[w].pub)))'
    BY ONLY ZenonT(30), <1>1, <2>1, <2>3 DEF InUse, Active, MediaOf
  <2>6. (wpc[w] = "remove" => ~InUse(job[w].path, None))'
    BY ONLY ZenonT(30), <1>1, <2>1, <2>3 DEF InUse, Active
  <2> QED BY ONLY Zenon, <2>4, <2>5, <2>6 DEF ReleaseSafe
<1>12. StoredBytesExist'
  <2>1. P \in files
    BY ONLY Zenon, <1>0, <1>2, <1>3, Distinct DEF StoredBytesExist, InUse
  <2> QED BY ONLY Zenon, <1>0, <1>1, <2>1 DEF StoredBytesExist, Active
<1>13. Accounted'
  <2>1. \A x \in Unrecorded : x # m => x \in Unrecorded'
    BY ONLY Zenon, <1>1 DEF Unrecorded
  <2>2. m \in Unrecorded' \/ Kept(m)'
    BY ONLY Zenon, <1>1, <1>3, m \in Media DEF Unrecorded, Kept, Active
  <2> QED BY Zenon, <1>0, <1>1, <1>4, <2>1, <2>2, AccountedKept
<1> QED BY Zenon, <1>6, <1>7, <1>8, <1>9, <1>10, <1>11, <1>12, <1>13 DEF FileInv

\* Nobody has seen the file of an upload that fails.
LEMMA InsertFailsFiles ==
    ASSUME FileTypes, FileInv, NEW m \in Media, InsertFails(m), UNCHANGED pubVars
    PROVE  FileInv'
<1>1. /\ upload[m] \in {"stored", "found", "share", "own"} /\ upload'[m] = "trim"
      /\ \A x \in Media : x # m => upload'[x] = upload[x]
      /\ \A f \in Media : lock[f] # m => lock'[f] = lock[f]
      /\ UNCHANGED <<row, storagePath, files, dedupPath, del, target, delPath, leaked, batch, job, wpc>>
  BY Zenon DEF InsertFails, Unlocked, FileTypes, LibraryTypes, LibraryTypeOK
<1>2. /\ Shrinks /\ Grows /\ LocksOf(m)
      /\ OwnFile /\ Sharing /\ Trimming /\ StoredBytesExist /\ Accounted
  BY Zenon, <1>1, Steady DEF LocksOf, FileInv
<1>3. \A x \in Media : Uncommitted(x)' => x # m /\ Uncommitted(x)
  BY ONLY Zenon, <1>1 DEF Uncommitted
<1>4. OwnFile'
  BY Zenon, <1>1, <1>2, <1>3, KnownKept, OwnFileKept
<1>5. Sharing'
  BY Zenon, <1>1, <1>2, SharingKept
<1>6. Trimming'
  <2>1. \A x \in Media : storagePath[x] # m
    BY ONLY Zenon, <1>1, <1>2, m \in Media DEF OwnFile, Uncommitted, Known
  <2> QED BY ONLY Zenon, <1>1, <1>2, <2>1 DEF Trimming, InUse, Active
<1>7. StoredBytesExist'
  BY ONLY Zenon, <1>1, <1>2 DEF StoredBytesExist, Active
<1>8. Accounted'
  <2>1. \A x \in Unrecorded : x \in Unrecorded'
    BY ONLY Zenon, <1>1 DEF Unrecorded
  <2> QED BY Zenon, <1>1, <1>2, <2>1, AccountedKept
<1> QED BY Zenon, <1>1, <1>2, <1>3, <1>4, <1>5, <1>6, <1>7, <1>8, UploadStep DEF FileInv

\* The file an upload removes is in no row.
LEMMA TrimUploadFiles ==
    ASSUME FileTypes, FileInv, NEW m \in Media, TrimUpload(m), UNCHANGED pubVars
    PROVE  FileInv'
<1>1. /\ upload[m] = "trim" /\ upload'[m] = "done" /\ \A x \in Media : x # m => upload'[x] = upload[x]
      /\ files' = files \ {m}
      /\ UNCHANGED <<row, storagePath, lock, dedupPath, del, target, delPath, leaked, batch, job, wpc>>
  BY Zenon DEF TrimUpload, FileTypes, LibraryTypes, LibraryTypeOK
<1>2. /\ Shrinks /\ Grows /\ LocksOf(m) /\ LocksOf(NoOne)
      /\ OwnFile /\ Sharing /\ Trimming /\ StoredBytesExist /\ Accounted
  BY Zenon, <1>1, Steady DEF LocksOf, FileInv
<1>3. \A x \in Media : Uncommitted(x)' => x # m /\ Uncommitted(x)
  BY ONLY Zenon, <1>1 DEF Uncommitted
<1>4. OwnFile'
  BY Zenon, <1>1, <1>2, <1>3, KnownKept, OwnFileKept
<1>5. Sharing'
  BY Zenon, <1>1, <1>2, SharingKept
<1>6. Trimming'
  BY Zenon, <1>1, <1>2, TrimmingKept
<1>7. StoredBytesExist'
  <2>1. ~InUse(m, None)
    BY ONLY Zenon, <1>1, <1>2, m \in Media DEF Trimming
  <2> QED BY ONLY Zenon, <1>1, <1>2, <2>1, Distinct DEF StoredBytesExist, InUse, Active
<1>8. Accounted'
  <2>1. \A x \in files' : x \in Unrecorded => x \in Unrecorded'
    BY ONLY Zenon, <1>1 DEF Unrecorded
  <2> QED BY Zenon, <1>1, <1>2, <2>1, AccountedKept
<1> QED BY Zenon, <1>1, <1>2, <1>3, <1>4, <1>5, <1>6, <1>7, <1>8, UploadStep DEF FileInv

\* A DELETE loads a row that has committed.
LEMMA LoadForDeleteFiles ==
    ASSUME FileTypes, FileInv, NEW d \in Deletes, NEW m \in Media, LoadForDelete(d, m), UNCHANGED pubVars
    PROVE  FileInv'
<1>1. /\ del[d] = "new" /\ row[m] = "active"
      /\ del'[d] = "loaded" /\ target'[d] = m /\ delPath'[d] = storagePath[m]
      /\ \A c \in Deletes : c # d => del'[c] = del[c] /\ target'[c] = target[c] /\ delPath'[c] = delPath[c]
      /\ UNCHANGED <<row, storagePath, files, lock, upload, dedupPath, leaked, batch, job, wpc>>
  BY Zenon DEF LoadForDelete, Active, FileTypes, LibraryTypes, LibraryTypeOK
<1>2. /\ Shrinks /\ Grows /\ LocksOf(d) /\ LibraryRefs
      /\ OwnFile /\ Deleting /\ Leaving /\ StoredBytesExist /\ Accounted
  BY Zenon, <1>1, Steady DEF LocksOf, FileInv, FileTypes, LibraryTypes
<1>3. OwnFile'
  <2>1. \A x \in Media : Known(x)' => Known(x)
    BY ONLY ZenonT(60), <1>1, m \in Media DEF Known
  <2> QED BY Zenon, <1>1, <1>2, <2>1, OwnFileKept DEF Uncommitted
<1>4. Deleting'
  <2>1. ~Uncommitted(m)
    BY ONLY Zenon, <1>1, <1>2, m \in Media DEF OwnFile
  <2>2. ASSUME NEW c \in Deletes, c # d PROVE DeleteSafe(c)'
    BY Zenon, <1>1, <1>2, <2>2, DeleteSafeKept DEF Deleting, Uncommitted
  <2>3. DeleteSafe(d)'
    BY ONLY Zenon, <1>1, <2>1 DEF DeleteSafe, Uncommitted
  <2> QED BY Zenon, <2>2, <2>3 DEF Deleting
<1>5. Leaving'
  BY Zenon, <1>1, <1>2, LeavingKept
<1>6. StoredBytesExist'
  BY ONLY Zenon, <1>1, <1>2 DEF StoredBytesExist, Active
<1>7. Accounted'
  BY Zenon, <1>1, <1>2, AccountedKept DEF Unrecorded
<1> QED BY Zenon, <1>1, <1>2, <1>3, <1>4, <1>5, <1>6, <1>7, DeleteStep DEF FileInv

\* It asks under the lock who else uses the file.
LEMMA LockForDeleteFiles ==
    ASSUME FileTypes, FileInv, NEW d \in Deletes, LockForDelete(d), UNCHANGED pubVars
    PROVE  FileInv'
<1>0. del \in [Deletes -> {"new", "loaded", "shared", "last", "remove", "done"}] /\ DOMAIN lock = Media /\ delPath[d] \in Media
  BY Zenon DEF LockForDelete, FileTypes, LibraryTypes, LibraryTypeOK, Paths
<1>1. /\ del[d] = "loaded" /\ lock[delPath[d]] = NoOne /\ lock'[delPath[d]] = d
      /\ del'[d] = IF InUse(delPath[d], target[d]) THEN "shared" ELSE "last"
      /\ \A c \in Deletes : c # d => del'[c] = del[c]
      /\ \A f \in Media : f # delPath[d] => lock'[f] = lock[f]
      /\ UNCHANGED <<row, storagePath, files, upload, dedupPath, target, delPath, leaked, batch, job, wpc>>
  BY Zenon, <1>0 DEF LockForDelete
<1>2. /\ Shrinks /\ Grows /\ LocksOf(d) /\ LibraryRefs
      /\ OwnFile /\ Deleting /\ Leaving /\ StoredBytesExist /\ Accounted
  BY Zenon, <1>1, Steady DEF LocksOf, FileInv, FileTypes, LibraryTypes
<1>3. OwnFile'
  BY Zenon, <1>1, <1>2, KnownKept, OwnFileKept DEF Uncommitted
<1>4. Deleting'
  <2>1. ASSUME NEW c \in Deletes, c # d PROVE DeleteSafe(c)'
    BY Zenon, <1>1, <1>2, <2>1, DeleteSafeKept DEF Deleting, Uncommitted
  <2>2. DeleteSafe(d)'
    <3>1. ~Uncommitted(target[d]) /\ storagePath[target[d]] \in {delPath[d], None}
      BY ONLY Zenon, <1>1, <1>2, d \in Deletes DEF Deleting, DeleteSafe
    <3> QED BY ONLY Zenon, <1>1, <3>1 DEF DeleteSafe, Uncommitted, InUse, Active
  <2> QED BY Zenon, <2>1, <2>2 DEF Deleting
<1>5. Leaving'
  <2> SUFFICES ASSUME NEW c \in Deletes, del'[c] = "shared" PROVE InUse(delPath[c], target[c])'
    BY Zenon DEF Leaving
  <2>1. InUse(delPath[c], target[c])
    BY ONLY Zenon, <1>1, <1>2, c \in Deletes, del'[c] = "shared" DEF Leaving
  <2> QED BY ONLY Zenon, <1>1, <2>1 DEF InUse, Active
<1>6. StoredBytesExist'
  BY ONLY Zenon, <1>1, <1>2 DEF StoredBytesExist, Active
<1>7. Accounted'
  BY Zenon, <1>1, <1>2, AccountedKept DEF Unrecorded
<1> QED BY Zenon, <1>1, <1>2, <1>3, <1>4, <1>5, <1>6, <1>7, DeleteStep DEF FileInv

\* It commits while it holds the lock, so that nobody has come to share the file.
LEMMA SoftDeleteFiles ==
    ASSUME FileTypes, FileInv, NEW d \in Deletes, SoftDelete(d), UNCHANGED pubVars
    PROVE  FileInv'
<1>0. /\ DOMAIN row = Media /\ DOMAIN del = Deletes /\ files \subseteq Media /\ LibraryRefs
      /\ OwnFile /\ Sharing /\ Trimming /\ Deleting /\ Leaving /\ Releasing /\ StoredBytesExist /\ Accounted
  BY Zenon DEF FileTypes, LibraryTypes, LibraryTypeOK, FileInv
<1>1. /\ del[d] \in {"shared", "last"} \/ (del[d] = "loaded" /\ delPath[d] = None)
      /\ del'[d] = IF del[d] = "last" THEN "remove" ELSE "done"
      /\ \A c \in Deletes : c # d => del'[c] = del[c]
      /\ \A f \in Media : lock[f] # d => lock'[f] = lock[f]
      /\ UNCHANGED <<storagePath, files, upload, dedupPath, target, delPath, leaked, batch, job, wpc>>
  BY Zenon, <1>0 DEF SoftDelete, Unlocked
<1>2. target[d] \in Media /\ ~Uncommitted(target[d]) /\ storagePath[target[d]] \in {delPath[d], None}
  BY ONLY Zenon, <1>0, <1>1, d \in Deletes DEF LibraryRefs, Deleting, DeleteSafe
<1>3. row'[target[d]] = "deleted" /\ \A x \in Media : x # target[d] => row'[x] = row[x]
  BY Zenon, <1>0, <1>2 DEF SoftDelete
<1>4. Shrinks /\ LocksOf(d)
  BY ONLY Zenon, <1>1, <1>3 DEF Shrinks, LocksOf
<1>5. \A f \in Media : storagePath[target[d]] = f => lock[f] = d /\ delPath[d] = f /\ del[d] \in {"shared", "last"}
  <2>1. del[d] \in {"shared", "last"} => lock[delPath[d]] = d
    BY ONLY Zenon, <1>0, d \in Deletes DEF Deleting, DeleteSafe
  <2> QED BY ONLY Zenon, <1>1, <1>2, <2>1, Distinct
<1>6. ASSUME NEW f \in Media, lock[f] # d, NEW e, InUse(f, e) PROVE InUse(f, e)'
  <2>1. PICK y \in Media \ {e} : row[y] = "active" /\ storagePath[y] = f
    BY ONLY Zenon, <1>6 DEF InUse, Active
  <2>2. y # target[d]
    BY ONLY Zenon, <1>5, <1>6, <2>1
  <2> QED BY ONLY Zenon, <1>1, <1>3, <2>1, <2>2 DEF InUse, Active
<1>7. OwnFile'
  <2>1. \A x \in Media : Uncommitted(x)' => Uncommitted(x)
    BY ONLY Zenon, <1>1 DEF Uncommitted
  <2> QED BY Zenon, <1>0, <1>1, <1>2, <1>3, <2>1, KnownKept, OwnFileKept
<1>8. Sharing'
  <2> SUFFICES ASSUME NEW x \in Media, upload'[x] = "share"
               PROVE  (dedupPath[x] \in Media /\ lock[dedupPath[x]] = x /\ InUse(dedupPath[x], None))'
    BY Zenon DEF Sharing
  <2>1. dedupPath[x] \in Media /\ lock[dedupPath[x]] = x /\ InUse(dedupPath[x], None) /\ x # d
    BY ONLY Zenon, <1>0, <1>1, x \in Media, upload'[x] = "share", Distinct, d \in Deletes DEF Sharing
  <2>2. \A f : f = dedupPath[x] => InUse(f, None)'
    BY Zenon, <1>6, <2>1
  <2> QED BY ONLY Zenon, <1>1, <2>1, <2>2 DEF InUse, Active
<1>9. Trimming'
  BY Zenon, <1>0, <1>1, <1>4, TrimmingKept
<1>10. Deleting'
  <2>1. ASSUME NEW c \in Deletes, c # d PROVE DeleteSafe(c)'
    BY Zenon, <1>0, <1>1, <1>4, <2>1, DeleteSafeKept DEF Deleting, Uncommitted
  <2>2. del[d] = "last" => ~InUse(delPath[d], target[d])
    BY ONLY Zenon, <1>0, d \in Deletes DEF Deleting, DeleteSafe
  <2>3. DeleteSafe(d)'
    BY ONLY ZenonT(30), <1>1, <1>3, <2>2 DEF DeleteSafe, InUse, Active
  <2> QED BY Zenon, <2>1, <2>3 DEF Deleting
<1>11. Leaving'
  <2> SUFFICES ASSUME NEW c \in Deletes, del'[c] = "shared" PROVE InUse(delPath[c], target[c])'
    BY Zenon DEF Leaving
  <2>1. c # d /\ InUse(delPath[c], target[c]) /\ delPath[c] \in Media /\ lock[delPath[c]] = c
    BY ONLY Zenon, <1>0, <1>1, c \in Deletes, del'[c] = "shared" DEF Leaving, Deleting, DeleteSafe, LibraryRefs
  <2>2. \A f, e : f = delPath[c] /\ e = target[c] => InUse(f, e)'
    BY Zenon, <1>6, <2>1
  <2> QED BY ONLY Zenon, <1>1, <2>2 DEF InUse, Active
<1>12. Releasing'
  <2>1. \A w \in Workers : w # d
    BY ONLY Zenon, Distinct, d \in Deletes
  <2> QED BY Zenon, <1>0, <1>1, <1>4, <2>1, ReleasingKept
<1>13. StoredBytesExist'
  BY ONLY Zenon, <1>0, <1>1, <1>3 DEF StoredBytesExist, Active
<1>14. Accounted'
  <2>1. ASSUME NEW f \in files', NEW m \in Media, Active(m), storagePath[m] = f PROVE Kept(f)'
    <3>1. CASE m # target[d]
      BY ONLY Zenon, <1>1, <1>3, <2>1, <3>1 DEF Kept, Active
    <3>2. CASE m = target[d] /\ del[d] = "last"
      <4>1. f = delPath[d] /\ del'[d] = "remove"
        BY ONLY Zenon, <1>0, <1>1, <1>5, <2>1, <3>2
      <4> QED BY ONLY Zenon, <1>1, <4>1, d \in Deletes DEF Kept
    <3>3. CASE m = target[d] /\ del[d] # "last"
      <4>1. f = delPath[d] /\ del[d] = "shared"
        BY ONLY Zenon, <1>0, <1>1, <1>5, <2>1, <3>3
      <4>2. PICK y \in Media \ {target[d]} : row[y] = "active" /\ storagePath[y] = delPath[d]
        BY ONLY Zenon, <1>0, <4>1, d \in Deletes DEF Leaving, InUse, Active
      <4> QED BY ONLY Zenon, <1>1, <1>3, <4>1, <4>2 DEF Kept, Active
    <3> QED BY Zenon, <3>1, <3>2, <3>3
  <2>2. \A c \in Deletes : del[c] = "remove" => del'[c] = "remove"
    BY ONLY Zenon, <1>1
  <2> QED BY Zenon, <1>0, <1>1, <2>1, <2>2, AccountedMoved DEF Unrecorded
<1> QED BY Zenon, <1>7, <1>8, <1>9, <1>10, <1>11, <1>12, <1>13, <1>14 DEF FileInv

\* It removes a file that no row points at.
LEMMA RemoveDeletedFiles ==
    ASSUME FileTypes, FileInv, NEW d \in Deletes, RemoveDeleted(d), UNCHANGED pubVars
    PROVE  FileInv'
<1>1. /\ del[d] = "remove" /\ del'[d] = "done" /\ \A c \in Deletes : c # d => del'[c] = del[c]
      /\ files' = files \ {delPath[d]}
      /\ UNCHANGED <<row, storagePath, lock, upload, dedupPath, target, delPath, leaked, batch, job, wpc>>
  BY Zenon DEF RemoveDeleted, FileTypes, LibraryTypes, LibraryTypeOK
<1>2. /\ Shrinks /\ Grows /\ LocksOf(d) /\ LibraryRefs
      /\ OwnFile /\ Deleting /\ Leaving /\ StoredBytesExist /\ Accounted
  BY Zenon, <1>1, Steady DEF LocksOf, FileInv, FileTypes, LibraryTypes
<1>3. OwnFile'
  <2>1. \A x \in Media : Uncommitted(x) => x # delPath[d]
    BY ONLY Zenon, <1>2, d \in Deletes DEF OwnFile, Known
  <2> QED BY Zenon, <1>1, <1>2, <2>1, KnownKept, OwnFileKept DEF Uncommitted
<1>4. Deleting'
  BY Zenon, <1>1, <1>2, DeletingKept DEF Uncommitted
<1>5. Leaving'
  BY Zenon, <1>1, <1>2, LeavingKept
<1>6. StoredBytesExist'
  <2>1. ~InUse(delPath[d], None)
    BY ONLY Zenon, <1>1, <1>2, d \in Deletes DEF Deleting, DeleteSafe
  <2> QED BY ONLY Zenon, <1>1, <1>2, <2>1, Distinct DEF StoredBytesExist, InUse, Active
<1>7. Accounted'
  BY Zenon, <1>1, <1>2, AccountedKept DEF Unrecorded
<1> QED BY Zenon, <1>1, <1>2, <1>3, <1>4, <1>5, <1>6, <1>7, DeleteStep DEF FileInv

\* An rm that fails leaves the file.
LEMMA RemovalFailsFiles ==
    ASSUME FileTypes, FileInv, RemovalFails, UNCHANGED pubVars
    PROVE  FileInv'
<1>0. /\ UNCHANGED <<row, storagePath, files, lock, dedupPath, target, delPath, batch, job, wpc>>
      /\ LibraryRefs /\ DOMAIN upload = Media /\ DOMAIN del = Deletes
      /\ OwnFile /\ Sharing /\ Trimming /\ Deleting /\ Leaving /\ StoredBytesExist /\ Accounted
  BY Zenon DEF RemovalFails, FileInv, FileTypes, LibraryTypes, LibraryTypeOK
<1>1. Shrinks /\ Grows /\ LocksOf(NoOne) /\ (\A a : LocksOf(a)) /\ StoredBytesExist'
  BY Zenon, <1>0, Steady DEF LocksOf, StoredBytesExist, Active
<1>2. ASSUME NEW m \in Media, upload[m] = "trim", upload' = [upload EXCEPT ![m] = "done"],
             leaked' = leaked \cup {m}, UNCHANGED del
      PROVE  FileInv'
  <2>1. upload'[m] = "done" /\ \A x \in Media : x # m => upload'[x] = upload[x]
    BY Zenon, <1>0, <1>2
  <2>2. \A x \in Media : Uncommitted(x)' => x # m /\ Uncommitted(x)
    BY ONLY Zenon, <2>1 DEF Uncommitted
  <2>3. OwnFile'
    BY Zenon, <1>0, <2>1, <2>2, KnownKept, OwnFileKept
  <2>4. Sharing'
    BY Zenon, <1>0, <1>1, <2>1, SharingKept
  <2>5. Trimming'
    BY Zenon, <1>0, <1>1, <2>1, TrimmingKept
  <2>6. Accounted'
    <3>1. m \in leaked' /\ leaked \subseteq leaked'
      BY Zenon, <1>2
    <3>2. Kept(m)' /\ \A x \in Unrecorded : x # m => x \in Unrecorded'
      BY ONLY Zenon, <2>1, <3>1 DEF Kept, Unrecorded
    <3> QED BY Zenon, <1>0, <1>1, <1>2, <3>1, <3>2, AccountedKept
  <2> QED BY Zenon, <1>0, <1>1, <1>2, <2>1, <2>2, <2>3, <2>4, <2>5, <2>6, UploadStep DEF FileInv
<1>3. ASSUME NEW d \in Deletes, del[d] = "remove", del' = [del EXCEPT ![d] = "done"],
             leaked' = leaked \cup {delPath[d]}, UNCHANGED upload
      PROVE  FileInv'
  <2>1. del'[d] = "done" /\ \A c \in Deletes : c # d => del'[c] = del[c]
    BY Zenon, <1>0, <1>3
  <2>2. OwnFile'
    BY Zenon, <1>0, <1>3, KnownKept, OwnFileKept DEF Uncommitted
  <2>3. Deleting'
    BY Zenon, <1>0, <1>1, <1>3, <2>1, DeletingKept DEF Uncommitted
  <2>4. Leaving'
    BY Zenon, <1>0, <1>1, <2>1, LeavingKept
  <2>5. Accounted'
    <3>1. delPath[d] \in leaked' /\ leaked \subseteq leaked'
      BY Zenon, <1>3
    <3> QED BY Zenon, <1>0, <1>1, <1>3, <2>1, <3>1, AccountedKept DEF Unrecorded
  <2> QED BY Zenon, <1>0, <1>1, <1>3, <2>2, <2>3, <2>4, <2>5, DeleteStep DEF FileInv
<1> QED BY Zenon, <1>2, <1>3 DEF RemovalFails

\* A crash of the API frees the locks of its requests, which end.
LEMMA ApiCrashFiles ==
    ASSUME FileTypes, FileInv, ApiCrash, UNCHANGED pubVars
    PROVE  FileInv'
<1>0. /\ UNCHANGED <<row, storagePath, files, dedupPath, target, delPath, batch, job, wpc>>
      /\ OwnFile /\ Releasing /\ StoredBytesExist /\ Accounted
  BY Zenon DEF ApiCrash, FileInv
<1>1. /\ \A f \in Media : lock[f] \notin Media \cup Deletes => lock'[f] = lock[f]
      /\ leaked' = leaked \cup (files \cap (Unrecorded \cup Unremoved))
      /\ \A m \in Media : upload'[m] = IF m \in Unrecorded THEN "done" ELSE upload[m]
      /\ \A d \in Deletes : del'[d] \in {"new", "done"}
  BY Zenon DEF ApiCrash
<1>2. \A m \in Media : upload'[m] \in {"new", "done"} /\ (upload'[m] = "new" => upload[m] = "new")
  <2>1. upload \in [Media -> {"new", "stored", "found", "share", "own", "trim", "done"}]
    BY Zenon DEF FileTypes, LibraryTypes, LibraryTypeOK
  <2> QED BY ONLY Zenon, <1>1, <2>1 DEF Unrecorded
<1>3. OwnFile'
  BY ZenonT(30), <1>0, <1>2, KnownKept, OwnFileKept DEF Uncommitted
<1>4. Sharing' /\ Trimming'
  BY ONLY Zenon, <1>2 DEF Sharing, Trimming
<1>5. Deleting' /\ Leaving'
  BY ONLY Zenon, <1>1 DEF Deleting, DeleteSafe, Leaving
<1>6. Releasing'
  <2> SUFFICES ASSUME NEW w \in Workers PROVE ReleaseSafe(w)'
    BY Zenon DEF Releasing
  <2>1. wpc[w] = "swap" => lock'[job[w].path] = lock[job[w].path]
    <3>1. wpc[w] = "swap" => job[w].path \in Media /\ lock[job[w].path] = w
      BY Zenon, <1>0 DEF Releasing, ReleaseSafe, FileTypes
    <3> QED BY ONLY Zenon, <1>1, <3>1, Distinct, w \in Workers
  <2>2. ReleaseSafe(w)
    BY Zenon, <1>0 DEF Releasing
  <2> QED BY ONLY ZenonT(30), <1>0, <2>1, <2>2 DEF ReleaseSafe, InUse, Active, MediaOf
<1>7. StoredBytesExist'
  BY ONLY Zenon, <1>0 DEF StoredBytesExist, Active
<1>8. Accounted'
  <2>1. \A f \in files' : f \in Unrecorded \cup Unremoved => f \in leaked'
    BY ONLY Zenon, <1>0, <1>1
  <2>2. \A f \in files' : f \in Unrecorded => Kept(f)'
    BY ONLY Zenon, <2>1 DEF Kept
  <2>3. \A d \in Deletes : del[d] = "remove" => delPath[d] \in Unremoved
    BY ONLY Zenon DEF Unremoved
  <2> QED BY Zenon, <1>0, <1>1, <2>1, <2>2, <2>3, Steady, AccountedKept
<1> QED BY Zenon, <1>3, <1>4, <1>5, <1>6, <1>7, <1>8 DEF FileInv

\* A step of a worker or of a route that neither writes the library nor takes a
\* lock: at most it frees the locks of a worker that stops, or leaves a file behind.
LEMMA OtherFiles ==
    ASSUME FileTypes, FileInv,
           UNCHANGED <<row, storagePath, files, upload, dedupPath, del, target, delPath>>,
           lock' = lock \/ \E w \in Workers : wpc'[w] = "idle" /\ lock' = Unlocked(w),
           \A w \in Workers : /\ job'[w].path = None \/ Known(job'[w].path)
                              /\ \A j \in batch'[w] : Known(j.path),
           \A w \in Workers : wpc'[w] \in {"swap", "remove"} => wpc'[w] = wpc[w] /\ job'[w] = job[w],
           leaked \subseteq leaked',
           \A w \in Workers : wpc[w] = "remove" =>
               (wpc'[w] = "remove" /\ job'[w] = job[w]) \/ job[w].path \in leaked'
    PROVE  FileInv'
<1>0. /\ LibraryRefs /\ Shrinks /\ Grows
      /\ OwnFile /\ Sharing /\ Trimming /\ Deleting /\ Leaving /\ Releasing /\ StoredBytesExist /\ Accounted
  BY Zenon, Steady DEF FileInv, FileTypes, LibraryTypes
<1>1. PICK a : LocksOf(a) /\ a \notin Media /\ a \notin Deletes /\ (a \in Workers => wpc'[a] = "idle")
  <2>1. CASE lock' = lock
    BY Zenon, <2>1, Distinct DEF LocksOf
  <2>2. ASSUME NEW w \in Workers, wpc'[w] = "idle", lock' = Unlocked(w) PROVE LocksOf(w)
    BY ONLY Zenon, <2>2 DEF LocksOf, Unlocked
  <2>3. \A w \in Workers : w \notin Media /\ w \notin Deletes
    BY ONLY Zenon, Distinct
  <2> QED BY Zenon, <2>1, <2>2, <2>3
<1>2. OwnFile'
  <2>1. \A m \in Media : Known(m)' => Known(m)
    <3>1. UNCHANGED <<storagePath, dedupPath, delPath>>
      BY Zenon
    <3>2. \A w \in Workers : /\ job'[w].path = None \/ Known(job'[w].path)
                             /\ \A j \in batch'[w] : Known(j.path)
      OBVIOUS
    <3>3. ASSUME NEW m \in Media, Known(m)', NEW w \in Workers, job'[w].path = m \/ \E j \in batch'[w] : j.path = m
          PROVE  Known(m)
      BY ONLY Zenon, <3>2, <3>3, Distinct
    <3>4. ASSUME NEW m \in Media, \E x \in Media : storagePath'[x] = m \/ dedupPath'[x] = m PROVE Known(m)
      BY ONLY Zenon, <3>1, <3>4 DEF Known
    <3>5. ASSUME NEW m \in Media, \E d \in Deletes : delPath'[d] = m PROVE Known(m)
      BY ONLY Zenon, <3>1, <3>5 DEF Known
    <3> QED BY ONLY Zenon, <3>3, <3>4, <3>5 DEF Known
  <2> QED BY Zenon, <1>0, <2>1, OwnFileKept DEF Uncommitted
<1>3. Sharing'
  BY Zenon, <1>0, <1>1, SharingKept
<1>4. Trimming'
  BY Zenon, <1>0, TrimmingKept
<1>5. Deleting'
  BY Zenon, <1>0, <1>1, DeletingKept DEF Uncommitted
<1>6. Leaving'
  BY Zenon, <1>0, LeavingKept
<1>7. Releasing'
  <2>1. \A w \in Workers : wpc'[w] \in {"swap", "remove"} => w # a
    BY ONLY Zenon, <1>1
  <2> QED BY Zenon, <1>0, <1>1, <2>1, ReleasingKept
<1>8. StoredBytesExist'
  BY Zenon, <1>0 DEF StoredBytesExist, Active
<1>9. Accounted'
  BY Zenon, <1>0, AccountedKept DEF Unrecorded
<1> QED BY Zenon, <1>2, <1>3, <1>4, <1>5, <1>6, <1>7, <1>8, <1>9 DEF FileInv

\* The lock of the path that a worker releases.
LEMMA LockForReleaseFiles ==
    ASSUME FileTypes, FileInv, DOMAIN wpc = Workers, NEW w \in Workers, wpc[w] = "lock",
           lock[job[w].path] = NoOne, ~InUse(job[w].path, MediaOf(job[w].pub)),
           lock' = [lock EXCEPT ![job[w].path] = w], wpc' = [wpc EXCEPT ![w] = "swap"],
           UNCHANGED <<row, storagePath, files, upload, dedupPath, del, target, delPath, leaked, job, batch>>
    PROVE  FileInv'
<1>0. /\ LibraryRefs /\ Shrinks /\ Grows /\ DOMAIN lock = Media /\ job[w].path \in Media
      /\ OwnFile /\ Sharing /\ Trimming /\ Deleting /\ Leaving /\ Releasing /\ StoredBytesExist /\ Accounted
  BY Zenon, Steady DEF FileInv, FileTypes, LibraryTypes, LibraryTypeOK
<1>1. /\ lock'[job[w].path] = w /\ \A f \in Media : f # job[w].path => lock'[f] = lock[f]
      /\ wpc'[w] = "swap" /\ \A v \in Workers : v # w => wpc'[v] = wpc[v]
  BY Zenon, <1>0
<1>2. LocksOf(w) /\ w \notin Media /\ w \notin Deletes
  <2>1. LocksOf(w)
    BY Zenon, <1>1 DEF LocksOf
  <2> QED BY ONLY Zenon, <2>1, Distinct, w \in Workers
<1>3. OwnFile'
  BY Zenon, <1>0, KnownKept, OwnFileKept DEF Uncommitted
<1>4. Sharing'
  BY Zenon, <1>0, <1>2, SharingKept
<1>5. Trimming'
  BY Zenon, <1>0, TrimmingKept
<1>6. Deleting'
  BY Zenon, <1>0, <1>2, DeletingKept DEF Uncommitted
<1>7. Leaving'
  BY Zenon, <1>0, LeavingKept
<1>8. Releasing'
  <2>1. ASSUME NEW v \in Workers, v # w PROVE ReleaseSafe(v)'
    BY Zenon, <1>0, <1>1, <1>2, <2>1, ReleaseSafeKept DEF Releasing
  <2>2. ReleaseSafe(w)'
    BY Zenon, <1>1 DEF ReleaseSafe, InUse, Active, MediaOf
  <2> QED BY Zenon, <2>1, <2>2 DEF Releasing
<1>9. StoredBytesExist'
  BY Zenon, <1>0 DEF StoredBytesExist, Active
<1>10. Accounted'
  <2>1. \A v \in Workers : wpc[v] = "remove" => wpc'[v] = "remove"
    BY Zenon, <1>1
  <2> QED BY Zenon, <1>0, <2>1, AccountedKept DEF Unrecorded
<1> QED BY Zenon, <1>3, <1>4, <1>5, <1>6, <1>7, <1>8, <1>9, <1>10 DEF FileInv

\* storage_path gives way to the link.
LEMMA SwapForLinkFiles ==
    ASSUME FileTypes, FileInv, DOMAIN wpc = Workers, NEW w \in Workers, wpc[w] = "swap",
           NEW m \in Media, m = MediaOf(job[w].pub),
           storagePath' = [storagePath EXCEPT ![m] = None], storagePath[m] = job[w].path,
           wpc' = [wpc EXCEPT ![w] = "remove"], lock' = Unlocked(w),
           UNCHANGED <<row, files, upload, dedupPath, del, target, delPath, leaked, job, batch>>
    PROVE  FileInv'
<1>0. /\ LibraryRefs /\ DOMAIN storagePath = Media /\ job[w].path \in Media
      /\ OwnFile /\ Sharing /\ Trimming /\ Deleting /\ Leaving /\ Releasing /\ StoredBytesExist /\ Accounted
  BY Zenon DEF FileInv, FileTypes, LibraryTypes, LibraryTypeOK
<1>1. /\ storagePath'[m] = None /\ \A x \in Media : x # m => storagePath'[x] = storagePath[x]
      /\ wpc'[w] = "remove" /\ \A v \in Workers : v # w => wpc'[v] = wpc[v]
      /\ \A f \in Media : lock[f] # w => lock'[f] = lock[f]
      /\ UNCHANGED <<row, files, upload, dedupPath, del, target, delPath, leaked, job, batch>>
  BY Zenon, <1>0 DEF Unlocked
<1>2. LocksOf(w) /\ Shrinks
  BY ONLY Zenon, <1>1 DEF LocksOf, Shrinks
<1>3. w \notin Media /\ w \notin Deletes
  BY ONLY Zenon, Distinct, w \in Workers
<1>4. lock[job[w].path] = w /\ ~InUse(job[w].path, m)
  BY Zenon, <1>0 DEF Releasing, ReleaseSafe
<1>5. ASSUME NEW f \in Media, lock[f] # w, NEW e, InUse(f, e) PROVE InUse(f, e)'
  <2>1. storagePath[m] # f
    BY Zenon, <1>4, <1>5
  <2> QED BY ONLY Zenon, <1>1, <1>5, <2>1 DEF InUse, Active
<1>6. OwnFile'
  <2>1. \A x \in Media : Known(x)' => Known(x)
    <3> SUFFICES ASSUME NEW x \in Media, Known(x)' PROVE Known(x)
      OBVIOUS
    <3>1. \A y \in Media : storagePath'[y] = x => storagePath[y] = x
      BY ONLY Zenon, <1>1, Distinct, x \in Media
    <3>2. UNCHANGED <<dedupPath, delPath, job, batch>>
      BY ONLY Zenon, <1>1
    <3> QED BY ONLY Zenon, <3>1, <3>2, Known(x)' DEF Known
  <2> QED BY Zenon, <1>0, <1>1, <2>1, OwnFileKept DEF Uncommitted
<1>7. Sharing'
  <2> SUFFICES ASSUME NEW x \in Media, upload'[x] = "share"
               PROVE  (dedupPath[x] \in Media /\ lock[dedupPath[x]] = x /\ InUse(dedupPath[x], None))'
    BY Zenon DEF Sharing
  <2>1. dedupPath[x] \in Media /\ lock[dedupPath[x]] = x /\ InUse(dedupPath[x], None) /\ x # w
    BY ONLY Zenon, <1>0, <1>1, <1>3, x \in Media, upload'[x] = "share" DEF Sharing
  <2>2. \A f : f = dedupPath[x] => InUse(f, None)'
    BY Zenon, <1>5, <2>1
  <2> QED BY ONLY Zenon, <1>1, <2>1, <2>2 DEF InUse, Active
<1>8. Trimming'
  BY Zenon, <1>0, <1>1, <1>2, TrimmingKept
<1>9. Deleting'
  BY Zenon, <1>0, <1>1, <1>2, <1>3, DeletingKept DEF Uncommitted
<1>10. Leaving'
  <2> SUFFICES ASSUME NEW c \in Deletes, del'[c] = "shared" PROVE InUse(delPath[c], target[c])'
    BY Zenon DEF Leaving
  <2>1. c # w /\ InUse(delPath[c], target[c]) /\ delPath[c] \in Media /\ lock[delPath[c]] = c
    BY ONLY Zenon, <1>0, <1>1, <1>3, c \in Deletes, del'[c] = "shared" DEF Leaving, Deleting, DeleteSafe, LibraryRefs
  <2>2. \A f, e : f = delPath[c] /\ e = target[c] => InUse(f, e)'
    BY Zenon, <1>5, <2>1
  <2> QED BY ONLY Zenon, <1>1, <2>2 DEF InUse, Active
<1>11. Releasing'
  <2>1. ASSUME NEW v \in Workers, v # w PROVE ReleaseSafe(v)'
    BY Zenon, <1>0, <1>1, <1>2, <2>1, ReleaseSafeKept DEF Releasing
  <2>2. ReleaseSafe(w)'
    BY ONLY ZenonT(30), <1>0, <1>1, <1>4, Distinct DEF ReleaseSafe, InUse, Active
  <2> QED BY Zenon, <2>1, <2>2 DEF Releasing
<1>12. StoredBytesExist'
  BY ONLY Zenon, <1>0, <1>1 DEF StoredBytesExist, Active
<1>13. Accounted'
  <2>1. ASSUME NEW f \in files', NEW x \in Media, Active(x), storagePath[x] = f PROVE Kept(f)'
    <3>1. CASE x # m
      BY ONLY Zenon, <1>1, <2>1, <3>1 DEF Kept, Active
    <3>2. CASE x = m
      BY Zenon, <1>1, <2>1, <3>2 DEF Kept
    <3> QED BY Zenon, <3>1, <3>2
  <2>2. \A v \in Workers : wpc[v] = "remove" => wpc'[v] = "remove"
    BY Zenon, <1>1
  <2> QED BY Zenon, <1>0, <1>1, <2>1, <2>2, AccountedMoved DEF Unrecorded
<1> QED BY Zenon, <1>6, <1>7, <1>8, <1>9, <1>10, <1>11, <1>12, <1>13 DEF FileInv

\* The file that a worker has released is removed.
LEMMA RemoveReleasedFiles ==
    ASSUME FileTypes, FileInv, NEW w \in Workers, wpc[w] = "remove", DOMAIN job = Workers, DOMAIN wpc = Workers,
           files' = files \ {job[w].path}, Idle(w),
           UNCHANGED <<row, storagePath, lock, upload, dedupPath, del, target, delPath, leaked, batch>>
    PROVE  FileInv'
<1>0. /\ LibraryRefs /\ Shrinks /\ Grows
      /\ OwnFile /\ Sharing /\ Trimming /\ Deleting /\ Leaving /\ Releasing /\ StoredBytesExist /\ Accounted
  BY Zenon, Steady DEF FileInv, FileTypes, LibraryTypes, LibraryTypeOK
<1>1. /\ job'[w] = NoJob /\ wpc'[w] = "idle" /\ \A v \in Workers : v # w => wpc'[v] = wpc[v] /\ job'[v] = job[v]
      /\ \A a : LocksOf(a)
  BY Zenon, <1>0 DEF Idle, LocksOf
<1>2. OwnFile'
  <2>1. NoJob.path = None
    BY ONLY TRUE DEF NoJob
  <2>2. ASSUME NEW m \in Media, Known(m)' PROVE Known(m)
    <3>1. UNCHANGED <<storagePath, dedupPath, delPath, batch>>
      BY Zenon
    <3>2. \A v \in Workers : job'[v].path = m => job[v].path = m
      BY ONLY Zenon, <1>1, <2>1, Distinct, m \in Media
    <3> QED BY ONLY ZenonT(30), <2>2, <3>1, <3>2 DEF Known
  <2>3. ~Uncommitted(job[w].path) \/ job[w].path \notin Media
    BY Zenon, <1>0 DEF OwnFile, Known
  <2> QED BY Zenon, <1>0, <2>2, <2>3, OwnFileKept DEF Uncommitted
<1>3. Sharing'
  BY Zenon, <1>0, <1>1, Distinct, SharingKept
<1>4. Trimming'
  BY Zenon, <1>0, TrimmingKept
<1>5. Deleting'
  <2>1. \A d \in Deletes : d # w
    BY ONLY Zenon, Distinct, w \in Workers
  <2> QED BY Zenon, <1>0, <1>1, <2>1, DeletingKept DEF Uncommitted
<1>6. Leaving'
  BY Zenon, <1>0, LeavingKept
<1>7. Releasing'
  <2>1. \A v \in Workers : wpc'[v] \in {"swap", "remove"} => v # w
    BY ONLY Zenon, <1>1
  <2> QED BY Zenon, <1>0, <1>1, <2>1, ReleasingKept
<1>8. StoredBytesExist'
  <2>1. ~InUse(job[w].path, None)
    BY Zenon, <1>0 DEF Releasing, ReleaseSafe
  <2>2. UNCHANGED <<row, storagePath>> /\ files' = files \ {job[w].path}
    BY Zenon
  <2> QED BY ONLY Zenon, <1>0, <2>1, <2>2, Distinct DEF StoredBytesExist, InUse, Active
<1>9. Accounted'
  BY Zenon, <1>0, <1>1, AccountedKept DEF Unrecorded
<1> QED BY Zenon, <1>2, <1>3, <1>4, <1>5, <1>6, <1>7, <1>8, <1>9 DEF FileInv

LEMMA TypesForFiles == ASSUME Types PROVE FileTypes
<1>1. LibraryTypes
  BY Zenon DEF Types, TypeOK, LibraryTypes
<1>2. ASSUME NEW w \in Workers
      PROVE  /\ wpc[w] \in {"lock", "swap", "remove"} => job[w].path \in Media
             /\ job[w] \in Jobs \cup {NoJob} /\ batch[w] \subseteq Jobs
  BY Zenon DEF Types, TypeOK, JobRefs
<1>3. NoJob.path \in Paths /\ \A j \in Jobs : j.path \in Paths
  BY ONLY SMT DEF NoJob, Jobs, Paths
<1> QED BY ONLY Zenon, <1>1, <1>2, <1>3 DEF FileTypes

LEMMA LibraryFiles ==
    ASSUME FileTypes, FileInv, LibraryNext, UNCHANGED pubVars
    PROVE  FileInv'
BY Zenon, StoreUploadFiles, FindDuplicateFiles, LockDuplicateFiles, InsertUploadedMediaFiles, InsertFailsFiles,
   TrimUploadFiles, LoadForDeleteFiles, LockForDeleteFiles, SoftDeleteFiles, RemoveDeletedFiles,
   RemovalFailsFiles, ApiCrashFiles DEF LibraryNext

\* A worker moves on to a point where it is not about to write the library.
LEMMA MoveFiles ==
    ASSUME Types, FileInv, NEW w \in Workers, NEW a \in {"record", "release", "lock", "idle"},
           wpc' = [wpc EXCEPT ![w] = a],
           job' = job \/ job' = [job EXCEPT ![w] = NoJob],
           batch' = batch \/ batch' = [batch EXCEPT ![w] = {}],
           lock' = lock \/ (a = "idle" /\ lock' = Unlocked(w)),
           leaked \subseteq leaked', wpc[w] # "remove" \/ job[w].path \in leaked',
           UNCHANGED <<row, storagePath, files, upload, dedupPath, del, target, delPath>>
    PROVE  FileInv'
<1>0. FileTypes /\ DOMAIN wpc = Workers /\ DOMAIN job = Workers /\ DOMAIN batch = Workers
  BY Zenon, TypesForFiles DEF Types, TypeOK
<1>1. wpc'[w] = a /\ \A v \in Workers : v # w => wpc'[v] = wpc[v] /\ job'[v] = job[v]
  BY ONLY Zenon, <1>0, wpc' = [wpc EXCEPT ![w] = a], job' = job \/ job' = [job EXCEPT ![w] = NoJob], w \in Workers
<1>2. \A v \in Workers : wpc'[v] \in {"swap", "remove"} => wpc'[v] = wpc[v] /\ job'[v] = job[v]
  BY ONLY Zenon, <1>1, a \in {"record", "release", "lock", "idle"}
<1>3. \A v \in Workers : job'[v].path = None \/ Known(job'[v].path)
  <2>1. NoJob.path = None
    BY ONLY TRUE DEF NoJob
  <2>2. \A v \in Workers : job'[v] = NoJob \/ job'[v] = job[v]
    BY ONLY Zenon, <1>0, job' = job \/ job' = [job EXCEPT ![w] = NoJob]
  <2> QED BY ONLY Zenon, <2>1, <2>2 DEF Known
<1>4. \A v \in Workers : \A j \in batch'[v] : Known(j.path)
  BY Zenon, <1>0 DEF Known
<1>5. lock' = lock \/ \E v \in Workers : wpc'[v] = "idle" /\ lock' = Unlocked(v)
  BY Zenon, <1>1
<1>6. \A v \in Workers : wpc[v] = "remove" =>
          (wpc'[v] = "remove" /\ job'[v] = job[v]) \/ job[v].path \in leaked'
  BY Zenon, <1>1
<1> QED BY Zenon, <1>0, <1>2, <1>3, <1>4, <1>5, <1>6, OtherFiles

\* The steps of a worker.
LEMMA WorkFiles ==
    ASSUME Types, FileInv, NEW w \in Workers, Work(w)
    PROVE  FileInv'
<1>0. /\ FileTypes /\ DOMAIN wpc = Workers /\ DOMAIN job = Workers /\ DOMAIN batch = Workers
      /\ batch \in [Workers -> SUBSET Jobs]
  BY Zenon, TypesForFiles DEF Types, TypeOK
<1>1. CASE ClaimDue(w)
  <2>1. PICK S \in SUBSET {p \in Pubs : Due(p)} :
          LET back == {p \in S : status[p] = "uploading"}
          IN  /\ attempts' = [p \in Pubs |-> IF p \in S THEN attempts[p] + InterruptedAttempt(p)
                                                       ELSE attempts[p]]
              /\ reclaims' = [p \in Pubs |-> IF p \in back THEN reclaims[p] + 1 ELSE reclaims[p]]
              /\ batch' = [batch EXCEPT ![w] =
                    {[pub |-> p, attempts |-> attempts'[p], interrupted |-> p \in back,
                      path |-> storagePath[MediaOf(p)]] : p \in S}]
              /\ status' = [p \in Pubs |-> IF p \in S THEN "uploading" ELSE status[p]]
              /\ nextAttempt' = [p \in Pubs |-> IF p \in S THEN "future" ELSE nextAttempt[p]]
    BY Zenon, <1>1 DEF ClaimDue
  <2>2. \A j \in batch'[w] : \E x \in Media : storagePath[x] = j.path
    <3> SUFFICES ASSUME NEW j \in batch'[w] PROVE \E x \in Media : storagePath[x] = j.path
      OBVIOUS
    <3>1. PICK p \in S : j.path = storagePath[MediaOf(p)]
      BY ONLY SMTT(30), <1>0, <2>1, j \in batch'[w], w \in Workers
    <3>2. MediaOf(p) \in Media
      BY Zenon, PubMedia
    <3> QED BY Zenon, <3>1, <3>2
  <2>3. \A v \in Workers : v # w => batch'[v] = batch[v]
    BY ONLY Zenon, <1>0, <2>1
  <2>4. \A v \in Workers : Known(job'[v].path) /\ \A j \in batch'[v] : Known(j.path)
    BY Zenon, <1>1, <2>2, <2>3 DEF ClaimDue, Known
  <2> QED BY Zenon, <1>0, <1>1, <2>4, OtherFiles DEF ClaimDue
<1>2. ASSUME NEW j \in batch[w], StartJob(w, j) PROVE FileInv'
  <2>1. \A v \in Workers : wpc'[v] \in {"swap", "remove"} => wpc'[v] = wpc[v] /\ job'[v] = job[v]
    BY Zenon, <1>0, <1>2 DEF StartJob
  <2>2. \A v \in Workers : Known(job'[v].path) /\ \A i \in batch'[v] : Known(i.path)
    BY Zenon, <1>0, <1>2 DEF StartJob, Known
  <2> QED BY Zenon, <1>0, <1>2, <2>1, <2>2, OtherFiles DEF StartJob
<1>3. CASE Telegram(w) \/ YouTube(w)
  <2>1. wpc' = [wpc EXCEPT ![w] = "record"]
    BY Zenon, <1>3 DEF Telegram, YouTube, YouTubeFails, FindUploaded, ResumeUpload, UploadAnew, Answer
  <2> QED BY Zenon, <1>3, <2>1, MoveFiles DEF Telegram, YouTube
<1>4. CASE MarkPublished(w) \/ MarkRetry(w) \/ MarkFailed(w) \/ DeferUnconfigured(w)
  <2>1. \/ job' = [job EXCEPT ![w] = NoJob] /\ wpc' = [wpc EXCEPT ![w] = "idle"]
        \/ job' = job /\ wpc' = [wpc EXCEPT ![w] = "release"]
    BY Zenon, <1>4 DEF MarkPublished, MarkRetry, MarkFailed, DeferUnconfigured, Idle
  <2>2. UNCHANGED <<library, batch>>
    BY Zenon, <1>4 DEF MarkPublished, MarkRetry, MarkFailed, DeferUnconfigured
  <2>3. wpc[w] # "remove"
    BY Zenon, <1>4 DEF MarkPublished, MarkRetry, MarkFailed, DeferUnconfigured
  <2> QED BY Zenon, <2>1, <2>2, <2>3, MoveFiles
<1>5. CASE CheckPending(w)
  <2>1. \/ job' = [job EXCEPT ![w] = NoJob] /\ wpc' = [wpc EXCEPT ![w] = "idle"]
        \/ job' = job /\ wpc' = [wpc EXCEPT ![w] = "lock"]
    BY Zenon, <1>5 DEF CheckPending, Idle
  <2> QED BY Zenon, <1>5, <2>1, MoveFiles DEF CheckPending
<1>6. CASE LockForRelease(w)
  <2>1. CASE Idle(w) /\ UNCHANGED lock
    BY Zenon, <1>6, <2>1, MoveFiles DEF LockForRelease, Idle
  <2> QED BY Zenon, <1>0, <1>6, <2>1, LockForReleaseFiles DEF LockForRelease
<1>7. CASE SwapForLink(w)
  <2>1. CASE Idle(w) /\ UNCHANGED storagePath
    BY Zenon, <1>7, <2>1, MoveFiles DEF SwapForLink, Idle
  <2>2. MediaOf(job[w].pub) \in Media
    BY Zenon, <1>7, JobTypes, PubMedia DEF SwapForLink
  <2> QED BY Zenon, <1>0, <1>7, <2>1, <2>2, SwapForLinkFiles DEF SwapForLink
<1>8. CASE RemoveReleased(w)
  <2>1. CASE leaked' = leaked \cup {job[w].path} /\ UNCHANGED files
    <3>1. leaked \subseteq leaked' /\ job[w].path \in leaked'
      BY ONLY Zenon, <2>1
    <3> QED BY Zenon, <1>8, <2>1, <3>1, MoveFiles DEF RemoveReleased, Idle
  <2> QED BY Zenon, <1>0, <1>8, <2>1, RemoveReleasedFiles DEF RemoveReleased
<1> QED BY Zenon, <1>1, <1>2, <1>3, <1>4, <1>5, <1>6, <1>7, <1>8 DEF Work

LEMMA StepFiles ==
    ASSUME Types, FileInv, [Next]_vars
    PROVE  FileInv'
<1>0. FileTypes /\ DOMAIN wpc = Workers /\ DOMAIN job = Workers /\ DOMAIN batch = Workers
  BY Zenon, TypesForFiles DEF Types, TypeOK
<1>1. CASE LibraryNext /\ UNCHANGED pubVars
  BY Zenon, <1>0, <1>1, LibraryFiles
<1>2. CASE UNCHANGED <<library, batch, job, wpc>>
  BY Zenon, <1>0, <1>2, OtherFiles DEF Known
<1>3. ASSUME NEW w \in Workers, Work(w) PROVE FileInv'
  BY Zenon, <1>3, WorkFiles
<1>4. ASSUME NEW w \in Workers, BookkeepingFails(w) \/ WorkerCrash(w) PROVE FileInv'
  <2>1. /\ job' = [job EXCEPT ![w] = NoJob] /\ wpc' = [wpc EXCEPT ![w] = "idle"] /\ lock' = Unlocked(w)
        /\ batch' = batch \/ batch' = [batch EXCEPT ![w] = {}]
        /\ UNCHANGED <<row, storagePath, files, upload, dedupPath, del, target, delPath>>
        /\ leaked \subseteq leaked' /\ (wpc[w] # "remove" \/ job[w].path \in leaked')
    BY Zenon, <1>4 DEF BookkeepingFails, WorkerCrash, Idle
  <2> QED BY Zenon, <2>1, MoveFiles
<1> QED
  BY Zenon, <1>1, <1>2, <1>3, <1>4
     DEF Next, vars, LoadForPost, InsertPublications, DeletePublication, NextAttemptComes

LEMMA InitFiles == ASSUME Init PROVE FileInv
<1>1. /\ \A m \in Media : /\ row[m] = "absent" /\ storagePath[m] = None /\ upload[m] = "new"
                           /\ dedupPath[m] = None
      /\ \A d \in Deletes : del[d] = "new" /\ delPath[d] = None
      /\ files = {}
  BY Zenon DEF Init, LibraryInit
<1>2. \A w \in Workers : wpc[w] = "idle" /\ job[w].path = None /\ batch[w] = {}
  <2>1. /\ wpc = [w \in Workers |-> "idle"] /\ job = [w \in Workers |-> NoJob]
        /\ batch = [w \in Workers |-> {}]
    BY ONLY Zenon, Init DEF Init
  <2>2. NoJob.path = None
    BY ONLY TRUE DEF NoJob
  <2> QED BY ONLY Zenon, <2>1, <2>2
<1>3. OwnFile
  <2>1. \A m \in Media : ~Known(m)
    BY ONLY ZenonT(30), <1>1, <1>2, Distinct DEF Known
  <2> QED BY ONLY Zenon, <1>1, <2>1 DEF OwnFile
<1>4. Sharing /\ Trimming /\ StoredBytesExist /\ Accounted
  BY ONLY Zenon, <1>1 DEF Sharing, Trimming, StoredBytesExist, Accounted, InUse, Active
<1>5. Deleting /\ Leaving
  BY ONLY Zenon, <1>1 DEF Deleting, DeleteSafe, Leaving
<1>6. Releasing
  BY ONLY Zenon, <1>2 DEF Releasing, ReleaseSafe
<1> QED BY Zenon, <1>3, <1>4, <1>5, <1>6 DEF FileInv

\* FileInv is an inductive invariant, on top of the types.
LEMMA FilesHold == Spec => [](Types /\ FileInv)
<1>1. Init => Types /\ FileInv
  BY Zenon, InitTypes, InitFiles
<1>2. Types /\ FileInv /\ [Next]_vars => (Types /\ FileInv)'
  BY Zenon, StepTypes, StepFiles
<1> QED BY <1>1, <1>2, PTL DEF Spec

\* Uploads of equal content share one file, and the file is removed only when the
\* last row that points at it goes: however uploads, DELETEs and releases interleave,
\* fail and crash, the bytes of an active row are on disk.
THEOREM BytesExist == Spec => []StoredBytesExist
<1>1. FileInv => StoredBytesExist
  BY Zenon DEF FileInv
<1> QED BY <1>1, FilesHold, PTL

\* And nothing else stays there: a file that no active row points at is one that an
\* upload, a DELETE or a worker is still to record or to remove, or one whose removal
\* a crash or a failing rm has cut short.
THEOREM NothingIsOrphaned == Spec => []NoOrphanBytes
<1>1. ASSUME FileInv PROVE NoOrphanBytes
  <2>1. \A f \in files : Kept(f)
    BY Zenon, <1>1 DEF FileInv, Accounted
  <2>2. ASSUME NEW f, Kept(f)
        PROVE  f \in {storagePath[m] : m \in {x \in Media : Active(x)}} \cup Pending \cup leaked
    BY ONLY Zenon, <2>2 DEF Kept, Pending, Unremoved
  <2> QED BY ONLY Zenon, <2>1, <2>2 DEF NoOrphanBytes
<1> QED BY <1>1, FilesHold, PTL

-----------------------------------------------------------------------------
(* The queue *)

\* A worker has claimed the row and not recorded the outcome.
AtJob(w) == wpc[w] \in {"giveup", "defer", "call", "record"}
Has(w, p) == (\E j \in batch[w] : j.pub = p) \/ (AtJob(w) /\ job[w].pub = p)

\* The row of a job in hand is under a lease that has not run out, and as the
\* claim has left it.
Leased(j) == status[j.pub] = "uploading" /\ nextAttempt[j.pub] = "future" /\ j.attempts = attempts[j.pub]

\* What a worker has in hand is leased, and is in one place.
HandOK(w) ==
    /\ \A j \in batch[w] : Leased(j)
    /\ AtJob(w) => Leased(job[w])
    /\ \A i, j \in batch[w] : i.pub = j.pub => i = j
    /\ wpc[w] # "idle" => \A j \in batch[w] : j.pub # job[w].pub
    /\ wpc[w] = "idle" => job[w] = NoJob
Apart == \A v, w \in Workers : \A p \in Pubs : Has(v, p) /\ Has(w, p) => v = w
ClaimInv == (\A w \in Workers : HandOK(w)) /\ Apart

\* A row that may be handed to its destination: every call so far is paid for by an
\* attempt, and every video by an interruption, unless the session is known to have it.
Ready(p) == calls[p] <= attempts[p] /\ (session[p] # "done" => videos[p] <= reclaims[p])

RowOK(p) ==
    /\ calls[p] <= MaxAttempts /\ videos[p] <= 1 + reclaims[p]
    /\ status[p] = "queued" => attempts[p] < MaxAttempts /\ Ready(p)
    /\ status[p] = "uploading" => calls[p] <= attempts[p] + 1

BatchOK(w) == \A j \in batch[w] : Ready(j.pub) /\ (attempts[j.pub] < MaxAttempts \/ j.interrupted)

\* The answer that is to be recorded.
AnswerOK(w) ==
    LET p == job[w].pub
    IN  /\ outcome[w] = "quota" => calls[p] <= attempts[p]
        /\ session[p] # "done" /\ newSession[w] # "done" => videos[p] <= reclaims[p]
        /\ newSession[w] # "none" => session[p] # "done"

JobOK(w) ==
    /\ wpc[w] \in {"giveup", "defer", "call"} => Ready(job[w].pub)
    /\ wpc[w] \in {"defer", "call", "record"} => attempts[job[w].pub] < MaxAttempts
    /\ wpc[w] = "record" => AnswerOK(w)
    /\ wpc[w] \in {"idle", "giveup", "defer", "call"} => newSession[w] = "none"

WorkInv == (\A p \in Pubs : RowOK(p)) /\ (\A w \in Workers : BatchOK(w) /\ JobOK(w))

QueueInv == ClaimInv /\ WorkInv

\* A step leaves a row as it is.
SameRow(p) ==
    /\ status'[p] = status[p] /\ attempts'[p] = attempts[p] /\ nextAttempt'[p] = nextAttempt[p]
    /\ session'[p] = session[p] /\ videos'[p] = videos[p] /\ calls'[p] = calls[p]
    /\ reclaims'[p] = reclaims[p]

\* A step leaves a worker as it is.
SameWorker(w) ==
    /\ batch'[w] = batch[w] /\ job'[w] = job[w] /\ wpc'[w] = wpc[w]
    /\ outcome'[w] = outcome[w] /\ newSession'[w] = newSession[w]

LEMMA HasIsInHand == ASSUME NEW w, NEW p PROVE p \in InHand(w) <=> Has(w, p)
BY Zenon DEF InHand, Has, AtJob

LEMMA RowTypes ==
    ASSUME Types, NEW p \in Pubs
    PROVE  attempts[p] \in Nat /\ videos[p] \in Nat /\ calls[p] \in Nat /\ reclaims[p] \in Nat
BY Zenon DEF Types, TypeOK

LEMMA HandTypes ==
    ASSUME Types, NEW w \in Workers
    PROVE  /\ \A j \in batch[w] : j \in Jobs /\ j.pub \in Pubs
           /\ AtJob(w) => job[w] \in Jobs /\ job[w].pub \in Pubs
<1>1. batch[w] \subseteq Jobs
  BY Zenon DEF Types, TypeOK
<1>2. \A j \in Jobs : j.pub \in Pubs
  BY ONLY Zenon DEF Jobs
<1>3. AtJob(w) => job[w] \in Jobs
  BY Zenon DEF AtJob, Types, JobRefs
<1> QED BY ONLY Zenon, <1>1, <1>2, <1>3

LEMMA RowKept == ASSUME NEW p, RowOK(p), SameRow(p) PROVE RowOK(p)'
BY Zenon DEF RowOK, Ready, SameRow

LEMMA ReadyKept == ASSUME NEW p, Ready(p), SameRow(p) PROVE Ready(p)'
BY Zenon DEF Ready, SameRow

\* The jobs of a worker that goes on with what it has, or with less of it, and
\* whose rows nobody touches.
LEMMA BatchKept ==
    ASSUME NEW w \in Workers, HandOK(w), BatchOK(w), batch'[w] \subseteq batch[w],
           \A j \in batch'[w] : SameRow(j.pub)
    PROVE  (\A j \in batch'[w] : Leased(j)') /\ (\A i, j \in batch'[w] : i.pub = j.pub => i = j) /\ BatchOK(w)'
<1>1. ASSUME NEW j \in batch'[w]
      PROVE  Leased(j)' /\ Ready(j.pub)' /\ (attempts'[j.pub] < MaxAttempts \/ j.interrupted)
  <2>1. j \in batch[w] /\ SameRow(j.pub)
    BY Zenon
  <2>2. Leased(j) /\ Ready(j.pub) /\ (attempts[j.pub] < MaxAttempts \/ j.interrupted)
    BY ONLY Zenon, <2>1, HandOK(w), BatchOK(w) DEF HandOK, BatchOK
  <2>3. attempts'[j.pub] = attempts[j.pub]
    BY ONLY Zenon, <2>1 DEF SameRow
  <2>4. Ready(j.pub)'
    BY Zenon, <2>1, <2>2, ReadyKept
  <2>5. Leased(j)'
    BY ONLY Zenon, <2>1, <2>2 DEF Leased, SameRow
  <2> QED BY ONLY Zenon, <2>2, <2>3, <2>4, <2>5
<1>2. \A i, j \in batch'[w] : i.pub = j.pub => i = j
  BY Zenon DEF HandOK
<1> QED BY ONLY Zenon, <1>1, <1>2 DEF BatchOK

LEMMA WorkerKept ==
    ASSUME NEW w \in Workers, HandOK(w), BatchOK(w), JobOK(w), SameWorker(w),
           \A p : Has(w, p) => SameRow(p)
    PROVE  HandOK(w)' /\ BatchOK(w)' /\ JobOK(w)'
<1>0. /\ batch'[w] = batch[w] /\ job'[w] = job[w] /\ wpc'[w] = wpc[w]
      /\ outcome'[w] = outcome[w] /\ newSession'[w] = newSession[w]
  BY ONLY Zenon, SameWorker(w) DEF SameWorker
<1>1. \A j \in batch'[w] : SameRow(j.pub)
  BY Zenon, <1>0 DEF Has
<1>2. /\ \A j \in batch'[w] : Leased(j)'
      /\ \A i, j \in batch'[w] : i.pub = j.pub => i = j
      /\ BatchOK(w)'
  BY Zenon, <1>0, <1>1, BatchKept
<1>3. AtJob(w) => SameRow(job[w].pub)
  BY Zenon DEF Has
<1>4. AtJob(w)' => Leased(job[w])'
  BY ONLY ZenonT(60), HandOK(w), <1>0, <1>3 DEF HandOK, AtJob, Leased, SameRow
<1>5. HandOK(w)'
  BY ONLY Zenon, HandOK(w), <1>0, <1>2, <1>4 DEF HandOK
<1>6. JobOK(w)'
  BY ONLY Zenon, JobOK(w), <1>0, <1>3 DEF JobOK, AtJob, SameRow, Ready, AnswerOK
<1> QED BY Zenon, <1>2, <1>5, <1>6

LEMMA ApartKept ==
    ASSUME Apart, \A w \in Workers : \A p \in Pubs : Has(w, p)' => Has(w, p)
    PROVE  Apart'
BY Zenon DEF Apart

\* A step of a route: a row that changes is in no worker's hand.
LEMMA RouteStep ==
    ASSUME QueueInv, \A w \in Workers : SameWorker(w),
           \A p \in Pubs : SameRow(p) \/ (RowOK(p)' /\ \A w \in Workers : ~Has(w, p)),
           \A w \in Workers : \A p : Has(w, p) => p \in Pubs
    PROVE  QueueInv'
<1>1. \A p \in Pubs : RowOK(p)'
  BY Zenon, RowKept DEF QueueInv, WorkInv
<1>2. \A w \in Workers : HandOK(w)' /\ BatchOK(w)' /\ JobOK(w)'
  BY Zenon, WorkerKept DEF QueueInv, ClaimInv, WorkInv
<1>3. \A w \in Workers : \A p \in Pubs : Has(w, p)' => Has(w, p)
  BY Zenon DEF SameWorker, Has, AtJob
<1> QED BY Zenon, <1>1, <1>2, <1>3, ApartKept DEF QueueInv, ClaimInv, WorkInv

\* A step of a worker with its job, which is in nobody else's hand.
LEMMA JobStep ==
    ASSUME Types, QueueInv, NEW w \in Workers, AtJob(w), NEW P, P = job[w].pub,
           \A p \in Pubs : p # P => SameRow(p),
           \A v \in Workers : v # w => SameWorker(v),
           batch'[w] = batch[w], RowOK(P)', JobOK(w)',
           \/ /\ AtJob(w)' /\ job'[w] = job[w]
              /\ UNCHANGED <<status, attempts, nextAttempt>>
           \/ ~AtJob(w)' /\ wpc'[w] # "idle" /\ job'[w] = job[w]
           \/ wpc'[w] = "idle" /\ job'[w] = NoJob
    PROVE  QueueInv'
<1>0. P \in Pubs /\ wpc[w] # "idle" /\ \A v \in Workers : HandOK(v) /\ BatchOK(v) /\ JobOK(v)
  BY Zenon, HandTypes DEF QueueInv, ClaimInv, WorkInv, AtJob
<1>1. \A p \in Pubs : RowOK(p)'
  <2>1. \A p \in Pubs : RowOK(p)
    BY Zenon DEF QueueInv, WorkInv
  <2>2. \A p \in Pubs : p # P => RowOK(p)'
    BY Zenon, <2>1, RowKept
  <2> QED BY Zenon, <2>2
<1>2. ASSUME NEW v \in Workers, v # w PROVE HandOK(v)' /\ BatchOK(v)' /\ JobOK(v)'
  <2>1. \A p : Has(v, p) => p \in Pubs /\ p # P
    <3>1. \A p : Has(v, p) => p \in Pubs
      BY Zenon, HandTypes DEF Has
    <3>2. Has(w, P)
      BY Zenon DEF Has
    <3> QED BY Zenon, <1>0, <1>2, <3>1, <3>2 DEF QueueInv, ClaimInv, Apart
  <2>2. \A p : Has(v, p) => SameRow(p)
    BY Zenon, <2>1
  <2> QED BY Zenon, <1>0, <1>2, <2>2, WorkerKept
<1>3. /\ \A j \in batch'[w] : Leased(j)' /\ j.pub # P
      /\ \A i, j \in batch'[w] : i.pub = j.pub => i = j
      /\ BatchOK(w)'
  <2>1. \A j \in batch[w] : j.pub \in Pubs /\ j.pub # P
    BY Zenon, <1>0, HandTypes DEF HandOK
  <2>2. \A j \in batch'[w] : SameRow(j.pub)
    BY Zenon, <2>1
  <2> QED BY Zenon, <1>0, <2>1, <2>2, BatchKept
<1>4. AtJob(w)' => job'[w] = job[w] /\ Leased(job[w])'
  <2>1. AtJob(w)' => job'[w] = job[w] /\ UNCHANGED <<status, attempts, nextAttempt>>
    BY Zenon DEF AtJob
  <2>2. Leased(job[w])
    BY Zenon, <1>0 DEF HandOK
  <2> QED BY ONLY Zenon, <2>1, <2>2 DEF Leased
<1>5. HandOK(w)'
  <2>1. /\ wpc'[w] # "idle" => job'[w] = job[w]
        /\ wpc'[w] = "idle" => job'[w] = NoJob
    BY Zenon DEF AtJob
  <2>2. wpc'[w] # "idle" => \A j \in batch'[w] : j.pub # job'[w].pub
    BY Zenon, <1>3, <2>1
  <2> QED BY ONLY Zenon, <1>3, <1>4, <2>1, <2>2 DEF HandOK
<1>6. \A v \in Workers : \A p \in Pubs : Has(v, p)' => Has(v, p)
  <2>1. \A p : Has(w, p)' => Has(w, p)
    BY Zenon, <1>4 DEF Has
  <2>2. \A v \in Workers : v # w => \A p : Has(v, p)' => Has(v, p)
    BY Zenon DEF Has, SameWorker, AtJob
  <2> QED BY Zenon, <2>1, <2>2
<1> QED BY Zenon, <1>1, <1>2, <1>3, <1>5, <1>6, ApartKept DEF QueueInv, ClaimInv, WorkInv

\* A step of a worker that touches no row: what it has in hand can only become less.
LEMMA QuietStep ==
    ASSUME Types, QueueInv, NEW w \in Workers,
           \A p \in Pubs : SameRow(p),
           \A v \in Workers : v # w => SameWorker(v),
           batch'[w] \subseteq batch[w],
           \/ /\ wpc[w] # "idle" /\ job'[w] = job[w]
              /\ wpc'[w] \in {"release", "lock", "swap", "remove"}
           \/ wpc'[w] = "idle" /\ job'[w] = NoJob /\ newSession'[w] = "none"
    PROVE  QueueInv'
<1>0. \A v \in Workers : HandOK(v) /\ BatchOK(v) /\ JobOK(v)
  BY Zenon DEF QueueInv, ClaimInv, WorkInv
<1>1. \A p \in Pubs : RowOK(p)'
  BY Zenon, RowKept DEF QueueInv, WorkInv
<1>2. \A v \in Workers : \A p : Has(v, p) => SameRow(p)
  BY Zenon, HandTypes DEF Has
<1>3. \A v \in Workers : v # w => HandOK(v)' /\ BatchOK(v)' /\ JobOK(v)'
  BY Zenon, <1>0, <1>2, WorkerKept
<1>4. /\ \A j \in batch'[w] : Leased(j)'
      /\ \A i, j \in batch'[w] : i.pub = j.pub => i = j
      /\ BatchOK(w)'
  <2>1. \A j \in batch'[w] : SameRow(j.pub)
    BY Zenon, <1>2 DEF Has
  <2> QED BY Zenon, <1>0, <2>1, BatchKept
<1>5. ~AtJob(w)'
  BY Zenon DEF AtJob
<1>6. HandOK(w)'
  BY Zenon, <1>0, <1>4, <1>5 DEF HandOK
<1>7. JobOK(w)'
  BY Zenon DEF JobOK
<1>8. \A v \in Workers : \A p \in Pubs : Has(v, p)' => Has(v, p)
  <2>1. \A p : Has(w, p)' => Has(w, p)
    BY Zenon, <1>5 DEF Has
  <2>2. \A v \in Workers : v # w => \A p : Has(v, p)' => Has(v, p)
    BY Zenon DEF Has, SameWorker, AtJob
  <2> QED BY Zenon, <2>1, <2>2
<1> QED BY Zenon, <1>1, <1>3, <1>4, <1>6, <1>7, <1>8, ApartKept DEF QueueInv, ClaimInv, WorkInv

\* What POST does to the rows: all of them are new, or none changes.
Opens(new) ==
    /\ \A p \in new : status[p] = "absent"
    /\ status' = [p \in Pubs |-> IF p \in new THEN "queued" ELSE status[p]]
    /\ attempts' = [p \in Pubs |-> IF p \in new THEN 0 ELSE attempts[p]]
    /\ nextAttempt' = [p \in Pubs |-> IF p \in new THEN "due" ELSE nextAttempt[p]]
    /\ session' = [p \in Pubs |-> IF p \in new THEN "none" ELSE session[p]]
    /\ videos' = [p \in Pubs |-> IF p \in new THEN 0 ELSE videos[p]]
    /\ calls' = [p \in Pubs |-> IF p \in new THEN 0 ELSE calls[p]]
    /\ reclaims' = [p \in Pubs |-> IF p \in new THEN 0 ELSE reclaims[p]]

LEMMA InsertOpens ==
    ASSUME NEW q \in Posts, InsertPublications(q)
    PROVE  /\ UNCHANGED worker /\ post[q] \in Media
           /\ UNCHANGED <<rows, history>> \/ \E D \in SUBSET Destinations : Opens({post[q]} \X D)
BY Zenon DEF InsertPublications, Opens

\* Steps of the routes and of time: a row they touch is claimed by nobody.
LEMMA RouteQueue ==
    ASSUME Types, QueueInv,
           \/ LibraryNext /\ UNCHANGED pubVars
           \/ \E q \in Posts : (\E m \in Media : LoadForPost(q, m)) \/ InsertPublications(q)
           \/ \E p \in Pubs : DeletePublication(p) \/ NextAttemptComes(p)
           \/ UNCHANGED vars
    PROVE  QueueInv'
<1>0. /\ \A w \in Workers : SameWorker(w)
      /\ \A w \in Workers : \A p : Has(w, p) => p \in Pubs
  <2>1. UNCHANGED worker
    BY Zenon DEF LoadForPost, InsertPublications, DeletePublication, NextAttemptComes, vars
  <2> QED BY Zenon, <2>1, HandTypes DEF SameWorker, Has
<1>1. \A w \in Workers : \A p : Has(w, p) => status[p] = "uploading"
  <2>1. \A w \in Workers : HandOK(w)
    BY Zenon DEF QueueInv, ClaimInv
  <2>2. \A w \in Workers : /\ \A j \in batch[w] : status[j.pub] = "uploading"
                           /\ AtJob(w) => status[job[w].pub] = "uploading"
    BY ONLY Zenon, <2>1 DEF HandOK, Leased
  <2> QED BY ONLY Zenon, <2>2 DEF Has
<1>2. CASE UNCHANGED <<rows, history>>
  BY Zenon, <1>0, <1>2, RouteStep DEF SameRow
<1>3. ASSUME NEW new, Opens(new) PROVE QueueInv'
  <2>1. ASSUME NEW p \in Pubs, p \notin new PROVE SameRow(p)
    BY ONLY ZenonT(60), <1>3, <2>1 DEF Opens, SameRow
  <2>2. ASSUME NEW p \in Pubs, p \in new PROVE RowOK(p)' /\ \A w \in Workers : ~Has(w, p)
    <3>1. status[p] = "absent"
      BY ONLY Zenon, <1>3, <2>2 DEF Opens
    <3>2. /\ status'[p] = "queued" /\ attempts'[p] = 0 /\ session'[p] = "none"
          /\ videos'[p] = 0 /\ calls'[p] = 0 /\ reclaims'[p] = 0
      BY ONLY Zenon, <1>3, <2>2 DEF Opens
    <3>3. RowOK(p)'
      BY ONLY SMT, PublisherAssumption, <3>2 DEF RowOK, Ready
    <3> QED BY Zenon, <1>1, <3>1, <3>3
  <2> QED BY Zenon, <1>0, <2>1, <2>2, RouteStep
<1>4. ASSUME NEW p \in Pubs, DeletePublication(p) PROVE QueueInv'
  <2>1. /\ status' = [status EXCEPT ![p] = "absent"] /\ status[p] \in {"queued", "published", "failed"}
        /\ nextAttempt' = [nextAttempt EXCEPT ![p] = "null"]
        /\ UNCHANGED <<attempts, session, history>>
    BY ONLY Zenon, <1>4 DEF DeletePublication
  <2>2. status'[p] = "absent" /\ \A x \in Pubs : x # p => SameRow(x)
    <3>1. DOMAIN status = Pubs /\ DOMAIN nextAttempt = Pubs
      BY Zenon DEF Types, TypeOK
    <3> QED BY ONLY Zenon, <2>1, <3>1, p \in Pubs DEF SameRow
  <2>3. RowOK(p)'
    <3>1. RowOK(p)
      BY Zenon DEF QueueInv, WorkInv
    <3> QED BY ONLY Zenon, <2>1, <2>2, <3>1 DEF RowOK
  <2>4. \A w \in Workers : ~Has(w, p)
    BY Zenon, <1>1, <2>1
  <2> QED BY Zenon, <1>0, <2>2, <2>3, <2>4, RouteStep
<1>5. ASSUME NEW p \in Pubs, NextAttemptComes(p) PROVE QueueInv'
  <2>1. /\ ~Held(p) /\ nextAttempt' = [nextAttempt EXCEPT ![p] = "due"]
        /\ UNCHANGED <<status, attempts, session, history>>
    BY ONLY Zenon, <1>5 DEF NextAttemptComes
  <2>2. \A x \in Pubs : x # p => SameRow(x)
    <3>1. DOMAIN nextAttempt = Pubs
      BY Zenon DEF Types, TypeOK
    <3> QED BY ONLY Zenon, <2>1, <3>1, p \in Pubs DEF SameRow
  <2>3. RowOK(p)'
    <3>1. RowOK(p)
      BY Zenon DEF QueueInv, WorkInv
    <3> QED BY ONLY Zenon, <2>1, <3>1 DEF RowOK, Ready
  <2>4. \A w \in Workers : ~Has(w, p)
    BY Zenon, <2>1, HasIsInHand DEF Held
  <2> QED BY Zenon, <1>0, <2>2, <2>3, <2>4, RouteStep
<1> QED
  BY Zenon, <1>2, <1>3, <1>4, <1>5, InsertOpens DEF LoadForPost, vars

\* A worker begins the next job of its batch.
LEMMA StartQueue ==
    ASSUME Types, QueueInv, NEW w \in Workers, NEW j \in batch[w], StartJob(w, j)
    PROVE  QueueInv'
<1>0. /\ wpc[w] = "idle" /\ UNCHANGED <<rows, history, outcome, newSession>>
      /\ batch'[w] = batch[w] \ {j} /\ job'[w] = j
      /\ wpc'[w] = IF j.interrupted /\ j.attempts >= MaxAttempts THEN "giveup"
                   ELSE IF DestinationOf(j.pub) \notin Configured THEN "defer" ELSE "call"
      /\ \A v \in Workers : v # w => SameWorker(v)
  <2>1. DOMAIN batch = Workers /\ DOMAIN job = Workers /\ DOMAIN wpc = Workers
    BY Zenon DEF Types, TypeOK
  <2>2. /\ wpc[w] = "idle" /\ UNCHANGED <<rows, history, outcome, newSession>>
        /\ batch'[w] = batch[w] \ {j} /\ job'[w] = j
        /\ \A v \in Workers : v # w => SameWorker(v)
    BY ONLY Zenon, <2>1, w \in Workers, StartJob(w, j) DEF StartJob, SameWorker
  <2>3. wpc'[w] = IF j.interrupted /\ j.attempts >= MaxAttempts THEN "giveup"
                  ELSE IF DestinationOf(j.pub) \notin Configured THEN "defer" ELSE "call"
    BY ONLY Zenon, <2>1, w \in Workers, StartJob(w, j) DEF StartJob
  <2> QED BY ONLY Zenon, <2>2, <2>3
<1>1. \A v \in Workers : HandOK(v) /\ BatchOK(v) /\ JobOK(v)
  BY Zenon DEF QueueInv, ClaimInv, WorkInv
<1>2. \A p : SameRow(p)
  BY ONLY Zenon, <1>0 DEF SameRow
<1>3. \A p \in Pubs : RowOK(p)'
  BY Zenon, <1>2, RowKept DEF QueueInv, WorkInv
<1>4. \A v \in Workers : v # w => HandOK(v)' /\ BatchOK(v)' /\ JobOK(v)'
  BY Zenon, <1>0, <1>1, <1>2, WorkerKept
<1>5. /\ \A i \in batch'[w] : Leased(i)'
      /\ \A i, k \in batch'[w] : i.pub = k.pub => i = k
      /\ BatchOK(w)'
  <2>1. batch'[w] \subseteq batch[w]
    BY ONLY Zenon, <1>0
  <2> QED BY Zenon, <1>1, <1>2, <2>1, BatchKept
<1>6. Leased(j) /\ Ready(j.pub) /\ (attempts[j.pub] < MaxAttempts \/ j.interrupted) /\ newSession[w] = "none"
  BY ONLY Zenon, <1>0, <1>1, w \in Workers, j \in batch[w] DEF HandOK, BatchOK, JobOK
<1>7. HandOK(w)'
  <2>1. \A i \in batch'[w] : i.pub # j.pub
    BY ONLY Zenon, <1>0, <1>1, w \in Workers, j \in batch[w] DEF HandOK
  <2>2. wpc'[w] # "idle"
    BY ONLY Zenon, <1>0
  <2>3. Leased(j)'
    BY ONLY Zenon, <1>2, <1>6 DEF Leased, SameRow
  <2> QED BY ONLY Zenon, <1>0, <1>5, <2>1, <2>2, <2>3 DEF HandOK
<1>8. JobOK(w)'
  <2>1. Ready(j.pub)'
    BY Zenon, <1>2, <1>6, ReadyKept
  <2>2. wpc'[w] = "giveup" \/ attempts[j.pub] < MaxAttempts
    <3>1. attempts[j.pub] \in Nat /\ j.attempts = attempts[j.pub] /\ MaxAttempts \in Nat
      BY Zenon, <1>6, HandTypes, RowTypes, PublisherAssumption DEF Leased
    <3> QED BY ONLY SMT, <1>0, <1>6, <3>1
  <2>3. wpc'[w] \in {"giveup", "defer", "call"}
    BY ONLY Zenon, <1>0
  <2> QED BY ONLY Zenon, <1>0, <1>6, <2>1, <2>2, <2>3 DEF JobOK
<1>9. \A v \in Workers : \A p \in Pubs : Has(v, p)' => Has(v, p)
  <2>1. \A p : Has(w, p)' => Has(w, p)
    BY ONLY Zenon, <1>0, j \in batch[w] DEF Has
  <2>2. \A v \in Workers : v # w => \A p : Has(v, p)' => Has(v, p)
    BY ONLY Zenon, <1>0 DEF Has, SameWorker, AtJob
  <2> QED BY Zenon, <2>1, <2>2
<1> QED BY Zenon, <1>3, <1>4, <1>5, <1>7, <1>8, <1>9, ApartKept DEF QueueInv, ClaimInv, WorkInv

\* What the counters of a row say after a call: s and n are the session of the row
\* and the one the call has opened, each as the call leaves it.
LEMMA CallCounts ==
    ASSUME Types, NEW w \in Workers, NEW p \in Pubs, wpc[w] = "call", p = job[w].pub, job'[w] = job[w],
           RowOK(p), JobOK(w), status'[p] = "uploading", attempts'[p] = attempts[p],
           reclaims'[p] = reclaims[p], wpc'[w] = "record",
           calls'[p] = IF outcome'[w] = "quota" THEN calls[p] ELSE calls[p] + 1,
           \/ videos'[p] = videos[p] /\ session'[p] = session[p] /\ newSession'[w] = newSession[w]
           \/ /\ session[p] # "done" /\ session'[p] \in {"open", "done"} /\ newSession'[w] = newSession[w]
              /\ videos'[p] = videos[p] + (IF session'[p] = "done" THEN 1 ELSE 0)
           \/ /\ session[p] # "done" /\ session'[p] = session[p] /\ newSession'[w] \in {"open", "done"}
              /\ videos'[p] = videos[p] + (IF newSession'[w] = "done" THEN 1 ELSE 0)
    PROVE  RowOK(p)' /\ JobOK(w)'
<1>1. attempts[p] \in Nat /\ videos[p] \in Nat /\ calls[p] \in Nat /\ reclaims[p] \in Nat /\ MaxAttempts \in Nat
  BY Zenon, RowTypes, PublisherAssumption
<1>2. Ready(p) /\ attempts[p] < MaxAttempts /\ newSession[w] = "none"
  BY Zenon DEF JobOK
<1>3. calls'[p] <= MaxAttempts /\ calls'[p] <= attempts'[p] + 1 /\ (outcome'[w] = "quota" => calls'[p] <= attempts'[p])
  BY ONLY SMT, <1>1, <1>2, attempts'[p] = attempts[p],
          calls'[p] = IF outcome'[w] = "quota" THEN calls[p] ELSE calls[p] + 1 DEF Ready
<1>4. /\ videos'[p] <= 1 + reclaims'[p]
      /\ session'[p] # "done" /\ newSession'[w] # "done" => videos'[p] <= reclaims'[p]
      /\ newSession'[w] # "none" => session'[p] # "done"
  <2>1. videos[p] <= 1 + reclaims[p] /\ (session[p] # "done" => videos[p] <= reclaims[p])
    BY ONLY Zenon, <1>2, RowOK(p) DEF RowOK, Ready
  <2>2. CASE videos'[p] = videos[p] /\ session'[p] = session[p] /\ newSession'[w] = newSession[w]
    BY ONLY SMT, <1>1, <1>2, <2>1, <2>2, reclaims'[p] = reclaims[p]
  <2>3. CASE /\ session[p] # "done" /\ session'[p] \in {"open", "done"} /\ newSession'[w] = newSession[w]
             /\ videos'[p] = videos[p] + (IF session'[p] = "done" THEN 1 ELSE 0)
    BY ONLY SMT, <1>1, <1>2, <2>1, <2>3, reclaims'[p] = reclaims[p]
  <2>4. CASE /\ session[p] # "done" /\ session'[p] = session[p] /\ newSession'[w] \in {"open", "done"}
             /\ videos'[p] = videos[p] + (IF newSession'[w] = "done" THEN 1 ELSE 0)
    BY ONLY SMT, <1>1, <1>2, <2>1, <2>4, reclaims'[p] = reclaims[p]
  <2> QED BY Zenon, <2>2, <2>3, <2>4
<1>5. RowOK(p)'
  BY Zenon, <1>3, <1>4 DEF RowOK
<1>6. JobOK(w)'
  BY Zenon, <1>2, <1>3, <1>4 DEF JobOK, AnswerOK
<1> QED BY Zenon, <1>5, <1>6

\* A call to the destination of the job.
LEMMA CallQueue ==
    ASSUME Types, QueueInv, NEW w \in Workers, Telegram(w) \/ YouTube(w)
    PROVE  QueueInv'
<1>0. PICK p \in Pubs : p = job[w].pub /\ wpc[w] = "call"
  BY Zenon, JobTypes DEF Telegram, YouTube
<1>1. /\ UNCHANGED <<status, attempts, nextAttempt, reclaims, batch, job>>
      /\ \E r : Answer(w, r)
      /\ \/ UNCHANGED <<session, videos, newSession>>
         \/ \E s \in {"open", "done"} :
               /\ session[p] # "done" /\ session' = [session EXCEPT ![p] = s] /\ newSession' = newSession
               /\ videos' = [videos EXCEPT ![p] = @ + (IF s = "done" THEN 1 ELSE 0)]
         \/ \E s \in {"open", "done"} :
               /\ session[p] # "done" /\ session' = session /\ newSession' = [newSession EXCEPT ![w] = s]
               /\ videos' = [videos EXCEPT ![p] = @ + (IF s = "done" THEN 1 ELSE 0)]
  <2>1. CASE Telegram(w)
    BY ONLY Zenon, <2>1 DEF Telegram
  <2>2. CASE YouTube(w)
    <3>1. \A u \in Uploads(w) : u[2] \in {"open", "done"}
      BY ONLY SMT DEF Uploads
    <3>2. UNCHANGED <<status, attempts, nextAttempt, reclaims, batch, job>>
      BY ONLY Zenon, <2>2 DEF YouTube
    <3>3. CASE YouTubeFails(w) \/ FindUploaded(w)
      BY ONLY Zenon, <3>2, <3>3 DEF YouTubeFails, FindUploaded
    <3>4. CASE ResumeUpload(w)
      BY ONLY Zenon, <1>0, <3>1, <3>2, <3>4 DEF ResumeUpload
    <3>5. CASE UploadAnew(w)
      BY ONLY Zenon, <1>0, <3>1, <3>2, <3>5 DEF UploadAnew
    <3> QED BY ONLY Zenon, <2>2, <3>3, <3>4, <3>5 DEF YouTube
  <2> QED BY Zenon, <2>1, <2>2
<1>2. /\ DOMAIN calls = Pubs /\ DOMAIN session = Pubs /\ DOMAIN videos = Pubs
      /\ DOMAIN wpc = Workers /\ DOMAIN outcome = Workers /\ DOMAIN newSession = Workers
  BY Zenon DEF Types, TypeOK
<1>3. /\ wpc'[w] = "record" /\ calls'[p] = IF outcome'[w] = "quota" THEN calls[p] ELSE calls[p] + 1
      /\ \A x \in Pubs : x # p => calls'[x] = calls[x]
      /\ \A v \in Workers : v # w => wpc'[v] = wpc[v] /\ outcome'[v] = outcome[v]
  <2>1. PICK r : Answer(w, r)
    BY ONLY Zenon, <1>1
  <2>2. outcome'[w] = r /\ wpc'[w] = "record"
    BY ONLY Zenon, <1>2, <2>1, w \in Workers DEF Answer
  <2>3. IF r = "quota" THEN calls' = calls ELSE calls' = [calls EXCEPT ![p] = @ + 1]
    BY ONLY Zenon, <1>0, <2>1 DEF Answer
  <2>4. \A v \in Workers : v # w => wpc'[v] = wpc[v] /\ outcome'[v] = outcome[v]
    BY ONLY Zenon, <1>2, <2>1 DEF Answer
  <2> QED BY ONLY Zenon, <1>0, <1>2, <2>2, <2>3, <2>4
<1>4. \/ videos'[p] = videos[p] /\ session'[p] = session[p] /\ newSession'[w] = newSession[w]
      \/ /\ session[p] # "done" /\ session'[p] \in {"open", "done"} /\ newSession'[w] = newSession[w]
         /\ videos'[p] = videos[p] + (IF session'[p] = "done" THEN 1 ELSE 0)
      \/ /\ session[p] # "done" /\ session'[p] = session[p] /\ newSession'[w] \in {"open", "done"}
         /\ videos'[p] = videos[p] + (IF newSession'[w] = "done" THEN 1 ELSE 0)
  BY ONLY ZenonT(30), <1>1, <1>2, p \in Pubs, w \in Workers
<1>5. /\ \A x \in Pubs : x # p => session'[x] = session[x] /\ videos'[x] = videos[x]
      /\ \A v \in Workers : v # w => newSession'[v] = newSession[v]
  BY ONLY Zenon, <1>1, <1>2
<1>6. /\ \A x \in Pubs : x # p => SameRow(x)
      /\ \A v \in Workers : v # w => SameWorker(v)
  BY ONLY Zenon, <1>1, <1>3, <1>5 DEF SameRow, SameWorker
<1>7. RowOK(p) /\ JobOK(w) /\ status[p] = "uploading"
  <2>1. HandOK(w) /\ RowOK(p) /\ JobOK(w)
    BY Zenon DEF QueueInv, ClaimInv, WorkInv
  <2> QED BY ONLY Zenon, <1>0, <2>1 DEF HandOK, AtJob, Leased
<1>8. /\ job'[w] = job[w] /\ status'[p] = "uploading" /\ attempts'[p] = attempts[p]
      /\ reclaims'[p] = reclaims[p] /\ batch'[w] = batch[w]
  BY ONLY Zenon, <1>1, <1>7
<1>9. RowOK(p)' /\ JobOK(w)'
  BY Zenon, <1>0, <1>3, <1>4, <1>7, <1>8, CallCounts
<1>10. AtJob(w) /\ AtJob(w)' /\ UNCHANGED <<status, attempts, nextAttempt>>
  BY ONLY Zenon, <1>0, <1>1, <1>3 DEF AtJob
<1> QED BY Zenon, <1>0, <1>6, <1>8, <1>9, <1>10, JobStep

\* A worker records what has become of its job, and is done with it or goes on to
\* release the file.
LEMMA RecordStep ==
    ASSUME Types, QueueInv, NEW w \in Workers, AtJob(w), NEW p \in Pubs, p = job[w].pub,
           NEW st, NEW next, SetStatus(p, st, next),
           attempts' = attempts \/ \E n : attempts' = [attempts EXCEPT ![p] = n],
           session' = session \/ \E s : session' = [session EXCEPT ![p] = s],
           Idle(w) \/ (wpc' = [wpc EXCEPT ![w] = "release"] /\ UNCHANGED <<job, outcome, newSession>>),
           UNCHANGED <<history, batch>>,
           st = "queued" => attempts'[p] < MaxAttempts /\ Ready(p)',
           st # "uploading"
    PROVE  QueueInv'
<1>0. /\ DOMAIN status = Pubs /\ DOMAIN attempts = Pubs /\ DOMAIN nextAttempt = Pubs /\ DOMAIN session = Pubs
      /\ DOMAIN job = Workers /\ DOMAIN wpc = Workers /\ DOMAIN outcome = Workers /\ DOMAIN newSession = Workers
  BY Zenon DEF Types, TypeOK
<1>1. status'[p] = st
  BY ONLY Zenon, <1>0, SetStatus(p, st, next), p \in Pubs DEF SetStatus
<1>2. \A x \in Pubs : x # p => SameRow(x)
  <2>1. \A x \in Pubs : x # p => status'[x] = status[x] /\ nextAttempt'[x] = nextAttempt[x]
    BY ONLY Zenon, <1>0, SetStatus(p, st, next) DEF SetStatus
  <2>2. \A x \in Pubs : x # p => attempts'[x] = attempts[x] /\ session'[x] = session[x]
    BY Zenon, <1>0
  <2> QED BY Zenon, <2>1, <2>2 DEF SameRow
<1>3. \A v \in Workers : v # w => SameWorker(v)
  BY Zenon, <1>0 DEF Idle, SameWorker
<1>4. RowOK(p)'
  <2>1. RowOK(p)
    BY Zenon DEF QueueInv, WorkInv
  <2> QED BY Zenon, <1>1, <2>1 DEF RowOK
<1>5. \/ wpc'[w] = "idle" /\ job'[w] = NoJob /\ newSession'[w] = "none"
      \/ wpc'[w] = "release" /\ job'[w] = job[w]
  BY Zenon, <1>0 DEF Idle
<1>6. JobOK(w)'
  BY ONLY Zenon, <1>5 DEF JobOK
<1>7. \/ ~AtJob(w)' /\ wpc'[w] # "idle" /\ job'[w] = job[w]
      \/ wpc'[w] = "idle" /\ job'[w] = NoJob
  BY ONLY Zenon, <1>5 DEF AtJob
<1>8. batch'[w] = batch[w]
  BY Zenon
<1> QED BY Zenon, <1>2, <1>3, <1>4, <1>6, <1>7, <1>8, JobStep

\* markPublished, markRetry, markFailed and deferUnconfigured.
LEMMA RecordQueue ==
    ASSUME Types, QueueInv, NEW w \in Workers,
           MarkPublished(w) \/ MarkRetry(w) \/ MarkFailed(w) \/ DeferUnconfigured(w)
    PROVE  QueueInv'
<1>0. PICK p \in Pubs : p = job[w].pub
  BY Zenon, JobTypes DEF MarkPublished, MarkRetry, MarkFailed, DeferUnconfigured
<1>1. AtJob(w) /\ wpc[w] # "idle"
  BY Zenon DEF MarkPublished, MarkRetry, MarkFailed, DeferUnconfigured, AtJob
<1>2. /\ RowOK(p) /\ JobOK(w) /\ status[p] = "uploading" /\ job[w].attempts = attempts[p]
  <2>1. HandOK(w) /\ RowOK(p) /\ JobOK(w)
    BY Zenon DEF QueueInv, ClaimInv, WorkInv
  <2> QED BY ONLY Zenon, <1>0, <1>1, <2>1 DEF HandOK, Leased
<1>3. CASE MarkPublished(w)
  <2>1. /\ SetStatus(p, "published", "null") /\ attempts' = attempts
        /\ session' = [session EXCEPT ![p] = "none"]
        /\ Idle(w) \/ (wpc' = [wpc EXCEPT ![w] = "release"] /\ UNCHANGED <<job, outcome, newSession>>)
        /\ UNCHANGED <<history, batch>>
    BY ONLY Zenon, <1>0, <1>3 DEF MarkPublished
  <2> QED BY Zenon, <1>0, <1>1, <2>1, RecordStep
<1>4. CASE MarkFailed(w)
  <2>1. /\ SetStatus(p, "failed", "null") /\ (\E n : attempts' = [attempts EXCEPT ![p] = n])
        /\ session' = [session EXCEPT ![p] = "none"] /\ Idle(w) /\ UNCHANGED <<history, batch>>
    BY ONLY Zenon, <1>0, <1>4 DEF MarkFailed
  <2> QED BY Zenon, <1>0, <1>1, <2>1, RecordStep
<1>5. CASE DeferUnconfigured(w)
  <2>1. /\ SetStatus(p, "queued", "future") /\ Idle(w) /\ UNCHANGED <<attempts, session, history, batch>>
        /\ wpc[w] = "defer"
    BY ONLY Zenon, <1>0, <1>5 DEF DeferUnconfigured
  <2>2. Ready(p) /\ attempts[p] < MaxAttempts
    BY ONLY Zenon, <1>0, <1>2, <2>1 DEF JobOK
  <2>3. Ready(p)' /\ attempts'[p] < MaxAttempts
    BY ONLY Zenon, <2>1, <2>2 DEF Ready
  <2> QED BY Zenon, <1>0, <1>1, <2>1, <2>3, RecordStep
<1>6. CASE MarkRetry(w)
  <2>1. /\ wpc[w] = "record" /\ SetStatus(p, "queued", "future")
        /\ outcome[w] = "quota" \/ (outcome[w] = "retry" /\ AttemptsAfter(w) < MaxAttempts)
        /\ attempts' = [attempts EXCEPT ![p] = AttemptsAfter(w)]
        /\ session' = [session EXCEPT ![p] = SessionPatch(w)]
        /\ Idle(w) /\ UNCHANGED <<history, batch>>
    BY ONLY Zenon, <1>0, <1>6 DEF MarkRetry
  <2>2. attempts'[p] = AttemptsAfter(w) /\ session'[p] = SessionPatch(w)
    <3>1. DOMAIN attempts = Pubs /\ DOMAIN session = Pubs
      BY Zenon DEF Types, TypeOK
    <3> QED BY ONLY Zenon, <2>1, <3>1, p \in Pubs
  <2>3. attempts[p] < MaxAttempts /\ AnswerOK(w)
    BY ONLY Zenon, <1>0, <1>2, <2>1 DEF JobOK
  <2>4. calls[p] <= attempts[p] + 1
    BY ONLY Zenon, <1>2 DEF RowOK
  <2>5. attempts[p] \in Nat /\ calls[p] \in Nat /\ MaxAttempts \in Nat
    BY Zenon, RowTypes, PublisherAssumption
  <2>6. outcome[w] = "quota" => calls[p] <= attempts[p]
    BY ONLY Zenon, <1>0, <2>3 DEF AnswerOK
  <2>7. attempts'[p] < MaxAttempts /\ calls[p] <= attempts'[p]
    BY ONLY SMT, <1>2, <2>1, <2>2, <2>3, <2>4, <2>5, <2>6 DEF AttemptsAfter
  <2>8. session'[p] # "done" => videos[p] <= reclaims[p]
    BY ONLY Zenon, <1>0, <2>2, <2>3 DEF AnswerOK, SessionPatch
  <2>9. Ready(p)'
    BY ONLY Zenon, <2>1, <2>7, <2>8 DEF Ready
  <2> QED BY Zenon, <1>0, <1>1, <2>1, <2>7, <2>9, RecordStep
<1> QED BY Zenon, <1>3, <1>4, <1>5, <1>6

\* releaseIfEnabled, a job that is dropped and a worker that dies touch no row.
LEMMA ReleaseQueue ==
    ASSUME Types, QueueInv, NEW w \in Workers,
           \/ CheckPending(w) \/ LockForRelease(w) \/ SwapForLink(w) \/ RemoveReleased(w)
           \/ BookkeepingFails(w) \/ WorkerCrash(w)
    PROVE  QueueInv'
<1>0. /\ DOMAIN job = Workers /\ DOMAIN wpc = Workers /\ DOMAIN outcome = Workers
      /\ DOMAIN newSession = Workers /\ DOMAIN batch = Workers
  BY Zenon DEF Types, TypeOK
<1>1. /\ UNCHANGED <<rows, history>>
      /\ batch' = batch \/ batch' = [batch EXCEPT ![w] = {}]
      /\ \/ Idle(w)
         \/ /\ wpc[w] # "idle" /\ UNCHANGED <<job, outcome, newSession>>
            /\ \E a \in {"lock", "swap", "remove"} : wpc' = [wpc EXCEPT ![w] = a]
  BY Zenon DEF CheckPending, LockForRelease, SwapForLink, RemoveReleased, BookkeepingFails, WorkerCrash
<1>2. \A p \in Pubs : SameRow(p)
  BY ONLY Zenon, <1>1 DEF SameRow
<1>3. \A v \in Workers : v # w => SameWorker(v)
  BY ONLY ZenonT(30), <1>0, <1>1 DEF Idle, SameWorker
<1>4. batch'[w] \subseteq batch[w]
  BY ONLY Zenon, <1>0, <1>1, w \in Workers
<1>5. \/ /\ wpc[w] # "idle" /\ job'[w] = job[w]
         /\ wpc'[w] \in {"release", "lock", "swap", "remove"}
      \/ wpc'[w] = "idle" /\ job'[w] = NoJob /\ newSession'[w] = "none"
  BY ONLY Zenon, <1>0, <1>1, w \in Workers DEF Idle
<1> QED BY Zenon, <1>2, <1>3, <1>4, <1>5, QuietStep

\* What claiming a row that is due does to it: one that is taken back has one attempt
\* and one interruption more, which pay for the call that may have been cut short.
LEMMA ClaimedRow ==
    ASSUME Types, NEW p \in Pubs, RowOK(p), status[p] \in {"queued", "uploading"},
           status'[p] = "uploading", session'[p] = session[p], videos'[p] = videos[p], calls'[p] = calls[p],
           attempts'[p] = attempts[p] + InterruptedAttempt(p),
           reclaims'[p] = IF status[p] = "uploading" THEN reclaims[p] + 1 ELSE reclaims[p]
    PROVE  /\ RowOK(p)' /\ Ready(p)'
           /\ status[p] = "queued" => attempts'[p] < MaxAttempts
<1>1. attempts[p] \in Nat /\ videos[p] \in Nat /\ calls[p] \in Nat /\ reclaims[p] \in Nat /\ MaxAttempts \in Nat
  BY Zenon, RowTypes, PublisherAssumption
<1>2. CASE status[p] = "queued"
  <2>1. attempts'[p] = attempts[p] /\ reclaims'[p] = reclaims[p]
    BY ONLY SMT, <1>1, <1>2, attempts'[p] = attempts[p] + InterruptedAttempt(p),
            reclaims'[p] = IF status[p] = "uploading" THEN reclaims[p] + 1 ELSE reclaims[p]
       DEF InterruptedAttempt
  <2>2. Ready(p) /\ attempts[p] < MaxAttempts /\ calls[p] <= MaxAttempts /\ videos[p] <= 1 + reclaims[p]
    BY ONLY Zenon, <1>2, RowOK(p) DEF RowOK
  <2>3. Ready(p)'
    BY Zenon, <2>1, <2>2 DEF Ready
  <2>4. calls[p] <= attempts[p] + 1
    BY ONLY SMT, <1>1, <2>2 DEF Ready
  <2> QED BY Zenon, <2>1, <2>2, <2>3, <2>4 DEF RowOK
<1>3. CASE status[p] = "uploading"
  <2>1. attempts'[p] = attempts[p] + 1 /\ reclaims'[p] = reclaims[p] + 1
    BY ONLY Zenon, <1>3, attempts'[p] = attempts[p] + InterruptedAttempt(p),
            reclaims'[p] = IF status[p] = "uploading" THEN reclaims[p] + 1 ELSE reclaims[p]
       DEF InterruptedAttempt
  <2>2. calls[p] <= MaxAttempts /\ videos[p] <= 1 + reclaims[p] /\ calls[p] <= attempts[p] + 1
    BY ONLY Zenon, <1>3, RowOK(p) DEF RowOK
  <2>3. /\ calls[p] <= attempts'[p] /\ calls[p] <= attempts'[p] + 1
        /\ videos[p] <= reclaims'[p] /\ videos[p] <= 1 + reclaims'[p]
    BY ONLY SMT, <1>1, <2>1, <2>2
  <2> QED BY Zenon, <1>3, <2>2, <2>3 DEF RowOK, Ready
<1> QED BY Zenon, <1>2, <1>3

\* claimDue takes rows that nobody has in hand: their lease has run out.
LEMMA ClaimQueue ==
    ASSUME Types, QueueInv, NEW w \in Workers, ClaimDue(w)
    PROVE  QueueInv'
<1>0. \A v \in Workers : HandOK(v) /\ BatchOK(v) /\ JobOK(v)
  BY Zenon DEF QueueInv, ClaimInv, WorkInv
<1>1. PICK S \in SUBSET {p \in Pubs : Due(p)} :
        LET back == {p \in S : status[p] = "uploading"}
        IN  /\ attempts' = [p \in Pubs |-> IF p \in S THEN attempts[p] + InterruptedAttempt(p)
                                                     ELSE attempts[p]]
            /\ reclaims' = [p \in Pubs |-> IF p \in back THEN reclaims[p] + 1 ELSE reclaims[p]]
            /\ batch' = [batch EXCEPT ![w] =
                  {[pub |-> p, attempts |-> attempts'[p], interrupted |-> p \in back,
                    path |-> storagePath[MediaOf(p)]] : p \in S}]
            /\ status' = [p \in Pubs |-> IF p \in S THEN "uploading" ELSE status[p]]
            /\ nextAttempt' = [p \in Pubs |-> IF p \in S THEN "future" ELSE nextAttempt[p]]
  BY Zenon DEF ClaimDue
<1>2. wpc[w] = "idle" /\ UNCHANGED <<session, videos, calls, job, wpc, outcome, newSession>>
  BY ONLY Zenon, ClaimDue(w) DEF ClaimDue
<1>3. \A p \in S : p \in Pubs /\ status[p] \in {"queued", "uploading"} /\ nextAttempt[p] = "due"
  BY Zenon DEF Due
<1>4. \A v \in Workers : \A p : Has(v, p) => p \in Pubs /\ p \notin S
  <2>1. \A v \in Workers : /\ \A j \in batch[v] : nextAttempt[j.pub] = "future"
                           /\ AtJob(v) => nextAttempt[job[v].pub] = "future"
    BY ONLY Zenon, <1>0 DEF HandOK, Leased
  <2>2. \A v \in Workers : \A p : Has(v, p) => nextAttempt[p] = "future"
    BY ONLY ZenonT(60), <2>1 DEF Has
  <2> QED BY ZenonT(60), <1>3, <2>2, HandTypes DEF Has
<1>5. ASSUME NEW p \in Pubs, p \notin S PROVE SameRow(p)
  BY ONLY Zenon, <1>1, <1>2, <1>5 DEF SameRow
<1>6. ASSUME NEW p \in S
      PROVE  /\ status'[p] = "uploading" /\ nextAttempt'[p] = "future" /\ RowOK(p)' /\ Ready(p)'
             /\ status[p] = "queued" => attempts'[p] < MaxAttempts
  <2>1. /\ status'[p] = "uploading" /\ nextAttempt'[p] = "future"
        /\ attempts'[p] = attempts[p] + InterruptedAttempt(p)
        /\ reclaims'[p] = IF status[p] = "uploading" THEN reclaims[p] + 1 ELSE reclaims[p]
        /\ session'[p] = session[p] /\ videos'[p] = videos[p] /\ calls'[p] = calls[p]
    BY ONLY Zenon, <1>1, <1>2, <1>3, <1>6
  <2>2. RowOK(p)
    BY Zenon, <1>3 DEF QueueInv, WorkInv
  <2> QED BY Zenon, <1>3, <2>1, <2>2, ClaimedRow
<1>7. \A p \in Pubs : RowOK(p)'
  BY Zenon, <1>5, <1>6, RowKept DEF QueueInv, WorkInv
<1>8. ASSUME NEW v \in Workers, v # w PROVE SameWorker(v) /\ HandOK(v)' /\ BatchOK(v)' /\ JobOK(v)'
  <2>1. SameWorker(v)
    <3>1. DOMAIN batch = Workers
      BY Zenon DEF Types, TypeOK
    <3> QED BY ONLY Zenon, <1>1, <1>2, <1>8, <3>1 DEF SameWorker
  <2>2. \A p : Has(v, p) => SameRow(p)
    BY Zenon, <1>4, <1>5
  <2> QED BY Zenon, <1>0, <2>1, <2>2, WorkerKept
<1>9. ASSUME NEW j \in batch'[w]
      PROVE  /\ j.pub \in S /\ j.attempts = attempts'[j.pub]
             /\ j.interrupted = (j.pub \in {p \in S : status[p] = "uploading"})
             /\ j = [pub |-> j.pub, attempts |-> attempts'[j.pub],
                     interrupted |-> j.pub \in {p \in S : status[p] = "uploading"},
                     path |-> storagePath[MediaOf(j.pub)]]
  <2>1. batch \in [Workers -> SUBSET Jobs]
    BY Zenon DEF Types, TypeOK
  <2>2. PICK p \in S : j = [pub |-> p, attempts |-> attempts'[p],
                            interrupted |-> p \in {q \in S : status[q] = "uploading"},
                            path |-> storagePath[MediaOf(p)]]
    BY ONLY Zenon, <1>1, <1>9, <2>1, w \in Workers
  <2>3. j.pub = p
    BY ONLY SMT, <2>2
  <2> QED BY ONLY SMT, <2>2, <2>3
<1>10. /\ \A j \in batch'[w] : Leased(j)'
       /\ \A i, j \in batch'[w] : i.pub = j.pub => i = j
       /\ BatchOK(w)'
  <2>1. \A j \in batch'[w] : Leased(j)'
    BY ONLY Zenon, <1>6, <1>9 DEF Leased
  <2>2. \A i, j \in batch'[w] : i.pub = j.pub => i = j
    BY ONLY ZenonT(60), <1>9
  <2>3. BatchOK(w)'
    BY ONLY Zenon, <1>3, <1>6, <1>9 DEF BatchOK
  <2> QED BY ONLY Zenon, <2>1, <2>2, <2>3
<1>11. HandOK(w)' /\ JobOK(w)' /\ ~AtJob(w)'
  BY ONLY Zenon, <1>0, <1>2, <1>10, w \in Workers DEF HandOK, JobOK, AtJob
<1>12. Apart'
  <2>1. \A p : Has(w, p)' => p \in S
    BY ONLY Zenon, <1>9, <1>11 DEF Has
  <2>2. \A v \in Workers : v # w => \A p : Has(v, p)' => Has(v, p) /\ p \notin S
    BY ONLY Zenon, <1>4, <1>8 DEF Has, SameWorker, AtJob
  <2>3. Apart
    BY Zenon DEF QueueInv, ClaimInv
  <2> QED BY ONLY Zenon, <2>1, <2>2, <2>3 DEF Apart
<1> QED BY Zenon, <1>7, <1>8, <1>10, <1>11, <1>12 DEF QueueInv, ClaimInv, WorkInv

LEMMA StepQueue ==
    ASSUME Types, QueueInv, [Next]_vars
    PROVE  QueueInv'
<1>1. ASSUME NEW w \in Workers, Work(w) PROVE QueueInv'
  BY Zenon, <1>1, ClaimQueue, StartQueue, CallQueue, RecordQueue, ReleaseQueue DEF Work
<1> QED BY Zenon, <1>1, RouteQueue, ReleaseQueue DEF Next

LEMMA InitQueue == ASSUME Init PROVE QueueInv
<1>1. /\ \A p \in Pubs : status[p] = "absent" /\ videos[p] = 0 /\ calls[p] = 0 /\ reclaims[p] = 0
      /\ \A w \in Workers : batch[w] = {} /\ job[w] = NoJob /\ wpc[w] = "idle" /\ newSession[w] = "none"
  BY Zenon DEF Init
<1>2. \A p \in Pubs : RowOK(p)
  <2>1. 0 <= MaxAttempts /\ 0 <= 1 + 0
    BY ONLY SMT, PublisherAssumption
  <2> QED BY ONLY Zenon, <1>1, <2>1 DEF RowOK
<1>3. \A w \in Workers : HandOK(w) /\ BatchOK(w) /\ JobOK(w) /\ ~AtJob(w)
  BY ONLY Zenon, <1>1 DEF HandOK, BatchOK, JobOK, AtJob
<1>4. Apart
  BY ONLY Zenon, <1>1, <1>3 DEF Apart, Has
<1> QED BY Zenon, <1>2, <1>3, <1>4 DEF QueueInv, ClaimInv, WorkInv

\* QueueInv is an inductive invariant, on top of the types.
LEMMA QueueHolds == Spec => [](Types /\ QueueInv)
<1>1. Init => Types /\ QueueInv
  BY Zenon, InitTypes, InitQueue
<1>2. Types /\ QueueInv /\ [Next]_vars => (Types /\ QueueInv)'
  BY Zenon, StepTypes, StepQueue
<1> QED BY <1>1, <1>2, PTL DEF Spec

\* A row that a worker has in hand.
LEMMA HandIsLeased ==
    ASSUME Types, QueueInv, NEW w \in Workers, NEW p, Has(w, p)
    PROVE  /\ status[p] = "uploading" /\ p \in Pubs
           /\ \A j \in batch[w] \cup {job[w]} : j # NoJob /\ j.pub = p => j.attempts = attempts[p]
<1>1. HandOK(w)
  BY Zenon DEF QueueInv, ClaimInv
<1>2. /\ \A j \in batch[w] : Leased(j) /\ j.pub \in Pubs
      /\ AtJob(w) => Leased(job[w]) /\ job[w].pub \in Pubs
  BY Zenon, <1>1, HandTypes DEF HandOK
<1>3. CASE \E j \in batch[w] : j.pub = p
  <2>1. status[p] = "uploading" /\ p \in Pubs
    BY ONLY Zenon, <1>2, <1>3 DEF Leased
  <2>2. \A j \in batch[w] : j.pub = p => j.attempts = attempts[p]
    BY ONLY Zenon, <1>2 DEF Leased
  <2>3. job[w] = NoJob \/ job[w].pub # p
    BY ONLY Zenon, <1>1, <1>3 DEF HandOK
  <2> QED BY ONLY Zenon, <2>1, <2>2, <2>3
<1>4. CASE AtJob(w) /\ job[w].pub = p
  BY ONLY Zenon, <1>2, <1>4 DEF Leased
<1> QED BY ONLY Zenon, <1>3, <1>4, Has(w, p) DEF Has

\* However claims, crashes, dropped jobs and requests interleave, a job in hand is its
\* worker's own: the row stays claimed, with the attempts the job carries.
THEOREM ClaimsAreExclusive == Spec => []ClaimIsExclusive
<1>1. ASSUME Types, QueueInv PROVE ClaimIsExclusive
  <2>1. ASSUME NEW w \in Workers, NEW p \in InHand(w) PROVE OwnClaim(w, p)
    <3>1. Has(w, p)
      BY Zenon, HasIsInHand
    <3>2. /\ status[p] = "uploading" /\ p \in Pubs
          /\ \A j \in batch[w] \cup {job[w]} : j # NoJob /\ j.pub = p => j.attempts = attempts[p]
      BY Zenon, <1>1, <3>1, HandIsLeased
    <3>3. \A v \in Workers \ {w} : p \notin InHand(v)
      BY Zenon, <1>1, <3>1, <3>2, HasIsInHand DEF QueueInv, ClaimInv, Apart
    <3> QED BY ONLY Zenon, <3>2, <3>3 DEF OwnClaim
  <2> QED BY ONLY Zenon, <2>1 DEF ClaimIsExclusive
<1> QED BY <1>1, QueueHolds, PTL

\* Through retries, lost outcomes and leases that run out, a row is handed to its
\* destination at most MaxAttempts times, quota walls apart.
THEOREM CallsAreBounded == Spec => []UploadsBounded
<1>1. QueueInv => UploadsBounded
  BY Zenon DEF QueueInv, WorkInv, RowOK, UploadsBounded
<1> QED BY <1>1, QueueHolds, PTL

\* A second video of a row takes a worker that died with the URL of its session: as
\* often as the row has been taken back, and no more.
THEOREM VideosArePaidFor == Spec => []OneVideoUnlessInterrupted
<1>1. QueueInv => OneVideoUnlessInterrupted
  BY Zenon DEF QueueInv, WorkInv, RowOK, OneVideoUnlessInterrupted
<1> QED BY <1>1, QueueHolds, PTL
-----------------------------------------------------------------------------
(* The promise *)

\* A session that has all the bytes has made a video.
Uploaded(p) == session[p] = "done" => videos[p] >= 1

\* An answer that is to be recorded tells the truth: who reports success has called
\* the destination, and YouTube has the video.
Truthful(w) ==
    LET p == job[w].pub
    IN  /\ newSession[w] = "done" => videos[p] >= 1
        /\ outcome[w] \in {"linked", "unlinked"} =>
              calls[p] >= 1 /\ (DestinationOf(p) = "youtube" => videos[p] >= 1)

EvidenceInv ==
    /\ \A p \in Pubs : Uploaded(p)
    /\ \A w \in Workers : wpc[w] = "record" => Truthful(w)

\* The evidence of a row only grows, unless the row is new.
RowGrows(p) ==
    \/ status[p] = "absent" /\ session'[p] = "none"
    \/ /\ videos'[p] >= videos[p] /\ calls'[p] >= calls[p]
       /\ session'[p] = "done" => session[p] = "done" \/ videos'[p] >= 1

SameRecord(w) ==
    wpc[w] = "record" /\ job'[w] = job[w] /\ outcome'[w] = outcome[w] /\ newSession'[w] = newSession[w]

LEMMA EvidenceKept ==
    ASSUME Types, Types', QueueInv, EvidenceInv, \A p \in Pubs : RowGrows(p),
           \A w \in Workers : wpc'[w] = "record" => SameRecord(w) \/ Truthful(w)'
    PROVE  EvidenceInv'
<1>1. ASSUME NEW p \in Pubs
      PROVE  videos[p] \in Nat /\ calls[p] \in Nat /\ videos'[p] \in Nat /\ calls'[p] \in Nat
  <2>1. videos[p] \in Nat /\ calls[p] \in Nat
    BY ONLY Zenon, Types, p \in Pubs, RowTypes
  <2>2. videos'[p] \in Nat /\ calls'[p] \in Nat
    BY ONLY Zenon, Types', p \in Pubs DEF Types, TypeOK
  <2> QED BY ONLY Zenon, <2>1, <2>2
<1>2. ASSUME NEW p \in Pubs PROVE Uploaded(p)'
  <2>1. (session[p] = "done" => videos[p] >= 1) /\ RowGrows(p)
    BY Zenon DEF EvidenceInv, Uploaded
  <2> QED BY ONLY SMT, <1>1, <2>1 DEF RowGrows, Uploaded
<1>3. ASSUME NEW w \in Workers, SameRecord(w) PROVE Truthful(w)'
  <2>1. PICK p \in Pubs : p = job[w].pub /\ status[p] = "uploading"
    <3>1. Has(w, job[w].pub)
      BY ONLY Zenon, <1>3 DEF SameRecord, Has, AtJob
    <3> QED BY Zenon, <3>1, HandIsLeased
  <2>2. videos'[p] >= videos[p] /\ calls'[p] >= calls[p]
    <3>1. RowGrows(p)
      BY Zenon
    <3> QED BY ONLY Zenon, <2>1, <3>1 DEF RowGrows
  <2>3. /\ newSession[w] = "done" => videos[p] >= 1
        /\ outcome[w] \in {"linked", "unlinked"} =>
              calls[p] >= 1 /\ (DestinationOf(p) = "youtube" => videos[p] >= 1)
    <3>1. Truthful(w)
      BY Zenon, <1>3 DEF EvidenceInv, SameRecord
    <3> QED BY ONLY Zenon, <2>1, <3>1 DEF Truthful
  <2>4. (videos[p] >= 1 => videos'[p] >= 1) /\ (calls[p] >= 1 => calls'[p] >= 1)
    BY ONLY SMT, <1>1, <2>2
  <2>5. job'[w].pub = p /\ outcome'[w] = outcome[w] /\ newSession'[w] = newSession[w]
    BY ONLY Zenon, <1>3, <2>1 DEF SameRecord
  <2> QED BY ONLY Zenon, <2>3, <2>4, <2>5 DEF Truthful, DestinationOf
<1> QED BY Zenon, <1>2, <1>3 DEF EvidenceInv

\* Rows that keep their counters and sessions.
LEMMA StillGrows ==
    ASSUME Types, UNCHANGED <<videos, calls>>, NEW p \in Pubs,
           session'[p] = "done" => session[p] = "done" \/ videos[p] >= 1
    PROVE  RowGrows(p)
<1>1. videos[p] >= videos[p] /\ calls[p] >= calls[p]
  BY SMT, RowTypes
<1> QED BY Zenon, <1>1 DEF RowGrows

\* A call leaves an answer that tells the truth.
LEMMA CallEvidence ==
    ASSUME Types, Types', QueueInv, EvidenceInv, NEW w \in Workers, Telegram(w) \/ YouTube(w)
    PROVE  EvidenceInv'
<1>0. PICK p \in Pubs : p = job[w].pub /\ wpc[w] = "call"
  BY Zenon, JobTypes DEF Telegram, YouTube
<1>1. /\ DOMAIN calls = Pubs /\ DOMAIN session = Pubs /\ DOMAIN videos = Pubs
      /\ DOMAIN wpc = Workers /\ DOMAIN outcome = Workers /\ DOMAIN newSession = Workers
  BY Zenon DEF Types, TypeOK
<1>2. \A x \in Pubs : videos[x] \in Nat /\ calls[x] \in Nat
  BY Zenon, RowTypes
<1>3. UNCHANGED job
  BY ONLY Zenon, Telegram(w) \/ YouTube(w) DEF Telegram, YouTube
<1>4. PICK r : Answer(w, r)
  BY ONLY Zenon, Telegram(w) \/ YouTube(w)
     DEF Telegram, YouTube, YouTubeFails, FindUploaded, ResumeUpload, UploadAnew
<1>5. /\ outcome'[w] = r
      /\ \A x \in Pubs : calls'[x] >= calls[x]
      /\ r \in {"linked", "unlinked"} => calls'[p] >= 1
      /\ \A v \in Workers : v # w => wpc'[v] = wpc[v] /\ outcome'[v] = outcome[v]
  <2>1. outcome'[w] = r /\ \A v \in Workers : v # w => wpc'[v] = wpc[v] /\ outcome'[v] = outcome[v]
    BY ONLY Zenon, <1>1, <1>4, w \in Workers DEF Answer
  <2>2. IF r = "quota" THEN calls' = calls ELSE calls' = [calls EXCEPT ![p] = calls[p] + 1]
    BY ONLY Zenon, <1>0, <1>4 DEF Answer
  <2>3. \A x \in Pubs : calls'[x] = calls[x] \/ (x = p /\ calls'[x] = calls[x] + 1)
    BY ONLY Zenon, <1>1, <2>2
  <2>4. \A x \in Pubs : calls'[x] >= calls[x]
    BY ONLY SMT, <1>2, <2>3
  <2>5. r \in {"linked", "unlinked"} => calls'[p] = calls[p] + 1
    BY ONLY Zenon, <1>1, <2>2, p \in Pubs
  <2>6. r \in {"linked", "unlinked"} => calls'[p] >= 1
    BY ONLY SMT, <1>2, <2>5, p \in Pubs
  <2> QED BY ONLY Zenon, <2>1, <2>4, <2>6
<1>6. JobOK(w) /\ newSession[w] = "none"
  <2>1. JobOK(w)
    BY Zenon DEF QueueInv, WorkInv
  <2> QED BY ONLY Zenon, <1>0, <2>1 DEF JobOK
<1>7. \A x \in Pubs : session[x] = "done" => videos[x] >= 1
  BY Zenon DEF EvidenceInv, Uploaded
\* What the call does to the sessions and the videos.
<1>8. /\ \A x \in Pubs : videos'[x] >= videos[x] /\ (session'[x] = "done" => session[x] = "done" \/ videos'[x] >= 1)
      /\ \A v \in Workers : v # w => newSession'[v] = newSession[v]
      /\ newSession'[w] = "done" => videos'[p] >= 1
      /\ r = "linked" /\ DestinationOf(p) = "youtube" => videos'[p] >= 1
      /\ DestinationOf(p) = "youtube" => r # "unlinked"
  <2>0. \A x \in Pubs : videos[x] >= videos[x]
    BY ONLY SMT, <1>2
  <2>1. ASSUME UNCHANGED <<session, videos, newSession>>, DestinationOf(p) = "youtube" => r # "unlinked",
               r = "linked" /\ DestinationOf(p) = "youtube" => session[p] = "done"
        PROVE  <1>8!:
    BY ONLY Zenon, <1>6, <1>7, <2>0, <2>1, p \in Pubs
  <2>2. CASE Telegram(w)
    <3>1. DestinationOf(p) = "telegram" /\ UNCHANGED <<session, videos, newSession>>
      BY ONLY Zenon, <1>0, <2>2 DEF Telegram
    <3> QED BY ONLY Zenon, <2>1, <3>1
  <2>3. ASSUME NEW a, Answer(w, a) PROVE a = r
    BY ONLY Zenon, <1>1, <1>4, <2>3, w \in Workers DEF Answer
  <2>4. CASE YouTubeFails(w)
    <3>1. r \in {"retry", "quota", "reject"} /\ UNCHANGED <<session, videos, newSession>>
      BY ONLY Zenon, <2>3, <2>4 DEF YouTubeFails
    <3> QED BY ONLY Zenon, <2>1, <3>1
  <2>5. CASE FindUploaded(w)
    <3>1. r = "linked" /\ session[p] = "done" /\ UNCHANGED <<session, videos, newSession>>
      BY ONLY Zenon, <1>0, <2>3, <2>5 DEF FindUploaded
    <3> QED BY ONLY Zenon, <2>1, <3>1
  <2>6. \A u \in Uploads(w) : u[2] \in {"open", "done"} /\ u[1] # "unlinked" /\ (u[1] = "linked" => u[2] = "done")
    BY ONLY SMT DEF Uploads
  <2>7. ASSUME NEW st \in {"open", "done"}, videos' = [videos EXCEPT ![p] = @ + (IF st = "done" THEN 1 ELSE 0)]
        PROVE  (\A x \in Pubs : videos'[x] >= videos[x]) /\ (st = "done" => videos'[p] >= 1)
    BY ONLY SMT, <1>1, <1>2, <2>7, p \in Pubs
  <2>8. CASE ResumeUpload(w)
    <3>1. PICK u \in Uploads(w) : /\ Answer(w, u[1]) /\ session' = [session EXCEPT ![p] = u[2]]
                                  /\ videos' = [videos EXCEPT ![p] = @ + (IF u[2] = "done" THEN 1 ELSE 0)]
                                  /\ UNCHANGED newSession
      BY ONLY Zenon, <1>0, <2>8 DEF ResumeUpload
    <3>2. u[1] = r /\ u[2] \in {"open", "done"} /\ r # "unlinked" /\ (r = "linked" => u[2] = "done")
      BY ONLY Zenon, <2>3, <2>6, <3>1
    <3>3. (\A x \in Pubs : videos'[x] >= videos[x]) /\ (u[2] = "done" => videos'[p] >= 1)
      BY ONLY Zenon, <2>7, <3>1, <3>2
    <3>4. session'[p] = u[2] /\ \A x \in Pubs : x # p => session'[x] = session[x]
      BY ONLY Zenon, <1>1, <3>1, p \in Pubs
    <3> QED BY ONLY Zenon, <1>6, <3>1, <3>2, <3>3, <3>4
  <2>9. CASE UploadAnew(w)
    <3>1. PICK u \in Uploads(w) : /\ Answer(w, u[1]) /\ newSession' = [newSession EXCEPT ![w] = u[2]]
                                  /\ videos' = [videos EXCEPT ![p] = @ + (IF u[2] = "done" THEN 1 ELSE 0)]
                                  /\ UNCHANGED session
      BY ONLY Zenon, <1>0, <2>9 DEF UploadAnew
    <3>2. u[1] = r /\ u[2] \in {"open", "done"} /\ r # "unlinked" /\ (r = "linked" => u[2] = "done")
      BY ONLY Zenon, <2>3, <2>6, <3>1
    <3>3. (\A x \in Pubs : videos'[x] >= videos[x]) /\ (u[2] = "done" => videos'[p] >= 1)
      BY ONLY Zenon, <2>7, <3>1, <3>2
    <3>4. newSession'[w] = u[2] /\ \A v \in Workers : v # w => newSession'[v] = newSession[v]
      BY ONLY Zenon, <1>1, <3>1, w \in Workers
    <3> QED BY ONLY Zenon, <3>1, <3>2, <3>3, <3>4
  <2> QED BY ONLY Zenon, Telegram(w) \/ YouTube(w), <2>2, <2>4, <2>5, <2>8, <2>9 DEF YouTube
<1>9. Truthful(w)'
  BY ONLY Zenon, <1>0, <1>3, <1>5, <1>8 DEF Truthful, DestinationOf
<1>10. \A v \in Workers : wpc'[v] = "record" => SameRecord(v) \/ Truthful(v)'
  BY ONLY Zenon, <1>3, <1>5, <1>8, <1>9 DEF SameRecord
<1>11. \A x \in Pubs : RowGrows(x)
  BY ONLY Zenon, <1>5, <1>8 DEF RowGrows
<1> QED BY Zenon, <1>10, <1>11, EvidenceKept

\* Steps of the workers other than calls.
LEMMA WorkEvidence ==
    ASSUME Types, Types', QueueInv, EvidenceInv, NEW w \in Workers,
           \/ ClaimDue(w) \/ (\E j \in batch[w] : StartJob(w, j))
           \/ MarkPublished(w) \/ MarkRetry(w) \/ MarkFailed(w) \/ DeferUnconfigured(w)
           \/ CheckPending(w) \/ LockForRelease(w) \/ SwapForLink(w) \/ RemoveReleased(w)
           \/ BookkeepingFails(w) \/ WorkerCrash(w)
    PROVE  EvidenceInv'
<1>0. /\ DOMAIN job = Workers /\ DOMAIN wpc = Workers /\ DOMAIN outcome = Workers
      /\ DOMAIN newSession = Workers /\ DOMAIN session = Pubs
  BY Zenon DEF Types, TypeOK
<1>1. \A p \in Pubs : session[p] = "done" => videos[p] >= 1
  BY Zenon DEF EvidenceInv, Uploaded
\* Nobody but a call leaves an answer to be recorded.
<1>2. ASSUME Idle(w) \/ \E a : a # "record" /\ wpc' = [wpc EXCEPT ![w] = a],
             \A v \in Workers : v # w => job'[v] = job[v] /\ outcome'[v] = outcome[v] /\ newSession'[v] = newSession[v]
      PROVE  \A v \in Workers : wpc'[v] = "record" => SameRecord(v)
  <2>1. wpc'[w] # "record" /\ \A v \in Workers : v # w => wpc'[v] = wpc[v]
    BY ONLY Zenon, <1>0, <1>2, w \in Workers DEF Idle
  <2> QED BY ONLY Zenon, <1>2, <2>1 DEF SameRecord
<1>3. ASSUME Idle(w) PROVE \A v \in Workers : wpc'[v] = "record" => SameRecord(v)
  <2>1. \A v \in Workers : v # w => job'[v] = job[v] /\ outcome'[v] = outcome[v] /\ newSession'[v] = newSession[v]
    BY ONLY Zenon, <1>0, <1>3 DEF Idle
  <2> QED BY ONLY Zenon, <1>2, <1>3, <2>1
<1>4. ASSUME NEW a, a # "record", wpc' = [wpc EXCEPT ![w] = a],
             job' = job \/ (\E j : job' = [job EXCEPT ![w] = j]), UNCHANGED <<outcome, newSession>>
      PROVE  \A v \in Workers : wpc'[v] = "record" => SameRecord(v)
  <2>1. \A v \in Workers : v # w => job'[v] = job[v]
    BY ONLY Zenon, <1>0, <1>4
  <2> QED BY ONLY Zenon, <1>2, <1>4, <2>1
<1>5. ASSUME UNCHANGED <<session, videos, calls>>,
             \A v \in Workers : wpc'[v] = "record" => SameRecord(v)
      PROVE  EvidenceInv'
  <2>1. \A p \in Pubs : RowGrows(p)
    BY Zenon, <1>5, StillGrows
  <2> QED BY Zenon, <1>5, <2>1, EvidenceKept
<1>6. CASE ClaimDue(w)
  <2>1. UNCHANGED <<session, videos, calls, job, wpc, outcome, newSession>>
    BY ONLY Zenon, <1>6 DEF ClaimDue
  <2> QED BY Zenon, <1>5, <2>1 DEF SameRecord
<1>7. ASSUME NEW j \in batch[w], StartJob(w, j) PROVE EvidenceInv'
  <2>1. /\ UNCHANGED <<session, videos, calls, outcome, newSession>>
        /\ job' = [job EXCEPT ![w] = j]
        /\ \E a \in {"giveup", "defer", "call"} : wpc' = [wpc EXCEPT ![w] = a]
    BY ONLY Zenon, <1>7 DEF StartJob
  <2> QED BY Zenon, <1>4, <1>5, <2>1
<1>8. CASE CheckPending(w) \/ LockForRelease(w) \/ SwapForLink(w) \/ RemoveReleased(w)
           \/ BookkeepingFails(w) \/ WorkerCrash(w) \/ DeferUnconfigured(w)
  <2>1. /\ UNCHANGED <<session, videos, calls>>
        /\ \/ Idle(w)
           \/ /\ UNCHANGED <<job, outcome, newSession>>
              /\ \E a \in {"lock", "swap", "remove"} : wpc' = [wpc EXCEPT ![w] = a]
    BY ONLY Zenon, <1>8 DEF CheckPending, LockForRelease, SwapForLink, RemoveReleased, BookkeepingFails,
                            WorkerCrash, DeferUnconfigured
  <2> QED BY Zenon, <1>3, <1>4, <1>5, <2>1
<1>9. CASE MarkPublished(w) \/ MarkFailed(w) \/ MarkRetry(w)
  <2>1. PICK p \in Pubs : p = job[w].pub /\ wpc[w] # "idle"
    BY Zenon, <1>9, JobTypes DEF MarkPublished, MarkFailed, MarkRetry
  <2>2. /\ UNCHANGED <<videos, calls>>
        /\ \/ Idle(w)
           \/ wpc' = [wpc EXCEPT ![w] = "release"] /\ UNCHANGED <<job, outcome, newSession>>
    BY ONLY Zenon, <1>9 DEF MarkPublished, MarkFailed, MarkRetry
  <2>3. \/ session' = [session EXCEPT ![p] = "none"]
        \/ wpc[w] = "record" /\ session' = [session EXCEPT ![p] = SessionPatch(w)]
    BY ONLY Zenon, <1>9, <2>1 DEF MarkPublished, MarkFailed, MarkRetry
  <2>4. wpc[w] = "record" => (SessionPatch(w) = "done" => videos[p] >= 1)
    <3>1. wpc[w] = "record" => Truthful(w)
      BY Zenon DEF EvidenceInv
    <3> QED BY ONLY Zenon, <1>1, <2>1, <3>1 DEF Truthful, SessionPatch
  <2>5. \A x \in Pubs : session'[x] = "done" => session[x] = "done" \/ videos[x] >= 1
    BY ONLY Zenon, <1>0, <2>3, <2>4, p \in Pubs
  <2>6. \A x \in Pubs : RowGrows(x)
    BY Zenon, <2>2, <2>5, StillGrows
  <2>7. \A v \in Workers : wpc'[v] = "record" => SameRecord(v)
    BY Zenon, <1>3, <1>4, <2>2
  <2> QED BY Zenon, <2>6, <2>7, EvidenceKept
<1> QED BY Zenon, <1>6, <1>7, <1>8, <1>9

LEMMA StepEvidence ==
    ASSUME Types, Types', QueueInv, EvidenceInv, [Next]_vars
    PROVE  EvidenceInv'
<1>1. ASSUME NEW w \in Workers, Work(w) \/ BookkeepingFails(w) \/ WorkerCrash(w) PROVE EvidenceInv'
  BY Zenon, <1>1, CallEvidence, WorkEvidence DEF Work
<1>2. ASSUME UNCHANGED worker, \A p \in Pubs : RowGrows(p) PROVE EvidenceInv'
  <2>1. \A w \in Workers : wpc'[w] = "record" => SameRecord(w)
    BY ONLY Zenon, <1>2 DEF SameRecord, worker
  <2> QED BY Zenon, <1>2, <2>1, EvidenceKept
<1>3. ASSUME UNCHANGED <<session, videos, calls, worker>> PROVE EvidenceInv'
  BY Zenon, <1>2, <1>3, StillGrows
<1>4. ASSUME NEW q \in Posts, InsertPublications(q) PROVE EvidenceInv'
  <2>1. ASSUME NEW new, Opens(new), UNCHANGED worker PROVE EvidenceInv'
    <3>1. ASSUME NEW p \in Pubs PROVE RowGrows(p)
      <4>1. CASE p \in new
        BY ONLY Zenon, <2>1, <4>1, p \in Pubs DEF Opens, RowGrows
      <4>2. CASE p \notin new
        <5>1. videos'[p] = videos[p] /\ calls'[p] = calls[p] /\ session'[p] = session[p]
          BY ONLY Zenon, <2>1, <4>2, p \in Pubs DEF Opens
        <5>2. videos[p] >= videos[p] /\ calls[p] >= calls[p]
          BY SMT, RowTypes
        <5> QED BY ONLY Zenon, <5>1, <5>2 DEF RowGrows
      <4> QED BY Zenon, <4>1, <4>2
    <3> QED BY Zenon, <1>2, <2>1, <3>1
  <2> QED BY Zenon, <1>3, <1>4, <2>1, InsertOpens
<1> QED
  BY Zenon, <1>1, <1>3, <1>4 DEF Next, LoadForPost, DeletePublication, NextAttemptComes, vars

-----------------------------------------------------------------------------
(* The steps of the promise *)

Open(st) == IF st \in {"queued", "uploading"} THEN "open" ELSE st

\* What the promise does not speak of may change as it likes.
LEMMA HiddenSteps ==
    ASSUME \A p \in Pubs : Open(status'[p]) = Open(status[p]), UNCHANGED <<calls, videos>>
    PROVE  UNCHANGED Promise!vars
<1>1. Phases' = Phases
  BY Zenon DEF Phases, Open
<1> QED BY Zenon, <1>1 DEF Promise!vars

LEMMA PhaseMoves ==
    ASSUME Types, NEW p \in Pubs, NEW st, status' = [status EXCEPT ![p] = st]
    PROVE  Phases' = [Phases EXCEPT ![p] = Open(st)] /\ Phases[p] = Open(status[p])
<1>1. DOMAIN status = Pubs
  BY Zenon DEF Types, TypeOK
<1> QED BY Zenon, <1>1 DEF Phases, Open

LEMMA SamePubs == Promise!Pubs = Pubs
BY Zenon DEF Promise!Pubs, Pubs

\* The row of a job in hand is open.
LEMMA JobIsOpen ==
    ASSUME Types, QueueInv, NEW w \in Workers, AtJob(w), NEW p, p = job[w].pub
    PROVE  p \in Pubs /\ status[p] = "uploading" /\ Phases[p] = "open"
<1>1. Has(w, p)
  BY Zenon DEF Has
<1>2. p \in Pubs /\ status[p] = "uploading"
  BY Zenon, <1>1, HandIsLeased
<1> QED BY Zenon, <1>2 DEF Phases

\* A call is made for an open row that has an attempt left; a quota wall is no call.
LEMMA CallKeepsPromise ==
    ASSUME Types, QueueInv, NEW w \in Workers, Telegram(w) \/ YouTube(w)
    PROVE  [Promise!Next]_(Promise!vars)
<1>0. PICK p \in Pubs : p = job[w].pub /\ wpc[w] = "call" /\ status[p] = "uploading" /\ Phases[p] = "open"
  BY Zenon, JobIsOpen DEF Telegram, YouTube, AtJob
<1>1. UNCHANGED status
  BY ONLY Zenon, Telegram(w) \/ YouTube(w) DEF Telegram, YouTube
<1>2. calls[p] < MaxAttempts
  <2>1. Ready(p) /\ attempts[p] < MaxAttempts
    <3>1. JobOK(w)
      BY Zenon DEF QueueInv, WorkInv
    <3> QED BY ONLY Zenon, <1>0, <3>1 DEF JobOK
  <2>2. calls[p] \in Nat /\ attempts[p] \in Nat /\ MaxAttempts \in Nat
    BY Zenon, RowTypes, PublisherAssumption
  <2>3. calls[p] <= attempts[p]
    BY ONLY Zenon, <2>1 DEF Ready
  <2> QED BY ONLY SMT, <2>1, <2>2, <2>3
<1>3. \E r : \E n \in {0, 1} : /\ Answer(w, r) /\ (r = "quota" => n = 0) /\ (n = 1 => DestinationOf(p) = "youtube")
                               /\ videos' = [videos EXCEPT ![p] = @ + n]
  <2>1. DOMAIN videos = Pubs /\ \A x \in Pubs : videos[x] \in Nat
    BY Zenon DEF Types, TypeOK
  <2>2. videos[p] + 0 = videos[p] /\ 0 # 1
    BY ONLY SMT, <2>1, p \in Pubs
  <2>3. ASSUME UNCHANGED videos PROVE videos' = [videos EXCEPT ![p] = @ + 0]
    <3>1. videos = [videos EXCEPT ![p] = videos[p]]
      BY ONLY Zenon, <2>1, p \in Pubs, TypeOK, Types DEF Types, TypeOK
    <3> QED BY ONLY Zenon, <2>2, <2>3, <3>1
  <2>4. CASE Telegram(w)
    <3>1. PICK r : Answer(w, r) /\ UNCHANGED videos
      BY ONLY Zenon, <2>4 DEF Telegram
    <3> QED BY ONLY Zenon, <2>2, <2>3, <3>1
  <2>5. CASE YouTubeFails(w) \/ FindUploaded(w)
    <3>1. PICK r : Answer(w, r) /\ UNCHANGED videos
      BY ONLY Zenon, <2>5 DEF YouTubeFails, FindUploaded
    <3> QED BY ONLY Zenon, <2>2, <2>3, <3>1
  <2>6. ASSUME ResumeUpload(w) \/ UploadAnew(w), DestinationOf(p) = "youtube" PROVE <1>3!:
    <3>1. \A u \in Uploads(w) : u[1] = "quota" => u[2] # "done"
      BY ONLY SMT DEF Uploads
    <3>2. PICK u \in Uploads(w) : /\ Answer(w, u[1])
                                  /\ videos' = [videos EXCEPT ![p] = @ + (IF u[2] = "done" THEN 1 ELSE 0)]
      BY ONLY Zenon, <1>0, <2>6 DEF ResumeUpload, UploadAnew
    <3>3. CASE u[2] = "done"
      <4>1. videos' = [videos EXCEPT ![p] = @ + 1] /\ u[1] # "quota"
        BY ONLY Zenon, <3>1, <3>2, <3>3
      <4> QED BY ONLY Zenon, <2>6, <3>2, <4>1
    <3>4. CASE u[2] # "done"
      <4>1. videos' = [videos EXCEPT ![p] = @ + 0]
        BY ONLY Zenon, <3>2, <3>4
      <4> QED BY ONLY Zenon, <2>2, <3>2, <4>1
    <3> QED BY ONLY Zenon, <3>3, <3>4
  <2> QED BY ONLY Zenon, <1>0, Telegram(w) \/ YouTube(w), <2>4, <2>5, <2>6 DEF YouTube
<1>4. PICK r : \E n \in {0, 1} :
                 /\ Answer(w, r) /\ (r = "quota" => n = 0) /\ (n = 1 => DestinationOf(p) = "youtube")
                 /\ videos' = [videos EXCEPT ![p] = @ + n]
  BY ONLY Zenon, <1>3
<1>5. Phases' = Phases
  BY Zenon, <1>1 DEF Phases
<1>6. CASE r = "quota"
  <2>1. UNCHANGED calls
    BY ONLY Zenon, <1>4, <1>6 DEF Answer
  <2>2. UNCHANGED videos
    <3>1. videos \in [Pubs -> Nat]
      BY Zenon DEF Types, TypeOK
    <3>2. videos' = [videos EXCEPT ![p] = videos[p] + 0]
      BY ONLY Zenon, <1>4, <1>6
    <3> QED BY ONLY SMT, <3>1, <3>2, p \in Pubs
  <2> QED BY Zenon, <1>5, <2>1, <2>2 DEF Promise!vars
<1>7. CASE r # "quota"
  <2>1. calls' = [calls EXCEPT ![p] = @ + 1]
    BY ONLY Zenon, <1>0, <1>4, <1>7 DEF Answer
  <2>2. Promise!Call(p)
    BY ONLY Zenon, <1>0, <1>2, <1>4, <1>5, <2>1 DEF Promise!Call, DestinationOf
  <2> QED BY Zenon, <2>2, SamePubs DEF Promise!Next
<1> QED BY Zenon, <1>6, <1>7

\* A row is marked published on evidence, and failed or published only from open.
LEMMA MarkKeepsPromise ==
    ASSUME Types, QueueInv, EvidenceInv, NEW w \in Workers, MarkPublished(w) \/ MarkFailed(w)
    PROVE  [Promise!Next]_(Promise!vars)
<1>0. PICK p \in Pubs : p = job[w].pub /\ status[p] = "uploading" /\ Phases[p] = "open"
  BY Zenon, JobIsOpen DEF MarkPublished, MarkFailed, AtJob
<1>1. UNCHANGED <<calls, videos>>
  BY ONLY Zenon, MarkPublished(w) \/ MarkFailed(w) DEF MarkPublished, MarkFailed
<1>2. CASE MarkPublished(w)
  <2>1. /\ status' = [status EXCEPT ![p] = "published"]
        /\ wpc[w] = "record" /\ outcome[w] \in {"linked", "unlinked"}
    BY ONLY Zenon, <1>0, <1>2 DEF MarkPublished, SetStatus
  <2>2. calls[p] >= 1 /\ (DestinationOf(p) = "youtube" => videos[p] >= 1)
    <3>1. Truthful(w)
      BY Zenon, <2>1 DEF EvidenceInv
    <3> QED BY ONLY Zenon, <1>0, <2>1, <3>1 DEF Truthful
  <2>3. Phases' = [Phases EXCEPT ![p] = "published"]
    <3>1. Open("published") = "published"
      BY DEF Open
    <3>2. status' = [status EXCEPT ![p] = "published"]
      BY ONLY Zenon, <2>1
    <3> QED BY ONLY Zenon, Types, p \in Pubs, <3>1, <3>2, PhaseMoves
  <2>4. Promise!Publish(p)
    BY ONLY Zenon, <1>0, <1>1, <2>2, <2>3 DEF Promise!Publish, DestinationOf
  <2> QED BY Zenon, <2>4, SamePubs DEF Promise!Next
<1>3. CASE MarkFailed(w)
  <2>1. status' = [status EXCEPT ![p] = "failed"]
    BY ONLY Zenon, <1>0, <1>3 DEF MarkFailed, SetStatus
  <2>2. Phases' = [Phases EXCEPT ![p] = "failed"]
    <3>1. Open("failed") = "failed"
      BY DEF Open
    <3> QED BY ONLY Zenon, Types, p \in Pubs, <2>1, <3>1, PhaseMoves
  <2>3. Promise!GiveUp(p)
    BY ONLY Zenon, <1>0, <1>1, <2>2 DEF Promise!GiveUp
  <2> QED BY Zenon, <2>3, SamePubs DEF Promise!Next
<1> QED BY Zenon, <1>2, <1>3

\* The other steps of a worker leave an open row open.
LEMMA QueueIsHidden ==
    ASSUME Types, QueueInv, NEW w \in Workers,
           \/ ClaimDue(w) \/ (\E j \in batch[w] : StartJob(w, j)) \/ MarkRetry(w) \/ DeferUnconfigured(w)
           \/ CheckPending(w) \/ LockForRelease(w) \/ SwapForLink(w) \/ RemoveReleased(w)
           \/ BookkeepingFails(w) \/ WorkerCrash(w)
    PROVE  UNCHANGED Promise!vars
<1>1. CASE ClaimDue(w)
  <2>1. UNCHANGED <<calls, videos>>
    BY ONLY Zenon, <1>1 DEF ClaimDue
  <2>2. PICK S \in SUBSET {p \in Pubs : Due(p)} :
          status' = [p \in Pubs |-> IF p \in S THEN "uploading" ELSE status[p]]
    BY Zenon, <1>1 DEF ClaimDue
  <2>3. \A p \in Pubs : Open(status'[p]) = Open(status[p])
    BY ONLY Zenon, <2>2 DEF Due, Open
  <2> QED BY Zenon, <2>1, <2>3, HiddenSteps
<1>2. CASE MarkRetry(w) \/ DeferUnconfigured(w)
  <2>1. PICK p \in Pubs : p = job[w].pub /\ status[p] = "uploading"
    BY Zenon, <1>2, JobIsOpen DEF MarkRetry, DeferUnconfigured, AtJob
  <2>2. status' = [status EXCEPT ![p] = "queued"] /\ UNCHANGED <<calls, videos>>
    BY ONLY Zenon, <1>2, <2>1 DEF MarkRetry, DeferUnconfigured, SetStatus
  <2>3. DOMAIN status = Pubs
    BY Zenon DEF Types, TypeOK
  <2>4. \A x \in Pubs : Open(status'[x]) = Open(status[x])
    BY ONLY Zenon, <2>1, <2>2, <2>3 DEF Open
  <2> QED BY Zenon, <2>2, <2>4, HiddenSteps
<1>3. CASE UNCHANGED <<status, calls, videos>>
  BY Zenon, <1>3, HiddenSteps
<1> QED
  BY Zenon, <1>1, <1>2, <1>3
     DEF StartJob, CheckPending, LockForRelease, SwapForLink, RemoveReleased, BookkeepingFails, WorkerCrash

LEMMA PromiseNext ==
    ASSUME Types, QueueInv, EvidenceInv, [Next]_vars
    PROVE  [Promise!Next]_(Promise!vars)
<1>1. ASSUME NEW w \in Workers, Work(w) \/ BookkeepingFails(w) \/ WorkerCrash(w)
      PROVE  [Promise!Next]_(Promise!vars)
  BY Zenon, <1>1, CallKeepsPromise, MarkKeepsPromise, QueueIsHidden DEF Work
<1>2. CASE UNCHANGED <<status, calls, videos>>
  BY Zenon, <1>2, HiddenSteps
<1>3. ASSUME NEW q \in Posts, InsertPublications(q) PROVE [Promise!Next]_(Promise!vars)
  <2>1. ASSUME NEW D \in SUBSET Destinations, Opens({post[q]} \X D), post[q] \in Media
        PROVE  [Promise!Next]_(Promise!vars)
    <3> DEFINE S == {post[q]} \X D
    <3>1. S \subseteq Pubs
      BY ONLY Zenon, <2>1 DEF Pubs
    <3>2. Opens(S)
      BY ONLY <2>1
    <3> HIDE DEF S
    <3>3. \A p \in S : Phases[p] = "absent"
      BY ONLY Zenon, <3>1, <3>2 DEF Opens, Phases
    <3>4. Phases' = [p \in Pubs |-> IF p \in S THEN "open" ELSE Phases[p]]
      BY ONLY Zenon, <3>2 DEF Opens, Phases
    <3>5. Promise!Post(S)
      BY ONLY Zenon, <3>2, <3>3, <3>4, SamePubs DEF Opens, Promise!Post
    <3> QED BY ONLY Zenon, <2>1, <3>5 DEF Promise!Next, S
  <2> QED BY Zenon, <1>2, <1>3, <2>1, InsertOpens
<1>4. ASSUME NEW p \in Pubs, DeletePublication(p) PROVE [Promise!Next]_(Promise!vars)
  <2>1. status' = [status EXCEPT ![p] = "absent"] /\ status[p] # "absent" /\ UNCHANGED <<calls, videos>>
    BY ONLY Zenon, <1>4 DEF DeletePublication
  <2>2. Phases' = [Phases EXCEPT ![p] = "absent"] /\ Phases[p] # "absent"
    <3>1. Open("absent") = "absent" /\ Open(status[p]) # "absent"
      BY ONLY Zenon, <2>1 DEF Open
    <3> QED BY ONLY Zenon, Types, p \in Pubs, <2>1, <3>1, PhaseMoves
  <2>3. Promise!Withdraw(p)
    BY ONLY Zenon, <2>1, <2>2 DEF Promise!Withdraw
  <2> QED BY Zenon, <2>3, SamePubs DEF Promise!Next
<1> QED
  BY Zenon, <1>1, <1>2, <1>3, <1>4 DEF Next, LoadForPost, NextAttemptComes, vars

\* Claims, leases, crashes, lost answers and lost sessions behind it, a publication is
\* called for, published and given up as MediaPromise says.
THEOREM PublicationsKeepPromise == Spec => PublisherKeepsPromise
<1>1. Init => Promise!Init
  BY Zenon, SamePubs DEF Init, Phases, Promise!Init
<1>2. Init => EvidenceInv
  BY Zenon DEF Init, EvidenceInv, Uploaded
<1>3. Types /\ QueueInv /\ EvidenceInv /\ [Next]_vars => (Types /\ QueueInv /\ EvidenceInv)'
  BY Zenon, StepTypes, StepQueue, StepEvidence
<1>4. Types /\ QueueInv /\ EvidenceInv /\ [Next]_vars => [Promise!Next]_(Promise!vars)
  BY Zenon, PromiseNext
<1>5. Init => Types /\ QueueInv
  BY Zenon, InitTypes, InitQueue
<1> QED BY <1>1, <1>2, <1>3, <1>4, <1>5, PTL DEF Spec, PublisherKeepsPromise, Promise!Spec
===============================================================================
