---------------------------- MODULE MediaPublisher ----------------------------
(***************************************************************************)
(* Publishing stored media to YouTube and Telegram.  The rows of           *)
(* media_publications are the queue: a worker claims what is due under a   *)
(* lease, hands each job to its destination and records the outcome, and   *)
(* may then give up the local file for the public copy.                    *)
(*                                                                         *)
(* Time is reduced to whether next_attempt_at has come.  The lease of a    *)
(* claim is six hours; every call to a destination has a timeout (30       *)
(* minutes at most) and a batch has three jobs by default, so that the     *)
(* lease of a row is taken to outlive the worker that holds it.            *)
(***************************************************************************)
EXTENDS MediaLibrary, Integers

CONSTANTS
    Destinations,   \* the destinations that media is published to
    Configured,     \* those with credentials
    Posts,          \* POST /publications requests
    MaxAttempts,    \* MEDIA_PUBLISH_MAX_ATTEMPTS
    BatchSize       \* MEDIA_PUBLISHER_BATCH_SIZE

ASSUME PublisherAssumption ==
    /\ Configured \subseteq Destinations /\ Destinations \subseteq {"youtube", "telegram"}
    /\ MaxAttempts \in Nat \ {0} /\ BatchSize \in Nat \ {0}

Pubs == Media \X Destinations       \* the unique key (media_id, destination)

VARIABLES
    status,         \* media_publications.status, "absent" when there is no row
    attempts,       \* its attempts
    nextAttempt,    \* its next_attempt_at: "null", "future", or "due" once it has come
    session,        \* what has become, at YouTube, of its upload_session_url
    videos,         \* videos made at YouTube for the row
    calls,          \* calls to the destination for the row that met no quota
    reclaims,       \* times the row has been claimed back
    post,           \* the media each POST has loaded
    batch,          \* the jobs a worker has claimed and not begun
    job,            \* the job it is at
    wpc,            \* where it stands
    outcome,        \* what the destination has answered
    newSession      \* what has become, at YouTube, of the session the call has opened

rows    == <<status, attempts, nextAttempt, session>>
history == <<videos, calls, reclaims>>
worker  == <<batch, job, wpc, outcome, newSession>>
pubVars == <<status, attempts, nextAttempt, session, videos, calls, reclaims, post,
             batch, job, wpc, outcome, newSession>>
vars    == <<library, pubVars>>

Sessions == {"none", "open", "done"}
Jobs == [pub : Pubs, attempts : Nat, interrupted : BOOLEAN, path : Paths]
NoJob == [pub |-> None, attempts |-> 0, interrupted |-> FALSE, path |-> None]

\* What a destination reports (PublishOutcome): success with or without a public
\* link, a quota wall, a failure worth a retry or one that is not.
Outcomes == {"linked", "unlinked", "quota", "retry", "reject"}

TypeOK ==
    /\ LibraryTypeOK
    /\ status \in [Pubs -> {"absent", "queued", "uploading", "published", "failed"}]
    /\ attempts \in [Pubs -> Nat]
    /\ nextAttempt \in [Pubs -> {"null", "future", "due"}]
    /\ session \in [Pubs -> Sessions]
    /\ videos \in [Pubs -> Nat] /\ calls \in [Pubs -> Nat] /\ reclaims \in [Pubs -> Nat]
    /\ post \in [Posts -> Paths \cup {"done"}]
    /\ batch \in [Workers -> SUBSET Jobs]
    /\ job \in [Workers -> Jobs \cup {NoJob}]
    /\ wpc \in [Workers -> {"idle", "giveup", "defer", "call", "record",
                            "release", "lock", "swap", "remove"}]
    /\ outcome \in [Workers -> Outcomes \cup {"none"}]
    /\ newSession \in [Workers -> Sessions]

Init ==
    /\ LibraryInit
    /\ status = [p \in Pubs |-> "absent"]
    /\ attempts = [p \in Pubs |-> 0]
    /\ nextAttempt = [p \in Pubs |-> "null"]
    /\ session = [p \in Pubs |-> "none"]
    /\ videos = [p \in Pubs |-> 0] /\ calls = [p \in Pubs |-> 0] /\ reclaims = [p \in Pubs |-> 0]
    /\ post = [q \in Posts |-> None]
    /\ batch = [w \in Workers |-> {}]
    /\ job = [w \in Workers |-> NoJob]
    /\ wpc = [w \in Workers |-> "idle"]
    /\ outcome = [w \in Workers |-> "none"]
    /\ newSession = [w \in Workers |-> "none"]

MediaOf(p) == p[1]
DestinationOf(p) == p[2]

-----------------------------------------------------------------------------
(* The routes *)

\* POST /media/:id/publications loads the row: it must have a file of ours.
LoadForPost(q, m) ==
    /\ post[q] = None
    /\ Active(m) /\ storagePath[m] # None
    /\ post' = [post EXCEPT ![q] = m]
    /\ UNCHANGED <<library, rows, history, worker>>

\* It inserts one row per destination, all or none: the unique index refuses a
\* destination that already has one.
InsertPublications(q) ==
    /\ post[q] \in Media
    /\ post' = [post EXCEPT ![q] = "done"]
    /\ \E D \in SUBSET Destinations \ {{}} :
          LET new == {post[q]} \X D
              Fresh(f, v) == [p \in Pubs |-> IF p \in new THEN v ELSE f[p]]
          IN  IF \A p \in new : status[p] = "absent"
              THEN /\ status' = Fresh(status, "queued") /\ attempts' = Fresh(attempts, 0)
                   /\ nextAttempt' = Fresh(nextAttempt, "due") /\ session' = Fresh(session, "none")
                   /\ videos' = Fresh(videos, 0) /\ calls' = Fresh(calls, 0)
                   /\ reclaims' = Fresh(reclaims, 0)
              ELSE UNCHANGED <<rows, history>>
    /\ UNCHANGED <<library, worker>>

\* Mutant of DeletePublication: whatever the status is.
DeleteAnyPublication(p) ==
    /\ status[p] # "absent"
    /\ status' = [status EXCEPT ![p] = "absent"]
    /\ nextAttempt' = [nextAttempt EXCEPT ![p] = "null"]
    /\ UNCHANGED <<library, attempts, session, history, post, worker>>

\* DELETE /media/:id/publications/:destination leaves a claimed row alone.  The
\* media was active when the route loaded it, and may have been deleted since.
DeletePublication(p) ==
    /\ status[p] \in {"queued", "published", "failed"}
    /\ status' = [status EXCEPT ![p] = "absent"]
    /\ nextAttempt' = [nextAttempt EXCEPT ![p] = "null"]
    /\ UNCHANGED <<library, attempts, session, history, post, worker>>

-----------------------------------------------------------------------------
(* The queue *)

\* Mutant of Due: a claimed row is never taken back.
DueQueued(p) == status[p] = "queued" /\ nextAttempt[p] = "due" /\ Active(MediaOf(p))

Due(p) == /\ status[p] \in {"queued", "uploading"}
          /\ nextAttempt[p] = "due"
          /\ Active(MediaOf(p))

\* The publications a worker has claimed and not recorded the outcome of.
InHand(w) == {j.pub : j \in batch[w]}
             \cup (IF wpc[w] \in {"giveup", "defer", "call", "record"} THEN {job[w].pub} ELSE {})
Held(p) == \E w \in Workers : p \in InHand(w)

\* What taking a row back adds to its attempts, and its mutant.
NoAttempt(p) == 0
InterruptedAttempt(p) == IF status[p] = "uploading" THEN 1 ELSE 0

\* claimDue: one statement claims up to BatchSize rows that are due, and takes
\* back those whose lease has run out, with one attempt more.
ClaimDue(w) ==
    /\ wpc[w] = "idle" /\ batch[w] = {}
    /\ LET due == {p \in Pubs : Due(p)}
       IN  \E S \in SUBSET due \ {{}} :
             /\ Cardinality(S) = IF Cardinality(due) < BatchSize THEN Cardinality(due) ELSE BatchSize
             /\ LET back == {p \in S : status[p] = "uploading"}
                IN  /\ attempts' = [p \in Pubs |-> IF p \in S THEN attempts[p] + InterruptedAttempt(p)
                                                             ELSE attempts[p]]
                    /\ reclaims' = [p \in Pubs |-> IF p \in back THEN reclaims[p] + 1 ELSE reclaims[p]]
                    /\ batch' = [batch EXCEPT ![w] =
                          {[pub |-> p, attempts |-> attempts'[p], interrupted |-> p \in back,
                            path |-> storagePath[MediaOf(p)]] : p \in S}]
             /\ status' = [p \in Pubs |-> IF p \in S THEN "uploading" ELSE status[p]]
             /\ nextAttempt' = [p \in Pubs |-> IF p \in S THEN "future" ELSE nextAttempt[p]]
    /\ UNCHANGED <<library, session, videos, calls, post, job, wpc, outcome, newSession>>

\* next_attempt_at comes: a retry is due, or a lease has run out.
NextAttemptComes(p) ==
    /\ nextAttempt[p] = "future"
    /\ ~Held(p)
    /\ nextAttempt' = [nextAttempt EXCEPT ![p] = "due"]
    /\ UNCHANGED <<library, status, attempts, session, history, post, worker>>

-----------------------------------------------------------------------------
(* A job: processJob *)

Idle(w) == /\ job' = [job EXCEPT ![w] = NoJob]
           /\ wpc' = [wpc EXCEPT ![w] = "idle"]
           /\ outcome' = [outcome EXCEPT ![w] = "none"]
           /\ newSession' = [newSession EXCEPT ![w] = "none"]

\* The next job of the batch: given up after too many interruptions, put off
\* when its destination has no credentials, or else handed to the publisher.
StartJob(w, j) ==
    /\ wpc[w] = "idle" /\ j \in batch[w]
    /\ batch' = [batch EXCEPT ![w] = @ \ {j}]
    /\ job' = [job EXCEPT ![w] = j]
    /\ wpc' = [wpc EXCEPT ![w] =
          IF j.interrupted /\ j.attempts >= MaxAttempts THEN "giveup"
          ELSE IF DestinationOf(j.pub) \notin Configured THEN "defer"
          ELSE "call"]
    /\ UNCHANGED <<library, rows, history, post, outcome, newSession>>

\* The publisher has answered r.  A quota wall is counted with the failures, so
\* that there are finitely many; it is not a call in the sense of "calls".
Answer(w, r) ==
    /\ outcome' = [outcome EXCEPT ![w] = r]
    /\ wpc' = [wpc EXCEPT ![w] = "record"]
    /\ IF r = "quota"
       THEN Fault /\ UNCHANGED calls
       ELSE calls' = [calls EXCEPT ![job[w].pub] = @ + 1] /\ UNCHANGED faults

\* The Bot API takes the message and may have a link to it, or refuses it, or
\* fails; a file that cannot be read is a transport error.
Telegram(w) ==
    /\ wpc[w] = "call" /\ DestinationOf(job[w].pub) = "telegram"
    /\ \E r \in Outcomes \ {"quota"} :
          /\ job[w].path = None => r = "reject"
          /\ job[w].path \notin files => r \in {"reject", "retry"}
          /\ Answer(w, r)
    /\ UNCHANGED <<row, storagePath, files, lock, uploads, deletes, leaked,
                   rows, videos, reclaims, post, batch, job, newSession>>

\* What an upload of the bytes comes to: the answer, and the state in which it
\* leaves the session.  The video may be there and the answer lost.
Uploads(w) ==
    {<<"retry", "open">>}
    \cup (IF job[w].path \in files
          THEN {<<"quota", "open">>, <<"reject", "open">>, <<"linked", "done">>, <<"retry", "done">>}
          ELSE {})

\* A call ends before any upload: the token or a request about the session is
\* refused or lost, or the media is no file of ours or no video.
YouTubeFails(w) ==
    /\ \E r \in {"retry", "quota", "reject"} :
          (job[w].path = None => r = "reject") /\ Answer(w, r)
    /\ UNCHANGED <<session, videos, newSession>>

\* Mutant of FindUploaded: any session is taken for a complete one.
FindSession(w) ==
    /\ session[job[w].pub] # "none"
    /\ Answer(w, "linked")
    /\ UNCHANGED <<session, videos, newSession>>

\* The session of an earlier attempt turns out to have all the bytes.
FindUploaded(w) ==
    /\ session[job[w].pub] = "done"
    /\ Answer(w, "linked")
    /\ UNCHANGED <<session, videos, newSession>>

\* The rest of the bytes go to the session of an earlier attempt.
ResumeUpload(w) ==
    /\ session[job[w].pub] = "open"
    /\ \E u \in Uploads(w) :
          /\ Answer(w, u[1])
          /\ session' = [session EXCEPT ![job[w].pub] = u[2]]
          /\ videos' = [videos EXCEPT ![job[w].pub] = @ + (IF u[2] = "done" THEN 1 ELSE 0)]
    /\ UNCHANGED newSession

\* There is no such session, or YouTube no longer knows it: the bytes go to a new
\* one, whose URL is stored only when the outcome is.
UploadAnew(w) ==
    /\ session[job[w].pub] # "done"
    /\ \E u \in Uploads(w) :
          /\ Answer(w, u[1])
          /\ newSession' = [newSession EXCEPT ![w] = u[2]]
          /\ videos' = [videos EXCEPT ![job[w].pub] = @ + (IF u[2] = "done" THEN 1 ELSE 0)]
    /\ UNCHANGED session

YouTube(w) ==
    /\ wpc[w] = "call" /\ DestinationOf(job[w].pub) = "youtube"
    /\ \/ YouTubeFails(w)
       \/ job[w].path # None /\ (FindUploaded(w) \/ ResumeUpload(w) \/ UploadAnew(w))
    /\ UNCHANGED <<row, storagePath, files, lock, uploads, deletes, leaked,
                   status, attempts, nextAttempt, reclaims, post, batch, job>>

-----------------------------------------------------------------------------
(* Recording the outcome, by the id of the row *)

SetStatus(p, st, next) ==
    /\ status' = [status EXCEPT ![p] = st]
    /\ nextAttempt' = [nextAttempt EXCEPT ![p] = next]

\* The file may be released for a public link: releaseIfEnabled is called.
MarkPublished(w) ==
    /\ wpc[w] = "record" /\ outcome[w] \in {"linked", "unlinked"}
    /\ SetStatus(job[w].pub, "published", "null")
    /\ session' = [session EXCEPT ![job[w].pub] = "none"]
    /\ IF outcome[w] = "linked" /\ job[w].path # None
       THEN wpc' = [wpc EXCEPT ![w] = "release"] /\ UNCHANGED <<job, outcome, newSession>>
       ELSE Idle(w)
    /\ UNCHANGED <<library, attempts, history, post, batch>>

\* Mutant of AttemptsAfter: a quota wall gives the attempt back.
AttemptsRefunded(w) == job[w].attempts + (IF outcome[w] = "quota" THEN 0 - 1 ELSE 1)

\* A quota wall leaves the attempts as they are.
AttemptsAfter(w) == job[w].attempts + (IF outcome[w] = "quota" THEN 0 ELSE 1)

\* Mutant of SessionPatch: the session the call has opened is not stored.
NoSessionPatch(w) == session[job[w].pub]

\* sessionPatch: the session the call has opened, if any.
SessionPatch(w) == IF newSession[w] # "none" THEN newSession[w] ELSE session[job[w].pub]

MarkRetry(w) ==
    /\ wpc[w] = "record"
    /\ \/ outcome[w] = "quota"
       \/ outcome[w] = "retry" /\ AttemptsAfter(w) < MaxAttempts
    /\ SetStatus(job[w].pub, "queued", "future")
    /\ attempts' = [attempts EXCEPT ![job[w].pub] = AttemptsAfter(w)]
    /\ session' = [session EXCEPT ![job[w].pub] = SessionPatch(w)]
    /\ Idle(w)
    /\ UNCHANGED <<library, history, post, batch>>

MarkFailed(w) ==
    /\ \/ wpc[w] = "giveup" /\ attempts' = [attempts EXCEPT ![job[w].pub] = job[w].attempts]
       \/ /\ wpc[w] = "record"
          /\ outcome[w] = "reject" \/ (outcome[w] = "retry" /\ AttemptsAfter(w) >= MaxAttempts)
          /\ attempts' = [attempts EXCEPT ![job[w].pub] = AttemptsAfter(w)]
    /\ SetStatus(job[w].pub, "failed", "null")
    /\ session' = [session EXCEPT ![job[w].pub] = "none"]
    /\ Idle(w)
    /\ UNCHANGED <<library, history, post, batch>>

DeferUnconfigured(w) ==
    /\ wpc[w] = "defer"
    /\ SetStatus(job[w].pub, "queued", "future")
    /\ Idle(w)
    /\ UNCHANGED <<library, attempts, session, history, post, batch>>

-----------------------------------------------------------------------------
(* releaseIfEnabled *)

\* The setting, and whether every other publication of the media is published.
CheckPending(w) ==
    /\ wpc[w] = "release"
    /\ \E enabled \in BOOLEAN :
          IF enabled /\ \A p \in Pubs \ {job[w].pub} :
                            MediaOf(p) = MediaOf(job[w].pub) => status[p] \in {"absent", "published"}
          THEN wpc' = [wpc EXCEPT ![w] = "lock"] /\ UNCHANGED <<job, outcome, newSession>>
          ELSE Idle(w)
    /\ UNCHANGED <<library, rows, history, post, batch>>

\* withMediaStoragePathLock, and the sharing query; a shared file is left alone.
LockForRelease(w) ==
    /\ wpc[w] = "lock"
    /\ lock[job[w].path] = NoOne
    /\ IF InUse(job[w].path, MediaOf(job[w].pub))
       THEN Idle(w) /\ UNCHANGED lock
       ELSE /\ lock' = [lock EXCEPT ![job[w].path] = w]
            /\ wpc' = [wpc EXCEPT ![w] = "swap"]
            /\ UNCHANGED <<job, outcome, newSession>>
    /\ UNCHANGED <<row, storagePath, files, uploads, deletes, leaked, faults,
                   rows, history, post, batch>>

\* storage_path gives way to external_url, if the row still has that path.
SwapForLink(w) ==
    LET m == MediaOf(job[w].pub)
    IN  /\ wpc[w] = "swap"
        /\ IF storagePath[m] = job[w].path
           THEN /\ storagePath' = [storagePath EXCEPT ![m] = None]
                /\ wpc' = [wpc EXCEPT ![w] = "remove"]
                /\ UNCHANGED <<job, outcome, newSession>>
           ELSE Idle(w) /\ UNCHANGED storagePath
        /\ lock' = Unlocked(w)
        /\ UNCHANGED <<row, files, uploads, deletes, leaked, faults, rows, history, post, batch>>

\* removeFile, whose failure is swallowed.
RemoveReleased(w) ==
    /\ wpc[w] = "remove"
    /\ \/ files' = files \ {job[w].path} /\ UNCHANGED <<leaked, faults>>
       \/ Fault /\ leaked' = leaked \cup {job[w].path} /\ UNCHANGED files
    /\ Idle(w)
    /\ UNCHANGED <<row, storagePath, lock, uploads, deletes, rows, history, post, batch>>

-----------------------------------------------------------------------------
(* Failures *)

\* A statement of processJob throws: the job alone is dropped, its row left as it
\* is and its transaction rolled back.
BookkeepingFails(w) ==
    /\ wpc[w] \in {"giveup", "defer", "record", "release", "lock", "swap"}
    /\ Fault
    /\ Idle(w)
    /\ lock' = Unlocked(w)
    /\ UNCHANGED <<row, storagePath, files, uploads, deletes, leaked, rows, history, post, batch>>

\* The worker dies, with all the jobs it has claimed.
WorkerCrash(w) ==
    /\ batch[w] # {} \/ wpc[w] # "idle"
    /\ Fault
    /\ batch' = [batch EXCEPT ![w] = {}]
    /\ Idle(w)
    /\ lock' = Unlocked(w)
    /\ leaked' = IF wpc[w] = "remove" THEN leaked \cup {job[w].path} ELSE leaked
    /\ UNCHANGED <<row, storagePath, files, uploads, deletes, rows, history, post>>

-----------------------------------------------------------------------------
Work(w) ==
    \/ ClaimDue(w)
    \/ \E j \in batch[w] : StartJob(w, j)
    \/ Telegram(w) \/ YouTube(w)
    \/ MarkPublished(w) \/ MarkRetry(w) \/ MarkFailed(w) \/ DeferUnconfigured(w)
    \/ CheckPending(w) \/ LockForRelease(w) \/ SwapForLink(w) \/ RemoveReleased(w)

Next ==
    \/ LibraryNext /\ UNCHANGED pubVars
    \/ \E q \in Posts : (\E m \in Media : LoadForPost(q, m)) \/ InsertPublications(q)
    \/ \E p \in Pubs : DeletePublication(p) \/ NextAttemptComes(p)
    \/ \E w \in Workers : Work(w) \/ BookkeepingFails(w) \/ WorkerCrash(w)

Spec == Init /\ [][Next]_vars

\* The processes run: a worker that is not blocked takes its next step, and a
\* request that holds the lock of a path ends.  Time passes.  A row that is due
\* again and again is claimed: claimDue takes the oldest next_attempt_at first.
FairSpec ==
    /\ Spec
    /\ \A w \in Workers : WF_vars(Work(w))
    /\ \A m \in Media : WF_vars(InsertUploadedMedia(m) /\ UNCHANGED pubVars)
    /\ \A d \in Deletes : WF_vars(SoftDelete(d) /\ UNCHANGED pubVars)
    /\ \A p \in Pubs : WF_vars(NextAttemptComes(p))
    /\ \A p \in Pubs : SF_vars(\E w \in Workers : Due(p) /\ ClaimDue(w) /\ p \in InHand(w)')

-----------------------------------------------------------------------------
(* Properties *)

\* The bytes of an active row are on disk, whatever uploads, deletes and releases
\* of rows that share them have been under way: a file is removed only by whoever
\* has seen, under the lock of its path, that no other active row points at it.
StoredBytesExist ==
    \A m \in Media : Active(m) /\ storagePath[m] # None => storagePath[m] \in files

\* Files that somebody is still to record or to remove.
Pending ==
    Unrecorded \cup Unremoved \cup {job[w].path : w \in {x \in Workers : wpc[x] = "remove"}}

\* No path through the upload, delete and release code leaves bytes on disk that
\* no active row points at, except where a crash or a failing rm has cut it short.
NoOrphanBytes ==
    files \subseteq {storagePath[m] : m \in {x \in Media : Active(x)}} \cup Pending \cup leaked

\* The row p is w's alone, still claimed, with the attempts w's job of it carries.
OwnClaim(w, p) ==
    /\ status[p] = "uploading"
    /\ \A v \in Workers \ {w} : p \notin InHand(v)
    /\ \A j \in batch[w] \cup {job[w]} : j # NoJob /\ j.pub = p => j.attempts = attempts[p]

\* A job that a worker has in hand is its own until it records the outcome: no
\* other worker has it, the row stays claimed with the attempts the job carries,
\* and no request removes it, so that the writes by id hit the row they are meant for.
ClaimIsExclusive == \A w \in Workers : \A p \in InHand(w) : OwnClaim(w, p)

\* Through retries, lost outcomes and reclaims, a row is handed to its destination
\* at most MaxAttempts times, quota walls apart.
UploadsBounded == \A p \in Pubs : calls[p] <= MaxAttempts

\* Lost answers alone never make a second video of a row: that takes an upload
\* whose session URL was lost with the worker, which the lease then took back.
OneVideoUnlessInterrupted == \A p \in Pubs : videos[p] <= 1 + reclaims[p]

\* Behind the queue, all this is what MediaPromise says, step by step: no worker
\* calls a destination for a row that is settled or gone, and none marks a row
\* published that the destination does not have (processJob, youtube.ts).
Phases == [p \in Pubs |-> IF status[p] \in {"queued", "uploading"} THEN "open" ELSE status[p]]
Promise == INSTANCE MediaPromise WITH phase <- Phases
PublisherKeepsPromise == Promise!Spec

\* A row queued for a destination with credentials ends published or failed, unless
\* it or its media is deleted: no crash, lost outcome or lease strands it.
PublicationsFinish ==
    \A p \in Pubs : DestinationOf(p) \in Configured =>
        (status[p] \in {"queued", "uploading"}
            ~> status[p] \in {"published", "failed", "absent"} \/ ~Active(MediaOf(p)))
===============================================================================
