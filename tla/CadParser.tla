----------------------------- MODULE CadParser -----------------------------
(***************************************************************************)
(* cad-parser (app.js, worker-split.js): splitting a STEP file into part   *)
(* files in the background, serving the parts for as long as the job       *)
(* lives, and converting them, or an uploaded file, in the pool of         *)
(* ConvertPool.                                                            *)
(*                                                                         *)
(* Every action is one turn of the event loop, or one file operation of    *)
(* the threads behind it.  Neither the stream that serves a part nor the   *)
(* one that writes a part in the main thread has an error handler, so the  *)
(* process ends when a part file is gone at the moment it is opened, or    *)
(* cannot be written.  The container is started again and has forgotten    *)
(* its jobs, not its files.                                                *)
(***************************************************************************)
EXTENDS ConvertPool

CONSTANTS
    Requests,  \* HTTP requests for one part or one conversion, used once
    Jobs,      \* split jobs, used once
    Parts      \* the parts (indexes) of each job

ASSUME RequestsAssumption == Requests = Tasks /\ None \notin Jobs \cup Parts

VARIABLES
    splitJobs,  \* splitJobs: the status of each job, "absent" if it has no entry
    split,      \* the function POST /split leaves to setImmediate
    file,       \* the part files in the directory of each job
    expiring,   \* jobs whose directory rm is removing
    upload,     \* uploaded files on the disk, by job or request
    req,        \* what each request waits for, or how it was answered
    ended       \* has the process ended once?

jobVars == <<splitJobs, split, file, expiring>>
vars == <<poolVars, jobVars, upload, req, ended>>

Status == {"absent", "PENDING", "DONE", "ERROR"}
Split == {"new", "scanning", "writing", "failed", "over"}
Waiting == {"reading", "opening", "converting"}
Answered == {"sent", "refused", "reset"}
Free == [is |-> "free", job |-> None, part |-> None, got |-> "no"]

TypeOK ==
    /\ PoolTypeOK
    /\ splitJobs \in [Jobs -> Status]
    /\ split \in [Jobs -> Split]
    /\ file \in [Jobs -> [Parts -> {"no", "part", "whole"}]]
    /\ expiring \subseteq Jobs
    /\ upload \subseteq Jobs \cup Requests
    /\ req \in [Requests -> [is : {"free"} \cup Waiting \cup Answered,
                             job : Jobs \cup {None}, part : Parts \cup {None},
                             got : {"no", "part", "whole"}]]
    /\ ended \in BOOLEAN

Init ==
    /\ PoolInit
    /\ splitJobs = [j \in Jobs |-> "absent"]
    /\ split = [j \in Jobs |-> "new"]
    /\ file = [j \in Jobs |-> [p \in Parts |-> "no"]]
    /\ expiring = {}
    /\ upload = {}
    /\ req = [r \in Requests |-> Free]
    /\ ended = FALSE

-----------------------------------------------------------------------------
(* POST /split: the job is PENDING, its function runs later.                *)
PostSplit(j) ==
    /\ split[j] = "new"
    /\ splitJobs' = [splitJobs EXCEPT ![j] = "PENDING"]
    /\ split' = [split EXCEPT ![j] = "scanning"]
    /\ upload' = upload \cup {j}
    /\ UNCHANGED <<poolVars, file, expiring, req, ended>>

(* POST /split of another format than STEP: multer has stored the upload    *)
(* when the handler answers 422, and nothing removes it.                    *)
PostSplitRefused(j) ==
    /\ split[j] = "new"
    /\ split' = [split EXCEPT ![j] = "over"]
    /\ upload' = upload \cup {j}
    /\ UNCHANGED <<poolVars, splitJobs, file, expiring, req, ended>>

(* Pass 1 of splitStepFromFile: the index and the closures.                 *)
ScanDone(j) ==
    /\ split[j] = "scanning"
    /\ split' = [split EXCEPT ![j] = "writing"]
    /\ UNCHANGED <<poolVars, splitJobs, file, expiring, upload, req, ended>>

(* Pass 2: writePart creates the file of a part, and ends its stream.       *)
(* Several workers write; Promise.all does not stop the others when one of  *)
(* them fails.                                                              *)
WritePart(j, p) ==
    /\ split[j] \in {"writing", "failed"}
    /\ \/ file[j][p] = "no" /\ file' = [file EXCEPT ![j][p] = "part"]
       \/ file[j][p] = "part" /\ file' = [file EXCEPT ![j][p] = "whole"]
    /\ UNCHANGED <<poolVars, splitJobs, split, expiring, upload, req, ended>>

(* The fault of a Promise.race, which resolves with the first worker.       *)
SplitDoneEarlyFault(j) ==
    /\ split[j] = "writing"
    /\ \E p \in Parts : file[j][p] = "whole"
    /\ splitJobs' = [splitJobs EXCEPT ![j] = "DONE"]
    /\ split' = [split EXCEPT ![j] = "failed"]
    /\ upload' = upload \ {j}
    /\ UNCHANGED <<poolVars, file, expiring, req, ended>>

(* The job is DONE once every part is written; its timer is set, and the    *)
(* upload removed.                                                          *)
SplitDone(j) ==
    /\ split[j] = "writing"
    /\ \A p \in Parts : file[j][p] = "whole"
    /\ splitJobs' = [splitJobs EXCEPT ![j] = "DONE"]
    /\ split' = [split EXCEPT ![j] = "over"]
    /\ upload' = upload \ {j}
    /\ UNCHANGED <<poolVars, file, expiring, req, ended>>

(* The fault of a catch block that only logs.                               *)
SplitFailsSilentlyFault(j) ==
    /\ split[j] \in {"scanning", "writing"}
    /\ split' = [split EXCEPT ![j] = IF @ = "writing" THEN "failed" ELSE "over"]
    /\ upload' = upload \ {j}
    /\ UNCHANGED <<poolVars, splitJobs, file, expiring, req, ended>>

(* The catch block: the scan, or a write in a worker thread, failed.        *)
SplitFails(j) ==
    /\ split[j] \in {"scanning", "writing"}
    /\ splitJobs' = [splitJobs EXCEPT ![j] = "ERROR"]
    /\ split' = [split EXCEPT ![j] = IF @ = "writing" THEN "failed" ELSE "over"]
    /\ upload' = upload \ {j}
    /\ UNCHANGED <<poolVars, file, expiring, req, ended>>

(* JOB_TTL_MS after DONE the job is forgotten and its directory removed.    *)
Expire(j) ==
    /\ splitJobs[j] = "DONE"
    /\ splitJobs' = [splitJobs EXCEPT ![j] = "absent"]
    /\ expiring' = expiring \cup {j}
    /\ UNCHANGED <<poolVars, split, file, upload, req, ended>>

RemovePart(j, p) ==
    /\ j \in expiring
    /\ file[j][p] # "no"
    /\ file' = [file EXCEPT ![j][p] = "no"]
    /\ UNCHANGED <<poolVars, splitJobs, split, expiring, upload, req, ended>>

-----------------------------------------------------------------------------
(* GET /split/:jobId/part/:index and .../glb: 404 or 409 unless DONE.       *)
GetPart(r, j, p, wait) ==
    /\ req[r] = Free
    /\ req' = [req EXCEPT ![r] =
                  [is |-> IF splitJobs[j] = "DONE" THEN wait ELSE "refused",
                   job |-> j, part |-> p, got |-> "no"]]
    /\ UNCHANGED <<poolVars, jobVars, upload, ended>>

(* POST /convert.                                                           *)
PostConvert(r) ==
    /\ req[r] = Free
    /\ req' = [req EXCEPT ![r].is = "reading"]
    /\ upload' = upload \cup {r}
    /\ UNCHANGED <<poolVars, jobVars, ended>>

(* readFile answers, and the bytes go to the pool; when it fails, as for a  *)
(* part that is gone, the answer is 422 and an upload is removed.           *)
Input(r) == IF req[r].job = None THEN "whole" ELSE file[req[r].job][req[r].part]

ReadInput(r) ==
    /\ req[r].is = "reading"
    /\ \/ /\ Input(r) # "no"
          /\ req' = [req EXCEPT ![r].is = "converting", ![r].got = Input(r)]
          /\ run(r)
          /\ UNCHANGED upload
       \/ /\ req' = [req EXCEPT ![r].is = "refused"]
          /\ upload' = upload \ {r}
          /\ UNCHANGED poolVars
    /\ UNCHANGED <<jobVars, ended>>

(* The fault of a finally block that keeps the upload of a failed request.  *)
AnswerKeepingFault(r) ==
    /\ req[r].is = "converting"
    /\ reply[r].is \in {"resolved", "rejected"}
    /\ req' = [req EXCEPT ![r].is = IF reply[r].is = "resolved" THEN "sent" ELSE "refused"]
    /\ upload' = IF reply[r].is = "resolved" THEN upload \ {r} ELSE upload
    /\ UNCHANGED <<poolVars, jobVars, ended>>

(* The promise of run is settled: 200 or 422, and the upload is removed.    *)
Answer(r) ==
    /\ req[r].is = "converting"
    /\ reply[r].is \in {"resolved", "rejected"}
    /\ req' = [req EXCEPT ![r].is = IF reply[r].is = "resolved" THEN "sent" ELSE "refused"]
    /\ upload' = upload \ {r}
    /\ UNCHANGED <<poolVars, jobVars, ended>>

(* createReadStream opens the file of the part and pipes it.                *)
StreamPart(r) ==
    /\ req[r].is = "opening"
    /\ Input(r) # "no"
    /\ req' = [req EXCEPT ![r].is = "sent", ![r].got = Input(r)]
    /\ UNCHANGED <<poolVars, jobVars, upload, ended>>

(* An error event nobody listens to ends the process, and the container     *)
(* starts it again.                                                         *)
ProcessEnds ==
    /\ ended' = TRUE
    /\ splitJobs' = [j \in Jobs |-> "absent"]
    /\ split' = [j \in Jobs |-> IF split[j] = "new" THEN "new" ELSE "over"]
    /\ expiring' = {}
    /\ req' = [q \in Requests |->
                  IF req[q].is \in Waiting THEN [req[q] EXCEPT !.is = "reset"] ELSE req[q]]
    /\ idle' = [i \in 1 .. PoolSize |-> i]
    /\ queue' = <<>>
    /\ task' = [w \in Workers |-> None]
    /\ thread' = [w \in Workers |-> IF w <= PoolSize THEN "up" ELSE "new"]
    /\ mail' = [w \in Workers |-> <<>>]
    /\ spawned' = PoolSize
    /\ reply' = [t \in Tasks |-> Unused]
    /\ UNCHANGED <<file, upload>>

(* The stream that serves a part cannot open its file. *)
StreamFails(r) == req[r].is = "opening" /\ Input(r) = "no" /\ ProcessEnds

(* The stream that writes a part of a small file, in the main thread, fails. *)
WriteFails(j) == split[j] \in {"writing", "failed"} /\ ProcessEnds

-----------------------------------------------------------------------------
PoolAction == /\ \E w \in Workers : PoolStep(w)
              /\ UNCHANGED <<jobVars, upload, req, ended>>

JobAction(j) ==
    \/ PostSplit(j) \/ PostSplitRefused(j) \/ ScanDone(j) \/ SplitDone(j) \/ SplitFails(j)
    \/ WriteFails(j) \/ Expire(j)
    \/ \E p \in Parts : WritePart(j, p) \/ RemovePart(j, p)

RequestAction(r) ==
    \/ PostConvert(r) \/ ReadInput(r) \/ Answer(r) \/ StreamPart(r) \/ StreamFails(r)
    \/ \E j \in Jobs, p \in Parts, wait \in {"reading", "opening"} : GetPart(r, j, p, wait)

Next ==
    \/ PoolAction
    \/ \E j \in Jobs : JobAction(j)
    \/ \E r \in Requests : RequestAction(r)

(* The event loop, the file system and OCCT go on; nothing is assumed about *)
(* clients, failures and dying workers.                                     *)
PoolFairness ==
    \A w \in Workers :
        /\ WF_vars(Convert(w) /\ UNCHANGED <<jobVars, upload, req, ended>>)
        /\ WF_vars(onMessage(w) /\ UNCHANGED <<jobVars, upload, req, ended>>)
        /\ WF_vars(onError(w) /\ UNCHANGED <<jobVars, upload, req, ended>>)

RequestFairness ==
    \A r \in Requests :
        WF_vars(ReadInput(r) \/ Answer(r) \/ StreamPart(r) \/ StreamFails(r))

JobFairness ==
    \A j \in Jobs :
        /\ WF_vars(ScanDone(j)) /\ WF_vars(SplitDone(j)) /\ WF_vars(Expire(j))
        /\ \A p \in Parts : WF_vars(WritePart(j, p)) /\ WF_vars(RemovePart(j, p))

Spec == Init /\ [][Next]_vars /\ PoolFairness /\ RequestFairness /\ JobFairness

-----------------------------------------------------------------------------
(* No client is given, and nothing is converted from, a part file that is   *)
(* still being written: app.js calls a job DONE only when all its writers   *)
(* have ended, and parts are served of DONE jobs alone.                     *)
NoTruncatedPart ==
    \A r \in Requests : req[r].is \in {"converting", "sent"} => req[r].got = "whole"

(* Every accepted request is answered, whatever worker threads do, unless   *)
(* the process ends under it, and a client that polls a job does not see    *)
(* PENDING for ever.                                                        *)
ClientsAnswered ==
    /\ \A r \in Requests : req[r].is \in Waiting ~> req[r].is \in Answered
    /\ \A j \in Jobs : splitJobs[j] = "PENDING" ~> splitJobs[j] # "PENDING"

(* The disk is given back, unless the process ended: the upload of a        *)
(* conversion and of an accepted split job is removed whether they succeed  *)
(* or fail, and the parts of a job that was DONE after its time.  (The      *)
(* upload of a refused split, and the parts of a failed one, stay.)         *)
DiskReclaimed ==
    /\ \A r \in Requests : r \in upload ~> r \notin upload \/ ended
    /\ \A j \in Jobs :
          /\ split[j] = "scanning" ~> j \notin upload \/ ended
          /\ splitJobs[j] = "DONE" ~> ended \/ \A p \in Parts : file[j][p] = "no"
=============================================================================
