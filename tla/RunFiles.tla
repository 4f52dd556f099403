------------------------------ MODULE RunFiles ------------------------------
(***************************************************************************)
(* The files of the runs and the rows that speak of them: the source a     *)
(* submission writes before its transaction and removes when it is rolled  *)
(* back (store.ts), the brief the engine reads back from it (engine.ts),   *)
(* the result a driver writes before it completes its run (engine.ts,      *)
(* codex.ts, claude.ts) and the draft a handoff reads from it              *)
(* (handoff-store.ts).                                                     *)
(*                                                                         *)
(* The daemon's thread is one, but the database commits on its own, the    *)
(* daemon may crash between a file and its row, and the workspace of a run *)
(* is writable by the container of its provider, or by anybody on the host *)
(* when the run is a fake one.  A file is absent, what the daemon wrote,   *)
(* or other: a fragment, or whatever somebody else left in its place, a    *)
(* removed file included, since readVerifiedFile refuses the one like the  *)
(* other.                                                                  *)
(***************************************************************************)
EXTENDS FiniteSets, Naturals

CONSTANTS
  Runs,
  Fakes, \* the runs of the fake provider; the others have a container
  NoRun,
  MaxDrives \* launches of one run that are on their way at once

ASSUME RunFilesAssumption ==
  Fakes \subseteq Runs /\ NoRun \notin Runs /\ MaxDrives \in Nat \ {0}

VARIABLES
  row,      \* the run's row: none, queued, running, succeeded, ended
  origin,   \* the run whose source its task has
  source,   \* the file of the source packet
  result,   \* hello.md
  thread,   \* the job of the daemon's thread between a file and its row
  due,      \* how many launches of the run are committed, or asked for again, and not
            \* applied yet
  answered, \* allowed approvals and answers of fake runs, likewise
  boxed,    \* runs with a container
  given,    \* the brief the driver got
  envelope, \* the draft that the handoff of the run carries
  touched,  \* runs whose workspace somebody else has written to (history)
  littered, \* submissions that left their file: cut short at it by a crash or a failed
            \* write, or not rolled back by their own ROLLBACK (history)
  torn      \* succeeded runs whose result is being written again, or was when a crash
            \* or an error cut that short (history)

files == <<source, result>>
seen  == <<given, envelope>>
past  == <<touched, littered, torn>>
fileVars  == <<row, origin, files, thread, due, answered, boxed, seen, past>>

File == {"absent", "own", "other"}

FilesTypeOK ==
  /\ row \in [Runs -> {"none", "queued", "running", "succeeded", "ended"}]
  /\ origin \in [Runs -> Runs]
  /\ source \in [Runs -> File] /\ result \in [Runs -> File]
  /\ thread \in [job : {"idle", "submit", "write", "finish"}, run : Runs \cup {NoRun}]
  /\ due \in [Runs -> 0..MaxDrives] /\ answered \subseteq Fakes /\ boxed \subseteq Runs \ Fakes
  /\ given \in [Runs -> File] /\ envelope \in [Runs -> File]
  /\ touched \subseteq Runs /\ littered \subseteq Runs /\ torn \subseteq Runs

Idle == [job |-> "idle", run |-> NoRun]

FilesInit ==
  /\ row = [r \in Runs |-> "none"] /\ origin = [r \in Runs |-> r]
  /\ source = [r \in Runs |-> "absent"] /\ result = [r \in Runs |-> "absent"]
  /\ thread = Idle /\ due = [r \in Runs |-> 0] /\ answered = {} /\ boxed = {}
  /\ given = [r \in Runs |-> "absent"] /\ envelope = [r \in Runs |-> "absent"]
  /\ touched = {} /\ littered = {} /\ torn = {}

Active(r) == row[r] \in {"queued", "running"}

\* Mutant: whatever is at the path is taken
Verified_Present(file) == file # "absent"

\* readVerifiedFile: size and digest of the bytes that were read are those of the row
Verified(file) == file = "own"

-----------------------------------------------------------------------------
(* Submissions                                                             *)

\* mkdir and writeScratchFile, inside the transaction
Stages(r) ==
  /\ thread = Idle /\ row[r] = "none" /\ source[r] = "absent" /\ r \notin littered
  /\ source' = [source EXCEPT ![r] = "own"]
  /\ thread' = [job |-> "submit", run |-> r]
  /\ UNCHANGED <<row, origin, result, due, answered, boxed, seen, past>>

\* The write itself fails and leaves a fragment: the file is not in the list of staged paths
\* yet.  (A failure that leaves none changes nothing.)
StageFails(r) ==
  /\ thread = Idle /\ row[r] = "none" /\ source[r] = "absent" /\ r \notin littered
  /\ source' = [source EXCEPT ![r] = "other"]
  /\ littered' = littered \cup {r}
  /\ UNCHANGED <<row, origin, result, thread, due, answered, boxed, seen, touched,
                 torn>>

\* The rows of the revision, source, task, thread, run, request, intent and event, committed
SubmitTask(r) ==
  /\ thread = [job |-> "submit", run |-> r]
  /\ row' = [row EXCEPT ![r] = "queued"]
  /\ due' = [due EXCEPT ![r] = 1] /\ thread' = Idle
  /\ UNCHANGED <<origin, files, answered, boxed, seen, past>>

\* Mutant: a rollback that goes through forgets the staged files
RollsBack_KeepsFile(r) ==
  /\ thread = [job |-> "submit", run |-> r]
  /\ thread' = Idle
  /\ UNCHANGED <<row, origin, files, due, answered, boxed, seen, past>>

\* An insert or the commit throws.  When SQLite has rolled back by itself (a full disk, an
\* I/O error), ROLLBACK throws too and the file stays.
RollsBack(r) ==
  /\ thread = [job |-> "submit", run |-> r]
  /\ \/ source' = [source EXCEPT ![r] = "absent"] /\ UNCHANGED littered
     \/ littered' = littered \cup {r} /\ UNCHANGED source
  /\ thread' = Idle
  /\ UNCHANGED <<row, origin, result, due, answered, boxed, seen, touched, torn>>

\* The draft is read again at the proposal; the recipient works on the source of the task
ProposeHandoff(s, r) ==
  /\ thread = Idle /\ s \notin Fakes /\ r \notin Fakes
  /\ row[s] = "succeeded" /\ origin[s] = s /\ envelope[s] = "absent"
  /\ row[r] = "none" /\ source[r] = "absent" /\ r \notin littered
  /\ Verified(result[s])
  /\ envelope' = [envelope EXCEPT ![s] = result[s]]
  /\ origin' = [origin EXCEPT ![r] = s]
  /\ row' = [row EXCEPT ![r] = "queued"]
  /\ due' = [due EXCEPT ![r] = 1]
  /\ UNCHANGED <<files, thread, answered, boxed, given, past>>

-----------------------------------------------------------------------------
(* The engine                                                              *)

Refuses(r) ==
  /\ row' = IF Active(r) THEN [row EXCEPT ![r] = "ended"] ELSE row
  /\ UNCHANGED <<boxed, given>>

\* A container for the run, unless it ended while its launch was due
Drives(r) ==
  /\ given' = [given EXCEPT ![r] = source[origin[r]]]
  /\ row' = IF Active(r) /\ r \in Fakes THEN [row EXCEPT ![r] = "running"] ELSE row
  /\ boxed' = IF Active(r) /\ r \notin Fakes THEN boxed \cup {r} ELSE boxed

\* writeScratchFile removes whatever is at the path before it writes: until it is through
\* there is no file, or a fragment
Writes(r) ==
  /\ result' = [result EXCEPT ![r] = "other"]
  /\ torn' = IF row[r] = "succeeded" THEN torn \cup {r} ELSE torn
  /\ thread' = [job |-> "write", run |-> r]

Writing == <<result, torn, thread>>

\* A fake run without a gate has its result in the call that marks it running, whether it
\* was marked or not: a run that has ended, or succeeded by an earlier drive, writes again
DriveFake(r) == r \in Fakes /\ Writes(r)

Launch(r) ==
  /\ thread = Idle /\ due[r] > 0
  /\ due' = [due EXCEPT ![r] = @ - 1]
  /\ IF Verified(source[origin[r]])
     THEN Drives(r) /\ (DriveFake(r) \/ UNCHANGED Writing)
     ELSE Refuses(r) /\ UNCHANGED Writing
  /\ UNCHANGED <<origin, source, answered, envelope, touched, littered>>

\* The submission is sent again while its launch is pending: the run is driven again, also
\* when the other drive is through by then
Retry(r) ==
  /\ thread = Idle /\ row[r] = "queued" /\ due[r] < MaxDrives
  /\ due' = [due EXCEPT ![r] = @ + 1]
  /\ UNCHANGED <<row, origin, files, thread, answered, boxed, seen, past>>

\* The provider has reported its session
MarkRunning(r) ==
  /\ thread = Idle /\ r \in boxed /\ row[r] = "queued"
  /\ row' = [row EXCEPT ![r] = "running"]
  /\ UNCHANGED <<origin, files, thread, due, answered, boxed, seen, past>>

\* load_session of a run that has ended: its workspace is mounted again
LoadSession(r) ==
  /\ thread = Idle /\ row[r] \in {"succeeded", "ended"} /\ given[r] # "absent"
  /\ r \notin Fakes /\ r \notin boxed
  /\ Verified(source[origin[r]])
  /\ boxed' = boxed \cup {r}
  /\ UNCHANGED <<row, origin, files, thread, due, answered, seen, past>>

\* resolve_approval or answer_input of a fake run; its effect is applied later
Answer(r) ==
  /\ thread = Idle /\ r \in Fakes /\ row[r] = "running"
  /\ answered' = answered \cup {r}
  /\ UNCHANGED <<row, origin, files, thread, due, boxed, seen, past>>

\* finishAllowedFake does not ask whether the run is still active
FinishAllowedFake(r) ==
  /\ thread = Idle /\ r \in answered
  /\ answered' = answered \ {r}
  /\ IF Verified(source[origin[r]])
     THEN Writes(r) /\ UNCHANGED <<row, boxed, given>>
     ELSE Refuses(r) /\ UNCHANGED Writing
  /\ UNCHANGED <<origin, source, due, envelope, touched, littered>>

\* The codex driver and the Claude driver have their text
Finish(r) ==
  /\ thread = Idle /\ r \in boxed /\ row[r] = "running"
  /\ Writes(r)
  /\ UNCHANGED <<row, origin, source, due, answered, boxed, seen, touched, littered>>

\* The file is there
Written(r) ==
  /\ thread = [job |-> "write", run |-> r]
  /\ result' = [result EXCEPT ![r] = "own"]
  /\ torn' = torn \ {r}
  /\ thread' = [job |-> "finish", run |-> r]
  /\ UNCHANGED <<row, origin, source, due, answered, boxed, seen, touched, littered>>

\* The write or complete throws: the run is failed, if it still can be, but the owner's
\* decision about a fake run only gets an error for an answer
FinishFails(r) ==
  /\ thread.job \in {"write", "finish"} /\ thread.run = r
  /\ row' \in {row, IF Active(r) THEN [row EXCEPT ![r] = "ended"] ELSE row}
  /\ thread' = Idle
  /\ UNCHANGED <<origin, files, due, answered, boxed, seen, past>>

\* complete, once the file is there.  The session is dropped after it.
Completes(r) ==
  /\ thread = [job |-> "finish", run |-> r]
  /\ row' = IF Active(r) THEN [row EXCEPT ![r] = "succeeded"] ELSE row
  /\ thread' = Idle
  /\ UNCHANGED <<origin, files, due, answered, boxed, seen, past>>

\* cancel_run, stop_all, a deadline, a failure
Ends(r) ==
  /\ thread = Idle /\ Active(r)
  /\ row' = [row EXCEPT ![r] = "ended"]
  /\ UNCHANGED <<origin, files, thread, due, answered, boxed, seen, past>>

\* dropSession, interrupts and the end of a load
BoxRemoved(r) ==
  /\ thread = Idle /\ r \in boxed /\ ~Active(r)
  /\ boxed' = boxed \ {r}
  /\ UNCHANGED <<row, origin, files, thread, due, answered, seen, past>>

\* The daemon is killed, in the middle of a file too, and started again: interruptActiveRuns,
\* and the containers are removed
Restart ==
  /\ row' = [r \in Runs |-> IF Active(r) THEN "ended" ELSE row[r]]
  /\ littered' = littered \cup {r \in Runs : thread = [job |-> "submit", run |-> r]}
  /\ thread' = Idle /\ due' = [r \in Runs |-> 0] /\ answered' = {} /\ boxed' = {}
  /\ UNCHANGED <<origin, files, seen, touched, torn>>

\* The container, or the host where a fake run works
WorkspaceChanges(r) ==
  /\ r \in boxed \/ (r \in Fakes /\ row[r] # "none")
  /\ \/ source' = [source EXCEPT ![r] = "other"] /\ UNCHANGED result
     \/ result' = [result EXCEPT ![r] = "other"] /\ UNCHANGED source
  /\ touched' = touched \cup {r}
  /\ UNCHANGED <<row, origin, thread, due, answered, boxed, seen, littered,
                 torn>>

-----------------------------------------------------------------------------
FilesNext ==
  \/ \E r \in Runs :
       \/ Stages(r) \/ StageFails(r) \/ SubmitTask(r) \/ RollsBack(r)
       \/ Launch(r) \/ Retry(r) \/ MarkRunning(r) \/ LoadSession(r) \/ Answer(r)
       \/ FinishAllowedFake(r) \/ Finish(r) \/ Written(r) \/ FinishFails(r)
       \/ Completes(r)
       \/ Ends(r) \/ BoxRemoved(r) \/ WorkspaceChanges(r)
  \/ \E s, r \in Runs : ProposeHandoff(s, r)
  \/ Restart

FilesSpec == FilesInit /\ [][FilesNext]_fileVars

-----------------------------------------------------------------------------
(* Properties                                                              *)

\* What the driver gets as its brief and what a handoff carries as the source draft is what
\* the owner submitted and what the run completed with, although the workspaces they are read
\* back from were open to the containers of earlier runs and of the same run
\* (engine.ts:55-79; handoff-store.ts:121-134, 185-187).
NothingChangedGoesOut ==
  \A r \in Runs : given[r] \in {"absent", "own"} /\ envelope[r] \in {"absent", "own"}

\* A row never speaks of a file that the daemon failed to write: a submitted run has its
\* source and a succeeded run its result, after crashes, rollbacks, late dispatches and second
\* drives, unless somebody else wrote to the workspace (store.ts:1396-1399;
\* engine.ts:341-356).  A fake run that succeeded and is driven again loses its result when
\* the second write does not get through.
RowsHaveFiles ==
  \A r \in Runs \ touched :
    /\ row[r] # "none" /\ origin[r] = r => source[r] = "own"
    /\ row[r] = "succeeded" => result[r] = "own" \/ r \in Fakes \cap torn

\* A source without a row is left by a crash, by a write that failed or by a ROLLBACK that
\* threw, never by a submission that was rolled back (store.ts:614-619).
OnlyCutShortLeaves ==
  \A r \in Runs : source[r] # "absent" /\ row[r] = "none" =>
    r \in littered \/ thread = [job |-> "submit", run |-> r]

\* Files and rows, which no transaction spans, agree: no row without its file, and no file
\* without a row, but for the crashes and the failures that the two parts name
\* (store.ts:614-619, 1396-1399; engine.ts:341-356).
FilesFitRows == RowsHaveFiles /\ OnlyCutShortLeaves

=============================================================================
