-------------------------------- MODULE Shell --------------------------------
(* The shell manager: jobs whose output a pump task spools to a log, waits     *)
(* that end before the command does, named sessions that keep the working       *)
(* directory, resumable reads, and kill.                                        *)
EXTENDS Integers, Sequences, SequencesExt, FiniteSets

CONSTANTS
    JobIds,         \* commands that may be run
    ShellNames,     \* named sessions
    Dirs,           \* working directories
    Root,           \* the workspace root, one of Dirs
    InlineOutput,   \* INLINE_OUTPUT_CHARS, in chunks
    MaxOutput       \* bound: chunks a command prints

NoName == "no_session"

ASSUME ShellAssumption ==
    /\ Root \in Dirs /\ NoName \notin ShellNames
    /\ MaxOutput \in Nat /\ InlineOutput \in Nat \ {0}

Running == 99   \* no exit code yet

VARIABLES
    jobs,       \* the jobs: process, pump, log and status; after is a history:
                \* the jobs whose status was out when this one was started
    cwds,       \* ShellManager.sessions: name to directory, "unset" when absent
    reader      \* a caller of shell_output, chunk by chunk of the log: what was
                \* read of the first `offset' chunks, and whether the last read
                \* ended inside the one after; cuts is a history: the chunks a
                \* read ended inside

shellVars == <<jobs, cwds, reader>>

NoShellJob == [proc |-> "none", pump |-> "none", session |-> NoName, at |-> Root, pipe |-> <<>>,
          printed |-> 0, log |-> <<>>, tail |-> <<>>, status |-> Running, kill |-> FALSE,
          code |-> 0, after |-> {}]

ShellInit ==
    /\ jobs = [j \in JobIds |-> NoShellJob]
    /\ cwds = [n \in ShellNames |-> "unset"]
    /\ reader = [j \in JobIds |-> [offset |-> 0, read |-> <<>>, cut |-> "no", cuts |-> {}]]

(* session_cwd: the directory the session was left in, the root at first. *)
SessionCwd(name) == IF cwds[name] = "unset" THEN Root ELSE cwds[name]

(* run: spawn the process in the session's directory, register the job and     *)
(* start the pump. The wait that follows, and its timeout, change nothing.     *)
RunCommand(j) ==
    /\ jobs[j].proc = "none"
    /\ \E name \in ShellNames \cup {NoName} :
         jobs' = [jobs EXCEPT ![j] =
           [NoShellJob EXCEPT !.proc = "running", !.pump = "open", !.session = name,
                         !.at = IF name = NoName THEN Root ELSE SessionCwd(name),
                         !.after = {i \in JobIds : jobs[i].status # Running}]]
    /\ UNCHANGED <<cwds, reader>>

(* The command prints a chunk, or changes directory. *)
Prints(j) ==
    /\ jobs[j].proc = "running" /\ jobs[j].printed < MaxOutput
    /\ jobs' = [jobs EXCEPT ![j].pipe = Append(@, "line"), ![j].printed = @ + 1]
    /\ UNCHANGED <<cwds, reader>>

Cd(j) ==
    /\ jobs[j].proc = "running" /\ jobs[j].printed < MaxOutput
    /\ \E d \in Dirs \ {jobs[j].at} : jobs' = [jobs EXCEPT ![j].at = d]
    /\ UNCHANGED <<cwds, reader>>

(* The command ends by itself. The shell then prints the sentinel line of a    *)
(* session command, unless the command left the shell with exit.               *)
ProcessEnds(j) ==
    /\ jobs[j].proc = "running"
    /\ \E sentinel \in BOOLEAN, code \in {0, 1} :
         /\ sentinel => jobs[j].session # NoName
         /\ jobs' = [jobs EXCEPT ![j].proc = "exited", ![j].code = code,
                                 ![j].pipe = IF sentinel THEN Append(@, jobs[j].at) ELSE @]
    /\ UNCHANGED <<cwds, reader>>

-----------------------------------------------------------------------------
(* The pump task. *)

(* The log opens, or the child is killed and -1 published. *)
OpenLog(j) ==
    /\ jobs[j].pump = "open"
    /\ \/ jobs' = [jobs EXCEPT ![j].pump = "pumping"]
       \/ jobs' = [jobs EXCEPT ![j].pump = "gone", ![j].proc = "killed", ![j].status = -1]
    /\ UNCHANGED <<cwds, reader>>

(* A chunk of stdout goes to the tail, which keeps its last bytes, and the log. *)
PumpChunk(j) ==
    /\ jobs[j].pump = "pumping" /\ jobs[j].pipe # <<>>
    /\ jobs' = [jobs EXCEPT ![j].log = Append(@, Head(jobs[j].pipe)),
                            ![j].tail = <<Head(jobs[j].pipe)>>,
                            ![j].pipe = Tail(@)]
    /\ UNCHANGED <<cwds, reader>>

(* tail.drain(..cut) panics when the cut falls inside a character: the task,   *)
(* the child (kill_on_drop) and the sender of the status are dropped.          *)
PumpPanics(j) ==
    /\ jobs[j].pump = "pumping" /\ jobs[j].pipe # <<>>
    /\ jobs' = [jobs EXCEPT ![j].pump = "gone", ![j].pipe = <<>>,
                            ![j].proc = IF @ = "running" THEN "killed" ELSE @]
    /\ UNCHANGED <<cwds, reader>>

(* The kill branch of select!. *)
PumpKilled(j) ==
    /\ jobs[j].pump = "pumping" /\ jobs[j].kill
    /\ jobs' = [jobs EXCEPT ![j].pump = "gone", ![j].status = -1, ![j].pipe = <<>>,
                            ![j].proc = IF @ = "running" THEN "killed" ELSE @,
                            ![j].log = Append(@, "[killed]")]
    /\ UNCHANGED <<cwds, reader>>

(* Both pipes are at their end and the child is waited for. *)
PumpDrained(j) ==
    /\ jobs[j].pump = "pumping" /\ jobs[j].pipe = <<>> /\ jobs[j].proc = "exited"
    /\ jobs' = [jobs EXCEPT ![j].pump = "persist"]
    /\ UNCHANGED <<cwds, reader>>

PersistCwdLate(j) ==
    /\ jobs[j].pump = "persist"
    /\ jobs' = [jobs EXCEPT ![j].pump = "gone", ![j].status = jobs[j].code]
    /\ UNCHANGED <<cwds, reader>>

(* The directory in the tail's sentinel line becomes the session's. *)
PersistCwd(j) ==
    /\ jobs[j].pump = "persist"
    /\ cwds' = IF jobs[j].session # NoName /\ jobs[j].tail # <<>> /\ Head(jobs[j].tail) \in Dirs
               THEN [cwds EXCEPT ![jobs[j].session] = Head(jobs[j].tail)]
               ELSE cwds
    /\ jobs' = [jobs EXCEPT ![j].pump = "publish"]
    /\ UNCHANGED <<reader>>

PublishStatus(j) ==
    /\ jobs[j].pump = "publish"
    /\ jobs' = [jobs EXCEPT ![j].pump = "gone", ![j].status = jobs[j].code]
    /\ UNCHANGED <<cwds, reader>>

-----------------------------------------------------------------------------
(* kill: only a running job takes it. *)
KillJob(j) ==
    /\ jobs[j].proc # "none" /\ jobs[j].status = Running /\ ~jobs[j].kill
    /\ jobs' = [jobs EXCEPT ![j].kill = TRUE]
    /\ UNCHANGED <<cwds, reader>>

(* What read_log makes of a chunk, of which an earlier read ended at no byte,  *)
(* between two characters or inside one.  A whole sentinel line is hidden; one  *)
(* in two halves is not found in either or leaves its rest behind.             *)
ShownAs(chunk, cut) ==
    CASE chunk \in Dirs /\ cut = "no" -> "nothing"
      [] chunk \in Dirs /\ cut # "no" -> "leaked"
      [] chunk \notin Dirs /\ cut = "inside" -> "garbled"
      [] OTHER -> chunk

(* A text of more than INLINE_OUTPUT_CHARS is cut to its last ones, behind a   *)
(* note of how many are left out.                                              *)
Inlined(texts) ==
    [x \in DOMAIN texts |->
        IF /\ texts[x] # "nothing"
           /\ Cardinality({y \in DOMAIN texts : y > x /\ texts[y] # "nothing"}) >= InlineOutput
        THEN "noted" ELSE texts[x]]

(* shell_output: everything from the offset to the end of the file. The pump   *)
(* writes 8192 bytes at once, so behind other output the file may end inside    *)
(* the last chunk.  The offset to resume from counts what is in the file, the   *)
(* part left out too.                                                          *)
ReadOutput(j) ==
    /\ jobs[j].proc # "none"
    /\ reader[j].offset < Len(jobs[j].log)
    /\ \E cut \in {"no", "between", "inside"} :
         LET r == reader[j]
             end == IF cut = "no" THEN Len(jobs[j].log) ELSE Len(jobs[j].log) - 1
             texts == [x \in (r.offset + 1)..end |->
                         ShownAs(jobs[j].log[x], IF x = r.offset + 1 THEN r.cut ELSE "no")]
         IN /\ cut # "no" => Len(jobs[j].log) > 1 /\ (end > r.offset \/ r.cut = "no")
            /\ reader' = [reader EXCEPT ![j] =
                 [offset |-> end, cut |-> cut,
                  cuts |-> IF cut = "no" THEN r.cuts ELSE r.cuts \cup {end + 1},
                  read |-> [x \in 1..end |-> IF x <= r.offset THEN r.read[x]
                                             ELSE Inlined(texts)[x]]]]
    /\ UNCHANGED <<jobs, cwds>>

PumpStep(j) ==
    \/ OpenLog(j) \/ PumpChunk(j) \/ PumpPanics(j) \/ PumpKilled(j) \/ PumpDrained(j)
    \/ PersistCwd(j) \/ PublishStatus(j)

ShellNext ==
    \E j \in JobIds :
        \/ RunCommand(j) \/ Prints(j) \/ Cd(j) \/ ProcessEnds(j) \/ PumpStep(j)
        \/ KillJob(j) \/ ReadOutput(j)

ShellSpec == ShellInit /\ [][ShellNext]_shellVars

-----------------------------------------------------------------------------
(* Types of the jobs and the sessions. *)
ShellTypeOK ==
    /\ \A j \in JobIds :
         /\ jobs[j].proc \in {"none", "running", "exited", "killed"}
         /\ jobs[j].pump \in {"none", "open", "pumping", "persist", "publish", "gone"}
         /\ jobs[j].at \in Dirs
         /\ reader[j].offset \in 0..Len(jobs[j].log)
    /\ cwds \in [ShellNames -> Dirs \cup {"unset"}]

(* run, pump: whoever sees the status of a session's last command, and so may  *)
(* run the next one, finds the session in the directory that command left: the *)
(* directory is stored before the status is published. Of commands of one      *)
(* session that overlap, the last one to store wins.                           *)
CdPersists ==
    \A n \in ShellNames :
        LET stored(j) == jobs[j].pump = "publish" \/ jobs[j].status \in {0, 1}
            left == {j \in JobIds : jobs[j].session = n /\ stored(j) /\ jobs[j].tail # <<>>
                                    /\ Head(jobs[j].tail) \in Dirs}
        IN left # {} => \E j \in left : /\ cwds[n] = Head(jobs[j].tail)
                                        /\ \A i \in left : j \notin jobs[i].after

(* read_output: reading on from the offset a read returned gives the output of  *)
(* the log, each chunk once and in order, while it is being written: no chunk   *)
(* is passed over but a sentinel, and one that a note announces because        *)
(* INLINE_OUTPUT_CHARS and more follow it.  A chunk a read ended inside may be  *)
(* garbled, and a sentinel one ended inside is shown.                          *)
ReadsResume ==
    \A j \in JobIds : \A x \in 1..reader[j].offset :
        \/ reader[j].read[x] = ShownAs(jobs[j].log[x], "no")
        \/ reader[j].read[x] = "noted" /\ x + InlineOutput <= reader[j].offset
        \/ reader[j].read[x] \in {"garbled", "leaked"} /\ x \in reader[j].cuts

(* read_log: "Hide the internal cwd sentinel from the model." *)
SentinelHidden ==
    \A j \in JobIds : \A x \in 1..reader[j].offset : reader[j].read[x] # "leaked"

(* ShellJob.status: "`None` while running, `Some(exit_code)` once finished": a *)
(* job whose process and pump are gone has a status.                           *)
FinishedHasStatus ==
    \A j \in JobIds : jobs[j].pump = "gone" => jobs[j].status # Running

(* The shell as a whole: types, a session's directory is the one its last  *)
(* command left, and reads of a job go on where the last one ended (run,   *)
(* read_output).                                                           *)
ShellKeeps == ShellTypeOK /\ CdPersists /\ ReadsResume
=============================================================================
