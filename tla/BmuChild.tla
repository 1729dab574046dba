-------------------------------- MODULE BmuChild -------------------------------
(***************************************************************************)
(* How the GUI runs a script and comes to its output, in three ways:       *)
(* run_step of run.rs reads two pipes with two threads and a channel,      *)
(* run_json of dashboard.rs (with run of install.rs) has both collected    *)
(* whole, and the run_with_timeout of rclone_browse.rs and of              *)
(* proton_browse.rs polls, and reads afterwards.  The script, the readers, *)
(* the caller and the clock go on independently; a pipe holds Cap lines,   *)
(* and a script that writes into a full one waits.                         *)
(***************************************************************************)
EXTENDS Naturals, Sequences, SequencesExt

CONSTANTS
    Cap,            \* lines a pipe holds
    MaxLines,       \* bound: lines a script writes
    None

ASSUME ChildAssumption == Cap \in Nat \ {0} /\ MaxLines \in Nat

Pipe == {"stdout", "stderr"}

VARIABLES
    cmd,            \* "backup", "housekeeping", "query" or "timed"
    backend,        \* what is configured in backmeup.setup.sh
    todo,           \* scripts still to be run, the present one first
    child,          \* the process: none yet, running, or how it ended
    want,           \* what it does next: write into a pipe, however long that takes, or exit
    willing,        \* whether it goes on by itself: a sign-in may not
    pipe,           \* pipe[p]: lines in it
    reader,         \* reader[p]: a thread, or nobody
    chan,           \* the channel from both threads to the caller
    caller,         \* what the calling thread does
    clock,          \* "early", or "late" once the time limit is over
    log,            \* lines shown and collected
    result,         \* what the command returns
    said,           \* observed: every line written
    ended           \* observed: how each script that was run ended

vars == <<cmd, backend, todo, child, want, willing, pipe, reader, chan, caller, clock, log,
          result, said, ended>>

\* run_backup_now; run_housekeeping_now, which knows two backends.
Plan ==
    CASE cmd = "backup" -> <<"backmeup.sh">>
      [] cmd = "query" -> <<"backmeup.status.sh">>
      [] cmd = "timed" -> <<"sign-in">>
      [] OTHER ->
           <<"backmeup.updatedb.sh">> \o
           CASE backend = "rclone" -> <<"backmeup.replicate.sh">>
             [] backend = "proton" -> <<"backmeup.replicate.proton.sh">>
             [] OTHER -> <<>>

Ended == child \in {"ok", "failed", "signalled"}
Empty == [p \in Pipe |-> <<>>]
Lines(s) == Len(SelectSeq(said, LAMBDA x : x.script = s))
Wants(n) == IF n < MaxLines THEN Pipe \cup {"exit"} ELSE {"exit"}

Return(r) == result' = r /\ caller' = "done"

--------------------------------------------------------------------------------
(* The caller. *)

\* Without reader threads for a command with a time limit.
Spawn ==
    /\ caller = "spawn"
    /\ \/ /\ child' = "running" /\ want' \in Wants(0)
          /\ pipe' = Empty
          /\ IF cmd = "timed"
             THEN caller' = "polling" /\ UNCHANGED reader
             ELSE caller' = "draining" /\ reader' = [p \in Pipe |-> "reading"]
          /\ UNCHANGED <<result, ended>>
       \/ /\ Return("cannot run")
          /\ ended' = Append(ended, "never ran")
          /\ UNCHANGED <<child, want, pipe, reader>>
    /\ UNCHANGED <<cmd, backend, todo, willing, chan, clock, log, said>>

\* for line in rx
Drain ==
    /\ caller = "draining" /\ chan # <<>>
    /\ log' = Append(log, Head(chan))
    /\ chan' = Tail(chan)
    /\ UNCHANGED <<cmd, backend, todo, child, want, willing, pipe, reader, caller, clock,
                   result, said, ended>>

\* What follows when a script has been waited for: the next one only after success.  What
\* a query printed on stdout has to be what the GUI understands.
Parsed == \A x \in ToSet(log) : x.pipe = "stdout" => x.utf8

BugFollow ==                            \* the next one in any case
    IF Len(todo) = 1 THEN Return(child) ELSE caller' = "spawn" /\ UNCHANGED result

Follow ==
    IF cmd = "query" /\ child = "ok" THEN Return(IF Parsed THEN "ok" ELSE "not understood")
    ELSE IF Len(todo) = 1 \/ child # "ok" THEN Return(child)
    ELSE caller' = "spawn" /\ UNCHANGED result

\* The channel ends when both threads have dropped their sender; then the script is
\* waited for.
BugJoin ==                              \* as soon as the script has ended
    /\ caller = "draining" /\ chan = <<>>
    /\ Ended
    /\ ended' = Append(ended, child)
    /\ todo' = Tail(todo)
    /\ Follow
    /\ UNCHANGED <<cmd, backend, child, want, willing, pipe, reader, chan, clock, log,
                   said>>

Join ==
    /\ caller = "draining" /\ chan = <<>>
    /\ \A p \in Pipe : reader[p] = "stopped"
    /\ Ended
    /\ ended' = Append(ended, child)
    /\ todo' = Tail(todo)
    /\ Follow
    /\ UNCHANGED <<cmd, backend, child, want, willing, pipe, reader, chan, clock, log,
                   said>>

\* try_wait: the output is read when there is nobody left to write it.
Poll ==
    /\ caller = "polling"
    /\ IF Ended
       THEN /\ log' = pipe["stdout"] \o pipe["stderr"]
            /\ pipe' = Empty
            /\ ended' = Append(ended, child)
            /\ Return(child)
       ELSE caller' = "looked" /\ UNCHANGED <<log, pipe, ended, result>>
    /\ UNCHANGED <<cmd, backend, todo, child, want, willing, reader, chan, clock, said>>

\* Only now the time is looked at; since try_wait the script may have ended.
BugTime ==                              \* does not kill
    /\ caller = "looked"
    /\ IF clock = "late"
       THEN ended' = Append(ended, child) /\ Return("timed out")
       ELSE caller' = "polling" /\ UNCHANGED <<ended, result>>
    /\ UNCHANGED <<cmd, backend, todo, child, want, willing, pipe, reader, chan, clock,
                   log, said>>

Time ==
    /\ caller = "looked"
    /\ IF clock = "late"
       THEN /\ child' = IF Ended THEN child ELSE "signalled"
            /\ ended' = Append(ended, child')
            /\ Return("timed out")
       ELSE caller' = "polling" /\ UNCHANGED <<child, ended, result>>
    /\ UNCHANGED <<cmd, backend, todo, want, willing, pipe, reader, chan, clock, log, said>>

Tick ==
    /\ cmd = "timed" /\ clock = "early"
    /\ clock' = "late"
    /\ UNCHANGED <<cmd, backend, todo, child, want, willing, pipe, reader, chan, caller,
                   log, result, said, ended>>

--------------------------------------------------------------------------------
(* The reader threads.  A line that is not UTF-8 is the last one that run_step reads of *)
(* a pipe, and when its thread ends, its end of the pipe is closed.  A query collects   *)
(* bytes, with one thread and poll(2) in the place of two.                              *)

Stop(p) == reader' = [reader EXCEPT ![p] = "stopped"] /\ pipe' = [pipe EXCEPT ![p] = <<>>]

BugRead(p) ==                           \* one pipe after the other
    /\ reader[p] = "reading" /\ pipe[p] # <<>>
    /\ p = "stderr" => reader["stdout"] = "stopped"
    /\ IF cmd = "query" \/ Head(pipe[p]).utf8
       THEN /\ chan' = Append(chan, Head(pipe[p]))
            /\ pipe' = [pipe EXCEPT ![p] = Tail(@)]
            /\ UNCHANGED reader
       ELSE Stop(p) /\ UNCHANGED chan
    /\ UNCHANGED <<cmd, backend, todo, child, want, willing, caller, clock, log, result,
                   said, ended>>

Read(p) ==
    /\ reader[p] = "reading" /\ pipe[p] # <<>>
    /\ IF cmd = "query" \/ Head(pipe[p]).utf8
       THEN /\ chan' = Append(chan, Head(pipe[p]))
            /\ pipe' = [pipe EXCEPT ![p] = Tail(@)]
            /\ UNCHANGED reader
       ELSE Stop(p) /\ UNCHANGED chan
    /\ UNCHANGED <<cmd, backend, todo, child, want, willing, caller, clock, log, result,
                   said, ended>>

ReadEnd(p) ==
    /\ reader[p] = "reading" /\ pipe[p] = <<>> /\ Ended
    /\ Stop(p)
    /\ UNCHANGED <<cmd, backend, todo, child, want, willing, chan, caller, clock, log,
                   result, said, ended>>

--------------------------------------------------------------------------------
(* The script. *)

Write(p) ==
    /\ child = "running" /\ want = p
    /\ reader[p] # "stopped" /\ Len(pipe[p]) < Cap
    /\ \E good \in BOOLEAN :
         LET line == [script |-> Head(todo), pipe |-> p, n |-> Len(said), utf8 |-> good] IN
         /\ pipe' = [pipe EXCEPT ![p] = Append(@, line)]
         /\ said' = Append(said, line)
    /\ want' \in Wants(Lines(Head(todo)) + 1)
    /\ UNCHANGED <<cmd, backend, todo, child, willing, reader, chan, caller, clock, log,
                   result, ended>>

\* A write into a pipe that nobody reads any more is deadly.
WriteClosed(p) ==
    /\ child = "running" /\ want = p /\ reader[p] = "stopped"
    /\ child' = "signalled"
    /\ UNCHANGED <<cmd, backend, todo, want, willing, pipe, reader, chan, caller, clock,
                   log, result, said, ended>>

Exit ==
    /\ child = "running" /\ want = "exit"
    /\ child' \in {"ok", "failed"}
    /\ UNCHANGED <<cmd, backend, todo, want, willing, pipe, reader, chan, caller, clock,
                   log, result, said, ended>>

Script == Exit \/ \E p \in Pipe : Write(p) \/ WriteClosed(p)

Init ==
    /\ cmd \in {"backup", "housekeeping", "query", "timed"}
    /\ backend \in {"none", "rclone", "proton", "local"}
    /\ cmd # "housekeeping" => backend = "none"
    /\ todo = Plan
    /\ child = "none" /\ want = "exit"
    /\ willing \in BOOLEAN /\ (cmd # "timed" => willing)
    /\ pipe = Empty
    /\ reader = [p \in Pipe |-> "nobody"]
    /\ chan = <<>> /\ caller = "spawn" /\ clock = "early"
    /\ log = <<>> /\ result = None /\ said = <<>> /\ ended = <<>>

Readers == \E p \in Pipe : Read(p) \/ ReadEnd(p)
Caller == Spawn \/ Drain \/ Join \/ Poll \/ Time

Next == Caller \/ Readers \/ Tick \/ Script

\* Threads are scheduled, time passes, and a script that is willing goes on while it can:
\* a backup always is, a command that waits for the user need not be.
Spec ==
    /\ Init /\ [][Next]_vars
    /\ WF_vars(Caller) /\ WF_vars(Tick)
    /\ \A p \in Pipe : WF_vars(Read(p) \/ ReadEnd(p))
    /\ WF_vars(willing /\ Script)

--------------------------------------------------------------------------------
(* Properties. *)

\* Both lines are of the same script and came through the same pipe.
Same(x, y) == x.script = y.script /\ x.pipe = y.pipe

InOrder(lines) ==
    \A i, j \in 1..Len(lines) : i < j /\ Same(lines[i], lines[j]) => lines[i].n < lines[j].n

\* What a reader makes of what was written: everything before the first bad line, or all.
Readable(x) ==
    cmd = "query" \/ \A y \in ToSet(said) : Same(x, y) /\ y.n <= x.n => y.utf8

WaitedFor(x) == \E i \in 1..Len(Plan) : i <= Len(ended) /\ x.script = Plan[i]

\* run_step and output(): the log has of either pipe only what was readable, in its order,
\* nothing twice, and no line without those before it; when the script has been waited for,
\* there is none missing.
LogComplete ==
    cmd # "timed" =>
      /\ InOrder(log)
      /\ \A x \in ToSet(log) : x \in ToSet(said) /\ Readable(x)
      /\ \A x \in ToSet(said) :
           /\ Readable(x)
           /\ WaitedFor(x) \/ \E y \in ToSet(log) : Same(x, y) /\ x.n < y.n
           => x \in ToSet(log)

\* A run is called successful only if all its scripts were, and, unless the time limit came
\* between, whenever they were; and after one that was not, none is started.
OkMeansAll ==
    result # None =>
      LET all == [i \in 1..Len(Plan) |-> "ok"] IN
      /\ result = "ok" => ended = all
      /\ ended = all => result \in {"ok", "timed out", "not understood"}
      /\ result = "not understood" => cmd = "query" /\ \E x \in ToSet(said) : ~x.utf8
      /\ \A i \in 1..(Len(ended) - 1) : ended[i] = "ok"

\* run_with_timeout: an answer is the whole answer, a refusal comes after the time limit,
\* and either way no process is left behind that could still change something.
TimedWhole ==
    cmd = "timed" /\ result # None =>
      /\ child # "running"
      /\ result \in {"ok", "failed"} =>
           /\ ToSet(log) = ToSet(said) /\ InOrder(log)
           /\ \A i, j \in 1..Len(log) :
                log[i].pipe = "stdout" /\ log[j].pipe = "stderr" => i < j
      /\ result = "timed out" => clock = "late"

\* Every command returns: a script whose output nobody reads waits for ever, so both pipes
\* are read while it runs, or its time is limited.
CallEnds == (caller = "spawn") ~> (caller = "done")

================================================================================
