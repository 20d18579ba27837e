----------------------------- MODULE InstanceLock -----------------------------
(***************************************************************************)
(* cmd/bot/main.go: the lock file that is to keep a second bot from        *)
(* starting.  Each file operation of acquireLock is a step; processes may  *)
(* start together, end in every way main can end, and leave the file       *)
(* behind.  Process ids are reused once their process is gone, by another  *)
(* bot or by a program that has nothing to do with it.                     *)
(***************************************************************************)
EXTENDS Naturals, FiniteSets

CONSTANTS Instances,   \* runs of the program; each starts once
          Pids,        \* process ids the system hands out
          Together,    \* whether two instances may be in acquireLock at once
          ForeignPids  \* process ids that other programs may take

None == "none"      \* no file
Empty == "empty"    \* created by WriteFile, not written yet

ASSUME LockConstantsOK ==
    /\ Together \in BOOLEAN /\ ForeignPids \subseteq Pids
    /\ None \notin Pids /\ Empty \notin Pids

VARIABLES
    file,     \* content of coinex-bot.lock: None, Empty or a process id
    pc,       \* pc[i]: next operation of instance i
    pid,      \* pid[i]: its process id, None before it starts
    found,    \* found[i]: what instance i has read from the file
    foreign   \* process id and user of the other programs that run now

lockVars == <<file, pc, pid, found, foreign>>

Users == {"bot", "other"}   \* all bots are one user's
Acquiring == {"read", "signal", "remove", "create", "write"}
Alive(i) == pc[i] \in Acquiring \cup {"running"}
PidsOfBots == {pid[i] : i \in {j \in Instances : Alive(j)}}
PidsInUse == PidsOfBots \cup {f[1] : f \in foreign}

\* Every variable has its type, and only what parsed as an id is signalled.
LockTypeOK ==
    /\ file \in Pids \cup {None, Empty}
    /\ pc \in [Instances -> Acquiring \cup {"new", "running", "refused", "ended"}]
    /\ pid \in [Instances -> Pids \cup {None}]
    /\ found \in [Instances -> Pids \cup {None, Empty}]
    /\ foreign \subseteq ForeignPids \X Users
    /\ \A i \in Instances : pc[i] = "signal" => found[i] \in Pids

LockInit ==
    /\ file = None /\ foreign = {}
    /\ pc = [i \in Instances |-> "new"]
    /\ pid = [i \in Instances |-> None] /\ found = [i \in Instances |-> None]

Goto(i, from, to) == pc[i] = from /\ pc' = [pc EXCEPT ![i] = to]

\* The system starts the program under a process id that is free.
Start(i) ==
    /\ Together \/ \A j \in Instances : pc[j] \notin Acquiring
    /\ Goto(i, "new", "read")
    /\ \E n \in Pids \ PidsInUse : pid' = [pid EXCEPT ![i] = n]
    /\ UNCHANGED <<file, found, foreign>>

\* A mutant without the check of Atoi's error.
ReadUnparsed(i) ==
    /\ Goto(i, "read", IF file = None THEN "create" ELSE "signal")
    /\ found' = [found EXCEPT ![i] = file]
    /\ UNCHANGED <<file, pid, foreign>>

ReadFile(i) ==
    /\ Goto(i, "read", CASE file = None  -> "create"
                         [] file = Empty -> "remove"    \* Atoi fails
                         [] OTHER        -> "signal")
    /\ found' = [found EXCEPT ![i] = file]
    /\ UNCHANGED <<file, pid, foreign>>

\* A mutant that takes every lock file for a stale one.
AlwaysStale(n) == FALSE
\* Signal 0 reaches any process of the bots' user, the caller included; that of another
\* user answers EPERM, which counts as stale.
SignalReaches(n) == n \in PidsOfBots \/ <<n, "bot">> \in foreign

Signal(i) ==
    /\ Goto(i, "signal", IF SignalReaches(found[i]) THEN "refused" ELSE "remove")
    /\ UNCHANGED <<file, pid, found, foreign>>

Remove(i) ==
    /\ Goto(i, "remove", "create") /\ file' = None
    /\ UNCHANGED <<pid, found, foreign>>

\* WriteFile opens with O_CREATE|O_TRUNC, then writes.
Create(i) ==
    /\ Goto(i, "create", "write") /\ file' = Empty
    /\ UNCHANGED <<pid, found, foreign>>

Write(i) ==
    /\ Goto(i, "write", "running") /\ file' = pid[i]
    /\ UNCHANGED <<pid, found, foreign>>

\* main returns: the deferred releaseLock removes the file, whoever wrote it.
Return(i) ==
    /\ Goto(i, "running", "ended") /\ file' = None
    /\ UNCHANGED <<pid, found, foreign>>

\* A failed WriteFile, os.Exit, log.Fatal or a kill: no deferred call runs and the file stays.
Exit(i) ==
    /\ Alive(i) /\ pc' = [pc EXCEPT ![i] = "ended"]
    /\ UNCHANGED <<file, pid, found, foreign>>

Acquire(i) == ReadFile(i) \/ Signal(i) \/ Remove(i) \/ Create(i) \/ Write(i)

ForeignStarts ==
    \E n \in ForeignPids \ PidsInUse, user \in Users :
        foreign' = foreign \cup {<<n, user>>} /\ UNCHANGED <<file, pc, pid, found>>
ForeignEnds ==
    \E f \in foreign : foreign' = foreign \ {f} /\ UNCHANGED <<file, pc, pid, found>>

LockNext ==
    \/ \E i \in Instances : Start(i) \/ Acquire(i) \/ Return(i) \/ Exit(i)
    \/ ForeignStarts \/ ForeignEnds

LockSpec == LockInit /\ [][LockNext]_lockVars

-----------------------------------------------------------------------------
(* Properties *)

Running == {i \in Instances : pc[i] = "running"}

\* "Lockfile: prevent two instances": at most one bot trades at a time.  The file
\* names it, so that the next one finds it: releaseLock and the removal of a stale
\* file take nobody else's lock away, whoever has the dead bot's process id now.
OneInstance ==
    /\ Cardinality(Running) <= 1
    /\ \A i \in Running : file = pid[i]
===============================================================================
