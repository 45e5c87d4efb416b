------------------------------ MODULE LogFiles ------------------------------
(***************************************************************************)
(* The rotating log file (RotatingFileSink over BaseFileSink).             *)
(*                                                                         *)
(* A sink appends lines to the file it has open.  When the file reached    *)
(* its size the next write rotates first: in numeric mode the backups are  *)
(* shifted base -> .1 -> .2 by renames, oldest dropped; in timestamped     *)
(* mode a new file named after the clock is opened and the names that sort *)
(* lowest are deleted.  Any system call of a rotation may fail; then the   *)
(* sink reopens the base file, and if that fails too it stays closed.  A   *)
(* process may die between two calls and start again on the same files.    *)
(* Names and contents are separate (an open descriptor survives a rename), *)
(* so several processes logging to one path can be examined as well.       *)
(***************************************************************************)
EXTENDS Naturals, Sequences, FiniteSets

CONSTANTS LogWriters,    \* processes with a sink on the same base path
          Backups,       \* max_backup_files
          MaxSize,       \* lines a file holds before it is rotated
          MaxLogLines,   \* lines logged in one behaviour
          MaxTime,       \* names the clock can produce
          ClockSteps,    \* "forward", or "any": the clock may be set back
          MaxFaults      \* failed calls and deaths in one behaviour

VARIABLES mode,          \* Mode::Numeric or Mode::Timestamped
          names,         \* directory: name -> inode, 0 when there is none
          inodes,        \* the contents of every file ever created
          sink,          \* per process: step, open descriptor, size, loop index
          logged,        \* lines logged so far, numbered 1, 2, ...
          now,           \* the clock
          faults

logFileVars == <<mode, names, inodes, sink, logged, now, faults>>

\* Numeric names: 0 is the base path, i its backup .i.  Timestamped names are
\* clock readings.
Names == 0 .. (IF Backups > MaxTime THEN Backups ELSE MaxTime)
Closed == [pc |-> "start", fd |-> 0, size |-> 0, i |-> 0, line |-> 0]

LogFilesInit ==
    /\ mode \in {"numeric", "timestamped"}
    /\ names = [n \in Names |-> 0]
    /\ inodes = <<>>
    /\ sink = [w \in LogWriters |-> Closed]
    /\ logged = 0
    /\ now = 1
    /\ faults = 0

In(w, pc) == sink[w].pc = pc
To(w, pc) == sink' = [sink EXCEPT ![w].pc = pc]
Fault == faults < MaxFaults /\ faults' = faults + 1

\* BaseFileSink::open with O_APPEND | O_CREAT.
OpenFile(w, name, pc, size) ==
    /\ IF names[name] = 0
         THEN /\ inodes' = Append(inodes, <<>>)
              /\ names' = [names EXCEPT ![name] = Len(inodes) + 1]
         ELSE UNCHANGED <<inodes, names>>
    /\ sink' = [sink EXCEPT ![w].fd = names'[name], ![w].size = size, ![w].pc = pc]
    /\ UNCHANGED <<mode, logged, now, faults>>

\* compose_timestamped_path_, or the base path.
ActiveName == IF mode = "numeric" THEN 0 ELSE now

\* The constructor: open, and take the size of what is there.
Construct(w) ==
    /\ In(w, "start")
    /\ OpenFile(w, ActiveName, IF mode = "timestamped" THEN "prune" ELSE "idle",
                IF names[ActiveName] = 0 THEN 0 ELSE Len(inodes[names[ActiveName]]))

-----------------------------------------------------------------------------
(* Writing                                                                 *)

\* write(): a sink that is not open drops the line.
WriteLine(w) ==
    /\ In(w, "idle")
    /\ logged < MaxLogLines
    /\ logged' = logged + 1
    /\ sink' = [sink EXCEPT ![w].line = logged + 1,
                            ![w].pc = CASE sink[w].fd = 0 -> "idle"
                                        [] sink[w].size >= MaxSize -> "close"
                                        [] OTHER -> "append"]
    /\ UNCHANGED <<mode, names, inodes, now, faults>>

\* fwrite under the optional flock.
AppendLine(w) ==
    /\ In(w, "append")
    /\ inodes' = [inodes EXCEPT ![sink[w].fd] = Append(@, sink[w].line)]
    /\ sink' = [sink EXCEPT ![w].size = @ + 1, ![w].pc = "idle"]
    /\ UNCHANGED <<mode, names, logged, now, faults>>

-----------------------------------------------------------------------------
(* Rotation                                                                *)

CloseFile(w) ==
    /\ In(w, "close")
    /\ sink' = [sink EXCEPT ![w].fd = 0,
                            ![w].pc = IF mode = "numeric" THEN "oldest" ELSE "open"]
    /\ UNCHANGED <<mode, names, inodes, logged, now, faults>>

\* Numeric: the oldest backup goes first.
RemoveOldest(w) ==
    /\ In(w, "oldest")
    /\ \/ /\ names' = (IF Backups > 0 THEN [names EXCEPT ![Backups] = 0] ELSE names)
          /\ sink' = [sink EXCEPT ![w].pc = "shift",
                                  ![w].i = IF Backups > 1 THEN Backups - 1 ELSE 0]
          /\ UNCHANGED faults
       \/ /\ Backups > 0 /\ names[Backups] # 0
          /\ Fault
          /\ To(w, "reopen")
          /\ UNCHANGED names
    /\ UNCHANGED <<mode, inodes, logged, now>>

\* The backups are renamed from the oldest on.
ShiftBackup(w) ==
    /\ In(w, "shift")
    /\ sink[w].i > 0
    /\ LET from == sink[w].i IN
       \/ /\ names' = (IF names[from] = 0 THEN names
                         ELSE [names EXCEPT ![from] = 0, ![from + 1] = names[from]])
          /\ sink' = [sink EXCEPT ![w].i = @ - 1]
          /\ UNCHANGED faults
       \/ /\ names[from] # 0
          /\ Fault
          /\ To(w, "reopen")
          /\ UNCHANGED names
    /\ UNCHANGED <<mode, inodes, logged, now>>


\* The base file becomes .1, or is removed when no backup is kept.
RotateBase(w) ==
    /\ In(w, "shift")
    /\ sink[w].i = 0
    /\ \/ /\ names' = (IF Backups > 0 /\ names[0] # 0
                         THEN [names EXCEPT ![0] = 0, ![1] = names[0]]
                         ELSE [names EXCEPT ![0] = 0])
          /\ To(w, "open")
          /\ UNCHANGED faults
       \/ /\ names[0] # 0
          /\ Fault
          /\ To(w, "reopen")
          /\ UNCHANGED names
    /\ UNCHANGED <<mode, inodes, logged, now>>

\* The new file, with its marker line.  After a failed step the old base file
\* is opened again and its size forgotten.
OpenNew(w) ==
    /\ In(w, "open")
    /\ OpenFile(w, ActiveName, IF mode = "timestamped" THEN "prune" ELSE "append", 0)

Reopen(w) ==
    /\ In(w, "reopen")
    /\ OpenFile(w, 0, "append", 0)

\* open() fails: the sink stays closed and the line is dropped.
OpenFails(w) ==
    /\ In(w, "open") \/ In(w, "reopen")
    /\ Fault
    /\ To(w, "idle")
    /\ UNCHANGED <<mode, names, inodes, logged, now>>

\* prune_timestamped_backups_: all but the Backups + 1 highest names go.
Kept(n) == Cardinality({m \in Names : m > n /\ names[m] # 0}) < Backups + 1

Prune(w) ==
    /\ In(w, "prune")
    /\ names' = [n \in Names |-> IF Kept(n) THEN names[n] ELSE 0]
    /\ To(w, IF sink[w].line = 0 THEN "idle" ELSE "append")
    /\ UNCHANGED <<mode, inodes, logged, now, faults>>

-----------------------------------------------------------------------------
SinkSteps(w) ==
    \/ Construct(w)
    \/ WriteLine(w)
    \/ AppendLine(w)
    \/ CloseFile(w)
    \/ RemoveOldest(w)
    \/ ShiftBackup(w)
    \/ RotateBase(w)
    \/ OpenNew(w)
    \/ Reopen(w)
    \/ OpenFails(w)
    \/ Prune(w)

\* The process dies at any point and is started again.
Die(w) ==
    /\ Fault
    /\ sink' = [sink EXCEPT ![w] = Closed]
    /\ UNCHANGED <<mode, names, inodes, logged, now>>

ClockMoves ==
    /\ mode = "timestamped"
    /\ now' \in IF ClockSteps = "forward" THEN {now + 1} \cap Names ELSE Names \ {0, now}
    /\ UNCHANGED <<mode, names, inodes, sink, logged, faults>>

LogFilesNext ==
    \/ \E w \in LogWriters : SinkSteps(w) \/ Die(w)
    \/ ClockMoves

LogFilesSpec == LogFilesInit /\ [][LogFilesNext]_logFileVars

-----------------------------------------------------------------------------
(* Properties                                                              *)

Surviving == UNION {{inodes[names[n]][i] : i \in DOMAIN inodes[names[n]]} :
                        n \in {m \in Names : names[m] # 0}}
Written == UNION {{inodes[k][i] : i \in DOMAIN inodes[k]} : k \in DOMAIN inodes}

=============================================================================
