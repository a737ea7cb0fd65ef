-------------------------------- MODULE Log ---------------------------------
(***************************************************************************)
(* The process-global logger of src/cbase_log.c, called by several         *)
(* threads: a once-gate before the first use, setters that write one field *)
(* of cb__log under its mutex, and cb_log, which copies the fields under   *)
(* the mutex, formats without it, and takes it again to write the line to  *)
(* stderr and to the file sink it copied.                                  *)
(*                                                                         *)
(* A lock, one access and an unlock are one step; the section that writes  *)
(* to the sinks is several.  Of a line the model keeps which call of       *)
(* cb_log it is and the lengths that decide whether it fits its buffer.    *)
(***************************************************************************)
EXTENDS Integers, Sequences, FiniteSets

CONSTANTS
  Threads, NoThread,
  Files, NoFile,     \* the FILE* a caller may attach, and NULL
  Levels,            \* the levels passed to cb_log
  MinLevels,         \* the levels passed to cb_log_set_level
  Bodies,            \* the lengths vsnprintf may report
  BufSize,           \* CB__LOG_BUF_SZ
  MarkerLen,         \* the length of CB__LOG_TRUNC_MARKER
  PrefixLen,         \* level tag, module and spaces
  StampLen,          \* the timestamp before them
  MaxLines,          \* bound on the calls of cb_log
  MaxSets,           \* bound on the calls of the setters
  MaxFaults          \* bound on the writes that fail

OFF == 6             \* CB_LOG_OFF
INFO == 2            \* CB_LOG_INFO

ASSUME BufferAssumption ==
  /\ BufSize \in Nat /\ MarkerLen \in Nat /\ PrefixLen \in Nat /\ StampLen \in Nat
  /\ Bodies \subseteq Nat
  /\ StampLen + PrefixLen + MarkerLen + 1 < BufSize
ASSUME LevelAssumption == Levels \subseteq 0..OFF /\ MinLevels \subseteq 0..OFF
ASSUME NobodyAssumption ==
  /\ NoThread \notin Threads /\ NoFile \notin Files
  /\ Threads \cap {"new", "done"} = {}
ASSUME BoundsAssumption == MaxLines \in Nat /\ MaxSets \in Nat /\ MaxFaults \in Nat

VARIABLES
  once,        \* cb__log_once: "new", the thread that runs the initialiser, or "done"
  config,      \* min_level, timestamps and file_sink of cb__log
  lastError,   \* cb__log.last_error
  owner,       \* the thread that holds cb__log.mu
  pc,          \* pc[t]: where t is in its call
  call,        \* call[t]: the function t called and its argument
  snapshot,    \* snapshot[t]: the config cb_log copied
  line,        \* line[t]: what cb_log formatted
  open,        \* the FILE* that are open
  stderrLog,   \* the lines handed to fwrite for stderr, in order
  fileLog,     \* fileLog[f]: those handed to fwrite for f, in order
  lines, sets, faults,  \* calls and failures so far
  seen         \* history: seen[t], the configs in force since t's call began

configVars == << once, config, lastError >>
sinkVars == << open, stderrLog, fileLog >>
bounds == << lines, sets, faults >>
vars == << configVars, owner, pc, call, snapshot, line, sinkVars, bounds, seen >>

Configs == [min_level : MinLevels \cup {INFO}, timestamps : BOOLEAN,
            file_sink : Files \cup {NoFile}]
Defaults == [min_level |-> INFO, timestamps |-> TRUE, file_sink |-> NoFile]
NoCall == [op |-> "none", arg |-> 0, id |-> 0]
NoLine == [id |-> 0, prefix |-> 0, body |-> 0, length |-> 0, truncated |-> FALSE]

(* Static storage is what the initialiser will write again. *)
Init ==
  /\ once = "new"
  /\ config = Defaults
  /\ lastError = "OK"
  /\ owner = NoThread
  /\ pc = [t \in Threads |-> "idle"]
  /\ call = [t \in Threads |-> NoCall]
  /\ snapshot = [t \in Threads |-> Defaults]
  /\ line = [t \in Threads |-> NoLine]
  /\ open = Files
  /\ stderrLog = << >>
  /\ fileLog = [f \in Files |-> << >>]
  /\ lines = 0 /\ sets = 0 /\ faults = 0
  /\ seen = [t \in Threads |-> {}]

Goto(t, point) == pc' = [pc EXCEPT ![t] = point]

(* A new config has been in force during every call under way. *)
Witness(c) == seen' = [t \in Threads |-> IF pc[t] = "idle" THEN {} ELSE seen[t] \cup {c}]

(***************************************************************************)
(* The calls.                                                              *)
(***************************************************************************)
Begin(t, op, arg) ==
  /\ pc[t] = "idle"
  /\ Goto(t, "ensure_init")
  /\ call' = [call EXCEPT ![t] = [op |-> op, arg |-> arg, id |-> lines + 1]]
  /\ seen' = [seen EXCEPT ![t] = {config}]
  /\ UNCHANGED << configVars, owner, snapshot, line, sinkVars, faults >>

CallLog(t, level) ==
  /\ lines < MaxLines
  /\ lines' = lines + 1
  /\ Begin(t, "log", level)
  /\ UNCHANGED sets

(* The caller attaches a file it has open. *)
CallSetter(t, op, arg) ==
  /\ sets < MaxSets
  /\ sets' = sets + 1
  /\ op = "file_sink" => arg \in open \cup {NoFile}
  /\ Begin(t, op, arg)
  /\ UNCHANGED lines

(***************************************************************************)
(* cb__log_ensure_init: one thread runs the initialiser, the others wait.  *)
(***************************************************************************)
(* Mutant: the flag is tested, but the gate is not exclusive. *)
OnceStartsAgain(t) ==
  /\ pc[t] = "ensure_init"
  /\ once # "done"
  /\ once' = t
  /\ Goto(t, "do_init")
  /\ UNCHANGED << config, lastError, owner, call, snapshot, line, sinkVars, bounds, seen >>

OnceStarts(t) ==
  /\ pc[t] = "ensure_init"
  /\ once = "new"
  /\ once' = t
  /\ Goto(t, "do_init")
  /\ UNCHANGED << config, lastError, owner, call, snapshot, line, sinkVars, bounds, seen >>

DoInit(t) ==
  /\ pc[t] = "do_init"
  /\ config' = Defaults
  /\ lastError' = "OK"
  /\ once' = "done"
  /\ Goto(t, "ensure_init")
  /\ Witness(Defaults)
  /\ UNCHANGED << owner, call, snapshot, line, sinkVars, bounds >>

OnceDone(t) ==
  /\ pc[t] = "ensure_init"
  /\ once = "done"
  /\ Goto(t, IF call[t].op = "log" THEN "snapshot" ELSE "access")
  /\ UNCHANGED << configVars, owner, call, snapshot, line, sinkVars, bounds, seen >>

(***************************************************************************)
(* The setters and getters: one access under the mutex.                    *)
(***************************************************************************)
(* Mutant: the file setter, copied from another one, writes its field. *)
FieldCopied == [level |-> "min_level", timestamps |-> "timestamps", file_sink |-> "timestamps"]

Field == [level |-> "min_level", timestamps |-> "timestamps", file_sink |-> "file_sink"]

SetField(t) ==
  /\ pc[t] = "access"
  /\ owner = NoThread
  /\ call[t].op \in DOMAIN Field
  /\ config' = [config EXCEPT ![Field[call[t].op]] = call[t].arg]
  /\ Witness(config')
  /\ Goto(t, "done")
  /\ UNCHANGED << once, lastError, owner, call, snapshot, line, sinkVars, bounds >>

ClearLastError(t) ==
  /\ pc[t] = "access"
  /\ owner = NoThread
  /\ call[t].op = "clear_last_error"
  /\ lastError' = "OK"
  /\ Goto(t, "done")
  /\ UNCHANGED << once, config, owner, call, snapshot, line, sinkVars, bounds, seen >>

(***************************************************************************)
(* cb_log                                                                  *)
(***************************************************************************)
Snapshot(t) ==
  /\ pc[t] = "snapshot"
  /\ owner = NoThread
  /\ snapshot' = [snapshot EXCEPT ![t] = config]
  /\ Goto(t, "filter")
  /\ UNCHANGED << configVars, owner, call, line, sinkVars, bounds, seen >>

Filtered(t) ==
  \/ call[t].arg < snapshot[t].min_level
  \/ snapshot[t].min_level >= OFF

Drop(t) ==
  /\ pc[t] = "filter"
  /\ Filtered(t)
  /\ Goto(t, "dropped")
  /\ UNCHANGED << configVars, owner, call, snapshot, line, sinkVars, bounds, seen >>

(* The length of the line in plain[], newline included: the body gets what *)
(* is left when the marker and the newline are set aside; vsnprintf counts *)
(* its own NUL in avail.                                                   *)
BodyEndMax == BufSize - MarkerLen - 1

(* Mutant: the NUL that vsnprintf counts in avail is forgotten. *)
TruncatesEarly(prefix, body) ==
  \/ prefix >= BodyEndMax
  \/ body >= BodyEndMax - prefix

Truncates(prefix, body) ==
  \/ prefix >= BodyEndMax
  \/ body >= BodyEndMax - prefix + 1

LineLength(prefix, body) ==
  LET avail == BodyEndMax - prefix + 1
      text == IF prefix < BodyEndMax
                THEN prefix + (IF body >= avail THEN avail - 1 ELSE body)
                ELSE prefix
  IN  text + (IF Truncates(prefix, body) THEN MarkerLen ELSE 0) + 1

(* Mutant: the timestamp is decided by the settings of the moment. *)
FormatByCurrent(t, body) ==
  LET prefix == PrefixLen + (IF config.timestamps THEN StampLen ELSE 0)
  IN  /\ pc[t] = "filter"
      /\ ~ Filtered(t)
      /\ line' = [line EXCEPT ![t] = [id |-> call[t].id, prefix |-> prefix,
                                      body |-> body,
                                      length |-> LineLength(prefix, body),
                                      truncated |-> Truncates(prefix, body)]]
      /\ Goto(t, "emit")
      /\ UNCHANGED << configVars, owner, call, snapshot, sinkVars, bounds, seen >>

Format(t, body) ==
  LET prefix == PrefixLen + (IF snapshot[t].timestamps THEN StampLen ELSE 0)
  IN  /\ pc[t] = "filter"
      /\ ~ Filtered(t)
      /\ line' = [line EXCEPT ![t] = [id |-> call[t].id, prefix |-> prefix,
                                      body |-> body,
                                      length |-> LineLength(prefix, body),
                                      truncated |-> Truncates(prefix, body)]]
      /\ Goto(t, "emit")
      /\ UNCHANGED << configVars, owner, call, snapshot, sinkVars, bounds, seen >>

EmitLock(t) ==
  /\ pc[t] = "emit"
  /\ owner = NoThread
  /\ owner' = t
  /\ Goto(t, "stderr")
  /\ UNCHANGED << configVars, call, snapshot, line, sinkVars, bounds, seen >>

(* Mutant: last_error follows the last write. *)
StampLast(failed) ==
  /\ failed => faults < MaxFaults
  /\ faults' = IF failed THEN faults + 1 ELSE faults
  /\ lastError' = IF failed THEN "LOG_WRITE_FAILED" ELSE "OK"

(* last_error after a write: the first failure wins. *)
Stamp(failed) ==
  /\ failed => faults < MaxFaults
  /\ faults' = IF failed THEN faults + 1 ELSE faults
  /\ lastError' = IF failed /\ lastError = "OK" THEN "LOG_WRITE_FAILED" ELSE lastError

(* Mutant: the mutex is released between the two sinks. *)
WriteStderrReleases(t, failed) ==
  /\ pc[t] = "stderr"
  /\ Stamp(failed)
  /\ stderrLog' = Append(stderrLog, line[t])
  /\ owner' = NoThread
  /\ Goto(t, IF snapshot[t].file_sink # NoFile THEN "file" ELSE "emitted")
  /\ UNCHANGED << once, config, call, snapshot, line, open, fileLog, lines, sets, seen >>

WriteStderr(t, failed) ==
  /\ pc[t] = "stderr"
  /\ Stamp(failed)
  /\ stderrLog' = Append(stderrLog, line[t])
  /\ Goto(t, IF snapshot[t].file_sink # NoFile THEN "file" ELSE "emitted")
  /\ UNCHANGED << once, config, owner, call, snapshot, line, open, fileLog, lines, sets, seen >>

WriteFile(t, failed) ==
  /\ pc[t] = "file"
  /\ Stamp(failed)
  /\ fileLog' = [fileLog EXCEPT ![snapshot[t].file_sink] = Append(@, line[t])]
  /\ Goto(t, "emitted")
  /\ UNCHANGED << once, config, owner, call, snapshot, line, open, stderrLog, lines, sets, seen >>

(* Mutant: a path that leaves with the mutex. *)
EmitKeepsLock(t) ==
  /\ pc[t] = "emitted"
  /\ Goto(t, "done")
  /\ UNCHANGED << configVars, owner, call, snapshot, line, sinkVars, bounds, seen >>

EmitUnlock(t) ==
  /\ pc[t] = "emitted"
  /\ owner' = NoThread
  /\ Goto(t, "done")
  /\ UNCHANGED << configVars, call, snapshot, line, sinkVars, bounds, seen >>

Return(t) ==
  /\ pc[t] \in {"done", "dropped"}
  /\ Goto(t, "idle")
  /\ call' = [call EXCEPT ![t] = NoCall]
  /\ snapshot' = [snapshot EXCEPT ![t] = Defaults]
  /\ line' = [line EXCEPT ![t] = NoLine]
  /\ seen' = [seen EXCEPT ![t] = {}]
  /\ UNCHANGED << configVars, owner, sinkVars, bounds >>

(* The owner of a file closes it when it is not attached and no call that  *)
(* attaches or detaches it has still to return.                            *)
CloseFile(f) ==
  /\ f \in open
  /\ config.file_sink # f
  /\ \A t \in Threads : call[t].op # "file_sink"
  /\ open' = open \ {f}
  /\ UNCHANGED << configVars, owner, pc, call, snapshot, line, stderrLog, fileLog, bounds, seen >>

Settings ==
  ({"level"} \X MinLevels) \cup ({"timestamps"} \X BOOLEAN)
    \cup ({"file_sink"} \X (Files \cup {NoFile})) \cup {<< "clear_last_error", 0 >>}

LogStep(t) ==
  \/ OnceStarts(t) \/ DoInit(t) \/ OnceDone(t)
  \/ SetField(t) \/ ClearLastError(t)
  \/ Snapshot(t) \/ Drop(t)
  \/ \E body \in Bodies : Format(t, body)
  \/ EmitLock(t)
  \/ \E failed \in BOOLEAN : WriteStderr(t, failed)
  \/ \E failed \in BOOLEAN : WriteFile(t, failed)
  \/ EmitUnlock(t) \/ Return(t)

Next ==
  \/ \E t \in Threads :
       \/ \E level \in Levels : CallLog(t, level)
       \/ \E s \in Settings : CallSetter(t, s[1], s[2])
       \/ LogStep(t)
  \/ \E f \in Files : CloseFile(f)

Spec == Init /\ [][Next]_vars

(* A call that has begun goes on; a thread that keeps asking for the mutex *)
(* gets it.                                                                *)
FairSpec == Spec /\ \A t \in Threads : SF_vars(LogStep(t))

(***************************************************************************)
(* Properties.                                                             *)
(***************************************************************************)
Emitting == {"stderr", "file", "emitted"}
Formatted == {"emit"} \cup Emitting
Points == {"idle", "ensure_init", "do_init", "access", "snapshot", "filter", "dropped",
           "done"} \cup Formatted

(* The fields of cb__log and of the calls under way keep their types. *)
TypeOK ==
  /\ once \in {"new", "done"} \cup Threads
  /\ config \in Configs
  /\ lastError \in {"OK", "LOG_WRITE_FAILED"}
  /\ owner \in Threads \cup {NoThread}
  /\ pc \in [Threads -> Points]
  /\ snapshot \in [Threads -> Configs]
  /\ open \subseteq Files
  /\ lines \in 0..MaxLines /\ sets \in 0..MaxSets /\ faults \in 0..MaxFaults

(* The lazy initialiser runs before every use and is over before any: no   *)
(* setting made by one thread is overwritten by another thread's first     *)
(* call, and nobody takes a mutex that does not exist yet.                 *)
InitBeforeUse ==
  \/ once = "done"
  \/ /\ config = Defaults
     /\ \A t \in Threads :
          /\ pc[t] \in {"idle", "ensure_init", "do_init"}
          /\ pc[t] = "do_init" => once = t

Admits(c, level) == level >= c.min_level /\ c.min_level < OFF

LinesOf(s) == {s[i] : i \in 1..Len(s)}

(* Level, sinks and layout of a line come from one configuration that was  *)
(* in force during its call, whatever setters ran meanwhile: no line is    *)
(* admitted by one setting and sent to the sink of another, and none is    *)
(* dropped that every setting of its time admits.                          *)
OneConfigPerLine ==
  \A t \in Threads :
    /\ pc[t] = "emitted" =>
         \E c \in seen[t] :
           /\ Admits(c, call[t].arg)
           /\ {f \in Files : line[t] \in LinesOf(fileLog[f])} = {c.file_sink} \ {NoFile}
           /\ line[t].prefix = PrefixLen + (IF c.timestamps THEN StampLen ELSE 0)
    /\ pc[t] = "dropped" => \E c \in seen[t] : ~ Admits(c, call[t].arg)

(* place tells where the lines of a file stand in stderr: in their order,  *)
(* and nowhere else.                                                       *)
Picks(place, all, file) ==
  /\ \A i, j \in DOMAIN place : i < j => place[i] < place[j]
  /\ \A i \in DOMAIN place : file[i] = all[place[i]]
  /\ \A n \in 1..Len(all) : all[n] \in LinesOf(file) => \E i \in DOMAIN place : place[i] = n

(* A file holds lines of stderr in the order stderr has them, each once,   *)
(* although formatting is unordered and sinks come and go.                 *)
SinksAgree ==
  \A f \in Files :
    \E place \in [1..Len(fileLog[f]) -> 1..Len(stderrLog)] :
      Picks(place, stderrLog, fileLog[f])

(* A line fits plain[] with its newline, and is cut and marked exactly     *)
(* when its text does not leave room for the marker.                       *)
LinesFit ==
  \A t \in Threads : pc[t] \in Formatted =>
    /\ line[t].length <= BufSize
    /\ IF line[t].prefix + line[t].body + 1 > BufSize - MarkerLen
         THEN line[t].truncated /\ line[t].length = BufSize
         ELSE ~ line[t].truncated /\ line[t].length = line[t].prefix + line[t].body + 1

(* A failed write is remembered until the caller clears it: neither a      *)
(* later success nor a late initialisation forgets it.                     *)
ErrorSticks ==
  [][lastError # "OK" /\ lastError' = "OK" =>
       \E t \in Threads : call[t].op = "clear_last_error"]_vars

(* Every call of the logger returns. *)
CallsReturn == \A t \in Threads : pc[t] # "idle" ~> pc[t] = "idle"

(* "the setter takes the logger mutex and serializes behind any in-flight  *)
(* fwrite": once cb_log_set_file_sink has replaced a file and returned,    *)
(* the caller may close it, and no line is written to it any more.         *)
NoWriteAfterClose ==
  \A t \in Threads : pc[t] = "file" => snapshot[t].file_sink \in open
=============================================================================
