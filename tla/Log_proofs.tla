------------------------------ MODULE Log_proofs ------------------------------
(***************************************************************************)
(* Theorems about Log, for every set of threads, files, levels and         *)
(* lengths, and any number of lines, settings and failing writes.          *)
(***************************************************************************)
EXTENDS Log, TLAPS

-----------------------------------------------------------------------------
(* The types, those of the calls, the lines and the files included.        *)
LineType == [id : Nat, prefix : Nat, body : Nat, length : Nat, truncated : BOOLEAN]

CallType ==
  {NoCall} \cup [op : {"log"}, arg : Levels, id : Nat]
           \cup [op : {"level"}, arg : MinLevels, id : Nat]
           \cup [op : {"timestamps"}, arg : BOOLEAN, id : Nat]
           \cup [op : {"file_sink"}, arg : Files \cup {NoFile}, id : Nat]
           \cup [op : {"clear_last_error"}, arg : {0}, id : Nat]

Typed ==
  /\ TypeOK
  /\ call \in [Threads -> CallType]
  /\ line \in [Threads -> LineType]
  /\ fileLog \in [Files -> Seq(LineType)]
  /\ seen \in [Threads -> SUBSET Configs]

(* Where a call is tells what it is.                                       *)
CallPlaces ==
  \A t \in Threads :
    /\ pc[t] = "idle" => call[t] = NoCall
    /\ pc[t] \in {"snapshot", "filter", "dropped"} \cup Formatted => call[t].op = "log"
    /\ pc[t] = "file" => snapshot[t].file_sink \in Files

(* The initialiser runs once, and before it has run there is no error.     *)
GateHeld ==
  /\ \A t \in Threads : pc[t] = "do_init" => once = t
  /\ once # "done" => lastError = "OK"

(* A line is made of its call and of the settings the call copied.         *)
LinesMade ==
  \A t \in Threads :
    /\ pc[t] \in Formatted =>
         /\ Admits(snapshot[t], call[t].arg)
         /\ line[t].id = call[t].id
         /\ line[t].prefix = PrefixLen + (IF snapshot[t].timestamps THEN StampLen ELSE 0)
    /\ pc[t] = "dropped" => ~ Admits(snapshot[t], call[t].arg)

(* The settings of now, and those a call copied, were in force during it.  *)
SeenInForce ==
  \A t \in Threads :
    /\ pc[t] # "idle" => config \in seen[t]
    /\ pc[t] \in {"filter", "dropped"} \cup Formatted => snapshot[t] \in seen[t]

(* Every call of cb_log has its own number.                                *)
CallsNumbered ==
  \A t \in Threads : call[t].op = "log" =>
    /\ call[t].id <= lines
    /\ \A u \in Threads \ {t} : call[u].op = "log" => call[u].id # call[t].id

(* A file holds a line of earlier calls, of the calls that have written it,*)
(* and of no other.                                                        *)
FilesHold ==
  /\ \A f \in Files : \A i \in DOMAIN fileLog[f] : fileLog[f][i].id <= lines
  /\ \A t \in Threads :
       /\ call[t].op = "log" /\ pc[t] \notin {"emitted", "done"} =>
            \A f \in Files : \A i \in DOMAIN fileLog[f] : fileLog[f][i].id # call[t].id
       /\ pc[t] = "emitted" =>
            \A f \in Files : line[t] \in LinesOf(fileLog[f]) <=> f = snapshot[t].file_sink

(* The thread that is at the sinks has the mutex.                          *)
LockHeld == \A t \in Threads : pc[t] \in Emitting <=> owner = t

(* stderr holds no line of a call that has still to write it, and the line *)
(* that is now to be written to a file is its last.                        *)
StderrHolds ==
  /\ stderrLog \in Seq(LineType)
  /\ \A i \in 1..Len(stderrLog) : stderrLog[i].id <= lines
  /\ \A t \in Threads :
       /\ call[t].op = "log" /\ pc[t] \notin {"file", "emitted", "done"} =>
            \A i \in 1..Len(stderrLog) : stderrLog[i].id # call[t].id
       /\ pc[t] = "file" =>
            /\ Len(stderrLog) > 0 /\ stderrLog[Len(stderrLog)] = line[t]
            /\ \A i \in 1..(Len(stderrLog) - 1) : stderrLog[i].id # line[t].id

(* The prefix leaves room in plain[] for the marker and the newline.       *)
LEMMA LineMade ==
  ASSUME NEW prefix \in Nat, prefix <= PrefixLen + StampLen, NEW body \in Nat
  PROVE  /\ LineLength(prefix, body) \in Nat
         /\ Truncates(prefix, body) \in BOOLEAN
         /\ Truncates(prefix, body) <=> prefix + body + 1 > BufSize - MarkerLen
         /\ LineLength(prefix, body) = IF Truncates(prefix, body) THEN BufSize
                                                                  ELSE prefix + body + 1
         /\ LineLength(prefix, body) <= BufSize
  <1>1. prefix < BodyEndMax /\ BodyEndMax = BufSize - MarkerLen - 1
    BY BufferAssumption DEF BodyEndMax
  <1>2. Truncates(prefix, body) <=> prefix + body + 1 > BufSize - MarkerLen
    BY <1>1, BufferAssumption DEF Truncates, BodyEndMax
  <1>3. CASE Truncates(prefix, body)
    BY <1>1, <1>2, <1>3, BufferAssumption DEF LineLength, Truncates, BodyEndMax
  <1>4. CASE ~ Truncates(prefix, body)
    BY <1>1, <1>2, <1>4, BufferAssumption DEF LineLength, Truncates, BodyEndMax
  <1> QED BY <1>3, <1>4, <1>2 DEF Truncates

(* The values the variables start with have their types.                   *)
LEMMA InitConfig ==
  Defaults \in Configs /\ NoLine \in LineType /\ NoCall \in CallType
  BY DEF Defaults, Configs, NoLine, LineType, NoCall, CallType

(* The logger starts with typed variables.                                 *)
LEMMA InitTyped == Init => Typed
  <1> SUFFICES ASSUME Init PROVE Typed
    OBVIOUS
  <1>1. TypeOK
    BY InitConfig, BoundsAssumption DEF Init, TypeOK, Points
  <1> QED BY <1>1, InitConfig DEF Init, Typed

(* Every step keeps the types. *)
LEMMA TypedNext ==
  ASSUME Typed, CallPlaces, [Next]_vars PROVE Typed'
  <1> USE DEF Typed, TypeOK, CallPlaces, Points, Formatted, Emitting,
     configVars, sinkVars, bounds
  <1>1. ASSUME NEW t \in Threads, NEW level \in Levels, CallLog(t, level)
        PROVE  Typed'
    BY <1>1, BoundsAssumption DEF CallLog, Begin, Goto, CallType
  <1>2. ASSUME NEW t \in Threads, NEW s \in Settings, CallSetter(t, s[1], s[2])
        PROVE  Typed'
    BY <1>2, BoundsAssumption DEF CallSetter, Begin, Goto, CallType, Settings
  <1>3. ASSUME NEW t \in Threads, OnceStarts(t) PROVE Typed'
    BY <1>3 DEF OnceStarts, Goto
  <1>4. ASSUME NEW t \in Threads, DoInit(t) PROVE Typed'
    BY <1>4, InitConfig DEF DoInit, Goto, Witness
  <1>5. ASSUME NEW t \in Threads, OnceDone(t) PROVE Typed'
    BY <1>5 DEF OnceDone, Goto
  <1>6. ASSUME NEW t \in Threads, SetField(t) PROVE Typed'
    <2>1. call[t] \in CallType /\ config \in Configs
      BY <1>6 DEF SetField
    <2>2. config' = [config EXCEPT ![Field[call[t].op]] = call[t].arg]
      BY <1>6 DEF SetField
    <2>3. ASSUME call[t].op = "level" PROVE config' \in Configs
      <3>1. call[t].arg \in MinLevels /\ Field[call[t].op] = "min_level"
        BY <2>1, <2>3 DEF CallType, NoCall, Field
      <3> QED BY <2>1, <2>2, <3>1 DEF Configs
    <2>4. ASSUME call[t].op = "timestamps" PROVE config' \in Configs
      <3>1. call[t].arg \in BOOLEAN /\ Field[call[t].op] = "timestamps"
        BY <2>1, <2>4 DEF CallType, NoCall, Field
      <3> QED BY <2>1, <2>2, <3>1 DEF Configs
    <2>5. ASSUME call[t].op = "file_sink" PROVE config' \in Configs
      <3>1. /\ call[t].arg \in Files \cup {NoFile}
            /\ Field[call[t].op] = "file_sink"
        BY <2>1, <2>5 DEF CallType, NoCall, Field
      <3> QED BY <2>1, <2>2, <3>1 DEF Configs
    <2>6. call[t].op \in {"level", "timestamps", "file_sink"}
      BY <1>6 DEF SetField, Field
    <2>7. config' \in Configs
      BY <2>3, <2>4, <2>5, <2>6
    <2> QED BY <1>6, <2>7 DEF SetField, Goto, Witness
  <1>7. ASSUME NEW t \in Threads, ClearLastError(t) PROVE Typed'
    BY <1>7 DEF ClearLastError, Goto
  <1>8. ASSUME NEW t \in Threads, Snapshot(t) PROVE Typed'
    BY <1>8 DEF Snapshot, Goto
  <1>9. ASSUME NEW t \in Threads, Drop(t) PROVE Typed'
    BY <1>9 DEF Drop, Goto
  <1>10. ASSUME NEW t \in Threads, NEW body \in Bodies, Format(t, body)
        PROVE  Typed'
    <2>1. snapshot[t] \in Configs /\ body \in Nat /\ call[t].id \in Nat
      BY <1>10, BufferAssumption DEF CallType, NoCall
    <2> DEFINE prefix == PrefixLen + (IF snapshot[t].timestamps THEN StampLen ELSE 0)
               made == [id |-> call[t].id, prefix |-> prefix, body |-> body,
                        length |-> LineLength(prefix, body),
                        truncated |-> Truncates(prefix, body)]
    <2>2. prefix \in Nat /\ prefix <= PrefixLen + StampLen
      BY BufferAssumption
    <2>3. made \in LineType
      BY <2>1, <2>2, LineMade DEF LineType
    <2>4. line' = [line EXCEPT ![t] = made] /\ UNCHANGED << call, fileLog, seen >>
      BY <1>10 DEF Format
    <2>5. TypeOK'
      BY <1>10 DEF Format, Goto
    <2> QED BY <2>3, <2>4, <2>5
  <1>11. ASSUME NEW t \in Threads, EmitLock(t) PROVE Typed'
    BY <1>11 DEF EmitLock, Goto
  <1>12. ASSUME NEW t \in Threads, NEW failed \in BOOLEAN, WriteStderr(t, failed)
        PROVE  Typed'
    BY <1>12, BoundsAssumption DEF WriteStderr, Goto, Stamp
  <1>13. ASSUME NEW t \in Threads, NEW failed \in BOOLEAN, WriteFile(t, failed)
        PROVE  Typed'
    <2>1. snapshot[t].file_sink \in Files /\ line[t] \in LineType
      BY <1>13 DEF WriteFile
    <2>2. fileLog' \in [Files -> Seq(LineType)]
      BY <1>13, <2>1 DEF WriteFile
    <2> QED BY <1>13, <2>2, BoundsAssumption DEF WriteFile, Stamp, Goto
  <1>14. ASSUME NEW t \in Threads, EmitUnlock(t) PROVE Typed'
    BY <1>14 DEF EmitUnlock, Goto
  <1>15. ASSUME NEW t \in Threads, Return(t) PROVE Typed'
    BY <1>15, InitConfig DEF Return, Goto
  <1>16. ASSUME NEW f \in Files, CloseFile(f) PROVE Typed'
    BY <1>16 DEF CloseFile
  <1>17. CASE UNCHANGED vars
    BY <1>17 DEF vars
  <1> QED BY <1>1, <1>2, <1>3, <1>4, <1>5, <1>6, <1>7, <1>8, <1>9, <1>10,
     <1>11, <1>12, <1>13, <1>14, <1>15, <1>16, <1>17 DEF Next, LogStep

(* What a file holds, and holds when a line is appended.                   *)
LEMMA LogRead ==
  ASSUME Typed, NEW f \in Files, NEW l, \A i \in DOMAIN fileLog[f] : fileLog[f][i].id # l.id
  PROVE  l \notin LinesOf(fileLog[f])
  <1>1. fileLog[f] \in Seq(LineType)
    BY DEF Typed
  <1>2. DOMAIN fileLog[f] = 1..Len(fileLog[f])
    BY <1>1
  <1> QED BY <1>2 DEF LinesOf

(* What log_file_write appends is the one line the file did not hold       *)
(* before.                                                                 *)
LEMMA LogAppend ==
  ASSUME Typed, NEW f \in Files, NEW l \in LineType
  PROVE  /\ LinesOf(Append(fileLog[f], l)) = LinesOf(fileLog[f]) \cup {l}
         /\ \A i \in DOMAIN Append(fileLog[f], l) :
              \/ i \in DOMAIN fileLog[f] /\ Append(fileLog[f], l)[i] = fileLog[f][i]
              \/ Append(fileLog[f], l)[i] = l
  <1> DEFINE s == fileLog[f]
  <1>1. s \in Seq(LineType)
    BY DEF Typed
  <1> HIDE DEF s
  <1>2. /\ Len(Append(s, l)) = Len(s) + 1 /\ Len(s) \in Nat
        /\ DOMAIN s = 1..Len(s) /\ DOMAIN Append(s, l) = 1..(Len(s) + 1)
        /\ \A i \in 1..Len(s) : Append(s, l)[i] = s[i]
        /\ Append(s, l)[Len(s) + 1] = l
    BY <1>1
  <1>3. LinesOf(Append(s, l)) = LinesOf(s) \cup {l}
    BY <1>2 DEF LinesOf
  <1>4. \A i \in DOMAIN Append(s, l) :
          \/ i \in DOMAIN s /\ Append(s, l)[i] = s[i]
          \/ Append(s, l)[i] = l
    BY <1>2
  <1> QED BY <1>3, <1>4 DEF s

(* A record is filtered exactly when the settings copied do not admit it.  *)
LEMMA FilterTells ==
  ASSUME Typed, NEW t \in Threads, call[t].op = "log"
  PROVE  Filtered(t) <=> ~ Admits(snapshot[t], call[t].arg)
  <1>1. call[t].arg \in Levels
    BY DEF Typed, CallType, NoCall
  <1>2. snapshot[t].min_level \in MinLevels \cup {INFO}
    BY DEF Typed, TypeOK, Configs
  <1>3. \A l \in Levels \cup MinLevels \cup {INFO} : l \in Int
    BY LevelAssumption DEF INFO, OFF
  <1> QED BY <1>1, <1>2, <1>3 DEF Filtered, Admits, OFF

(* What cb_log formats, and that nothing else changes but the program      *)
(* counter.                                                                *)
LEMMA FormatTells ==
  ASSUME Typed, CallPlaces, NEW t \in Threads, NEW body \in Bodies, Format(t, body)
  PROVE  /\ line'[t].id = call[t].id /\ line'[t].body = body
         /\ line'[t].prefix = PrefixLen + (IF snapshot[t].timestamps THEN StampLen ELSE 0)
         /\ line'[t].prefix \in Nat /\ line'[t].prefix <= PrefixLen + StampLen
         /\ line'[t].length = LineLength(line'[t].prefix, body)
         /\ line'[t].truncated = Truncates(line'[t].prefix, body)
         /\ \A u \in Threads \ {t} : line'[u] = line[u] /\ pc'[u] = pc[u]
         /\ pc'[t] = "emit" /\ Admits(snapshot[t], call[t].arg)
         /\ UNCHANGED << call, snapshot, fileLog, lines >>
  <1> DEFINE prefix == PrefixLen + (IF snapshot[t].timestamps THEN StampLen ELSE 0)
             made == [id |-> call[t].id, prefix |-> prefix, body |-> body,
                      length |-> LineLength(prefix, body),
                      truncated |-> Truncates(prefix, body)]
  <1>1. line' = [line EXCEPT ![t] = made] /\ UNCHANGED << call, snapshot, fileLog, lines >>
    BY DEF Format, sinkVars, bounds
  <1>2. line'[t] = made /\ \A u \in Threads \ {t} : line'[u] = line[u]
    BY <1>1 DEF Typed
  <1>3. pc'[t] = "emit" /\ \A u \in Threads \ {t} : pc'[u] = pc[u]
    BY DEF Format, Goto, Typed, TypeOK
  <1>4. prefix \in Nat /\ prefix <= PrefixLen + StampLen
    BY BufferAssumption
  <1>5. Admits(snapshot[t], call[t].arg)
    BY FilterTells DEF Format, CallPlaces
  <1> QED BY <1>1, <1>2, <1>3, <1>4, <1>5

(* Every step keeps a call where its kind belongs. *)
LEMMA PlacesNext ==
  ASSUME Typed, CallPlaces, [Next]_vars PROVE CallPlaces'
  <1> USE DEF Typed, TypeOK, CallPlaces, Points, Formatted, Emitting,
     configVars, sinkVars, bounds
  <1>1. ASSUME NEW t \in Threads, NEW level \in Levels, CallLog(t, level)
        PROVE  CallPlaces'
    BY <1>1 DEF CallLog, Begin, Goto
  <1>2. ASSUME NEW t \in Threads, NEW s \in Settings, CallSetter(t, s[1], s[2])
        PROVE  CallPlaces'
    BY <1>2 DEF CallSetter, Begin, Goto, Settings
  <1>3. ASSUME NEW t \in Threads, OnceStarts(t) PROVE CallPlaces'
    BY <1>3 DEF OnceStarts, Goto
  <1>4. ASSUME NEW t \in Threads, DoInit(t) PROVE CallPlaces'
    BY <1>4 DEF DoInit, Goto
  <1>5. ASSUME NEW t \in Threads, OnceDone(t) PROVE CallPlaces'
    BY <1>5 DEF OnceDone, Goto
  <1>6. ASSUME NEW t \in Threads, SetField(t) PROVE CallPlaces'
    BY <1>6 DEF SetField, Goto, Field
  <1>7. ASSUME NEW t \in Threads, ClearLastError(t) PROVE CallPlaces'
    BY <1>7 DEF ClearLastError, Goto
  <1>8. ASSUME NEW t \in Threads, Snapshot(t) PROVE CallPlaces'
    BY <1>8 DEF Snapshot, Goto
  <1>9. ASSUME NEW t \in Threads, Drop(t) PROVE CallPlaces'
    BY <1>9 DEF Drop, Goto
  <1>10. ASSUME NEW t \in Threads, NEW body \in Bodies, Format(t, body)
        PROVE  CallPlaces'
    BY <1>10 DEF Format, Goto
  <1>11. ASSUME NEW t \in Threads, EmitLock(t) PROVE CallPlaces'
    BY <1>11 DEF EmitLock, Goto
  <1>12. ASSUME NEW t \in Threads, NEW failed \in BOOLEAN, WriteStderr(t, failed)
        PROVE  CallPlaces'
    BY <1>12 DEF WriteStderr, Goto, Configs
  <1>13. ASSUME NEW t \in Threads, NEW failed \in BOOLEAN, WriteFile(t, failed)
        PROVE  CallPlaces'
    BY <1>13 DEF WriteFile, Goto
  <1>14. ASSUME NEW t \in Threads, EmitUnlock(t) PROVE CallPlaces'
    BY <1>14 DEF EmitUnlock, Goto
  <1>15. ASSUME NEW t \in Threads, Return(t) PROVE CallPlaces'
    BY <1>15 DEF Return, Goto
  <1>16. ASSUME NEW f \in Files, CloseFile(f) PROVE CallPlaces'
    BY <1>16 DEF CloseFile
  <1>17. CASE UNCHANGED vars
    BY <1>17 DEF vars
  <1> QED BY <1>1, <1>2, <1>3, <1>4, <1>5, <1>6, <1>7, <1>8, <1>9, <1>10,
     <1>11, <1>12, <1>13, <1>14, <1>15, <1>16, <1>17 DEF Next, LogStep

(* The gate lets one thread in, and initialises before any error. *)
LEMMA GateNext ==
  ASSUME Typed, CallPlaces, GateHeld, InitBeforeUse, [Next]_vars PROVE
     (GateHeld /\ InitBeforeUse)'
  <1> USE DEF Typed, TypeOK, GateHeld, InitBeforeUse, Points, Formatted,
     Emitting, configVars, sinkVars, bounds
  <1>1. ASSUME NEW t \in Threads, NEW level \in Levels, CallLog(t, level)
        PROVE  (GateHeld /\ InitBeforeUse)'
    BY <1>1 DEF CallLog, Begin, Goto
  <1>2. ASSUME NEW t \in Threads, NEW s \in Settings, CallSetter(t, s[1], s[2])
        PROVE  (GateHeld /\ InitBeforeUse)'
    BY <1>2 DEF CallSetter, Begin, Goto
  <1>3. ASSUME NEW t \in Threads, OnceStarts(t)
        PROVE  (GateHeld /\ InitBeforeUse)'
    BY <1>3, NobodyAssumption DEF OnceStarts, Goto
  <1>4. ASSUME NEW t \in Threads, DoInit(t) PROVE (GateHeld /\ InitBeforeUse)'
    BY <1>4 DEF DoInit, Goto
  <1>5. ASSUME NEW t \in Threads, OnceDone(t)
        PROVE  (GateHeld /\ InitBeforeUse)'
    BY <1>5 DEF OnceDone, Goto
  <1>6. ASSUME NEW t \in Threads, SetField(t)
        PROVE  (GateHeld /\ InitBeforeUse)'
    BY <1>6 DEF SetField, Goto
  <1>7. ASSUME NEW t \in Threads, ClearLastError(t)
        PROVE  (GateHeld /\ InitBeforeUse)'
    BY <1>7 DEF ClearLastError, Goto
  <1>8. ASSUME NEW t \in Threads, Snapshot(t)
        PROVE  (GateHeld /\ InitBeforeUse)'
    BY <1>8 DEF Snapshot, Goto
  <1>9. ASSUME NEW t \in Threads, Drop(t) PROVE (GateHeld /\ InitBeforeUse)'
    BY <1>9 DEF Drop, Goto
  <1>10. ASSUME NEW t \in Threads, NEW body \in Bodies, Format(t, body)
        PROVE  (GateHeld /\ InitBeforeUse)'
    BY <1>10 DEF Format, Goto
  <1>11. ASSUME NEW t \in Threads, EmitLock(t)
        PROVE  (GateHeld /\ InitBeforeUse)'
    BY <1>11 DEF EmitLock, Goto
  <1>12. ASSUME NEW t \in Threads, NEW failed \in BOOLEAN, WriteStderr(t, failed)
        PROVE  (GateHeld /\ InitBeforeUse)'
    BY <1>12 DEF WriteStderr, Goto, Stamp
  <1>13. ASSUME NEW t \in Threads, NEW failed \in BOOLEAN, WriteFile(t, failed)
        PROVE  (GateHeld /\ InitBeforeUse)'
    BY <1>13 DEF WriteFile, Goto, Stamp
  <1>14. ASSUME NEW t \in Threads, EmitUnlock(t)
        PROVE  (GateHeld /\ InitBeforeUse)'
    BY <1>14 DEF EmitUnlock, Goto
  <1>15. ASSUME NEW t \in Threads, Return(t) PROVE (GateHeld /\ InitBeforeUse)'
    BY <1>15 DEF Return, Goto
  <1>16. ASSUME NEW f \in Files, CloseFile(f)
        PROVE  (GateHeld /\ InitBeforeUse)'
    BY <1>16 DEF CloseFile
  <1>17. CASE UNCHANGED vars
    BY <1>17 DEF vars
  <1> QED BY <1>1, <1>2, <1>3, <1>4, <1>5, <1>6, <1>7, <1>8, <1>9, <1>10,
     <1>11, <1>12, <1>13, <1>14, <1>15, <1>16, <1>17 DEF Next, LogStep

(* A line fits when it is made, and stays as it is. *)
LEMMA FitNext ==
  ASSUME Typed, CallPlaces, LinesFit, [Next]_vars PROVE LinesFit'
  <1> USE DEF Typed, TypeOK, LinesFit, Points, Formatted, Emitting, configVars,
     sinkVars, bounds
  <1>1. ASSUME NEW t \in Threads, NEW level \in Levels, CallLog(t, level)
        PROVE  LinesFit'
    BY <1>1 DEF CallLog, Begin, Goto
  <1>2. ASSUME NEW t \in Threads, NEW s \in Settings, CallSetter(t, s[1], s[2])
        PROVE  LinesFit'
    BY <1>2 DEF CallSetter, Begin, Goto
  <1>3. ASSUME NEW t \in Threads, OnceStarts(t) PROVE LinesFit'
    BY <1>3 DEF OnceStarts, Goto
  <1>4. ASSUME NEW t \in Threads, DoInit(t) PROVE LinesFit'
    BY <1>4 DEF DoInit, Goto
  <1>5. ASSUME NEW t \in Threads, OnceDone(t) PROVE LinesFit'
    BY <1>5 DEF OnceDone, Goto
  <1>6. ASSUME NEW t \in Threads, SetField(t) PROVE LinesFit'
    BY <1>6 DEF SetField, Goto
  <1>7. ASSUME NEW t \in Threads, ClearLastError(t) PROVE LinesFit'
    BY <1>7 DEF ClearLastError, Goto
  <1>8. ASSUME NEW t \in Threads, Snapshot(t) PROVE LinesFit'
    BY <1>8 DEF Snapshot, Goto
  <1>9. ASSUME NEW t \in Threads, Drop(t) PROVE LinesFit'
    BY <1>9 DEF Drop, Goto
  <1>10. ASSUME NEW t \in Threads, NEW body \in Bodies, Format(t, body)
        PROVE  LinesFit'
    <2> DEFINE prefix == line'[t].prefix
    <2>1. /\ prefix \in Nat /\ prefix <= PrefixLen + StampLen /\ body \in Nat
          /\ line'[t].body = body /\ line'[t].length = LineLength(prefix, body)
          /\ line'[t].truncated = Truncates(prefix, body)
      BY <1>10, FormatTells, BufferAssumption
    <2> HIDE DEF prefix
    <2>2. /\ line'[t].length <= BufSize
          /\ IF prefix + line'[t].body + 1 > BufSize - MarkerLen
               THEN line'[t].truncated /\ line'[t].length = BufSize
               ELSE /\ ~ line'[t].truncated
                    /\ line'[t].length = prefix + line'[t].body + 1
      BY <2>1, LineMade
    <2>3. \A u \in Threads \ {t} : line'[u] = line[u] /\ pc'[u] = pc[u]
      BY <1>10, FormatTells
    <2> QED BY <2>2, <2>3 DEF prefix
  <1>11. ASSUME NEW t \in Threads, EmitLock(t) PROVE LinesFit'
    BY <1>11 DEF EmitLock, Goto
  <1>12. ASSUME NEW t \in Threads, NEW failed \in BOOLEAN, WriteStderr(t, failed)
        PROVE  LinesFit'
    BY <1>12 DEF WriteStderr, Goto
  <1>13. ASSUME NEW t \in Threads, NEW failed \in BOOLEAN, WriteFile(t, failed)
        PROVE  LinesFit'
    BY <1>13 DEF WriteFile, Goto
  <1>14. ASSUME NEW t \in Threads, EmitUnlock(t) PROVE LinesFit'
    BY <1>14 DEF EmitUnlock, Goto
  <1>15. ASSUME NEW t \in Threads, Return(t) PROVE LinesFit'
    BY <1>15 DEF Return, Goto
  <1>16. ASSUME NEW f \in Files, CloseFile(f) PROVE LinesFit'
    BY <1>16 DEF CloseFile
  <1>17. CASE UNCHANGED vars
    BY <1>17 DEF vars
  <1> QED BY <1>1, <1>2, <1>3, <1>4, <1>5, <1>6, <1>7, <1>8, <1>9, <1>10,
     <1>11, <1>12, <1>13, <1>14, <1>15, <1>16, <1>17 DEF Next, LogStep

(* A line keeps to what its call copied. *)
LEMMA MadeNext ==
  ASSUME Typed, CallPlaces, LinesMade, [Next]_vars PROVE LinesMade'
  <1> USE DEF Typed, TypeOK, CallPlaces, LinesMade, Points, Formatted,
     Emitting, configVars, sinkVars, bounds
  <1>1. ASSUME NEW t \in Threads, NEW level \in Levels, CallLog(t, level)
        PROVE  LinesMade'
    BY <1>1 DEF CallLog, Begin, Goto
  <1>2. ASSUME NEW t \in Threads, NEW s \in Settings, CallSetter(t, s[1], s[2])
        PROVE  LinesMade'
    BY <1>2 DEF CallSetter, Begin, Goto
  <1>3. ASSUME NEW t \in Threads, OnceStarts(t) PROVE LinesMade'
    BY <1>3 DEF OnceStarts, Goto
  <1>4. ASSUME NEW t \in Threads, DoInit(t) PROVE LinesMade'
    BY <1>4 DEF DoInit, Goto
  <1>5. ASSUME NEW t \in Threads, OnceDone(t) PROVE LinesMade'
    BY <1>5 DEF OnceDone, Goto
  <1>6. ASSUME NEW t \in Threads, SetField(t) PROVE LinesMade'
    BY <1>6 DEF SetField, Goto
  <1>7. ASSUME NEW t \in Threads, ClearLastError(t) PROVE LinesMade'
    BY <1>7 DEF ClearLastError, Goto
  <1>8. ASSUME NEW t \in Threads, Snapshot(t) PROVE LinesMade'
    BY <1>8 DEF Snapshot, Goto
  <1>9. ASSUME NEW t \in Threads, Drop(t) PROVE LinesMade'
    BY <1>9, FilterTells DEF Drop, Goto
  <1>10. ASSUME NEW t \in Threads, NEW body \in Bodies, Format(t, body)
        PROVE  LinesMade'
    BY <1>10, FormatTells
  <1>11. ASSUME NEW t \in Threads, EmitLock(t) PROVE LinesMade'
    BY <1>11 DEF EmitLock, Goto
  <1>12. ASSUME NEW t \in Threads, NEW failed \in BOOLEAN, WriteStderr(t, failed)
        PROVE  LinesMade'
    BY <1>12 DEF WriteStderr, Goto
  <1>13. ASSUME NEW t \in Threads, NEW failed \in BOOLEAN, WriteFile(t, failed)
        PROVE  LinesMade'
    BY <1>13 DEF WriteFile, Goto
  <1>14. ASSUME NEW t \in Threads, EmitUnlock(t) PROVE LinesMade'
    BY <1>14 DEF EmitUnlock, Goto
  <1>15. ASSUME NEW t \in Threads, Return(t) PROVE LinesMade'
    BY <1>15 DEF Return, Goto
  <1>16. ASSUME NEW f \in Files, CloseFile(f) PROVE LinesMade'
    BY <1>16 DEF CloseFile
  <1>17. CASE UNCHANGED vars
    BY <1>17 DEF vars
  <1> QED BY <1>1, <1>2, <1>3, <1>4, <1>5, <1>6, <1>7, <1>8, <1>9, <1>10,
     <1>11, <1>12, <1>13, <1>14, <1>15, <1>16, <1>17 DEF Next, LogStep

(* What a call may go by is in force while it lasts. *)
LEMMA SeenNext ==
  ASSUME Typed, SeenInForce, [Next]_vars PROVE SeenInForce'
  <1> USE DEF Typed, TypeOK, SeenInForce, Points, Formatted, Emitting,
     configVars, sinkVars, bounds
  <1>1. ASSUME NEW t \in Threads, NEW level \in Levels, CallLog(t, level)
        PROVE  SeenInForce'
    BY <1>1 DEF CallLog, Begin, Goto
  <1>2. ASSUME NEW t \in Threads, NEW s \in Settings, CallSetter(t, s[1], s[2])
        PROVE  SeenInForce'
    BY <1>2 DEF CallSetter, Begin, Goto
  <1>3. ASSUME NEW t \in Threads, OnceStarts(t) PROVE SeenInForce'
    BY <1>3 DEF OnceStarts, Goto
  <1>4. ASSUME NEW t \in Threads, DoInit(t) PROVE SeenInForce'
    BY <1>4 DEF DoInit, Goto, Witness
  <1>5. ASSUME NEW t \in Threads, OnceDone(t) PROVE SeenInForce'
    BY <1>5 DEF OnceDone, Goto
  <1>6. ASSUME NEW t \in Threads, SetField(t) PROVE SeenInForce'
    BY <1>6 DEF SetField, Goto, Witness
  <1>7. ASSUME NEW t \in Threads, ClearLastError(t) PROVE SeenInForce'
    BY <1>7 DEF ClearLastError, Goto
  <1>8. ASSUME NEW t \in Threads, Snapshot(t) PROVE SeenInForce'
    BY <1>8 DEF Snapshot, Goto
  <1>9. ASSUME NEW t \in Threads, Drop(t) PROVE SeenInForce'
    BY <1>9 DEF Drop, Goto
  <1>10. ASSUME NEW t \in Threads, NEW body \in Bodies, Format(t, body)
        PROVE  SeenInForce'
    BY <1>10 DEF Format, Goto
  <1>11. ASSUME NEW t \in Threads, EmitLock(t) PROVE SeenInForce'
    BY <1>11 DEF EmitLock, Goto
  <1>12. ASSUME NEW t \in Threads, NEW failed \in BOOLEAN, WriteStderr(t, failed)
        PROVE  SeenInForce'
    BY <1>12 DEF WriteStderr, Goto
  <1>13. ASSUME NEW t \in Threads, NEW failed \in BOOLEAN, WriteFile(t, failed)
        PROVE  SeenInForce'
    BY <1>13 DEF WriteFile, Goto
  <1>14. ASSUME NEW t \in Threads, EmitUnlock(t) PROVE SeenInForce'
    BY <1>14 DEF EmitUnlock, Goto
  <1>15. ASSUME NEW t \in Threads, Return(t) PROVE SeenInForce'
    BY <1>15 DEF Return, Goto
  <1>16. ASSUME NEW f \in Files, CloseFile(f) PROVE SeenInForce'
    BY <1>16 DEF CloseFile
  <1>17. CASE UNCHANGED vars
    BY <1>17 DEF vars
  <1> QED BY <1>1, <1>2, <1>3, <1>4, <1>5, <1>6, <1>7, <1>8, <1>9, <1>10,
     <1>11, <1>12, <1>13, <1>14, <1>15, <1>16, <1>17 DEF Next, LogStep

(* A new call of cb_log gets a new number. *)
LEMMA NumbersNext ==
  ASSUME Typed, CallPlaces, CallsNumbered, [Next]_vars PROVE CallsNumbered'
  <1> USE DEF Typed, TypeOK, CallPlaces, CallsNumbered, Points, Formatted,
     Emitting, configVars, sinkVars, bounds
  <1>1. ASSUME NEW t \in Threads, NEW level \in Levels, CallLog(t, level)
        PROVE  CallsNumbered'
    BY <1>1 DEF CallLog, Begin, Goto, CallType, NoCall
  <1>2. ASSUME NEW t \in Threads, NEW s \in Settings, CallSetter(t, s[1], s[2])
        PROVE  CallsNumbered'
    BY <1>2 DEF CallSetter, Begin, Goto, Settings
  <1>3. ASSUME NEW t \in Threads, OnceStarts(t) PROVE CallsNumbered'
    BY <1>3 DEF OnceStarts, Goto
  <1>4. ASSUME NEW t \in Threads, DoInit(t) PROVE CallsNumbered'
    BY <1>4 DEF DoInit, Goto
  <1>5. ASSUME NEW t \in Threads, OnceDone(t) PROVE CallsNumbered'
    BY <1>5 DEF OnceDone, Goto
  <1>6. ASSUME NEW t \in Threads, SetField(t) PROVE CallsNumbered'
    BY <1>6 DEF SetField, Goto
  <1>7. ASSUME NEW t \in Threads, ClearLastError(t) PROVE CallsNumbered'
    BY <1>7 DEF ClearLastError, Goto
  <1>8. ASSUME NEW t \in Threads, Snapshot(t) PROVE CallsNumbered'
    BY <1>8 DEF Snapshot, Goto
  <1>9. ASSUME NEW t \in Threads, Drop(t) PROVE CallsNumbered'
    BY <1>9 DEF Drop, Goto
  <1>10. ASSUME NEW t \in Threads, NEW body \in Bodies, Format(t, body)
        PROVE  CallsNumbered'
    BY <1>10 DEF Format, Goto
  <1>11. ASSUME NEW t \in Threads, EmitLock(t) PROVE CallsNumbered'
    BY <1>11 DEF EmitLock, Goto
  <1>12. ASSUME NEW t \in Threads, NEW failed \in BOOLEAN, WriteStderr(t, failed)
        PROVE  CallsNumbered'
    BY <1>12 DEF WriteStderr, Goto
  <1>13. ASSUME NEW t \in Threads, NEW failed \in BOOLEAN, WriteFile(t, failed)
        PROVE  CallsNumbered'
    BY <1>13 DEF WriteFile, Goto
  <1>14. ASSUME NEW t \in Threads, EmitUnlock(t) PROVE CallsNumbered'
    BY <1>14 DEF EmitUnlock, Goto
  <1>15. ASSUME NEW t \in Threads, Return(t) PROVE CallsNumbered'
    BY <1>15 DEF Return, Goto, NoCall
  <1>16. ASSUME NEW f \in Files, CloseFile(f) PROVE CallsNumbered'
    BY <1>16 DEF CloseFile
  <1>17. CASE UNCHANGED vars
    BY <1>17 DEF vars
  <1> QED BY <1>1, <1>2, <1>3, <1>4, <1>5, <1>6, <1>7, <1>8, <1>9, <1>10,
     <1>11, <1>12, <1>13, <1>14, <1>15, <1>16, <1>17 DEF Next, LogStep

(* A line is written to the one file of its call, once. *)
LEMMA FilesNext ==
  ASSUME Typed, CallPlaces, LinesMade, CallsNumbered, FilesHold, [Next]_vars
     PROVE FilesHold'
  <1> USE DEF Typed, TypeOK, CallPlaces, FilesHold, Points, Formatted,
     Emitting, configVars, sinkVars, bounds
  <1>1. ASSUME NEW t \in Threads, NEW level \in Levels, CallLog(t, level)
        PROVE  FilesHold'
    <2>1. \A g \in Files : \A i \in DOMAIN fileLog[g] :
            fileLog[g][i].id \in Nat /\ fileLog[g][i].id <= lines
      <3>1. \A g \in Files : \A i \in DOMAIN fileLog[g] : fileLog[g][i] \in LineType
        OBVIOUS
      <3> QED BY <3>1 DEF LineType
    <2>2. lines' = lines + 1 /\ lines \in Nat /\ fileLog' = fileLog
      BY <1>1, BoundsAssumption DEF CallLog, Begin
    <2>3. call'[t].id = lines + 1 /\ pc'[t] = "ensure_init"
      BY <1>1 DEF CallLog, Begin, Goto
    <2>4. \A u \in Threads \ {t} : /\ call'[u] = call[u] /\ pc'[u] = pc[u]
                                     /\ line'[u] = line[u] /\ snapshot'[u] = snapshot[u]
      BY <1>1 DEF CallLog, Begin, Goto
    <2> QED BY <2>1, <2>2, <2>3, <2>4
  <1>2. ASSUME NEW t \in Threads, NEW s \in Settings, CallSetter(t, s[1], s[2])
        PROVE  FilesHold'
    BY <1>2 DEF CallSetter, Begin, Goto, Settings
  <1>3. ASSUME NEW t \in Threads, OnceStarts(t) PROVE FilesHold'
    BY <1>3 DEF OnceStarts, Goto
  <1>4. ASSUME NEW t \in Threads, DoInit(t) PROVE FilesHold'
    BY <1>4 DEF DoInit, Goto
  <1>5. ASSUME NEW t \in Threads, OnceDone(t) PROVE FilesHold'
    BY <1>5 DEF OnceDone, Goto
  <1>6. ASSUME NEW t \in Threads, SetField(t) PROVE FilesHold'
    BY <1>6 DEF SetField, Goto
  <1>7. ASSUME NEW t \in Threads, ClearLastError(t) PROVE FilesHold'
    BY <1>7 DEF ClearLastError, Goto
  <1>8. ASSUME NEW t \in Threads, Snapshot(t) PROVE FilesHold'
    BY <1>8 DEF Snapshot, Goto
  <1>9. ASSUME NEW t \in Threads, Drop(t) PROVE FilesHold'
    BY <1>9 DEF Drop, Goto
  <1>10. ASSUME NEW t \in Threads, NEW body \in Bodies, Format(t, body)
        PROVE  FilesHold'
    BY <1>10 DEF Format, Goto
  <1>11. ASSUME NEW t \in Threads, EmitLock(t) PROVE FilesHold'
    BY <1>11 DEF EmitLock, Goto
  <1>12. ASSUME NEW t \in Threads, NEW failed \in BOOLEAN, WriteStderr(t, failed)
        PROVE  FilesHold'
    <2>1. call[t].op = "log" /\ line[t].id = call[t].id
      BY <1>12 DEF WriteStderr, LinesMade
    <2>2. \A g \in Files : line[t] \notin LinesOf(fileLog[g])
      <3>1. \A g \in Files : \A i \in DOMAIN fileLog[g] : fileLog[g][i].id # line[t].id
        <4>1. pc[t] = "stderr"
          BY <1>12 DEF WriteStderr
        <4> QED BY <2>1, <4>1
      <3> QED BY <3>1, LogRead
    <2>3. UNCHANGED << call, line, snapshot, fileLog, lines >>
      BY <1>12 DEF WriteStderr
    <2>4. /\ pc'[t] \in {"file", "emitted"}
          /\ pc'[t] = "emitted" => snapshot[t].file_sink = NoFile
          /\ \A u \in Threads \ {t} : pc'[u] = pc[u]
      BY <1>12 DEF WriteStderr, Goto
    <2>5. pc[t] = "stderr"
      BY <1>12 DEF WriteStderr
    <2> QED BY <2>1, <2>2, <2>3, <2>4, <2>5, NobodyAssumption
  <1>13. ASSUME NEW t \in Threads, NEW failed \in BOOLEAN, WriteFile(t, failed)
        PROVE  FilesHold'
    <2> DEFINE g == snapshot[t].file_sink
    <2>1. /\ call[t].op = "log" /\ line[t].id = call[t].id /\ g \in Files
          /\ line[t] \in LineType /\ pc[t] = "file"
      BY <1>13 DEF WriteFile, LinesMade
    <2>2. UNCHANGED << call, line, snapshot, lines >>
      BY <1>13 DEF WriteFile
    <2>3. pc'[t] = "emitted" /\ \A u \in Threads \ {t} : pc'[u] = pc[u]
      BY <1>13 DEF WriteFile, Goto
    <2>4. fileLog'[g] = Append(fileLog[g], line[t])
          /\ \A h \in Files \ {g} : fileLog'[h] = fileLog[h]
      BY <1>13, <2>1 DEF WriteFile
    <2> HIDE DEF g
    <2>5. \A h \in Files : line[t] \notin LinesOf(fileLog[h])
      BY <2>1, LogRead
    <2>6. ASSUME NEW h \in Files, NEW i \in DOMAIN fileLog'[h]
          PROVE  \/ i \in DOMAIN fileLog[h] /\ fileLog'[h][i] = fileLog[h][i]
                 \/ fileLog'[h][i] = line[t]
      <3>1. CASE h = g
        <4>1. i \in DOMAIN Append(fileLog[g], line[t])
          BY <2>4, <2>6, <3>1
        <4>2. \A j \in DOMAIN Append(fileLog[g], line[t]) :
                \/ j \in DOMAIN fileLog[g]
                   /\ Append(fileLog[g], line[t])[j] = fileLog[g][j]
                \/ Append(fileLog[g], line[t])[j] = line[t]
          BY <2>1, LogAppend
        <4> QED BY <2>4, <3>1, <4>1, <4>2
      <3>2. CASE h # g
        BY <2>4, <2>6, <3>2
      <3> QED BY <3>1, <3>2
    <2>7. ASSUME NEW h \in Files, NEW i \in DOMAIN fileLog'[h]
          PROVE  fileLog'[h][i].id <= lines'
      <3>1. line[t].id <= lines
        BY <2>1 DEF CallsNumbered
      <3>2. CASE i \in DOMAIN fileLog[h] /\ fileLog'[h][i] = fileLog[h][i]
        BY <2>2, <2>7, <3>2
      <3>3. CASE fileLog'[h][i] = line[t]
        BY <2>2, <3>1, <3>3
      <3> QED BY <2>6, <2>7, <3>2, <3>3
    <2>8. \A u \in Threads : call'[u].op = "log" /\ pc'[u] \notin {"emitted", "done"} =>
            \A h \in Files : \A i \in DOMAIN fileLog'[h] : fileLog'[h][i].id # call'[u].id
      <3>1. SUFFICES
              ASSUME NEW u \in Threads, call[u].op = "log", pc'[u] \notin {"emitted", "done"},
                     NEW h \in Files, NEW i \in DOMAIN fileLog'[h]
              PROVE  fileLog'[h][i].id # call[u].id
        BY <2>2
      <3>2. u # t /\ pc[u] \notin {"emitted", "done"}
        BY <2>3, <3>1
      <3>3. CASE i \in DOMAIN fileLog[h] /\ fileLog'[h][i] = fileLog[h][i]
        BY <3>1, <3>2, <3>3
      <3>4. CASE fileLog'[h][i] = line[t]
        BY <2>1, <3>1, <3>2, <3>4 DEF CallsNumbered
      <3> QED BY <2>6, <3>3, <3>4
    <2>9. ASSUME NEW u \in Threads, pc'[u] = "emitted", NEW h \in Files
          PROVE  line'[u] \in LinesOf(fileLog'[h]) <=> h = snapshot'[u].file_sink
      <3>1. LinesOf(fileLog'[g]) = LinesOf(fileLog[g]) \cup {line[t]}
        BY <2>1, <2>4, LogAppend
      <3>2. CASE u = t
        BY <2>1, <2>2, <2>4, <2>5, <3>1, <3>2 DEF g
      <3>3. CASE u # t
        <4>1. pc[u] = "emitted" /\ line[u].id = call[u].id /\ call[u].op = "log"
          BY <2>3, <2>9, <3>3 DEF LinesMade
        <4>2. line[u] # line[t]
          BY <2>1, <3>3, <4>1 DEF CallsNumbered
        <4>3. line[u] \in LinesOf(fileLog'[h]) <=> line[u] \in LinesOf(fileLog[h])
          <5>1. CASE h = g
            BY <3>1, <4>2, <5>1
          <5>2. CASE h # g
            BY <2>4, <5>2
          <5> QED BY <5>1, <5>2
        <4> QED BY <2>2, <4>1, <4>3
      <3> QED BY <3>2, <3>3
    <2> QED BY <2>7, <2>8, <2>9
  <1>14. ASSUME NEW t \in Threads, EmitUnlock(t) PROVE FilesHold'
    BY <1>14 DEF EmitUnlock, Goto
  <1>15. ASSUME NEW t \in Threads, Return(t) PROVE FilesHold'
    BY <1>15 DEF Return, Goto, NoCall
  <1>16. ASSUME NEW f \in Files, CloseFile(f) PROVE FilesHold'
    BY <1>16 DEF CloseFile
  <1>17. CASE UNCHANGED vars
    BY <1>17 DEF vars
  <1> QED BY <1>1, <1>2, <1>3, <1>4, <1>5, <1>6, <1>7, <1>8, <1>9, <1>10,
     <1>11, <1>12, <1>13, <1>14, <1>15, <1>16, <1>17 DEF Next, LogStep

(* The thread that is at the sinks, and no other, has the mutex. *)
LEMMA LockNext ==
  ASSUME Typed, LockHeld, [Next]_vars PROVE LockHeld'
  <1> USE DEF Typed, TypeOK, LockHeld, Points, Formatted, Emitting, configVars, sinkVars, bounds
  <1>1. ASSUME NEW t \in Threads, NEW level \in Levels, CallLog(t, level)
        PROVE  LockHeld'
    BY <1>1 DEF CallLog, Begin, Goto
  <1>2. ASSUME NEW t \in Threads, NEW s \in Settings, CallSetter(t, s[1], s[2])
        PROVE  LockHeld'
    BY <1>2 DEF CallSetter, Begin, Goto, Settings
  <1>3. ASSUME NEW t \in Threads, OnceStarts(t) PROVE LockHeld'
    BY <1>3 DEF OnceStarts, Goto
  <1>4. ASSUME NEW t \in Threads, DoInit(t) PROVE LockHeld'
    BY <1>4 DEF DoInit, Goto
  <1>5. ASSUME NEW t \in Threads, OnceDone(t) PROVE LockHeld'
    BY <1>5 DEF OnceDone, Goto
  <1>6. ASSUME NEW t \in Threads, SetField(t) PROVE LockHeld'
    BY <1>6 DEF SetField, Goto
  <1>7. ASSUME NEW t \in Threads, ClearLastError(t) PROVE LockHeld'
    BY <1>7 DEF ClearLastError, Goto
  <1>8. ASSUME NEW t \in Threads, Snapshot(t) PROVE LockHeld'
    BY <1>8 DEF Snapshot, Goto
  <1>9. ASSUME NEW t \in Threads, Drop(t) PROVE LockHeld'
    BY <1>9 DEF Drop, Goto
  <1>10. ASSUME NEW t \in Threads, NEW body \in Bodies, Format(t, body)
        PROVE  LockHeld'
    BY <1>10 DEF Format, Goto
  <1>11. ASSUME NEW t \in Threads, EmitLock(t) PROVE LockHeld'
    BY <1>11, NobodyAssumption DEF EmitLock, Goto
  <1>12. ASSUME NEW t \in Threads, NEW failed \in BOOLEAN, WriteStderr(t, failed)
        PROVE  LockHeld'
    BY <1>12 DEF WriteStderr, Goto
  <1>13. ASSUME NEW t \in Threads, NEW failed \in BOOLEAN, WriteFile(t, failed)
        PROVE  LockHeld'
    BY <1>13 DEF WriteFile, Goto
  <1>14. ASSUME NEW t \in Threads, EmitUnlock(t) PROVE LockHeld'
    BY <1>14, NobodyAssumption DEF EmitUnlock, Goto
  <1>15. ASSUME NEW t \in Threads, Return(t) PROVE LockHeld'
    BY <1>15 DEF Return, Goto, NoCall
  <1>16. ASSUME NEW f \in Files, CloseFile(f) PROVE LockHeld'
    BY <1>16 DEF CloseFile
  <1>17. CASE UNCHANGED vars
    BY <1>17 DEF vars
  <1> QED BY <1>1, <1>2, <1>3, <1>4, <1>5, <1>6, <1>7, <1>8, <1>9, <1>10,
     <1>11, <1>12, <1>13, <1>14, <1>15, <1>16, <1>17 DEF Next, LogStep

(* A line is appended to stderr once, by its call. *)
LEMMA StderrNext ==
  ASSUME Typed, CallPlaces, LinesMade, CallsNumbered, LockHeld,
         StderrHolds, [Next]_vars PROVE StderrHolds'
  <1> USE DEF Typed, TypeOK, CallPlaces, StderrHolds, Points, Formatted,
     Emitting, configVars, sinkVars, bounds
  <1>1. ASSUME NEW t \in Threads, NEW level \in Levels, CallLog(t, level)
        PROVE  StderrHolds'
    <2>1. \A i \in 1..Len(stderrLog) : stderrLog[i].id \in Nat /\ stderrLog[i].id <= lines
      <3>1. \A i \in 1..Len(stderrLog) : stderrLog[i] \in LineType
        OBVIOUS
      <3> QED BY <3>1 DEF LineType
    <2>2. lines' = lines + 1 /\ lines \in Nat /\ stderrLog' = stderrLog
      BY <1>1, BoundsAssumption DEF CallLog, Begin
    <2>3. call'[t].id = lines + 1 /\ pc'[t] = "ensure_init"
      BY <1>1 DEF CallLog, Begin, Goto
    <2>4. \A u \in Threads \ {t} : call'[u] = call[u] /\ pc'[u] = pc[u] /\ line'[u] = line[u]
      BY <1>1 DEF CallLog, Begin, Goto
    <2>5. \A i \in 1..Len(stderrLog') : stderrLog'[i].id <= lines'
      BY <2>1, <2>2
    <2>6. ASSUME NEW u \in Threads, call'[u].op = "log",
                 pc'[u] \notin {"file", "emitted", "done"},
                 NEW i \in 1..Len(stderrLog')
          PROVE  stderrLog'[i].id # call'[u].id
      <3>1. CASE u = t
        BY <2>1, <2>2, <2>3, <2>6, <3>1
      <3>2. CASE u # t
        BY <2>2, <2>4, <2>6, <3>2
      <3> QED BY <3>1, <3>2
    <2>7. ASSUME NEW u \in Threads, pc'[u] = "file"
          PROVE  /\ Len(stderrLog') > 0 /\ stderrLog'[Len(stderrLog')] = line'[u]
                 /\ \A i \in 1..(Len(stderrLog') - 1) : stderrLog'[i].id # line'[u].id
      BY <2>2, <2>3, <2>4, <2>7
    <2> QED BY <2>2, <2>5, <2>6, <2>7
  <1>2. ASSUME NEW t \in Threads, NEW s \in Settings, CallSetter(t, s[1], s[2])
        PROVE  StderrHolds'
    BY <1>2 DEF CallSetter, Begin, Goto, Settings
  <1>3. ASSUME NEW t \in Threads, OnceStarts(t) PROVE StderrHolds'
    BY <1>3 DEF OnceStarts, Goto
  <1>4. ASSUME NEW t \in Threads, DoInit(t) PROVE StderrHolds'
    BY <1>4 DEF DoInit, Goto
  <1>5. ASSUME NEW t \in Threads, OnceDone(t) PROVE StderrHolds'
    BY <1>5 DEF OnceDone, Goto
  <1>6. ASSUME NEW t \in Threads, SetField(t) PROVE StderrHolds'
    BY <1>6 DEF SetField, Goto
  <1>7. ASSUME NEW t \in Threads, ClearLastError(t) PROVE StderrHolds'
    BY <1>7 DEF ClearLastError, Goto
  <1>8. ASSUME NEW t \in Threads, Snapshot(t) PROVE StderrHolds'
    BY <1>8 DEF Snapshot, Goto
  <1>9. ASSUME NEW t \in Threads, Drop(t) PROVE StderrHolds'
    BY <1>9 DEF Drop, Goto
  <1>10. ASSUME NEW t \in Threads, NEW body \in Bodies, Format(t, body)
        PROVE  StderrHolds'
    BY <1>10 DEF Format, Goto
  <1>11. ASSUME NEW t \in Threads, EmitLock(t) PROVE StderrHolds'
    BY <1>11 DEF EmitLock, Goto
  <1>12. ASSUME NEW t \in Threads, NEW failed \in BOOLEAN, WriteStderr(t, failed)
        PROVE  StderrHolds'
    <2>1. /\ call[t].op = "log" /\ line[t].id = call[t].id /\ line[t] \in LineType
          /\ call[t].id <= lines /\ pc[t] = "stderr"
      BY <1>12 DEF WriteStderr, CallPlaces, LinesMade, CallsNumbered
    <2>2. UNCHANGED << call, line, lines >> /\ stderrLog' = Append(stderrLog, line[t])
      BY <1>12 DEF WriteStderr
    <2>3. /\ pc'[t] \in {"file", "emitted"}
          /\ \A u \in Threads \ {t} : pc'[u] = pc[u]
      BY <1>12 DEF WriteStderr, Goto
    <2>4. /\ stderrLog' \in Seq(LineType) /\ Len(stderrLog') = Len(stderrLog) + 1
          /\ Len(stderrLog) \in Nat
          /\ stderrLog'[Len(stderrLog')] = line[t]
          /\ \A i \in 1..Len(stderrLog) : stderrLog'[i] = stderrLog[i]
      BY <2>1, <2>2
    <2>5. \A i \in 1..Len(stderrLog') : \/ i = Len(stderrLog')
                                        \/ i \in 1..Len(stderrLog)
      BY <2>4
    <2>6. \A u \in Threads \ {t} : pc[u] # "file"
      BY <2>1 DEF LockHeld
    <2>7. \A i \in 1..Len(stderrLog) : stderrLog[i].id # call[t].id
      BY <2>1
    <2>8. \A u \in Threads \ {t} : call[u].op = "log" => call[u].id # call[t].id
      BY <2>1 DEF CallsNumbered
    <2>9. \A i \in 1..Len(stderrLog') : stderrLog'[i].id <= lines'
      BY <2>1, <2>2, <2>4, <2>5
    <2>10. ASSUME NEW u \in Threads, call'[u].op = "log",
                  pc'[u] \notin {"file", "emitted", "done"},
                  NEW i \in 1..Len(stderrLog')
           PROVE  stderrLog'[i].id # call'[u].id
      <3>1. u # t /\ call[u].op = "log" /\ pc[u] \notin {"file", "emitted", "done"}
        BY <2>2, <2>3, <2>10
      <3>2. CASE i = Len(stderrLog')
        BY <2>1, <2>2, <2>4, <2>8, <3>1, <3>2
      <3>3. CASE i \in 1..Len(stderrLog)
        BY <2>2, <2>4, <3>1, <3>3
      <3> QED BY <2>5, <3>2, <3>3
    <2>11. ASSUME NEW u \in Threads, pc'[u] = "file"
           PROVE  /\ Len(stderrLog') > 0 /\ stderrLog'[Len(stderrLog')] = line'[u]
                  /\ \A i \in 1..(Len(stderrLog') - 1) : stderrLog'[i].id # line'[u].id
      <3>1. u = t
        BY <2>3, <2>6, <2>11
      <3>2. Len(stderrLog') - 1 = Len(stderrLog)
        BY <2>4
      <3> QED BY <2>1, <2>2, <2>4, <2>7, <3>1, <3>2
    <2> QED BY <2>4, <2>9, <2>10, <2>11
  <1>13. ASSUME NEW t \in Threads, NEW failed \in BOOLEAN, WriteFile(t, failed)
        PROVE  StderrHolds'
    BY <1>13 DEF WriteFile, Goto
  <1>14. ASSUME NEW t \in Threads, EmitUnlock(t) PROVE StderrHolds'
    BY <1>14 DEF EmitUnlock, Goto
  <1>15. ASSUME NEW t \in Threads, Return(t) PROVE StderrHolds'
    BY <1>15 DEF Return, Goto, NoCall
  <1>16. ASSUME NEW f \in Files, CloseFile(f) PROVE StderrHolds'
    BY <1>16 DEF CloseFile
  <1>17. CASE UNCHANGED vars
    BY <1>17 DEF vars
  <1> QED BY <1>1, <1>2, <1>3, <1>4, <1>5, <1>6, <1>7, <1>8, <1>9, <1>10,
     <1>11, <1>12, <1>13, <1>14, <1>15, <1>16, <1>17 DEF Next, LogStep

(* A line that is not in a file is not looked for there when stderr grows. *)
LEMMA PicksMore ==
  ASSUME NEW all \in Seq(LineType), NEW file \in Seq(LineType), NEW l \in LineType,
         l \notin LinesOf(file),
         \E place \in [1..Len(file) -> 1..Len(all)] : Picks(place, all, file)
  PROVE  \E place \in [1..Len(file) -> 1..Len(Append(all, l))] :
           Picks(place, Append(all, l), file)
  <1> DEFINE more == Append(all, l)
  <1>1. PICK place \in [1..Len(file) -> 1..Len(all)] : Picks(place, all, file)
    OBVIOUS
  <1>2. /\ Len(more) = Len(all) + 1 /\ Len(all) \in Nat /\ more[Len(more)] = l
        /\ \A n \in 1..Len(all) : more[n] = all[n] /\ n \in 1..Len(more)
        /\ \A n \in 1..Len(more) : n = Len(more) \/ n \in 1..Len(all)
    OBVIOUS
  <1> HIDE DEF more
  <1>3. place \in [1..Len(file) -> 1..Len(more)] /\ DOMAIN place = 1..Len(file)
    BY <1>2
  <1>4. Picks(place, more, file)
    BY <1>1, <1>2, <1>3 DEF Picks
  <1> QED BY <1>3, <1>4 DEF more

(* The last line of stderr is appended to a file. *)
LEMMA PicksLast ==
  ASSUME NEW all \in Seq(LineType), NEW file \in Seq(LineType), NEW l \in LineType,
         Len(all) > 0, all[Len(all)] = l,
         \A n \in 1..(Len(all) - 1) : all[n].id # l.id,
         \A i \in 1..Len(file) : file[i].id # l.id,
         \E place \in [1..Len(file) -> 1..Len(all)] : Picks(place, all, file)
  PROVE  \E place \in [1..Len(Append(file, l)) -> 1..Len(all)] :
           Picks(place, all, Append(file, l))
  <1> DEFINE m == Len(file)
             k == Len(all)
             new == Append(file, l)
  <1>1. PICK place \in [1..m -> 1..k] : Picks(place, all, file)
    OBVIOUS
  <1> DEFINE at == [i \in 1..(m + 1) |-> IF i = m + 1 THEN k ELSE place[i]]
  <1>2. /\ m \in Nat /\ k \in Nat /\ k \in 1..k
        /\ Len(new) = m + 1 /\ new[m + 1] = l
        /\ \A i \in 1..m : new[i] = file[i] /\ i \in 1..(m + 1) /\ i # m + 1 /\ i < m + 1
        /\ \A i \in 1..(m + 1) : i = m + 1 \/ i \in 1..m
        /\ \A n \in 1..k : n = k \/ n \in 1..(k - 1)
        /\ \A n \in 1..(k - 1) : n < k /\ n # k
        /\ m + 1 \in 1..(m + 1)
    OBVIOUS
  <1>3. LinesOf(new) = LinesOf(file) \cup {l}
    BY <1>2 DEF LinesOf
  <1> HIDE DEF new, m, k
  <1>4. /\ at \in [1..(m + 1) -> 1..k] /\ DOMAIN at = 1..(m + 1)
        /\ at[m + 1] = k /\ \A i \in 1..m : at[i] = place[i]
    BY <1>2
  <1> HIDE DEF at
  <1>5. /\ DOMAIN place = 1..m
        /\ \A i, j \in 1..m : i < j => place[i] < place[j]
        /\ \A i \in 1..m : file[i] = all[place[i]]
        /\ \A n \in 1..k : all[n] \in LinesOf(file) => \E i \in 1..m : place[i] = n
    BY <1>1 DEF Picks, k
  <1>6. \A i \in 1..m : place[i] < k
    <2> SUFFICES ASSUME NEW i \in 1..m PROVE place[i] < k
      OBVIOUS
    <2>1. place[i] # k
      BY <1>5 DEF m, k
    <2> QED BY <1>2, <2>1
  <1>7. \A i, j \in 1..(m + 1) : i < j => at[i] < at[j]
    <2> SUFFICES ASSUME NEW i \in 1..(m + 1), NEW j \in 1..(m + 1), i < j
                 PROVE  at[i] < at[j]
      OBVIOUS
    <2>1. i \in 1..m
      BY <1>2
    <2>2. CASE j = m + 1
      BY <1>4, <1>6, <2>1, <2>2
    <2>3. CASE j \in 1..m
      BY <1>4, <1>5, <2>1, <2>3
    <2> QED BY <1>2, <2>2, <2>3
  <1>8. \A i \in 1..(m + 1) : new[i] = all[at[i]]
    <2> SUFFICES ASSUME NEW i \in 1..(m + 1) PROVE new[i] = all[at[i]]
      OBVIOUS
    <2>1. CASE i = m + 1
      BY <1>2, <1>4, <2>1 DEF k
    <2>2. CASE i \in 1..m
      BY <1>2, <1>4, <1>5, <2>2
    <2> QED BY <1>2, <2>1, <2>2
  <1>9. \A n \in 1..k : all[n] \in LinesOf(new) => \E i \in 1..(m + 1) : at[i] = n
    <2> SUFFICES ASSUME NEW n \in 1..k, all[n] \in LinesOf(new)
                 PROVE  \E i \in 1..(m + 1) : at[i] = n
      OBVIOUS
    <2>1. CASE n = k
      BY <1>2, <1>4, <2>1
    <2>2. CASE n \in 1..(k - 1)
      <3>1. all[n] # l
        BY <2>2 DEF k
      <3>2. PICK i \in 1..m : place[i] = n
        BY <1>3, <1>5, <3>1
      <3> QED BY <1>2, <1>4, <3>2
    <2> QED BY <1>2, <2>1, <2>2
  <1>10. Picks(at, all, new)
    BY <1>4, <1>7, <1>8, <1>9 DEF Picks, k
  <1> QED BY <1>2, <1>4, <1>10 DEF new, k

(* Both sinks are written while the mutex is held, so that a line that is  *)
(* appended to its file is the last of stderr. *)
LEMMA AgreeNext ==
  ASSUME Typed, CallPlaces, LinesMade, CallsNumbered, FilesHold, StderrHolds, SinksAgree,
         [Next]_vars
  PROVE  SinksAgree'
  <1>1. ASSUME NEW t \in Threads, NEW failed \in BOOLEAN, WriteStderr(t, failed)
        PROVE  SinksAgree'
    <2>1. /\ call[t].op = "log" /\ line[t].id = call[t].id /\ line[t] \in LineType
          /\ pc[t] = "stderr"
      BY <1>1 DEF WriteStderr, CallPlaces, LinesMade, Typed, Formatted, Emitting
    <2>2. fileLog' = fileLog /\ stderrLog' = Append(stderrLog, line[t])
      BY <1>1 DEF WriteStderr
    <2>3. SUFFICES ASSUME NEW f \in Files
                   PROVE  \E place \in [1..Len(fileLog[f]) -> 1..Len(Append(stderrLog, line[t]))] :
                            Picks(place, Append(stderrLog, line[t]), fileLog[f])
      BY <2>2 DEF SinksAgree
    <2>4. line[t] \notin LinesOf(fileLog[f])
      BY <2>1, LogRead DEF FilesHold
    <2>5. fileLog[f] \in Seq(LineType) /\ stderrLog \in Seq(LineType)
      BY DEF Typed, StderrHolds
    <2> QED BY <2>1, <2>4, <2>5, PicksMore DEF SinksAgree
  <1>2. ASSUME NEW t \in Threads, NEW failed \in BOOLEAN, WriteFile(t, failed)
        PROVE  SinksAgree'
    <2> DEFINE g == snapshot[t].file_sink
    <2>1. /\ call[t].op = "log" /\ line[t].id = call[t].id /\ line[t] \in LineType
          /\ pc[t] = "file" /\ g \in Files /\ fileLog \in [Files -> Seq(LineType)]
      BY <1>2 DEF WriteFile, CallPlaces, LinesMade, Typed, Formatted, Emitting
    <2>2. /\ stderrLog' = stderrLog /\ fileLog'[g] = Append(fileLog[g], line[t])
          /\ \A f \in Files \ {g} : fileLog'[f] = fileLog[f]
      BY <1>2, <2>1 DEF WriteFile
    <2> HIDE DEF g
    <2>3. /\ stderrLog \in Seq(LineType)
          /\ Len(stderrLog) > 0 /\ stderrLog[Len(stderrLog)] = line[t]
          /\ \A i \in 1..(Len(stderrLog) - 1) : stderrLog[i].id # line[t].id
      BY <2>1 DEF StderrHolds
    <2>4. /\ fileLog[g] \in Seq(LineType)
          /\ \A i \in 1..Len(fileLog[g]) : fileLog[g][i].id # line[t].id
      BY <2>1 DEF FilesHold
    <2>5. \E place \in [1..Len(fileLog[g]) -> 1..Len(stderrLog)] :
            Picks(place, stderrLog, fileLog[g])
      BY <2>1 DEF SinksAgree
    <2>6. \E place \in [1..Len(Append(fileLog[g], line[t])) -> 1..Len(stderrLog)] :
            Picks(place, stderrLog, Append(fileLog[g], line[t]))
      BY <2>1, <2>3, <2>4, <2>5, PicksLast
    <2>7. ASSUME NEW f \in Files
          PROVE  \E place \in [1..Len(fileLog'[f]) -> 1..Len(stderrLog')] :
                   Picks(place, stderrLog', fileLog'[f])
      <3>1. CASE f = g
        BY <2>2, <2>6, <3>1
      <3>2. CASE f # g
        BY <2>2, <3>2 DEF SinksAgree
      <3> QED BY <3>1, <3>2
    <2> QED BY <2>7 DEF SinksAgree
  <1>3. ASSUME stderrLog' = stderrLog, fileLog' = fileLog
        PROVE  SinksAgree'
    BY <1>3 DEF SinksAgree
  <1>4. ASSUME NEW t \in Threads,
               \/ \E level \in Levels : CallLog(t, level)
               \/ \E s \in Settings : CallSetter(t, s[1], s[2])
               \/ OnceStarts(t) \/ DoInit(t) \/ OnceDone(t) \/ SetField(t) \/ ClearLastError(t)
               \/ Snapshot(t) \/ Drop(t) \/ (\E body \in Bodies : Format(t, body))
               \/ EmitLock(t) \/ EmitUnlock(t) \/ Return(t)
        PROVE  stderrLog' = stderrLog /\ fileLog' = fileLog
    <2> USE DEF sinkVars
    <2>1. CASE \/ \E level \in Levels : CallLog(t, level)
               \/ \E s \in Settings : CallSetter(t, s[1], s[2])
      BY <2>1 DEF CallLog, CallSetter, Begin
    <2>2. CASE OnceStarts(t) \/ DoInit(t) \/ OnceDone(t) \/ SetField(t) \/ ClearLastError(t)
      BY <2>2 DEF OnceStarts, DoInit, OnceDone, SetField, ClearLastError
    <2>3. CASE Snapshot(t) \/ Drop(t) \/ (\E body \in Bodies : Format(t, body))
      BY <2>3 DEF Snapshot, Drop, Format
    <2>4. CASE EmitLock(t) \/ EmitUnlock(t) \/ Return(t)
      BY <2>4 DEF EmitLock, EmitUnlock, Return
    <2> QED BY <1>4, <2>1, <2>2, <2>3, <2>4
  <1>5. ASSUME (\E f \in Files : CloseFile(f)) \/ UNCHANGED vars
        PROVE  stderrLog' = stderrLog /\ fileLog' = fileLog
    BY <1>5 DEF CloseFile, vars, sinkVars
  <1> QED BY <1>1, <1>2, <1>3, <1>4, <1>5 DEF Next, LogStep

-----------------------------------------------------------------------------
(* The inductive invariant.  Types, places and the gate carry each other;  *)
(* what a line is made of needs the places, and what the files hold needs  *)
(* the numbers of the calls: that is what tells a line of one call from a  *)
(* line of another with the same text.  That the sinks agree rests on the  *)
(* mutex, held from the first write of a call to its last.                 *)
Inv ==
  /\ Typed /\ CallPlaces
  /\ GateHeld /\ InitBeforeUse
  /\ LinesFit /\ LinesMade
  /\ SeenInForce
  /\ CallsNumbered /\ FilesHold
  /\ LockHeld /\ StderrHolds /\ SinksAgree

(* Before any call the whole invariant holds.                              *)
LEMMA InitInv == Init => Inv
  <1> SUFFICES ASSUME Init PROVE Inv
    OBVIOUS
  <1> USE DEF Init, NoCall, Formatted, Emitting
  <1>1. Typed
    BY InitTyped
  <1>2. CallPlaces /\ GateHeld /\ InitBeforeUse
    BY DEF CallPlaces, GateHeld, InitBeforeUse
  <1>3. LinesFit /\ LinesMade /\ SeenInForce /\ CallsNumbered
    BY DEF LinesFit, LinesMade, SeenInForce, CallsNumbered
  <1>4. FilesHold
    BY DEF FilesHold
  <1>5. LockHeld /\ StderrHolds
    BY NobodyAssumption DEF LockHeld, StderrHolds
  <1>6. SinksAgree
    <2> SUFFICES ASSUME NEW f \in Files
                 PROVE  \E place \in [1..0 -> 1..0] : Picks(place, << >>, << >>)
      BY DEF SinksAgree
    <2> DEFINE nowhere == [i \in 1..0 |-> i]
    <2>1. nowhere \in [1..0 -> 1..0] /\ Picks(nowhere, << >>, << >>)
      BY DEF Picks
    <2> QED BY <2>1
  <1> QED BY <1>1, <1>2, <1>3, <1>4, <1>5, <1>6 DEF Inv

(* Every step of a log call, of init, shutdown or a setter keeps it.       *)
LEMMA InvNext == ASSUME Inv, [Next]_vars PROVE Inv'
  <1>1. Typed' /\ CallPlaces'
    BY TypedNext, PlacesNext DEF Inv
  <1>2. GateHeld' /\ InitBeforeUse'
    BY GateNext DEF Inv
  <1>3. LinesFit' /\ LinesMade'
    BY FitNext, MadeNext DEF Inv
  <1>4. SeenInForce' /\ CallsNumbered' /\ FilesHold'
    BY SeenNext, NumbersNext, FilesNext DEF Inv
  <1>5. LockHeld' /\ StderrHolds' /\ SinksAgree'
    BY LockNext, StderrNext, AgreeNext DEF Inv
  <1> QED BY <1>1, <1>2, <1>3, <1>4, <1>5 DEF Inv

(* So it holds in every state of the logger.                               *)
LEMMA InvHolds == Spec => []Inv
  <1>1. Inv /\ [Next]_vars => Inv'
    BY InvNext
  <1> QED BY InitInv, <1>1, PTL DEF Spec

(* The fields of cb__log and of every call keep their types.               *)
THEOREM LogTypes == Spec => []TypeOK
  <1>1. Inv => TypeOK
    BY DEF Inv, Typed
  <1> QED BY <1>1, InvHolds, PTL

(* The gate of cb__log_ensure_init: the initialiser runs once, before any  *)
(* use of the mutex and the fields, however many threads call first.       *)
THEOREM GateCorrect == Spec => []InitBeforeUse
  <1>1. Inv => InitBeforeUse
    BY DEF Inv
  <1> QED BY <1>1, InvHolds, PTL

(* Whatever vsnprintf reports and whatever the buffer's size, the line of  *)
(* cb_log fits plain[] and is cut and marked exactly when it must be.      *)
THEOREM LinesFitBuffer == Spec => []LinesFit
  <1>1. Inv => LinesFit
    BY DEF Inv
  <1> QED BY <1>1, InvHolds, PTL

(* A line obeys the one configuration cb_log copied, which was in force    *)
(* during the call; the proof takes the copy for the witness.              *)
THEOREM OneConfig == Spec => []OneConfigPerLine
  <1>1. ASSUME Inv, NEW t \in Threads, pc[t] = "emitted"
        PROVE  \E c \in seen[t] :
                 /\ Admits(c, call[t].arg)
                 /\ {f \in Files : line[t] \in LinesOf(fileLog[f])} = {c.file_sink} \ {NoFile}
                 /\ line[t].prefix = PrefixLen + (IF c.timestamps THEN StampLen ELSE 0)
    <2> DEFINE c == snapshot[t]
    <2>1. c \in seen[t]
      BY <1>1 DEF Inv, SeenInForce, Formatted, Emitting
    <2>2. /\ Admits(c, call[t].arg)
          /\ line[t].prefix = PrefixLen + (IF c.timestamps THEN StampLen ELSE 0)
      BY <1>1 DEF Inv, LinesMade, Formatted, Emitting
    <2>3. c.file_sink \in Files \cup {NoFile}
      BY <1>1 DEF Inv, Typed, TypeOK, Configs
    <2>4. \A f \in Files : line[t] \in LinesOf(fileLog[f]) <=> f = c.file_sink
      BY <1>1 DEF Inv, FilesHold
    <2>5. {f \in Files : line[t] \in LinesOf(fileLog[f])} = {c.file_sink} \ {NoFile}
      BY <2>3, <2>4, NobodyAssumption
    <2> QED BY <2>1, <2>2, <2>5
  <1>2. ASSUME Inv, NEW t \in Threads, pc[t] = "dropped"
        PROVE  \E c \in seen[t] : ~ Admits(c, call[t].arg)
    BY <1>2 DEF Inv, SeenInForce, LinesMade
  <1>3. Inv => OneConfigPerLine
    BY <1>1, <1>2 DEF OneConfigPerLine
  <1> QED BY <1>3, InvHolds, PTL

(* The file sink agrees with stderr: cb_log writes both under one mutex.    *)
THEOREM SinksInOrder == Spec => []SinksAgree
  <1>1. Inv => SinksAgree
    BY DEF Inv
  <1> QED BY <1>1, InvHolds, PTL

(* cb_log_last_error keeps the failure of a write until the caller clears  *)
(* it; the initialiser, which resets it too, has run before any write.     *)
THEOREM ErrorsKept == Spec => ErrorSticks
  <1>1. ASSUME Inv, [Next]_vars, lastError # "OK", lastError' = "OK"
        PROVE  \E t \in Threads : call[t].op = "clear_last_error"
    <2>1. CASE \E t \in Threads : ClearLastError(t)
      BY <2>1 DEF ClearLastError
    <2>2. ASSUME NEW t \in Threads, DoInit(t) PROVE FALSE
      <3>1. once = "done" /\ once = t
        BY <1>1, <2>2 DEF Inv, GateHeld, DoInit
      <3> QED BY <3>1, NobodyAssumption
    <2>3. ASSUME NEW failed, Stamp(failed) PROVE FALSE
      BY <1>1, <2>3 DEF Stamp
    <2>4. ASSUME NEW t \in Threads, NEW failed,
                 WriteStderr(t, failed) \/ WriteFile(t, failed)
          PROVE  FALSE
      BY <2>3, <2>4 DEF WriteStderr, WriteFile
    <2>5. ASSUME NEW t \in Threads,
                 OnceStarts(t) \/ OnceDone(t) \/ SetField(t) \/ Snapshot(t) \/ Drop(t)
                   \/ EmitLock(t) \/ EmitUnlock(t) \/ Return(t)
          PROVE  FALSE
      BY <1>1, <2>5 DEF OnceStarts, OnceDone, SetField, Snapshot, Drop, EmitLock,
         EmitUnlock, Return, configVars
    <2>6. ASSUME NEW t \in Threads, \E body \in Bodies : Format(t, body) PROVE FALSE
      BY <1>1, <2>6 DEF Format, configVars
    <2>7. ASSUME NEW t \in Threads, NEW op, NEW arg, Begin(t, op, arg) PROVE FALSE
      BY <1>1, <2>7 DEF Begin, configVars
    <2>8. ASSUME NEW t \in Threads,
                 \/ \E level \in Levels : CallLog(t, level)
                 \/ \E s \in Settings : CallSetter(t, s[1], s[2])
          PROVE  FALSE
      BY <2>7, <2>8 DEF CallLog, CallSetter
    <2>9. CASE \E f \in Files : CloseFile(f)
      BY <1>1, <2>9 DEF CloseFile, configVars
    <2>10. CASE UNCHANGED vars
      BY <1>1, <2>10 DEF vars, configVars
    <2> QED BY <1>1, <2>1, <2>2, <2>4, <2>5, <2>6, <2>8, <2>9, <2>10 DEF Next, LogStep
  <1>2. Inv /\ [Next]_vars =>
          [lastError # "OK" /\ lastError' = "OK" =>
             \E t \in Threads : call[t].op = "clear_last_error"]_vars
    BY <1>1
  <1> QED BY <1>2, InvHolds, PTL DEF Spec, ErrorSticks
=============================================================================
