-------------------------------- MODULE Config -------------------------------
(***************************************************************************)
(* The key/value configuration of src/cbase_config.c.  A text is a         *)
(* sequence of characters, a character a string of length 1 or one of the  *)
(* names below.  Memory comes block by block, and one request may fail.    *)
(***************************************************************************)
EXTENDS Integers, FiniteSets, SequencesExt

CONSTANTS
  LineMax,    \* CB__CONFIG_LINE_MAX
  FileMax,    \* CB__CONFIG_FILE_MAX
  MaxI64,     \* INT64_MAX
  MaxU64      \* UINT64_MAX

LF == "LF"
CR == "CR"
Tab == "TAB"
Nul == "NUL"
Quote == "\""
Backslash == "\\"

IsSpace(c) == c \in {" ", Tab}
IsComment(c) == c \in {"#", ";"}
Digits == <<"0", "1", "2", "3", "4", "5", "6", "7", "8", "9">>
IsDigit(c) == c \in ToSet(Digits)

Small == <<"a", "b", "c", "d", "e", "f", "g", "h", "i", "j", "k", "l", "m", "n",
           "o", "p", "q", "r", "s", "t", "u", "v", "w", "x", "y", "z">>
Capital == <<"A", "B", "C", "D", "E", "F", "G", "H", "I", "J", "K", "L", "M", "N",
             "O", "P", "Q", "R", "S", "T", "U", "V", "W", "X", "Y", "Z">>
Lower(c) == IF c \in ToSet(Capital) THEN Small[CHOOSE i \in 1..26 : Capital[i] = c] ELSE c

KeyHeadOk(c) == Lower(c) \in ToSet(Small) \cup {"_"}
KeyTailOk(c) == KeyHeadOk(c) \/ IsDigit(c) \/ c \in {".", "-"}
KeyValid(s) ==
  s # << >> /\ KeyHeadOk(s[1]) /\ \A i \in 2..Len(s) : KeyTailOk(s[i])

Before(s, i) == SubSeq(s, 1, i - 1)
After(s, i) == SubSeq(s, i + 1, Len(s))

(* The first place of a character that Test accepts, or the end.           *)
FirstWhere(s, Test(_)) ==
  LET at == {i \in 1..Len(s) : Test(s[i])} IN IF at = {} THEN Len(s) + 1 ELSE Min(at)

StripLeft(s) == After(s, FirstWhere(s, LAMBDA c : ~ IsSpace(c)) - 1)
StripRight(s) == Reverse(StripLeft(Reverse(s)))

-----------------------------------------------------------------------------
(* Memory: the blocks in use, the number of requests, the request that     *)
(* fails (0: none), and whether a block was given back that was not in use.*)

Memory(failAt) == [live |-> {}, asked |-> 0, failAt |-> failAt, misused |-> FALSE]

Block(mem) == mem.asked + 1
Fails(mem) == Block(mem) = mem.failAt
Alloc(mem) ==
  [mem EXCEPT !.asked = @ + 1,
              !.live = IF Fails(mem) THEN @ ELSE @ \cup {Block(mem)}]
Free(mem, blocks) ==
  [mem EXCEPT !.live = @ \ blocks,
              !.misused = @ \/ ~ blocks \subseteq mem.live]

(* A configuration: cfg.entries is the list from head to tail; an entry    *)
(* has its own block and those of its key and value.                       *)
EmptyConfig == [info |-> "OK", errorLine |-> 0, count |-> 0, entries |-> << >>]

EntryBlocks(e) == {e.block, e.keyBlock, e.valueBlock}
BlocksOf(entries) == UNION {EntryBlocks(entries[i]) : i \in DOMAIN entries}

FreeEntries(st) ==
  [cfg |-> [st.cfg EXCEPT !.entries = << >>, !.count = 0],
   mem |-> Free(st.mem, BlocksOf(st.cfg.entries))]

FindEntry(entries, key) == {i \in DOMAIN entries : entries[i].key = key}

WithInfo(st, info) == [st EXCEPT !.cfg.info = info]

(* Mutant: the value that was there is not given back. *)
ReplaceLeaks(st, i, value, block) ==
  [st EXCEPT !.cfg.entries[i].value = value, !.cfg.entries[i].valueBlock = block]

Replace(st, i, value, block) ==
  [cfg |-> [st.cfg EXCEPT !.entries[i].value = value,
                          !.entries[i].valueBlock = block],
   mem |-> Free(st.mem, {st.cfg.entries[i].valueBlock})]

(* cb__config_set: the value is copied first, then the key, then the entry *)
(* is made; each failure gives back what was there.                        *)
Set(st, key, value) ==
  LET existing == FindEntry(st.cfg.entries, key)
      valueMem == Alloc(st.mem)
      keyMem == Alloc(valueMem)
      entryMem == Alloc(keyMem)
      valueBlock == Block(st.mem)
      keyBlock == Block(valueMem)
      Failed(mem) == WithInfo([st EXCEPT !.mem = mem], "ALLOC_FAILED")
  IN  IF Fails(st.mem) THEN Failed(valueMem)
      ELSE IF existing # {}
      THEN Replace([st EXCEPT !.mem = valueMem], Min(existing), value, valueBlock)
      ELSE IF Fails(valueMem) THEN Failed(Free(keyMem, {valueBlock}))
      ELSE IF Fails(keyMem) THEN Failed(Free(entryMem, {keyBlock, valueBlock}))
      ELSE [mem |-> entryMem,
            cfg |-> [st.cfg EXCEPT
                      !.count = @ + 1,
                      !.entries = Append(@, [key |-> key, value |-> value,
                        block |-> Block(keyMem), keyBlock |-> keyBlock,
                        valueBlock |-> valueBlock])]]

-----------------------------------------------------------------------------
(* Values.                                                                 *)

Escapes == {Quote, Backslash, "n", "t", "r"}
Decoded(c) == CASE c = "n" -> LF [] c = "t" -> Tab [] c = "r" -> CR [] OTHER -> c

(* One character of a value in quotes: inside the quotes, after a          *)
(* backslash, after the closing quote, in a comment, or beyond an error.   *)
QuotedStep(acc, c) ==
  CASE acc.at = "text" ->
         IF c = Quote THEN [acc EXCEPT !.at = "closed"]
         ELSE IF c = Backslash THEN [acc EXCEPT !.at = "escape"]
         ELSE [acc EXCEPT !.out = Append(@, c)]
    [] acc.at = "escape" ->
         IF c \in Escapes THEN [acc EXCEPT !.at = "text", !.out = Append(@, Decoded(c))]
         ELSE [acc EXCEPT !.at = "over", !.info = "BAD_ESCAPE"]
    [] acc.at = "closed" ->
         IF IsSpace(c) THEN acc
         ELSE [acc EXCEPT !.at = "over",
                          !.info = IF IsComment(c) THEN "OK" ELSE "PARSE_ERROR"]
    [] acc.at = "over" -> acc

DecodeValue(rhs) ==
  LET s == StripLeft(rhs)
      end == FoldLeft(QuotedStep, [at |-> "text", out |-> << >>, info |-> "OK"], Tail(s))
  IN  IF s = << >> \/ Head(s) # Quote
      THEN [info |-> "OK", out |-> StripRight(Before(s, FirstWhere(s, IsComment)))]
      ELSE [info |-> IF end.at \in {"text", "escape"} THEN "UNTERMINATED_STRING"
                     ELSE end.info,
            out |-> end.out]

(* A line: nothing, or one entry; the decoded value is a block of its own. *)
ParseLine(st, line) ==
  LET s == StripLeft(line)
      eq == FirstWhere(s, LAMBDA c : c = "=")
      key == StripRight(Before(s, eq))
      value == DecodeValue(After(s, eq))
      decoded == {Block(st.mem)}
      mem == Alloc(st.mem)
      set == Set([st EXCEPT !.mem = mem], key, value.out)
  IN  IF s = << >> \/ IsComment(Head(s)) THEN st
      ELSE IF eq > Len(s) THEN WithInfo(st, "PARSE_ERROR")
      ELSE IF ~ KeyValid(key) THEN WithInfo(st, "BAD_KEY")
      ELSE IF Fails(st.mem) THEN WithInfo([st EXCEPT !.mem = mem], "ALLOC_FAILED")
      ELSE IF value.info # "OK"
      THEN WithInfo([st EXCEPT !.mem = Free(mem, decoded)], value.info)
      ELSE [set EXCEPT !.mem = Free(@, decoded)]

-----------------------------------------------------------------------------
(* Texts and files.                                                        *)

(* The lines of a text; none after a last line feed.                       *)
Lines(text) ==
  LET feeds == {i \in DOMAIN text : text[i] = LF}
      starts == {1} \cup {i + 1 : i \in feeds}
      Line(start) == LET rest == After(text, start - 1)
                         raw == Before(rest, FirstWhere(rest, LAMBDA c : c = LF))
                     IN  IF raw # << >> /\ Last(raw) = CR THEN Front(raw) ELSE raw
      begun == SetToSortSeq({i \in starts : i <= Len(text)}, <)
  IN  [k \in DOMAIN begun |-> Line(begun[k])]

Failed(st, info, lineNo) ==
  FreeEntries([st EXCEPT !.cfg.info = info, !.cfg.errorLine = lineNo])

(* One turn of the loop of cb_config_parse, unless it has returned.        *)
ParseNext(acc, line) ==
  LET lineNo == acc.lineNo + 1
      next == ParseLine(acc.st, line)
  IN  IF acc.st.cfg.info # "OK" THEN acc
      ELSE [lineNo |-> lineNo,
            st |-> IF Len(line) > LineMax THEN Failed(acc.st, "LINE_TOO_LONG", lineNo)
                   ELSE IF next.cfg.info # "OK" THEN Failed(next, next.cfg.info, lineNo)
                   ELSE next]

Parse(mem, text) ==
  FoldLeft(ParseNext, [lineNo |-> 0, st |-> [cfg |-> EmptyConfig, mem |-> mem]],
           Lines(text)).st

(* file: how far reading it succeeds, and its bytes.                       *)
ParseFile(mem, file) ==
  LET buffer == Alloc(mem)
      empty == [cfg |-> EmptyConfig, mem |-> mem]
      parsed == Parse(buffer, file.text)
  IN  IF file.reads = "no_size" THEN WithInfo(empty, "FILE_OPEN_FAILED")
      ELSE IF Len(file.text) > FileMax THEN WithInfo(empty, "FILE_TOO_LARGE")
      ELSE IF file.reads = "no_rewind" THEN WithInfo(empty, "FILE_OPEN_FAILED")
      ELSE IF Fails(mem) THEN WithInfo([empty EXCEPT !.mem = buffer], "ALLOC_FAILED")
      ELSE IF file.reads = "short"
      THEN WithInfo([empty EXCEPT !.mem = Free(buffer, {Block(mem)})], "FILE_OPEN_FAILED")
      ELSE [parsed EXCEPT !.mem = Free(@, {Block(mem)})]

Destroy(st) ==
  LET freed == FreeEntries(st)
  IN  [freed EXCEPT !.cfg.info = "OK", !.cfg.errorLine = 0]

-----------------------------------------------------------------------------
(* Lookups.                                                                *)

Missing == <<"missing">>

(* What a caller reads of the bytes of a value: they end at the first NUL. *)
CString(s) == Before(s, FirstWhere(s, LAMBDA c : c = Nul))

Get(cfg, key) ==
  LET found == FindEntry(cfg.entries, key)
  IN  IF found = {} THEN Missing ELSE CString(cfg.entries[Min(found)].value)

DigitValue(c) == (CHOOSE i \in DOMAIN Digits : Digits[i] = c) - 1

(* Mutant: the digit that is added is forgotten. *)
FitsLoosely(acc, d, limit) == acc <= limit \div 10

Fits(acc, d, limit) == acc <= (limit - d) \div 10

(* The digits of a number below a limit, in the width of its type.         *)
Accumulate(s, limit) ==
  FoldLeft(LAMBDA acc, c :
             IF ~ acc.ok \/ ~ IsDigit(c) \/ ~ Fits(acc.n, DigitValue(c), limit)
             THEN [acc EXCEPT !.ok = FALSE]
             ELSE [acc EXCEPT !.n = (10 * @ + DigitValue(c)) % (MaxU64 + 1)],
           [ok |-> s # << >>, n |-> 0], s)

ParseI64(s) ==
  LET neg == s # << >> /\ Head(s) = "-"
      acc == Accumulate(IF neg THEN Tail(s) ELSE s, IF neg THEN MaxI64 + 1 ELSE MaxI64)
  IN  [ok |-> acc.ok, value |-> IF neg THEN -acc.n ELSE acc.n]

ParseU64(s) == LET acc == Accumulate(s, MaxU64) IN [ok |-> acc.ok, value |-> acc.n]

TrueWords == {<<"t", "r", "u", "e">>, <<"y", "e", "s">>, <<"o", "n">>, <<"1">>}
FalseWords == {<<"f", "a", "l", "s", "e">>, <<"n", "o">>, <<"o", "f", "f">>, <<"0">>}

Ieq(a, word) == Len(a) = Len(word) /\ \A i \in DOMAIN a : Lower(a[i]) = word[i]

ParseBool(s) ==
  [ok |-> \E w \in TrueWords \cup FalseWords : Ieq(s, w),
   value |-> \E w \in TrueWords : Ieq(s, w)]

GetWith(cfg, key, fallback, ParseIt(_), bad) ==
  LET s == Get(cfg, key)
  IN  IF s = Missing THEN [info |-> "KEY_NOT_FOUND", value |-> fallback]
      ELSE IF ~ ParseIt(s).ok THEN [info |-> bad, value |-> fallback]
      ELSE [info |-> "OK", value |-> ParseIt(s).value]

GetI64(cfg, key, fallback) == GetWith(cfg, key, fallback, ParseI64, "BAD_INT")
GetU64(cfg, key, fallback) == GetWith(cfg, key, fallback, ParseU64, "BAD_INT")
GetBool(cfg, key, fallback) == GetWith(cfg, key, fallback, ParseBool, "BAD_BOOL")

-----------------------------------------------------------------------------
(* What a configuration means, by its grammar rather than by a scan.       *)

Trimmed(s) == StripRight(StripLeft(s))
Blank(s) == \A i \in DOMAIN s : IsSpace(s[i])
BlankOrComment(s) == Blank(Before(s, FirstWhere(s, IsComment)))

(* A character that an odd number of backslashes precedes is escaped.      *)
Escaped(s, i) ==
  LET plain == {j \in 0..(i - 1) : j = 0 \/ s[j] # Backslash}
  IN  (i - 1 - Max(plain)) % 2 = 1

EscapeOf(c) ==
  CASE c = LF -> <<Backslash, "n">> [] c = Tab -> <<Backslash, "t">>
    [] c = CR -> <<Backslash, "r">> [] c \in {Quote, Backslash} -> <<Backslash, c>>
    [] OTHER -> <<c>>
Encoded(value) == FlattenSeq([i \in DOMAIN value |-> EscapeOf(value[i])])

(* The places where s, a quote and what follows it, may end the quotation. *)
Closings(s) == {i \in 2..Len(s) : s[i] = Quote /\ ~ Escaped(s, i)}

WellQuoted(s) ==
  /\ Closings(s) # {}
  /\ \A i \in 2..Min(Closings(s)) : Escaped(s, i) => s[i] \in Escapes
  /\ BlankOrComment(After(s, Min(Closings(s))))

IsValue(rhs, value) ==
  LET s == StripLeft(rhs)
  IN  IF s # << >> /\ Head(s) = Quote
      THEN Encoded(value) = SubSeq(s, 2, Min(Closings(s)) - 1)
      ELSE value = Trimmed(Before(s, FirstWhere(s, IsComment)))

KeyOf(line) == Trimmed(Before(line, FirstWhere(line, LAMBDA c : c = "=")))
RhsOf(line) == After(line, FirstWhere(line, LAMBDA c : c = "="))

IsEntry(line) ==
  /\ ~ BlankOrComment(line)
  /\ "=" \in ToSet(line)
  /\ KeyValid(KeyOf(line))
  /\ LET rhs == StripLeft(RhsOf(line))
     IN  rhs # << >> /\ Head(rhs) = Quote => WellQuoted(rhs)

GoodLine(line) ==
  Len(line) <= LineMax /\ (BlankOrComment(line) \/ IsEntry(line))

(* A parse succeeds when every line is good and memory suffices; an entry  *)
(* stands where its key first stood and has the value its key last had; a  *)
(* failure names the first bad line, or one before it where memory ran     *)
(* out, and leaves nothing; every block in use belongs to an entry, and    *)
(* none is left when the configuration is destroyed.                       *)
IsConfigOf(lines, st, mayRunOut) ==
  LET good(k) == GoodLine(lines[k])
      of(key) == {k \in DOMAIN lines : IsEntry(lines[k]) /\ KeyOf(lines[k]) = key}
      entries == st.cfg.entries
      after == Destroy(st)
  IN  /\ IF st.cfg.info = "OK"
         THEN /\ \A k \in DOMAIN lines : good(k)
              /\ st.cfg.errorLine = 0
              /\ {entries[i].key : i \in DOMAIN entries}
                   = {KeyOf(lines[k]) : k \in {n \in DOMAIN lines : IsEntry(lines[n])}}
              /\ \A i, j \in DOMAIN entries :
                   i < j => Min(of(entries[i].key)) < Min(of(entries[j].key))
              /\ \A i \in DOMAIN entries :
                   IsValue(RhsOf(lines[Max(of(entries[i].key))]), entries[i].value)
         ELSE /\ entries = << >>
              /\ \A k \in 1..(st.cfg.errorLine - 1) : good(k)
              /\ IF st.cfg.info = "ALLOC_FAILED" THEN mayRunOut
                 ELSE st.cfg.errorLine \in DOMAIN lines /\ ~ good(st.cfg.errorLine)
      /\ st.cfg.count = Len(entries)
      /\ st.mem.live = BlocksOf(entries)
      /\ Cardinality(st.mem.live) = 3 * Len(entries)
      /\ ~ after.mem.misused /\ after.mem.live = {} /\ after.cfg = EmptyConfig

(* The number a text denotes, and whether it denotes one.                  *)
IsNumeral(s) == s # << >> /\ \A i \in DOMAIN s : IsDigit(s[i])
Number(s) == FoldLeft(LAMBDA n, c : 10 * n + DigitValue(c), 0, s)

Denotes(s, min, max) ==
  LET neg == s # << >> /\ Head(s) = "-"
      digits == IF neg THEN Tail(s) ELSE s
      n == IF neg THEN -Number(digits) ELSE Number(digits)
  IN  IF IsNumeral(digits) /\ n \in min..max /\ (neg => min < 0) THEN {n} ELSE {}

(* What a getter must answer: the number or the fallback.                  *)
AnswersNumber(answer, fallback, denoted) ==
  IF denoted = {} THEN answer = [info |-> "BAD_INT", value |-> fallback]
  ELSE answer.info = "OK" /\ denoted = {answer.value}
=============================================================================
