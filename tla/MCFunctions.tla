----------------------------- MODULE MCFunctions -----------------------------
(***************************************************************************)
(* The pure functions, called one at a time: the random numbers, the fixed *)
(* point and the configuration.  A behaviour is one call and its answer; a *)
(* call is a record of the library it belongs to, a request in that        *)
(* library's own form.                                                     *)
(***************************************************************************)
EXTENDS Integers, SequencesExt

CONSTANTS
  Bits, RotBits, Frac, Mult, MaxStride,  \* the words of the random numbers
  Half,                                  \* the fraction of the fixed point
  AngleHalf, AngleBits, SinLut, AtanLut, \* its angles
  LineMax, FileMax, MaxI64, MaxU64,      \* the limits of the configuration
  MaxText, MaxNumber,                    \* bounds on the texts parsed
  MaxFailAt,                             \* bound on the request for memory that fails
  Libraries                              \* the libraries called

Rng == INSTANCE Random
Fx == INSTANCE Fixed
Angle == INSTANCE Fixed WITH Half <- AngleHalf
Cfg == INSTANCE Config

MCSinLut == << 0, 6, 11, 15, 16 >>
MCAtanLut == << 0, 2, 5, 7, 8 >>

VARIABLES call, answer

vars == << call, answer >>

Unanswered == << >>

-----------------------------------------------------------------------------
(* The texts of a configuration: every short one, alone, behind a key and  *)
(* inside a quotation; and three lines of some kinds, with every request   *)
(* for memory failing in turn.                                             *)
Upto(S, n) == UNION {[1..k -> S] : k \in 0..n}

Chars == {" ", "=", "#", "\"", "\\", "n", "a", "LF"}
Texts ==
  Upto(Chars, MaxText) \cup {<< "n", "=" >> \o t : t \in Upto(Chars, MaxText)}
                       \cup {<< "n", "=", "\"" >> \o t : t \in Upto(Chars, MaxText)}

Overlong == << "#" >> \o [i \in 1..LineMax |-> "n"]
SomeLines == {<< "n", "=", "1" >>, << "n", "=", "a", "NUL" >>, << "#" >>, << >>,
              << "a", "=", "\"", "1", "\"" >>, << "a", "=", "\"" >>, Overlong}
LineEnds == {<< "LF" >>, << "CR", "LF" >>}
ThreeLines == {a \o e \o b \o e \o c \o f : a, b, c \in SomeLines, e \in LineEnds,
                                            f \in {<< >>, << "LF" >>}}

Files == {<< >>, << "n", "=", "1" >>, << "n", "=", "1", "LF", "n", "=" >>}

Numbers == Upto({"-", "0", "1", "2", "9", " ", "NUL"}, MaxNumber)

Words == Cfg!TrueWords \cup Cfg!FalseWords
           \cup {<< "O", "f", "F" >>, << "O", "N" >>, << "o" >>, << >>}

ConfigCalls ==
  [fn : {"text"}, text : Texts, failAt : {0}]
    \cup [fn : {"text"}, text : ThreeLines, failAt : 0..MaxFailAt]
    \cup [fn : {"file"}, text : Files, failAt : 0..MaxFailAt,
          reads : {"ok", "no_size", "no_rewind", "short"}]
    \cup [fn : {"number"}, text : Numbers]
    \cup [fn : {"word"}, text : Words]

TheKey == << "n" >>
OtherKey == << "a" >>

ConfigAnswer(c) ==
  LET cfg == Cfg!Parse(Cfg!Memory(0), TheKey \o << "=" >> \o c.text).cfg
  IN  CASE c.fn = "text" -> Cfg!Parse(Cfg!Memory(c.failAt), c.text)
        [] c.fn = "file" -> Cfg!ParseFile(Cfg!Memory(c.failAt), c)
        [] c.fn = "number" -> [i64 |-> Cfg!GetI64(cfg, TheKey, 1),
                               u64 |-> Cfg!GetU64(cfg, TheKey, 1),
                               other |-> Cfg!GetI64(cfg, OtherKey, 1)]
        [] c.fn = "word" -> [yes |-> Cfg!GetBool(cfg, TheKey, TRUE),
                             no |-> Cfg!GetBool(cfg, TheKey, FALSE)]

-----------------------------------------------------------------------------
Calls ==
  [lib : {"random"}, request : Rng!Calls]
    \cup [lib : {"fixed"}, request : Fx!Calls]
    \cup [lib : {"angle"}, request : Angle!AngleCalls]
    \cup [lib : {"config"}, request : ConfigCalls]

AnswerTo(c) ==
  CASE c.lib = "random" -> Rng!Answers(c.request)
    [] c.lib = "fixed" -> Fx!Answers(c.request)
    [] c.lib = "angle" -> Angle!AngleAnswers(c.request)
    [] c.lib = "config" -> ConfigAnswer(c.request)

Init ==
  /\ call \in {c \in Calls : c.lib \in Libraries}
  /\ answer = Unanswered

Next ==
  /\ answer = Unanswered
  /\ answer' = AnswerTo(call)
  /\ UNCHANGED call

Spec == Init /\ [][Next]_vars

Answered(lib) == answer # Unanswered /\ call.lib = lib

-----------------------------------------------------------------------------
(***************************************************************************)
(* Every value of the range is drawn equally often over all the words the  *)
(* generator may put out, and no other value: whatever the bounds, at both *)
(* ends of the word, for degenerate ranges, for a range as wide as the     *)
(* word; a chance comes true in exactly its share, a shuffle gives every   *)
(* permutation equally often, and over its period the generator puts out   *)
(* every word equally often.  Only degenerate arguments leave the generator*)
(* where it was.  (cb_rng_u32_below, cb_rng_i32_range, cb_rng_fx16_range,  *)
(* cb_rng_chance, cb_rng_shuffle, cb_rng_u32)                              *)
(***************************************************************************)
UniformDraws == Answered("random") => Rng!IsUniform(call.request, answer)

(* On the platforms without 128-bit integers a product rounds down; the    *)
(* property PathsAgree is about that.                                      *)
KnownToRoundDown(request) == request.fn = "mul" /\ request.path = "pair"

(***************************************************************************)
(* The result of every operation of cb_fx16_* and cb_fx32_* is the exact   *)
(* one, cut towards zero to the word and saturated at its ends, on either  *)
(* path of the fx32; a division by zero saturates by the sign; a root is   *)
(* right to the last bit; an interpolation stays between its ends.         *)
(***************************************************************************)
ExactArithmetic ==
  Answered("fixed") /\ ~ KnownToRoundDown(call.request)
    => Fx!IsExact(call.request, answer)

(***************************************************************************)
(* A sine over its table and an angle over its reflections have no jump at *)
(* the borders of segments, quadrants and octants: the sine rises over its *)
(* first quarter and is mirrored exactly in the others, the angle of a     *)
(* point lies in its quadrant and turns one way along a line, also for the *)
(* most negative coordinates.  (cb_fx16_sin, cb_fx16_cos, cb_fx16_atan2)   *)
(***************************************************************************)
AnglesOrdered == Answered("angle") => Angle!IsOrdered(call.request, answer)

(***************************************************************************)
(* "Sim-path operations are bit-exact across platforms": both paths of an  *)
(* operation of the fx32 give the same word.  (cb_fx32_mul does not.)      *)
(***************************************************************************)
PathsAgree == Answered("fixed") => Fx!PathsGiveTheSame(call.request, answer)

(***************************************************************************)
(* A configuration that parses is what its lines say, whatever the quotes, *)
(* escapes, comments and repeated keys in them; one that does not names    *)
(* the first bad line and holds nothing; and wherever memory runs out, no  *)
(* block is lost and none is given back twice.  A file that cannot be read *)
(* leaves no trace.  (cb_config_parse, cb_config_parse_file,               *)
(* cb__config_set, cb_config_destroy)                                      *)
(***************************************************************************)
ConfigFile ==
  Answered("config") /\ call.request.fn \in {"text", "file"} =>
    IF answer.cfg.info \in {"FILE_OPEN_FAILED", "FILE_TOO_LARGE"}
    THEN answer.mem.live = {} /\ ~ answer.mem.misused /\ answer.cfg.entries = << >>
    ELSE Cfg!IsConfigOf(Cfg!Lines(call.request.text), answer, call.request.failAt # 0)

(***************************************************************************)
(* A getter answers the number or the word its text denotes, up to the     *)
(* last value of the type at both ends, and the fallback with the reason   *)
(* for every other text.  (cb_config_get_i64, cb_config_get_u64,           *)
(* cb_config_get_bool)                                                     *)
(***************************************************************************)
ParsesExact ==
  Answered("config") =>
    LET s == Cfg!CString(Cfg!Trimmed(call.request.text))
    IN  /\ call.request.fn = "number" =>
             /\ Cfg!AnswersNumber(answer.i64, 1, Cfg!Denotes(s, -MaxI64 - 1, MaxI64))
             /\ Cfg!AnswersNumber(answer.u64, 1, Cfg!Denotes(s, 0, MaxU64))
             /\ answer.other = [info |-> "KEY_NOT_FOUND", value |-> 1]
        /\ call.request.fn = "word" =>
             LET lower == [i \in DOMAIN s |-> Cfg!Lower(s[i])]
                 known == lower \in Cfg!TrueWords \cup Cfg!FalseWords
             IN  \A fallback \in BOOLEAN :
                   (IF fallback THEN answer.yes ELSE answer.no) =
                     IF known THEN [info |-> "OK", value |-> lower \in Cfg!TrueWords]
                              ELSE [info |-> "BAD_BOOL", value |-> fallback]
=============================================================================
