----------------------------- MODULE IniParser -----------------------------
(***************************************************************************)
(* The parser of BOOT.INI (iniparser/parser.c and util.c, the same text in *)
(* NLoader, CLoader and biosloader).  LoadIniFile gives it the bytes of    *)
(* the file, with one '\0' behind them; the settings are asked for one by  *)
(* one.  Nothing is copied or cut into lines: every call scans the bytes,  *)
(* and only some of its loops look where the file ends.                    *)
(*                                                                         *)
(* A byte is a one-letter string; lines is the file as its author sees it, *)
(* text what the parser sees.                                              *)
(***************************************************************************)
EXTENDS Integers, Sequences, SequencesExt, FiniteSetsExt

CONSTANTS
  Files,          \* sequences of lines: [lead, name, sep, value, end]
  Parameters,     \* names the loaders ask for
  BufferLengths,  \* ulLength: what GetIniString's callers have room for
  BoolLength,     \* MAX_BOOL_STRING_LEN
  Behind,         \* what may be the first byte behind the '\0'
  ByteValues, WordValues, DwordValues  \* 2^8, 2^16, 2^32

ASSUME IniAssumption ==
  /\ BufferLengths \subseteq Nat \ {0} /\ BoolLength \in Nat
  /\ {ByteValues, WordValues, DwordValues} \subseteq Nat \ {0}
  /\ \A f \in Files : f # <<>>

VARIABLES
  lines,   \* the file
  junk,    \* the first byte behind the '\0'
  answer   \* the last call and what it returned, or "none"

iniVars == <<lines, junk, answer>>

NUL == "NUL"
EndOfLine == {"CR", "LF"}

(* The bytes of a line: "#" or "[" in front for a comment or a section,    *)
(* perhaps no "=" and, in the last line, perhaps no end.                   *)
LineBytes(l) == l.lead \o l.name \o l.sep \o l.value \o l.end
text == FlattenSeq([i \in DOMAIN lines |-> LineBytes(lines[i])])

(* What a pointer to the i-th byte reads: the '\0' that LoadIniFile puts   *)
(* behind the file, one byte of the heap, zeros.                           *)
At(i) == IF i <= Len(text) THEN text[i]
         ELSE IF i = Len(text) + 2 THEN junk ELSE NUL

-----------------------------------------------------------------------------
(* LocateParameterValue                                                    *)

Entries ==
  {i \in 1 .. Len(text) :
     /\ text[i] \notin EndOfLine \cup {"[", "#"}
     /\ i = 1 \/ text[i - 1] \in EndOfLine}

Agrees(i, name) == \A k \in 1 .. Len(name) : At(i + k - 1) = name[k]

(* Bug: a longer name that begins with the parameter's is taken.           *)
HitsByPrefix(name) == {i \in Entries : Agrees(i, name)}
Hits(name) == {i \in Entries : Agrees(i, name) /\ At(i + Len(name)) = "="}

(* The comparison does not stop at the '\0' that ends both the name and    *)
(* the file: it goes on through whatever is behind the two.                *)
RunsOff(name) ==
  {i \in Entries : Agrees(i, name) /\ i + Len(name) = Len(text) + 1}

(* The results the call may have: status and the place of the value.       *)
LocateParameterValue(name) ==
  LET ends == Hits(name) \cup RunsOff(name)
      Result(s, p) == [status |-> s, place |-> p]
  IN  IF ends = {} THEN {Result("not found", 0)}
      ELSE IF Min(ends) \in Hits(name)
           THEN {Result("ok", Min(ends) + Len(name) + 1)}
           ELSE {Result("not found", 0), Result("parse error", 0),
                 Result("ok", Len(text) + 2)}

-----------------------------------------------------------------------------
(* GetIniString                                                            *)

(* The characters before the next end of line, room of them at most.       *)
Copied(p, room) ==
  [k \in 1 .. Min({n \in 0 .. room : n = room \/ At(p + n) \in EndOfLine})
     |-> At(p + k - 1)]

(* The copy takes one off the length for the character that ends it too:   *)
(* after a shorter value the last byte of the buffer is not reached.  When *)
(* no character ended it, the length has gone below 0: "all" memory behind *)
(* the buffer is filled.                                                   *)
Filled(p, room) ==
  LET n == Len(Copied(p, room))
  IN  [value |-> Copied(p, room),
       zeros |-> IF n < room THEN room - n - 1 ELSE DwordValues - 1]

GetIniString(name, room) ==
  {IF r.status = "ok" THEN [status |-> "ok"] @@ Filled(r.place, room)
   ELSE [status |-> r.status, value |-> <<>>, zeros |-> 0]
     : r \in LocateParameterValue(name)}

(* Counts to the next end of line, wherever that is; -1 for never.         *)
GetIniStringLen(name) ==
  {[length |->
      IF r.status # "ok" THEN 0
      ELSE LET stops == {n \in 0 .. Len(text) + 2 : At(r.place + n) \in EndOfLine}
           IN  IF stops = {} THEN -1 ELSE Min(stops)]
     : r \in LocateParameterValue(name)}

-----------------------------------------------------------------------------
(* ParseInteger and what is made of its result                             *)

Decimal == [d \in {"0", "1", "2", "3", "4", "5", "6", "7", "8", "9"} |->
  CASE d = "0" -> 0 [] d = "1" -> 1 [] d = "2" -> 2 [] d = "3" -> 3
    [] d = "4" -> 4 [] d = "5" -> 5 [] d = "6" -> 6 [] d = "7" -> 7
    [] d = "8" -> 8 [] d = "9" -> 9]
Hexadecimal ==
  Decimal @@ [d \in {"A", "B", "C", "D", "E", "F",
                     "a", "b", "c", "d", "e", "f"} |->
  CASE d \in {"A", "a"} -> 10 [] d \in {"B", "b"} -> 11 [] d \in {"C", "c"} -> 12
    [] d \in {"D", "d"} -> 13 [] d \in {"E", "e"} -> 14 [] d \in {"F", "f"} -> 15]

(* The digits at p; a text or what is behind it has an end.                *)
Digits(p, digit) ==
  [k \in 1 .. Min({n \in 0 .. Len(text) + 3 : At(p + n) \notin DOMAIN digit})
     |-> digit[At(p + k - 1)]]

(* ParseDec and ParseHex, in the width of a ULONG.                         *)
Number(digits, base) ==
  FoldLeft(LAMBDA sum, d : (sum * base + d) % DwordValues, 0, digits)

ParseInteger(p) ==
  LET hex == At(p) = "0" /\ At(p + 1) = "x"
      digits == IF hex THEN Digits(p + 2, Hexadecimal) ELSE Digits(p, Decimal)
  IN  [digits |-> Len(digits), number |-> Number(digits, IF hex THEN 16 ELSE 10)]

(* GetIniDword; GetIniWord and GetIniByte keep the low bits.               *)
GetIniNumber(name, size) ==
  {IF r.status # "ok" THEN [status |-> r.status, number |-> 0]
   ELSE IF ParseInteger(r.place).digits = 0
        THEN [status |-> "parse error", number |-> 0]
        ELSE [status |-> "ok", number |-> ParseInteger(r.place).number % size]
     : r \in LocateParameterValue(name)}

TrueWords ==
  {<<"o", "n">>, <<"y", "e", "s">>, <<"t", "r", "u", "e">>, <<"1">>}

(* GetIniBool: anything but the words is FALSE, a parameter that is not    *)
(* there keeps the caller's value.                                         *)
GetIniBool(name) ==
  {[status |-> r.status, zeros |-> r.zeros, true |-> r.value \in TrueWords]
     : r \in GetIniString(name, BoolLength + 1)}

-----------------------------------------------------------------------------
(* The last call: what was asked for, with which length, and the result.   *)
Answers(call, name, size, results) ==
  {[call |-> call, name |-> name, size |-> size, result |-> r] : r \in results}

IniInit ==
  /\ lines \in Files /\ junk \in Behind
  /\ answer = [call |-> "none"]

AskString ==
  \E name \in Parameters, room \in BufferLengths :
    answer' \in Answers("string", name, room, GetIniString(name, room))
AskLength ==
  \E name \in Parameters :
    answer' \in Answers("length", name, 0, GetIniStringLen(name))
AskNumber ==
  \E name \in Parameters, size \in {ByteValues, WordValues, DwordValues} :
    answer' \in Answers("number", name, size, GetIniNumber(name, size))
AskBool ==
  \E name \in Parameters :
    answer' \in Answers("bool", name, BoolLength + 1, GetIniBool(name))

(* A call changes nothing the next one sees: one per file is enough.       *)
IniNext ==
  /\ answer.call = "none"
  /\ AskString \/ AskLength \/ AskNumber \/ AskBool
  /\ UNCHANGED <<lines, junk>>

IniSpec == IniInit /\ [][IniNext]_iniVars

-----------------------------------------------------------------------------
(* Properties                                                              *)

(* How many digits a value begins with, and what they say by their places. *)
Leading(v, digit) ==
  Min({n \in 0 .. Len(v) : n = Len(v) \/ v[n + 1] \notin DOMAIN digit})
ByPlaces(v, digit, base) ==
  LET n == Leading(v, digit)
  IN  MapThenSumSet(LAMBDA k : digit[v[k]] * base ^ (n - k), 1 .. n)

IsHex(v) == Len(v) > 1 /\ v[1] = "0" /\ v[2] = "x"
Plain(v) == IF IsHex(v) THEN SubSeq(v, 3, Len(v)) ELSE v
System(v) == IF IsHex(v) THEN Hexadecimal ELSE Decimal
Meaning(v) == ByPlaces(Plain(v), System(v), IF IsHex(v) THEN 16 ELSE 10)

(* The lines that give the name asked for a value, as the file's author    *)
(* means them: comments, sections and lines without "=" do not.            *)
Given ==
  {i \in DOMAIN lines : /\ lines[i].lead = <<>> /\ lines[i].sep # <<>>
                        /\ lines[i].name = answer.name}
GivenValue == lines[Min(Given)].value
Called(call) == answer.call = call

(* Of a file whose lines all end, every call returns what the first line   *)
(* of that name says, and nothing of any other line: the string with every *)
(* byte behind it set to '\0' but perhaps the last, its length, the number *)
(* in the width asked for, the truth; a name without a line is not found.  *)
(* Only a value shorter than its buffer is promised; that its last byte is *)
(* left out is a matter of StringFillsBuffer.                              *)
ParserRight ==
  answer.call # "none" /\ Last(lines).end # <<>> =>
    LET res == answer.result
    IN  IF Given = {}
        THEN IF Called("length") THEN res.length = 0 ELSE res.status = "not found"
        ELSE LET v == GivenValue
             IN  /\ Called("string") /\ Len(v) < answer.size =>
                      /\ res.status = "ok" /\ res.value = v
                      /\ answer.size - Len(v) - res.zeros \in {0, 1}
                 /\ Called("length") => res.length = Len(v)
                 /\ Called("number") =>
                      IF Leading(Plain(v), System(v)) = 0
                      THEN res.status = "parse error"
                      ELSE res.status = "ok" /\ res.number = Meaning(v) % answer.size
                 /\ Called("bool") /\ Len(v) <= BoolLength =>
                      res.status = "ok" /\ res.true = (v \in TrueWords)

(* "If parameter value is shorter than ulLength, the remainig bytes of the *)
(* buffer will be filled with '\0' characters.  If parameter value length  *)
(* is ulLength then no '\0' character will be written.  If parameter value *)
(* is longer than ulLength only the first ulLength characters will be      *)
(* stored in the buffer." (iniparser/parser.c:185-190)  Together: value    *)
(* and zeros are as many bytes as the buffer has.                          *)
StringFillsBuffer ==
  Called("string") /\ answer.result.status = "ok" =>
    Len(answer.result.value) + answer.result.zeros = answer.size
=============================================================================
