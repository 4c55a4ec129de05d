-------------------------------- MODULE Codec --------------------------------
(***************************************************************************)
(* Texts that one program writes and another reads: forms, queries and     *)
(* cookies (src/luxweb_core/http.cpp), and the string literals, shell      *)
(* words and luxweb.toml of the CLI (src/luxweb_cli/main.cpp).             *)
(*                                                                         *)
(* A text is a sequence of bytes.  The state is what somebody has typed,   *)
(* into the fields of a form, say; the properties compare it with what the *)
(* reader makes of what the writer wrote.  Browsers, compilers and shells  *)
(* are modelled as far as these texts need them.                           *)
(***************************************************************************)
EXTENDS Integers, Sequences, SequencesExt, FiniteSetsExt

CONSTANTS
  Keys,       \* the bytes that can be typed
  MaxBytes,   \* bound on how many are
  MaxFields   \* bound on the fields

Byte == 0 .. 255

Text == Seq(Byte)

ASSUME CodecAssumption == Keys \subseteq Byte /\ MaxBytes \in Nat /\ MaxFields \in Nat

VARIABLE fields  \* what has been typed: a sequence of names and values

Ch == [newline |-> 10, space |-> 32, quote |-> 34, percent |-> 37, ampersand |-> 38,
       apostrophe |-> 39, plus |-> 43, minus |-> 45, semicolon |-> 59,
       equals |-> 61, backslash |-> 92, underscore |-> 95]

Whitespace == (9 .. 13) \cup {Ch.space}

Alnum == (48 .. 57) \cup (65 .. 90) \cup (97 .. 122)

HexValue(c) ==
  CASE c \in 48 .. 57 -> c - 48
    [] c \in 65 .. 70 -> c - 55
    [] c \in 97 .. 102 -> c - 87
    [] OTHER -> -1

IsHex(c) == HexValue(c) >= 0

-----------------------------------------------------------------------------
(* What has become of start when each element has taken its step: step[x]  *)
(* says of every element what becomes of x.                                *)
Reads(step, start, s) ==
  LET at[i \in 0 .. Len(s)] == IF i = 0 THEN start ELSE step[at[i - 1]][s[i]]
  IN  at[Len(s)]

(* What is written on the way from the first position on, when at each     *)
(* out is written and width says how far it is to the next.                *)
Scan(out, width) ==
  LET from[i \in Nat] == IF i \in DOMAIN out THEN out[i] \o from[i + width[i]] ELSE <<>>
  IN  from[1]

(* trim of http.cpp, and of main.cpp: they differ in bytes 11 and 12. *)
Trim(s, blanks) ==
  LET kept == {i \in DOMAIN s : s[i] \notin blanks}
  IN  IF kept = {} THEN <<>> ELSE SubSeq(s, Min(kept), Max(kept))

(* The parts of a text between separators. *)
Split(s, sep) ==
  Reads([parts \in Seq(Text) |-> [c \in Byte |->
           IF c = sep THEN Append(parts, <<>>)
                      ELSE [parts EXCEPT ![Len(parts)] = Append(@, c)]]],
        <<<<>>>>, s)

(* Two characters after a percent sign, as a stream reads a hexadecimal    *)
(* unsigned int from them: blanks and a sign first, and at least one       *)
(* digit; 0x alone is none.  The value is cast to a char.                  *)
NoByte == -256

Cast(value) == value % 256

ReadHex(two) ==
  LET start == SelectInSeq(two, LAMBDA c : c \notin Whitespace)
      sign == IF start = 0 THEN 0 ELSE two[start]
      from == IF sign \in {Ch.plus, Ch.minus} THEN start + 1 ELSE start
      digits == {n \in 1 .. 2 : from <= n /\ \A i \in from .. n : IsHex(two[i])}
      value == IF Cardinality(digits) = 2 THEN 16 * HexValue(two[1]) + HexValue(two[2])
                                          ELSE HexValue(two[from])
  IN  IF start = 0 \/ digits = {} \/ two \in {<<48, 88>>, <<48, 120>>} THEN NoByte
      ELSE Cast(IF sign = Ch.minus THEN -value ELSE value)

(* url_decode: what cannot be read stays as it is. *)
Mutant_OneShort(s, i) ==
  IF s[i] = Ch.percent /\ i + 2 < Len(s) THEN ReadHex(<<s[i + 1], s[i + 2]>>) ELSE NoByte

DecodedByte(s, i) ==
  IF s[i] = Ch.percent /\ i + 2 <= Len(s) THEN ReadHex(<<s[i + 1], s[i + 2]>>) ELSE NoByte

Decoded(c, byte) ==
  CASE byte # NoByte -> [out |-> <<byte>>, width |-> 3]
    [] byte = NoByte /\ c = Ch.plus -> [out |-> <<Ch.space>>, width |-> 1]
    [] byte = NoByte /\ c # Ch.plus -> [out |-> <<c>>, width |-> 1]

DecodeAt(s, i) == Decoded(s[i], DecodedByte(s, i))

UrlDecode(s) == Scan([i \in DOMAIN s |-> DecodeAt(s, i).out], [i \in DOMAIN s |-> DecodeAt(s, i).width])

(* A part is split at its first equals sign, trimmed, and then decoded. *)
Equals(part) == SelectInSeq(part, LAMBDA c : c = Ch.equals)

KeyOf(part) == IF Equals(part) = 0 THEN part ELSE SubSeq(part, 1, Equals(part) - 1)

ValueOf(part) == IF Equals(part) = 0 THEN <<>> ELSE SubSeq(part, Equals(part) + 1, Len(part))

Mutant_DecodeThenTrim(part) ==
  [key |-> Trim(UrlDecode(KeyOf(part)), Whitespace), value |-> Trim(UrlDecode(ValueOf(part)), Whitespace)]

Mutant_NoTrim(part) == [key |-> UrlDecode(KeyOf(part)), value |-> UrlDecode(ValueOf(part))]

Pair(part) ==
  [key |-> UrlDecode(Trim(KeyOf(part), Whitespace)), value |-> UrlDecode(Trim(ValueOf(part), Whitespace))]

(* parse_pairs: empty parts do not count, and of equal keys the last does. *)
PairsOf(parts) == [i \in {j \in DOMAIN parts : parts[j] # <<>>} |-> Pair(parts[i])]

LastOf(pairs) ==
  [key \in {pairs[i].key : i \in DOMAIN pairs} |->
     pairs[Max({i \in DOMAIN pairs : pairs[i].key = key})].value]

ParsePairs(s, sep) == LastOf(PairsOf(Split(s, sep)))

ParseForm(body) == ParsePairs(body, Ch.ampersand)

ParseQuery(query) ==
  ParsePairs(IF query # <<>> /\ query[1] = 63 THEN Tail(query) ELSE query, Ch.ampersand)

ParseCookies(header) == ParsePairs(header, Ch.semicolon)
-----------------------------------------------------------------------------
(* cxx_string_literal, without the quotes around it. *)
Octal(c) == <<Ch.backslash, 48 + (c \div 64), 48 + ((c \div 8) % 8), 48 + (c % 8)>>

Mutant_ShortOctal(c) ==
  CASE c \in {Ch.backslash, Ch.quote} -> <<Ch.backslash, c>>
    [] c \in (32 .. 126) \ {Ch.backslash, Ch.quote} -> <<c>>
    [] c < 8 -> <<Ch.backslash, 48 + c>>
    [] OTHER -> Octal(c)

LiteralByte(c) ==
  CASE c \in {Ch.backslash, Ch.quote} -> <<Ch.backslash, c>>
    [] c = 10 -> <<Ch.backslash, 110>>
    [] c = 13 -> <<Ch.backslash, 114>>
    [] c = 9  -> <<Ch.backslash, 116>>
    [] c \in (32 .. 126) \ {Ch.backslash, Ch.quote} -> <<c>>
    [] OTHER -> Octal(c)

CxxStringLiteral(s) == FlattenSeq([i \in DOMAIN s |-> LiteralByte(s[i])])

(* shell_quote *)
Mutant_Backslash(s) ==
  <<Ch.apostrophe>>
  \o FlattenSeq([i \in DOMAIN s |-> IF s[i] = Ch.apostrophe THEN <<Ch.backslash, s[i]>> ELSE <<s[i]>>])
  \o <<Ch.apostrophe>>

ShellQuote(s) ==
  LET escaped == <<Ch.apostrophe, Ch.backslash, Ch.apostrophe, Ch.apostrophe>>
  IN  <<Ch.apostrophe>>
      \o FlattenSeq([i \in DOMAIN s |-> IF s[i] = Ch.apostrophe THEN escaped ELSE <<s[i]>>])
      \o <<Ch.apostrophe>>

(* app_name_from_path, of the last name of the path. *)
Mutant_AsItIs(filename) == filename

AppName(filename) ==
  IF filename = <<>> THEN <<108>>   \* "luxweb_app"
  ELSE [i \in DOMAIN filename |->
          IF filename[i] \in Alnum \cup {Ch.underscore, Ch.minus} THEN filename[i] ELSE Ch.underscore]

(* The name in luxweb.toml, as new_app writes it and read_config reads it. *)
NameKey == <<110>>   \* "name"

TomlName(name) == NameKey \o <<Ch.space, Ch.equals, Ch.space, Ch.quote>> \o name \o <<Ch.quote, Ch.newline>>

Unquoted(v) ==
  IF Len(v) >= 2 /\ v[1] = Ch.quote /\ Last(v) = Ch.quote THEN SubSeq(v, 2, Len(v) - 1) ELSE v

NameAfter(name, raw) ==
  LET blanks == {9, 10, 13, Ch.space}
      line == Trim(raw, blanks)
      isName == Equals(line) > 0 /\ line[1] # 35 /\ Trim(KeyOf(line), blanks) = NameKey
  IN  IF isName THEN Unquoted(Trim(ValueOf(line), blanks)) ELSE name

ConfigName(toml) ==
  Reads([name \in Text |-> [raw \in Text |-> NameAfter(name, raw)]], <<>>, Split(toml, Ch.newline))
-----------------------------------------------------------------------------
(* The browser: application/x-www-form-urlencoded, and the header Cookie,  *)
(* in which names and values are trimmed, and have no semicolon.           *)
UrlCode(c) ==
  LET upper(d) == IF d < 10 THEN 48 + d ELSE 55 + d
  IN  CASE c \in Alnum \cup {42, Ch.minus, 46, Ch.underscore} -> <<c>>
        [] c = Ch.space -> <<Ch.plus>>
        [] OTHER -> <<Ch.percent, upper(c \div 16), upper(c % 16)>>

UrlEncode(s) == FlattenSeq([i \in DOMAIN s |-> UrlCode(s[i])])

EncodeForm(form) ==
  FlattenSeq([i \in DOMAIN form |->
    (IF i = 1 THEN <<>> ELSE <<Ch.ampersand>>)
      \o UrlEncode(form[i].name) \o <<Ch.equals>> \o UrlEncode(form[i].value)])

CookieHeader(jar) ==
  FlattenSeq([i \in DOMAIN jar |->
    (IF i = 1 THEN <<>> ELSE <<Ch.semicolon, Ch.space>>)
      \o (IF jar[i].name = <<>> THEN <<>> ELSE jar[i].name \o <<Ch.equals>>) \o jar[i].value])

IsCookie(field) ==
  /\ field.name # <<>> \/ field.value # <<>>
  /\ \A s \in {field.name, field.value} :
       /\ Trim(s, Whitespace) = s
       /\ \A i \in DOMAIN s : s[i] # Ch.semicolon /\ s[i] >= 32
  /\ ~Contains(field.name, Ch.equals)
  /\ field.name = <<>> => ~Contains(field.value, Ch.equals)

(* A C++ compiler: up to three octal digits are one byte. *)
Broken == <<-1>>

Digits(s, i) == Max({n \in 0 .. 3 : i + n <= Len(s) /\ \A j \in 1 .. n : s[i + j] \in 48 .. 55})

OctalValue(digits) == Reads([v \in Int |-> [c \in Int |-> 8 * v + (c - 48)]], 0, digits)

Named == [c \in {110, 114, 116, Ch.quote, Ch.backslash} |->
            CASE c = 110 -> 10 [] c = 114 -> 13 [] c = 116 -> 9 [] OTHER -> c]

LiteralAt(s, i) ==
  CASE s[i] \in {Ch.quote, Ch.newline} -> [out |-> Broken, width |-> Len(s) + 1 - i]
    [] s[i] \notin {Ch.quote, Ch.newline, Ch.backslash} -> [out |-> <<s[i]>>, width |-> 1]
    [] s[i] = Ch.backslash /\ Digits(s, i) > 0 ->
         [out |-> <<OctalValue(SubSeq(s, i + 1, i + Digits(s, i)))>>, width |-> 1 + Digits(s, i)]
    [] s[i] = Ch.backslash /\ i < Len(s) /\ s[i + 1] \in DOMAIN Named ->
         [out |-> <<Named[s[i + 1]]>>, width |-> 2]
    [] OTHER -> [out |-> Broken, width |-> Len(s) + 1 - i]

ReadLiteral(s) == Scan([i \in DOMAIN s |-> LiteralAt(s, i).out], [i \in DOMAIN s |-> LiteralAt(s, i).width])

(* A POSIX shell: what is not plain outside of quotes ends the word.       *)
ShellState == [mode : {"plain", "quoted", "escaped", "broken"}, word : Text]

ShellRead(st, c) ==
  CASE st.mode = "quoted" /\ c # Ch.apostrophe -> [st EXCEPT !.word = Append(@, c)]
    [] st.mode = "quoted" /\ c = Ch.apostrophe -> [st EXCEPT !.mode = "plain"]
    [] st.mode = "plain" /\ c = Ch.apostrophe -> [st EXCEPT !.mode = "quoted"]
    [] st.mode = "plain" /\ c = Ch.backslash -> [st EXCEPT !.mode = "escaped"]
    [] \/ st.mode = "escaped" /\ c # Ch.newline
       \/ st.mode = "plain" /\ c \in Alnum -> [mode |-> "plain", word |-> Append(st.word, c)]
    [] OTHER -> [st EXCEPT !.mode = "broken"]

ShellWord(s) ==
  LET end == Reads([st \in ShellState |-> [c \in Byte |-> ShellRead(st, c)]],
                   [mode |-> "plain", word |-> <<>>], s)
  IN  IF end.mode = "plain" THEN end.word ELSE Broken

-----------------------------------------------------------------------------
Field == [name |-> <<>>, value |-> <<>>]

Init == fields = <<Field>>

Typed == Reads([n \in Nat |-> [f \in [name : Text, value : Text] |-> n + Len(f.name) + Len(f.value)]],
               0, fields)

TypeName ==
  /\ Typed < MaxBytes /\ Last(fields).value = <<>>
  /\ \E c \in Keys : fields' = [fields EXCEPT ![Len(fields)].name = Append(@, c)]

TypeValue ==
  /\ Typed < MaxBytes
  /\ \E c \in Keys : fields' = [fields EXCEPT ![Len(fields)].value = Append(@, c)]

NextField == Len(fields) < MaxFields /\ fields' = Append(fields, Field)

Next == TypeName \/ TypeValue \/ NextField

Spec == Init /\ [][Next]_fields

-----------------------------------------------------------------------------
Texts == {fields[i].name : i \in DOMAIN fields} \cup {fields[i].value : i \in DOMAIN fields}

(* What a percent sign and two hexadecimal digits stand for, wherever they *)
(* are: application/x-www-form-urlencoded, as it is defined.               *)
IsEscape(s, i) == s[i] = Ch.percent /\ i + 2 <= Len(s) /\ IsHex(s[i + 1]) /\ IsHex(s[i + 2])

PercentDecode(s) ==
  FlattenSeq([i \in DOMAIN s |->
    IF \E n \in 1 .. 2 : n < i /\ IsEscape(s, i - n) THEN <<>>
    ELSE IF IsEscape(s, i) THEN <<16 * HexValue(s[i + 1]) + HexValue(s[i + 2])>>
    ELSE IF s[i] = Ch.plus THEN <<Ch.space>> ELSE <<s[i]>>])

(* What is no escape, but a number for a stream: one digit, with a blank   *)
(* or a sign before it, or whatever is no digit after it.                  *)
IsLoose(a, b) ==
  \/ IsHex(a) /\ ~IsHex(b) /\ ~(a = 48 /\ b \in {88, 120})
  \/ a \in Whitespace \cup {Ch.plus, Ch.minus} /\ IsHex(b)

HasLoose(s) == \E i \in DOMAIN s : s[i] = Ch.percent /\ i + 2 <= Len(s) /\ IsLoose(s[i + 1], s[i + 2])

(* http.cpp:114-135: of whatever is sent, url_decode reads the escapes and *)
(* leaves all else as it is, a percent sign at the end or before another   *)
(* one too, exactly when no percent sign comes before what only the stream *)
(* takes for a number: it reads a byte of %4g and of %-1.                  *)
EscapesAreRead == \A s \in Texts : UrlDecode(s) = PercentDecode(s) <=> ~HasLoose(s)

(* auth.cpp:32-34 read what was typed: the form a browser encodes, in a    *)
(* body or after a question mark, is read back byte by byte, blanks at the *)
(* ends included; of fields with one name the last counts.                 *)
FormIsReadBack ==
  LET last(name) == fields[Max({i \in DOMAIN fields : fields[i].name = name})].value
      typed == [name \in {fields[i].name : i \in DOMAIN fields} |-> last(name)]
  IN  /\ ParseForm(EncodeForm(fields)) = typed
      /\ ParseQuery(EncodeForm(fields)) = typed

(* auth.cpp:12, 63: whichever cookies a browser has beside the session's,  *)
(* before and after it, the session's token is read back, unless another   *)
(* cookie has its name, or one that is decoded to it.                      *)
SessionName == <<97>>

Token == <<52, 97>>

SessionIsReadBack ==
  LET parsed == ParseCookies(CookieHeader(fields))
  IN  (\A i \in DOMAIN fields : IsCookie(fields[i])) /\ SessionName \notin DOMAIN parsed =>
        \A i \in 1 .. Len(fields) + 1 :
          LET jar == InsertAt(fields, i, [name |-> SessionName, value |-> Token])
          IN  ParseCookies(CookieHeader(jar)) =
                [name \in DOMAIN parsed \cup {SessionName} |-> IF name = SessionName THEN Token ELSE parsed[name]]

(* main.cpp:210: a template or a public file is the same bytes in the      *)
(* generated C++, whatever character comes after an octal one.             *)
LiteralIsItsBytes == \A s \in Texts : ReadLiteral(CxxStringLiteral(s)) = s

(* main.cpp:440-447, 506-528: a path or an argument is one word of the     *)
(* command, whatever is in it.                                             *)
QuotedIsOneWord == \A s \in Texts : ShellWord(ShellQuote(s)) = s

(* main.cpp:245-253 and 79-112: the name luxweb new has written for a      *)
(* directory is the one that build, dev and serve read.                    *)
NameIsReadBack == \A s \in Texts : ConfigName(TomlName(AppName(s))) = AppName(s)
=============================================================================
