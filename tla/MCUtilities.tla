---------------------------- MODULE MCUtilities -----------------------------
(***************************************************************************)
(* The support library, one component at a time: the texts its string and  *)
(* path functions are given, grown by a character per step, or a run of    *)
(* file_util's operations, of a stack trace or of the string registry.     *)
(***************************************************************************)
EXTENDS TextUtil, PathUtil, FileOps, StackTrace, StringRegistry

CONSTANTS MaxLen,      \* bound: characters of a text
          MaxNest, MaxChars, Blocks

ASSUME UtilityConstants == MaxLen \in Nat /\ MaxNest \in Nat /\ MaxChars \in Nat /\ Blocks \subseteq Nat \ {0}

\* Each alphabet holds the characters one group of functions tells apart.
Alphabet == [escapes  |-> {97, 110, NL, TAB, Backslash, Quote},
             utf8     |-> {97, 195, 227, 240, 131, 151},
             pieces   |-> {97, 44, 59},
             brackets |-> {97, 40, 41, 91, 93},
             path     |-> {Sep, Dot, "a"},
             lines    |-> {Newline, CarriageReturn, "a"}]
ByteTexts == {"escapes", "utf8", "pieces", "brackets"}

Delimiters == {<<>>, <<44>>, <<44, 59>>, <<44, 44>>}
Counters == {<<>>, <<"1">>, <<"2">>}
MCStrings == {<<"a">>, <<"b">>, <<"a", "b">>}

VARIABLES component, text
vars == <<component, text, fileVars, traceVars, registryVars>>

\* A component that does not run stays in one of its initial states.
AtRest ==
  /\ component # "trace" => max_frames = 0 /\ buffer_size = 1 /\ ~Llvm /\ ~use_index
  /\ component # "registry" => callers = <<"a">> /\ \A s \in Strings : hash[s] = 0

Init == /\ component \in DOMAIN Alphabet \cup {"files", "trace", "registry"}
        /\ text = <<>> /\ FilesInit /\ TraceInit /\ RegistryInit /\ AtRest

Type(c) == Len(text) < MaxLen /\ text' = Append(text, c)
Full == Len(text) = MaxLen /\ UNCHANGED text

TextStep ==
  /\ component \in DOMAIN Alphabet /\ UNCHANGED <<component, fileVars, traceVars, registryVars>>
  /\ Full \/ \E c \in Alphabet[component] : Type(c)
FileStep ==
  component = "files" /\ FilesNext /\ UNCHANGED <<component, text, traceVars, registryVars>>
TraceStep ==
  component = "trace" /\ TraceNext /\ UNCHANGED <<component, text, fileVars, registryVars>>
RegistryStep ==
  component = "registry" /\ RegistryNext /\ UNCHANGED <<component, text, fileVars, traceVars>>

Next == TextStep \/ FileStep \/ TraceStep \/ RegistryStep
Spec == Init /\ [][Next]_vars
-----------------------------------------------------------------------------
(* string_util *)

\* Byte i of a JSON string is escaped: the backslashes before it are odd in number.
Escaped(js, i) == Quantify(1..i, LAMBDA k : \A m \in k..(i - 1) : js[m] = Backslash) % 2 = 0

RoundTrips(s) ==
  /\ decode_escape(encode_escape(s)) = s
  /\ \A i \in DOMAIN encode_escape(s) : encode_escape(s)[i] \notin {NL, CR, TAB}
  /\ Quote \notin ToSet(s) =>
       \A i \in 2..Len(JsonString(s)) :
         JsonString(s)[i] = Quote /\ ~Escaped(JsonString(s), i) <=> i = Len(JsonString(s))

\* encode_escape puts any text on one line from which decode_escape gets it
\* back, texts that look escaped or end in a backslash included; and where the
\* text has no quote, the JSON string JsonLinesSink writes of it ends at its
\* last quote and no earlier.
EscapeRoundTrips == component \in ByteTexts => RoundTrips(text)

\* The ends of the complete characters among the first n.
CharacterEnds(s, n) ==
  {i + utf8_char_length(s[i]) - 1 :
     i \in {j \in Leads(s) : /\ j + utf8_char_length(s[j]) - 1 <= Len(s)
                            /\ Quantify(Leads(s), LAMBDA k : k <= j) <= n}}

KeepsCharacters(s, n) ==
  /\ IsPrefix(utf8_truncate(s, n), s)
  /\ WellFormed(s) => Len(utf8_truncate(s, n)) = Max({0} \cup CharacterEnds(s, n))

\* utf8_truncate keeps the longest run of whole characters, at most max_chars
\* of them, at the start of a well-formed text, one cut in the middle of a
\* character included; of any other text it still returns a prefix.
TruncateKeepsCharacters ==
  component \in ByteTexts => \A n \in 0..MaxChars : KeepsCharacters(text, n)

Joined(pieces, d) ==
  LET joined[n \in 0..Len(pieces)] ==
        IF n = 0 THEN <<>>
        ELSE joined[n - 1] \o (IF n = 1 THEN pieces[n] ELSE d \o pieces[n])
  IN joined[Len(pieces)]

Rejoins(s, d) ==
  LET pieces == split_string(s, d)
  IN /\ Joined(pieces, d) = s \/ Joined(pieces, d) \o d = s
     /\ d # <<>> => \A i \in DOMAIN pieces : Occurrences(pieces[i], d, 1) = {}

\* The pieces split_string returns, joined by the delimiter, are the text; a
\* delimiter at its very end is dropped.  No piece has the delimiter in it,
\* delimiters that overlap themselves included.
SplitJoins == component \in ByteTexts => \A d \in Delimiters : Rejoins(text, d)

\* The bytes of s at the positions in P, in their order.
Keeping(s, P) == LET at == Ascending(P) IN [k \in DOMAIN at |-> s[at[k]]]

KeepsOutside(s, n) ==
  LET result == remove_bracket(s, n)
      closes == Closes(s, n)
  IN /\ result.overrun <=> NestsTooDeep(s, closes, n)
     /\ ~result.overrun => result.out = Keeping(s, Outside(s, closes))
     /\ AllClosed(s, closes) => ~result.overrun

\* remove_bracket returns the text outside of brackets, at every nesting limit,
\* unless it stores a bracket past the end of its vector.  It does so exactly
\* for a text that nests as deep as half its length below the limit, the text
\* of one opening bracket being the shortest; never where all brackets close.
BracketsRemoved ==
  component \in ByteTexts => \A n \in 0..MaxNest : KeepsOutside(text, n)
-----------------------------------------------------------------------------
(* The pure functions of file_util *)

\* The components of a path, each from where it begins to the separator that
\* ends it, and whether the path starts at the root.
Begins(path) == {i \in DOMAIN path : path[i] # Sep /\ (i = 1 \/ path[i - 1] = Sep)}
EndOf(path, i) == Min({Len(path) + 1} \cup {j \in i..Len(path) : path[j] = Sep})
Components(path) ==
  LET begins == Ascending(Begins(path))
  IN [k \in DOMAIN begins |-> SubSeq(path, begins[k], EndOf(path, begins[k]) - 1)]
Rooted(path) == path # <<>> /\ path[1] = Sep

\* A file in a directory that is not the root.
NamesFile(path) ==
  path # <<>> /\ Last(path) # Sep /\ ~(Rooted(path) /\ Len(Components(path)) = 1)

Beside(archive, path) ==
  /\ Rooted(archive) = Rooted(path) /\ Front(Components(archive)) = Front(Components(path))
  /\ file_extension(archive) = <<"gz">> /\ Components(archive) # Components(path)

\* A log's archives stand in the log's own directory, whatever dots and
\* separators its path has, each under a name of its own; the log of a file
\* directly under the root is the exception, where join_path loses the root.
ArchiveBesideLog ==
  component = "path" /\ NamesFile(text) =>
    /\ \A n \in Counters : Beside(ArchivePath(text, <<"t">>, n), text)
    /\ \A m, n \in Counters : m # n => ArchivePath(text, <<"t">>, m) # ArchivePath(text, <<"t">>, n)

CutsLines(s, block) ==
  LET plain == read_lines_default(s)
  IN /\ read_lines_with_avx2(s, block) = plain
     /\ Len(plain) = Quantify(DOMAIN s, LAMBDA i : s[i] = Newline \/ i = Len(s))
     /\ \A i \in DOMAIN plain : Newline \notin ToSet(plain[i])

\* The AVX2 reader finds the lines the plain one finds, wherever newlines and
\* returns fall in the blocks: one for each newline and one for an unfinished
\* last line, none with a newline in it.
LinesAgree == component = "lines" => \A block \in Blocks : CutsLines(text, block)
=============================================================================
