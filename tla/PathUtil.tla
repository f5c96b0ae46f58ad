------------------------------ MODULE PathUtil ------------------------------
(***************************************************************************)
(* The pure functions of file_util: taking paths apart and putting them    *)
(* together, and cutting a text into lines with and without AVX2.  A path  *)
(* or a text is a sequence of characters.                                  *)
(***************************************************************************)
EXTENDS Integers, Sequences, SequencesExt, FiniteSetsExt

Sep == "/"
Dot == "."

\* find_last_of: the position, or 0.
LastOf(path, c) == Max({0} \cup {i \in DOMAIN path : path[i] = c})
From(path, i) == SubSeq(path, i, Len(path))

parent_dir(path) == SubSeq(path, 1, LastOf(path, Sep) - 1)

\* A slip: a dot in a directory's name counts.
HasExtensionAnywhere(path) == LastOf(path, Dot) > 1

\* A dot that leads the name makes a hidden file, not an extension.
HasExtension(path) ==
  LastOf(path, Dot) # 0 /\ LastOf(path, Dot) > LastOf(path, Sep) + 1

file_extension(path) == IF HasExtension(path) THEN From(path, LastOf(path, Dot) + 1) ELSE <<>>

file_name_without_extension(path) ==
  IF HasExtension(path) THEN SubSeq(path, LastOf(path, Sep) + 1, LastOf(path, Dot) - 1)
                        ELSE From(path, LastOf(path, Sep) + 1)

\* A leading separator goes unless this is the first part, then a trailing one.
sanitize_component(part, isFirst) ==
  LET rest == IF ~isFirst /\ part # <<>> /\ part[1] = Sep THEN Tail(part) ELSE part
  IN IF rest # <<>> /\ Last(rest) = Sep THEN Front(rest) ELSE rest

\* Empty parts are skipped; the first that is not comes without a separator.
JoinOne(joined, part) ==
  LET s == sanitize_component(part, joined = <<>>)
  IN IF s = <<>> THEN joined ELSE IF joined = <<>> THEN s ELSE joined \o <<Sep>> \o s

join_path(parts) ==
  LET joined[n \in 0..Len(parts)] == IF n = 0 THEN <<>> ELSE JoinOne(joined[n - 1], parts[n])
  IN joined[Len(parts)]

\* The archive FileSink and JsonLinesSink make of a log: beside it, its name
\* followed by the time and, from the second on, the digits of a counter.
ArchivePath(path, stamp, digits) ==
  join_path(<<parent_dir(path),
              file_name_without_extension(path) \o <<"_">> \o stamp
              \o (IF digits # <<>> THEN <<"-">> \o digits ELSE <<>>)
              \o <<Dot>> \o file_extension(path) \o <<Dot, "gz">> >>)
-----------------------------------------------------------------------------
Newline == "n"
CarriageReturn == "r"

\* The line from start up to, not including, end, without a final return.
LineOf(text, start, end) ==
  SubSeq(text, start, IF end > start /\ text[end - 1] = CarriageReturn THEN end - 2 ELSE end - 1)

NextLine(text, st) ==
  LET found == {i \in st.pos..Len(text) : text[i] = Newline}
      end == IF found = {} THEN Len(text) + 1 ELSE Min(found)
  IN IF st.pos > Len(text) THEN st
     ELSE [pos |-> end + 1, lines |-> Append(st.lines, LineOf(text, st.pos, end))]

\* The loop, as a function from the number of its rounds.
read_lines_default(text) ==
  LET loop[n \in 0..Len(text)] ==
        IF n = 0 THEN [pos |-> 1, lines |-> <<>>] ELSE NextLine(text, loop[n - 1])
  IN loop[Len(text)].lines

\* A slip: the bytes after the last whole block are not searched.
BlocksOnly(text, block) ==
  {i \in DOMAIN text : text[i] = Newline /\ i <= (Len(text) \div block) * block}

\* The newlines of the whole blocks, by the mask, then those of the rest.
NewlinePositions(text, block) ==
  LET whole == (Len(text) \div block) * block
      InBlock(b) == {b * block + k : k \in {m \in 1..block : text[b * block + m] = Newline}}
  IN (UNION {InBlock(b) : b \in 0..((Len(text) \div block) - 1)})
     \cup {i \in (whole + 1)..Len(text) : text[i] = Newline}

\* Each time the lowest that is left.
Ascending(S) ==
  LET least[n \in 0..Cardinality(S)] ==
        IF n = 0 THEN <<>> ELSE Append(least[n - 1], Min(S \ ToSet(least[n - 1])))
  IN least[Cardinality(S)]

\* block is 32; a last line without a newline is added.
read_lines_with_avx2(text, block) ==
  LET ends == Ascending(NewlinePositions(text, block))
      start(i) == IF i = 1 THEN 1 ELSE ends[i - 1] + 1
      last == start(Len(ends) + 1)
  IN [i \in DOMAIN ends |-> LineOf(text, start(i), ends[i])]
     \o (IF last <= Len(text) THEN <<LineOf(text, last, Len(text) + 1)>> ELSE <<>>)
=============================================================================
