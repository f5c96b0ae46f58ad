------------------------------ MODULE TextUtil ------------------------------
(***************************************************************************)
(* The pure string algorithms of string_util: escaping, truncation at a    *)
(* UTF-8 character, splitting and the removal of bracketed text, each      *)
(* beside the definition it has to agree with.  A string is a sequence of  *)
(* bytes; a loop is a function from the number of its rounds to what they  *)
(* leave in its variables.                                                 *)
(***************************************************************************)
EXTENDS Integers, Sequences, SequencesExt, FiniteSetsExt

TAB == 9
NL == 10
CR == 13
Quote == 34
Backslash == 92
EscapeLetter == [c \in {NL, CR, TAB, Backslash} |->
                   CASE c = NL -> 110 [] c = CR -> 114 [] c = TAB -> 116 [] c = Backslash -> Backslash]

\* A slip: the backslash is not escaped itself.
EncodedPlain(c) == IF c \in DOMAIN EscapeLetter \ {Backslash}
                   THEN <<Backslash, EscapeLetter[c]>> ELSE <<c>>

Encoded(c) == IF c \in DOMAIN EscapeLetter THEN <<Backslash, EscapeLetter[c]>> ELSE <<c>>

encode_escape(s) ==
  LET out[n \in 0..Len(s)] == IF n = 0 THEN <<>> ELSE out[n - 1] \o Encoded(s[n])
  IN out[Len(s)]

\* A backslash that starts no escape, the last byte included, stands for itself.
IsEscape(s, i) == /\ s[i] = Backslash /\ i < Len(s)
                  /\ \E c \in DOMAIN EscapeLetter : EscapeLetter[c] = s[i + 1]

DecodeOne(s, st) ==
  IF st.i > Len(s) THEN st
  ELSE IF IsEscape(s, st.i)
       THEN [i   |-> st.i + 2,
             out |-> Append(st.out, CHOOSE c \in DOMAIN EscapeLetter : EscapeLetter[c] = s[st.i + 1])]
       ELSE [i |-> st.i + 1, out |-> Append(st.out, s[st.i])]

decode_escape(s) ==
  LET loop[n \in 0..Len(s)] ==
        IF n = 0 THEN [i |-> 1, out |-> <<>>] ELSE DecodeOne(s, loop[n - 1])
  IN loop[Len(s)].out

\* What JsonLinesSink::on_log writes between the quotes of "message".
JsonString(s) == <<Quote>> \o encode_escape(s) \o <<Quote>>
-----------------------------------------------------------------------------
\* A byte that leads nothing counts as a character of its own.
utf8_char_length(lead) ==
  CASE lead \in 192..223 -> 2 [] lead \in 224..239 -> 3 [] lead \in 240..247 -> 4 [] OTHER -> 1

\* Past the character behind the first i bytes, unless it is incomplete.
AdvanceOne(s, i) ==
  IF i >= Len(s) \/ i + utf8_char_length(s[i + 1]) > Len(s) THEN i
  ELSE i + utf8_char_length(s[i + 1])

\* A slip: the cut is made after max_chars bytes.
truncate_bytes(s, max_chars) == SubSeq(s, 1, Min({max_chars, Len(s)}))

utf8_truncate(s, max_chars) ==
  LET i[chars \in 0..max_chars] == IF chars = 0 THEN 0 ELSE AdvanceOne(s, i[chars - 1])
  IN SubSeq(s, 1, i[max_chars])
-----------------------------------------------------------------------------
Occurrences(s, d, pos) == {p \in pos..(Len(s) - Len(d) + 1) : SubSeq(s, p, p + Len(d) - 1) = d}

SplitOne(s, d, st) ==
  LET found == Occurrences(s, d, st.pos)
  IN IF st.pos > Len(s) THEN st
     ELSE IF found = {}
          THEN [pos |-> Len(s) + 1, out |-> Append(st.out, SubSeq(s, st.pos, Len(s)))]
          ELSE [pos |-> Min(found) + Len(d),
                out |-> Append(st.out, SubSeq(s, st.pos, Min(found) - 1))]

SplitAt(s, d) ==
  LET loop[n \in 0..Len(s)] ==
        IF n = 0 THEN [pos |-> 1, out |-> <<>>] ELSE SplitOne(s, d, loop[n - 1])
  IN loop[Len(s)].out

\* A slip: only the first byte of the delimiter is looked for.
split_short(s, d) == IF d = <<>> THEN <<>> ELSE SplitAt(s, <<d[1]>>)

\* An empty delimiter makes a token of each byte.
split_string(s, d) == IF d = <<>> THEN [i \in DOMAIN s |-> <<s[i]>>] ELSE SplitAt(s, d)
-----------------------------------------------------------------------------
\* make_bracket_table: positive for an opening bracket, negative for its partner.
BracketTable == [c \in {40, 41, 123, 125, 91, 93, 60, 62} |->
                   CASE c = 40 -> 1 [] c = 123 -> 2 [] c = 91 -> 3 [] c = 60 -> 4
                     [] c = 41 -> -1 [] c = 125 -> -2 [] c = 93 -> -3 [] c = 62 -> -4]
Bracket(c) == IF c \in DOMAIN BracketTable THEN BracketTable[c] ELSE 0

\* The vector has half as many slots as the text has bytes, but an opening
\* bracket is stored at any depth below max_nest_size.
StackSlots(s, maxNest) == Min({Len(s) \div 2, maxNest})

\* A slip: any closing bracket closes the innermost one.
MatchesAny(st, b) == TRUE

\* stack[depth - 1] == -bracket_type
Matches(st, b) == st.stack[st.depth] = -b

\* overrun: a bracket was stored past the end of the vector, at the null pointer
\* of an empty one; what the call does from there on is undefined.
StepOn(st, c, slots, maxNest) ==
  LET b == Bracket(c)
      pastEnd == b > 0 /\ st.depth \in slots..(maxNest - 1)
      closes  == b < 0 /\ st.depth > 0 /\ (st.depth > maxNest \/ Matches(st, b))
  IN IF st.overrun \/ pastEnd THEN [st EXCEPT !.overrun = TRUE]
     ELSE CASE b > 0 -> [st EXCEPT !.depth = @ + 1,
                                   !.stack = IF st.depth < slots THEN SubSeq(@, 1, st.depth) \o <<b>> ELSE @]
            [] closes -> [st EXCEPT !.depth = @ - 1]
            [] b = 0 /\ st.depth = 0 -> [st EXCEPT !.out = Append(@, c)]
            [] OTHER -> st

remove_bracket(s, maxNest) ==
  LET loop[n \in 0..Len(s)] ==
        IF n = 0 THEN [depth |-> 0, stack |-> <<>>, out |-> <<>>, overrun |-> FALSE]
        ELSE StepOn(loop[n - 1], s[n], StackSlots(s, maxNest), maxNest)
  IN loop[Len(s)]
-----------------------------------------------------------------------------
(* What the algorithms have to agree with *)

\* The text as characters: the positions of the lead bytes of a well-formed
\* text, in which each is followed by the continuation bytes it announces and
\* then by the next; the end of the text may cut the last one.
Continuation == 128..191
Leads(s) == {i \in DOMAIN s : s[i] \notin Continuation}
WellFormed(s) ==
  /\ s # <<>> => 1 \in Leads(s)
  /\ \A i \in Leads(s) :
       LET next == i + utf8_char_length(s[i])
       IN \A k \in (i + 1)..Min({next, Len(s)}) : k \in Leads(s) <=> k = next

\* Bracket m is open when byte i comes, where closes[c] are those byte c closes.
IsOpen(s, closes, m, i) == Bracket(s[m]) > 0 /\ \A c \in (m + 1)..(i - 1) : m \notin closes[c]
OpenBefore(s, closes, i) == {m \in 1..(i - 1) : IsOpen(s, closes, m, i)}

\* The brackets byte k closes, one at most: a closing bracket closes one of
\* its kind in which every other has been closed; deeper than maxNest, one of
\* any kind.
Closes(s, maxNest) ==
  LET closes[k \in 1..Len(s)] ==
        {j \in 1..(k - 1) :
           /\ Bracket(s[k]) < 0 /\ IsOpen(s, closes, j, k)
           /\ \A m \in (j + 1)..(k - 1) : ~IsOpen(s, closes, m, k)
           /\ \/ Bracket(s[k]) = -Bracket(s[j])
              \/ Cardinality(OpenBefore(s, closes, j)) >= maxNest}
  IN closes

\* The bytes that are no brackets and in none.
Outside(s, closes) == {i \in DOMAIN s : Bracket(s[i]) = 0 /\ OpenBefore(s, closes, i) = {}}

\* A bracket opens inside of as many as the vector has slots, or of more, below
\* the nesting limit.
NestsTooDeep(s, closes, maxNest) ==
  \E i \in DOMAIN s :
    /\ Bracket(s[i]) > 0
    /\ Cardinality(OpenBefore(s, closes, i)) \in StackSlots(s, maxNest)..(maxNest - 1)

\* Every bracket of the text that opens is closed in it.
AllClosed(s, closes) == OpenBefore(s, closes, Len(s) + 1) = {}
=============================================================================
