--------------------------- MODULE StringRegistry ---------------------------
(***************************************************************************)
(* StringRegistry: strings under 16-bit ids.  The table holds views: of    *)
(* literals, which live for ever, of memory the caller keeps and may       *)
(* change, and of the arena, into which register_string_arena copies.      *)
(***************************************************************************)
EXTENDS Integers, Sequences

CONSTANTS Strings,      \* the strings that are registered, as sequences of characters
          kUint16Max,
          ArenaSize,    \* kInitialArenaSize
          MaxChanges    \* bound: changes of the caller's string

Characters == UNION {{s[i] : i \in 1..Len(s)} : s \in Strings}

ASSUME RegistryConstants ==
  /\ kUint16Max \in Nat \ {0} /\ ArenaSize \in Nat /\ MaxChanges \in Nat
  /\ Strings \subseteq Seq(Characters)

VARIABLES hash,      \* hash_string: any function to 16 bits, collisions included
          table_, arena, arena_size_,
          callers,   \* the caller's own string, which it registers and changes
          changes,
          last       \* ghost: what was registered last under each id, after which changes

registryVars == <<hash, table_, arena, arena_size_, callers, changes, last>>

kLiteralLogStringId == kUint16Max
Ids == 0..kUint16Max

Literal(s) == [of |-> "literal", str |-> s, at |-> 0, len |-> Len(s)]
Callers    == [of |-> "caller", str |-> <<>>, at |-> 0, len |-> Len(callers)]
InArena(n) == [of |-> "arena", str |-> <<>>, at |-> arena_size_, len |-> n]

RegistryInit ==
  /\ hash \in [Strings -> Ids]
  /\ table_ = [id \in Ids |-> Literal(<<>>)]
  /\ arena = <<>> /\ arena_size_ = 0
  /\ callers \in Strings /\ changes = 0
  /\ last = [id \in Ids |-> [str |-> <<>>, changes |-> 0]]

\* The id of literal entries is not given away: its neighbour stands in.
get_string_id(s) == IF hash[s] = kLiteralLogStringId THEN kLiteralLogStringId - 1 ELSE hash[s]

get_string(id) ==
  LET v == table_[id]
  IN CASE v.of = "literal" -> v.str
       [] v.of = "caller"  -> [i \in 1..v.len |-> IF i \in DOMAIN callers THEN callers[i] ELSE "?"]
       [] v.of = "arena"   -> SubSeq(arena, v.at + 1, v.at + v.len)

Registered(id, str) == last' = [last EXCEPT ![id] = [str |-> str, changes |-> changes]]

\* A debug build asserts that id is not the literal entries' one.
Set(id, view) == table_' = [table_ EXCEPT ![id] = view]

\* register_string<fixed_str>, by every log call with arguments.
RegisterLiteral(s) ==
  /\ Set(get_string_id(s), Literal(s)) /\ Registered(get_string_id(s), s)
  /\ UNCHANGED <<hash, arena, arena_size_, callers, changes>>

\* register_string(id, view)
RegisterView(id) ==
  /\ id # kLiteralLogStringId
  /\ Set(id, Callers) /\ Registered(id, callers)
  /\ UNCHANGED <<hash, arena, arena_size_, callers, changes>>

\* A slip: arena_size_ is not advanced.
NotAdvanced(n) == arena_size_

Advanced(n) == arena_size_ + n

\* register_string_arena(id, view) of the caller's string.  One that reads the
\* same is left, wherever it is.  Only a debug build asserts that there is room.
RegisterArena(id) ==
  /\ id # kLiteralLogStringId /\ arena_size_ + Len(callers) <= ArenaSize
  /\ IF get_string(id) # <<>> /\ get_string(id) = callers
     THEN UNCHANGED <<table_, arena, arena_size_>>
     ELSE /\ arena' = SubSeq(arena, 1, arena_size_) \o callers
          /\ Set(id, InArena(Len(callers)))
          /\ arena_size_' = Advanced(Len(callers))
  /\ Registered(id, callers)
  /\ UNCHANGED <<hash, callers, changes>>

\* The caller reuses its memory.
Change(s) ==
  /\ changes < MaxChanges /\ changes' = changes + 1 /\ callers' = s
  /\ UNCHANGED <<hash, table_, arena, arena_size_, last>>

RegistryNext ==
  \/ \E s \in Strings : RegisterLiteral(s) \/ Change(s)
  \/ \E id \in Ids : RegisterView(id) \/ RegisterArena(id)

RegistrySpec == RegistryInit /\ [][RegistryNext]_registryVars
-----------------------------------------------------------------------------
\* get_string returns what was registered last under an id, by whichever way,
\* unless it is a view of the caller's memory and the caller has changed that
\* since.  Such a view may be what register_string_arena has left in place, as
\* the text was the same: then its promise to keep the text is broken.  And
\* nothing is ever registered under the id that marks literal entries.
RegistryReadsBack ==
  /\ \A id \in Ids : \/ get_string(id) = last[id].str
                     \/ table_[id].of = "caller" /\ changes > last[id].changes
  /\ table_[kLiteralLogStringId] = Literal(<<>>)
=============================================================================
