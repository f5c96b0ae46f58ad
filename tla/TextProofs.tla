----------------------------- MODULE TextProofs -----------------------------
(***************************************************************************)
(* The functions of string_util and file_util on texts, proved for texts   *)
(* of every length.  Each is a loop, a function from the number of its     *)
(* rounds to what they leave in its variables; what it computes follows    *)
(* from an invariant of the loop, by induction over the rounds.            *)
(***************************************************************************)
EXTENDS MCUtilities, SequenceTheorems, FiniteSetTheorems, TLAPS

-----------------------------------------------------------------------------
(* Induction and loops *)

LEMMA LeastNumber ==
  ASSUME NEW T \in SUBSET Nat, T # {}
  PROVE  Min(T) \in T /\ \A m \in T : Min(T) <= m
<1>1. PICK n \in T : \A m \in T : ~(<<m, n>> \in OpToRel(<, Nat))
  BY WFMin, NatLessThanWellFounded
<1>2. ASSUME NEW m \in T PROVE n <= m
  <2>1. ~(m < n)
    BY <1>1 DEF OpToRel
  <2>. QED
    BY <2>1
<1>3. \E x \in T : \A y \in T : x <= y
  BY <1>2
<1>. QED
  BY <1>3, Zenon DEF Min

LEMMA SetInduction ==
  ASSUME NEW T \in SUBSET Nat, 0 \in T, \A n \in T : n + 1 \in T
  PROVE  \A n \in Nat : n \in T
<1> SUFFICES ASSUME NEW x \in Nat, x \notin T PROVE FALSE
  OBVIOUS
<1> DEFINE U == {n \in Nat : n \notin T}
<1>1. U \in SUBSET Nat /\ U # {}
  OBVIOUS
<1> HIDE DEF U
<1>2. PICK n \in U : \A m \in U : n <= m
  BY <1>1, LeastNumber, Zenon
<1>3. n \in Nat /\ n \notin T
  BY <1>2 DEF U
<1>4. n # 0 /\ n - 1 \in Nat
  BY <1>3
<1>5. n - 1 \in T
  <2>1. ~(n <= n - 1)
    BY <1>3
  <2>. QED
    BY <1>2, <1>4, <2>1 DEF U
<1>6. (n - 1) + 1 \in T
  BY <1>5
<1>7. (n - 1) + 1 = n
  BY <1>3
<1>. QED
  BY <1>3, <1>6, <1>7

LEMMA RoundInduction ==
  ASSUME NEW N \in Nat, NEW T, 0 \in T, \A n \in 1..N : n - 1 \in T => n \in T
  PROVE  \A n \in 0..N : n \in T
<1> DEFINE U == {n \in Nat : n <= N => n \in T}
<1>1. U \in SUBSET Nat /\ 0 \in U
  OBVIOUS
<1>2. ASSUME NEW n \in U PROVE n + 1 \in U
  <2>1. n \in Nat /\ n + 1 \in Nat /\ (n + 1) - 1 = n
    OBVIOUS
  <2>2. ASSUME n + 1 <= N PROVE n + 1 \in T
    <3>1. n + 1 \in 1..N /\ n \in T
      BY <2>1, <2>2
    <3>. QED
      BY <2>1, <3>1, Zenon
  <2>. QED
    BY <2>1, <2>2
<1>3. \A n \in Nat : n \in U
  <2> HIDE DEF U
  <2>. QED
    BY <1>1, <1>2, SetInduction
<1>. QED
  BY <1>3

\* Two loops that start alike and go on alike end alike.
Alike(g, h, N) == g[0] = h[0] /\ \A n \in 1..N : g[n - 1] = h[n - 1] => g[n] = h[n]

LEMMA SameRounds ==
  ASSUME NEW N \in Nat, NEW g, NEW h, Alike(g, h, N)
  PROVE  g[N] = h[N]
<1> DEFINE T == {n \in 0..N : g[n] = h[n]}
<1>1. 0 \in T
  BY DEF Alike
<1>2. ASSUME NEW n \in 1..N, n - 1 \in T PROVE n \in T
  <2>1. n \in 0..N
    OBVIOUS
  <2>. QED
    BY <1>2, <2>1, Zenon DEF Alike
<1>3. \A n \in 0..N : n \in T
  <2> HIDE DEF T
  <2>. QED
    BY <1>1, <1>2, RoundInduction, Zenon
<1>4. N \in 0..N
  OBVIOUS
<1>. QED
  BY <1>3, <1>4, Zenon

\* A loop whose rounds stay in S has a state after each round.
IsLoop(g, S, x, N, f) ==
  g \in [0..N -> S] /\ g[0] = x /\ \A n \in 1..N : g[n] = f[n][g[n - 1]]

LEMMA Iteration ==
  ASSUME NEW S, NEW x, x \in S, NEW N \in Nat, NEW f, f \in [1..N -> [S -> S]]
  PROVE  \E g : IsLoop(g, S, x, N, f)
<1> DEFINE Runs(g, n) == g[0] = x /\ \A i \in 1..n : g[i] = f[i][g[i - 1]]
           T == {n \in 0..N : \E g \in [0..n -> S] : Runs(g, n)}
<1>1. 0 \in T
  <2> DEFINE g == [i \in 0..0 |-> x]
  <2>1. g \in [0..0 -> S] /\ Runs(g, 0)
    OBVIOUS
  <2> HIDE DEF g, Runs
  <2>2. 0 \in 0..N
    OBVIOUS
  <2>. QED
    BY <2>1, <2>2, Zenon
<1>2. ASSUME NEW n \in 1..N, n - 1 \in T PROVE n \in T
  <2>1. n \in 0..N /\ n - 1 \in Nat /\ n - 1 \in 0..(n - 1)
    OBVIOUS
  <2>2. PICK g \in [0..(n - 1) -> S] : Runs(g, n - 1)
    BY <1>2, Zenon
  <2>3. g[n - 1] \in S
    BY <2>1, <2>2, Zenon
  <2>4. f[n][g[n - 1]] \in S
    BY <2>3, Zenon
  <2> DEFINE h == [i \in 0..n |-> IF i = n THEN f[n][g[n - 1]] ELSE g[i]]
  <2>5. h \in [0..n -> S]
    BY <2>2, <2>4
  <2>6. ASSUME NEW i \in 1..n PROVE h[i] = f[i][h[i - 1]]
    <3>1. i \in 0..n /\ i - 1 \in 0..n /\ i - 1 # n
      OBVIOUS
    <3>2. h[i - 1] = g[i - 1]
      BY <3>1, Zenon
    <3>3. CASE i = n
      BY <3>1, <3>2, <3>3, Zenon
    <3>4. CASE i # n
      <4>1. i \in 1..(n - 1)
        BY <3>4
      <4>. QED
        BY <2>2, <3>1, <3>2, <3>4, <4>1, Zenon
    <3>. QED
      BY <3>3, <3>4, Zenon
  <2>7. h[0] = x
    <3>1. 0 \in 0..n /\ 0 # n
      OBVIOUS
    <3>. QED
      BY <2>2, <3>1, Zenon
  <2> HIDE DEF h
  <2>8. Runs(h, n)
    BY <2>6, <2>7, Zenon
  <2> HIDE DEF Runs
  <2>. QED
    BY <2>1, <2>5, <2>8, Zenon
<1>3. N \in T
  <2> HIDE DEF T
  <2>1. N \in 0..N
    OBVIOUS
  <2>. QED
    BY <1>1, <1>2, <2>1, RoundInduction, Zenon
<1>. QED
  BY <1>3, Zenon DEF IsLoop

\* A loop and what its rounds compute, as one function.
LEMMA AsOneFunction ==
  ASSUME NEW S, NEW x, NEW N \in Nat, NEW g \in [0..N -> S], NEW c, g[0] = x,
         \A n \in 1..N : g[n] = c[n]
  PROVE  g = [n \in 0..N |-> IF n = 0 THEN x ELSE c[n]]
<1> DEFINE h == [n \in 0..N |-> IF n = 0 THEN x ELSE c[n]]
<1>1. ASSUME NEW n \in 0..N PROVE g[n] = h[n]
  <2>1. n # 0 => n \in 1..N
    OBVIOUS
  <2>. QED
    BY <2>1, Zenon
<1>2. DOMAIN h = 0..N /\ DOMAIN g = 0..N
  BY Zenon
<1>. QED
  BY <1>1, <1>2, Zenon
-----------------------------------------------------------------------------
(* What is put together from pieces *)

\* The bytes before the first field and after each of them.
IsLaid(B, laid, n, first, fields) ==
  /\ laid \in [0..n -> Seq(B)] /\ laid[0] = first
  /\ \A i \in 1..n : laid[i] = laid[i - 1] \o fields[i]

\* The bytes of part stand in data from at on.
Carries(data, at, part) ==
  at + Len(part) <= Len(data) /\ \A k \in 1..Len(part) : data[at + k] = part[k]

\* What is written once stays where it is.
LEMMA LaidStays ==
  ASSUME NEW B, NEW N \in Nat, NEW first, NEW fields \in [1..N -> Seq(B)], NEW bytes,
         IsLaid(B, bytes, N, first, fields), NEW i \in 0..N
  PROVE  Carries(bytes[N], 0, bytes[i])
<1>0. bytes \in [0..N -> Seq(B)] /\ \A j \in 1..N : bytes[j] = bytes[j - 1] \o fields[j]
  BY DEF IsLaid
<1> DEFINE Starts(n) == /\ Len(bytes[i]) <= Len(bytes[n])
                        /\ \A k \in 1..Len(bytes[i]) : bytes[n][k] = bytes[i][k]
           T == {d \in Nat : i + d <= N => Starts(i + d)}
<1>1. bytes[i] \in Seq(B) /\ Len(bytes[i]) \in Nat
  BY <1>0
<1>2. T \in SUBSET Nat /\ 0 \in T
  BY <1>1
<1>3. ASSUME NEW d \in T PROVE d + 1 \in T
  <2>1. d \in Nat /\ d + 1 \in Nat
    OBVIOUS
  <2>2. ASSUME i + (d + 1) <= N PROVE Starts(i + (d + 1))
    <3>1. i + d \in 0..N /\ i + (d + 1) \in 1..N /\ (i + (d + 1)) - 1 = i + d
      BY <2>1, <2>2
    <3>2. Starts(i + d)
      BY <2>1, <3>1
    <3>3. bytes[i + (d + 1)] = bytes[i + d] \o fields[i + (d + 1)]
      <4>1. bytes[i + (d + 1)] = bytes[(i + (d + 1)) - 1] \o fields[i + (d + 1)]
        BY <1>0, <3>1, Zenon
      <4>. QED
        BY <3>1, <4>1, Zenon
    <3>4. bytes[i + d] \in Seq(B) /\ fields[i + (d + 1)] \in Seq(B)
      BY <1>0, <3>1
    <3> DEFINE x == bytes[i]
               y == bytes[i + d]
               z == fields[i + (d + 1)]
    <3>5. /\ x \in Seq(B) /\ y \in Seq(B) /\ z \in Seq(B) /\ Len(x) <= Len(y)
          /\ \A k \in 1..Len(x) : y[k] = x[k]
      BY <1>1, <3>2, <3>4, Zenon
    <3>6. bytes[i + (d + 1)] = y \o z
      BY <3>3, Zenon
    <3> HIDE DEF y, z
    <3>7. Len(x) <= Len(y \o z) /\ \A k \in 1..Len(x) : (y \o z)[k] = x[k]
      <4> HIDE DEF x
      <4>. QED
        BY <3>5
    <3>. QED
      BY <3>6, <3>7, Zenon
  <2> HIDE DEF Starts
  <2>. QED
    BY <2>1, <2>2
<1>4. N - i \in Nat /\ i + (N - i) = N
  OBVIOUS
<1>5. N - i \in T
  <2> HIDE DEF T
  <2>. QED
    BY <1>2, <1>3, <1>4, SetInduction
<1>6. Starts(N)
  BY <1>4, <1>5
<1>7. 0 + Len(bytes[i]) = Len(bytes[i]) /\ \A k \in 1..Len(bytes[i]) : 0 + k = k
  BY <1>1
<1>. QED
  BY <1>6, <1>7, Zenon DEF Carries

LEMMA CarriedPart ==
  ASSUME NEW B, NEW d \in Seq(B), NEW x \in Seq(B), NEW y \in Seq(B), Carries(d, 0, x \o y)
  PROVE  Len(x \o y) = Len(x) + Len(y) /\ Carries(d, Len(x), y)
<1>1. /\ Len(x \o y) = Len(x) + Len(y) /\ Len(x) \in Nat /\ Len(y) \in Nat /\ Len(d) \in Nat
      /\ \A k \in 1..Len(y) : (x \o y)[Len(x) + k] = y[k]
  OBVIOUS
<1>2. 0 + (Len(x) + Len(y)) <= Len(d) /\ \A k \in 1..(Len(x) + Len(y)) : d[0 + k] = (x \o y)[k]
  BY <1>1, Zenon DEF Carries
<1>3. ASSUME NEW k \in 1..Len(y) PROVE d[Len(x) + k] = y[k]
  <2>1. Len(x) + k \in 1..(Len(x) + Len(y)) /\ 0 + (Len(x) + k) = Len(x) + k
    BY <1>1
  <2>. QED
    BY <1>1, <1>2, <2>1, Zenon
<1>4. Len(x) + Len(y) <= Len(d)
  BY <1>1, <1>2
<1>. QED
  BY <1>1, <1>3, <1>4, Zenon DEF Carries

\* A sequence as a function, and one element or one piece more.
LEMMA AppendOne ==
  ASSUME NEW S, NEW q, q \in Seq(S), NEW x, x \in S
  PROVE  /\ Append(q, x) \in [1..(Len(q) + 1) -> S] /\ Append(q, x)[Len(q) + 1] = x
         /\ \A n \in 1..Len(q) : Append(q, x)[n] = q[n]
<1>1. Append(q, x) \in Seq(S) /\ Len(Append(q, x)) = Len(q) + 1
  OBVIOUS
<1>2. Append(q, x) \in [1..(Len(q) + 1) -> S]
  <2>1. PICK w : w = Append(q, x)
    OBVIOUS
  <2>2. w \in Seq(S) /\ Len(w) = Len(q) + 1
    BY <1>1, <2>1, Zenon
  <2>3. w \in [1..(Len(q) + 1) -> S]
    BY <2>2
  <2>. QED
    BY <2>1, <2>3, Zenon
<1>3. Append(q, x)[Len(q) + 1] = x /\ \A n \in 1..Len(q) : Append(q, x)[n] = q[n]
  OBVIOUS
<1>. QED
  BY <1>2, <1>3

LEMMA SeqIsFunction ==
  ASSUME NEW S, NEW q, q \in Seq(S)
  PROVE  Len(q) \in Nat /\ q \in [1..Len(q) -> S] /\ (q = <<>> <=> Len(q) = 0)
OBVIOUS

LEMMA AppendFills ==
  ASSUME NEW S, NEW q, q \in Seq(S), NEW x, x \in S
  PROVE  Append(q, x) # <<>>
BY AppendProperties

Regroups(x, y, z) == (x \o y) \o z = x \o (y \o z)

LEMMA Associates ==
  ASSUME NEW x, x \in Seq(Nat), NEW y, y \in Seq(Nat), NEW z, z \in Seq(Nat)
  PROVE  Regroups(x, y, z)
BY DEF Regroups

-----------------------------------------------------------------------------
(* Escaping *)

LEMMA EncodedIs ==
  ASSUME NEW c \in Nat
  PROVE  /\ Encoded(c) \in Seq(Nat)
         /\ IF c \in {NL, CR, TAB, Backslash}
            THEN /\ Encoded(c) = <<Backslash, EscapeLetter[c]>>
                 /\ EscapeLetter[c] \in Nat /\ EscapeLetter[c] \notin {NL, CR, TAB, Quote}
                 /\ EscapeLetter[c] = Backslash <=> c = Backslash
                 /\ \A d \in DOMAIN EscapeLetter : EscapeLetter[d] = EscapeLetter[c] => d = c
            ELSE Encoded(c) = <<c>>
BY DEF Encoded, EscapeLetter, NL, CR, TAB, Backslash, Quote

Escapes(s, N) == [n \in 1..N |-> Encoded(s[n])]

\* What encode_escape has written after each byte, all of it in G.
LEMMA EncodeLoop ==
  ASSUME NEW G, NEW N \in Nat, NEW s \in [1..N -> Nat], \A n \in 1..N : Encoded(s[n]) \in Seq(G)
  PROVE  \E e : IsLaid(G, e, N, <<>>, Escapes(s, N)) /\ encode_escape(s) = e[N]
<1> DEFINE f == [n \in 1..N |-> [st \in Seq(G) |-> st \o Encoded(s[n])]]
<1>1. <<>> \in Seq(G) /\ Len(s) = N
  OBVIOUS
<1>2. f \in [1..N -> [Seq(G) -> Seq(G)]]
  <2>1. \A n \in 1..N : \A st \in Seq(G) : st \o Encoded(s[n]) \in Seq(G)
    OBVIOUS
  <2>. QED
    BY <2>1, Zenon
<1>3. \A n \in 1..N : \A st \in Seq(G) : f[n][st] = st \o Encoded(s[n])
  BY Zenon
<1> HIDE DEF f
<1>4. PICK g \in [0..N -> Seq(G)] : g[0] = <<>> /\ \A n \in 1..N : g[n] = f[n][g[n - 1]]
  <2>1. \E g : IsLoop(g, Seq(G), <<>>, N, f)
    BY <1>1, <1>2, Iteration, Zenon
  <2>. QED
    BY <2>1, Zenon DEF IsLoop
<1>5. \A n \in 1..N : g[n] = g[n - 1] \o Encoded(s[n])
  <2>1. \A n \in 1..N : n - 1 \in 0..N
    OBVIOUS
  <2>. QED
    BY <1>3, <1>4, <2>1, Zenon
<1> DEFINE Body(h) == [n \in 0..N |-> IF n = 0 THEN <<>> ELSE h[n - 1] \o Encoded(s[n])]
           enc == CHOOSE h : h = Body(h)
<1>6. g = Body(g)
  <2> DEFINE c == [n \in 0..N |-> g[n - 1] \o Encoded(s[n])]
  <2>1. \A n \in 1..N : n \in 0..N
    OBVIOUS
  <2>2. \A n \in 1..N : g[n] = c[n]
    BY <1>5, <2>1, Zenon
  <2>3. \A n \in 0..N : c[n] = g[n - 1] \o Encoded(s[n])
    BY Zenon
  <2> HIDE DEF c
  <2>4. g = [n \in 0..N |-> IF n = 0 THEN <<>> ELSE c[n]]
    <3> DEFINE S == Seq(G)
               x == <<>>
    <3>1. g \in [0..N -> S] /\ g[0] = x
      BY <1>4, Zenon
    <3> HIDE DEF S, x
    <3>2. g = [n \in 0..N |-> IF n = 0 THEN x ELSE c[n]]
      BY <2>2, <3>1, AsOneFunction
    <3>. QED
      BY <3>2, Zenon DEF x
  <2>. QED
    BY <2>3, <2>4, Zenon
<1>7. enc = Body(enc) /\ encode_escape(s) = enc[N]
  BY <1>1, <1>6, Zenon DEF encode_escape
<1> HIDE DEF enc
<1>8. enc[0] = <<>> /\ \A n \in 1..N : enc[n] = enc[n - 1] \o Encoded(s[n])
  <2>1. 0 \in 0..N /\ \A n \in 1..N : n \in 0..N /\ n # 0
    OBVIOUS
  <2>. QED
    BY <1>7, <2>1, Zenon
<1>9. Alike(enc, g, N)
  BY <1>4, <1>5, <1>8, Zenon DEF Alike
<1>10. enc[N] = g[N]
  BY <1>9, SameRounds, Zenon
<1>11. IsLaid(G, g, N, <<>>, Escapes(s, N))
  BY <1>4, <1>5, Zenon DEF IsLaid, Escapes
<1>. QED
  BY <1>7, <1>10, <1>11, Zenon

\* The escape of byte n stands in the encoded text behind the first at[n - 1].
Escaping(E, at, N, s) ==
  /\ at \in [0..N -> Nat] /\ at[0] = 0 /\ at[N] = Len(E)
  /\ \A n \in 1..N : at[n] = at[n - 1] + Len(Encoded(s[n])) /\ Carries(E, at[n - 1], Encoded(s[n]))

LEMMA EncodedText ==
  ASSUME NEW G, NEW N \in Nat, NEW s \in [1..N -> Nat], \A n \in 1..N : Encoded(s[n]) \in Seq(G)
  PROVE  encode_escape(s) \in Seq(G) /\ \E at : Escaping(encode_escape(s), at, N, s)
<1>1. PICK e : IsLaid(G, e, N, <<>>, Escapes(s, N)) /\ encode_escape(s) = e[N]
  BY EncodeLoop, Zenon
<1>2. /\ e \in [0..N -> Seq(G)] /\ e[0] = <<>> /\ \A n \in 1..N : e[n] = e[n - 1] \o Encoded(s[n])
      /\ Escapes(s, N) \in [1..N -> Seq(G)]
  BY <1>1, Zenon DEF IsLaid, Escapes
<1> DEFINE at == [n \in 0..N |-> Len(e[n])]
           E == e[N]
<1>3. E \in Seq(G) /\ N \in 0..N /\ 0 \in 0..N
  BY <1>2
<1>4. at \in [0..N -> Nat] /\ at[N] = Len(E) /\ at[0] = 0
  <2>1. \A n \in 0..N : Len(e[n]) \in Nat
    BY <1>2
  <2>2. Len(e[0]) = 0
    BY <1>2
  <2>. QED
    BY <1>3, <2>1, <2>2, Zenon
<1>5. ASSUME NEW n \in 1..N
      PROVE  at[n] = at[n - 1] + Len(Encoded(s[n])) /\ Carries(E, at[n - 1], Encoded(s[n]))
  <2>1. n \in 0..N /\ n - 1 \in 0..N
    OBVIOUS
  <2> DEFINE x == e[n - 1]
             y == Encoded(s[n])
  <2>2. x \in Seq(G) /\ y \in Seq(G) /\ e[n] = x \o y /\ at[n] = Len(e[n]) /\ at[n - 1] = Len(x)
    BY <1>2, <2>1, Zenon
  <2>3. Carries(E, 0, x \o y)
    BY <1>1, <1>2, <2>1, <2>2, LaidStays, Zenon
  <2> HIDE DEF x, y, E, at
  <2>4. Len(x \o y) = Len(x) + Len(y) /\ Carries(E, Len(x), y)
    BY <1>3, <2>2, <2>3, CarriedPart, Zenon
  <2>. QED
    BY <2>2, <2>4, Zenon DEF y
<1> HIDE DEF at
<1>6. Escaping(E, at, N, s)
  BY <1>4, <1>5, Zenon DEF Escaping
<1>. QED
  BY <1>1, <1>3, <1>6, Zenon

DecodeStates == [i : Nat \ {0}, out : Seq(Nat)]
DecodeState(i, o) == [i |-> i, out |-> o]
DecodeStart == [i |-> 1, out |-> <<>>]

LEMMA DecodeOneType ==
  ASSUME NEW M \in Nat, NEW E \in [1..M -> Nat], NEW st \in DecodeStates
  PROVE  DecodeOne(E, st) \in DecodeStates
<1>1. st.i \in Nat \ {0} /\ st.out \in Seq(Nat) /\ Len(E) = M
  BY DEF DecodeStates
<1>2. CASE st.i > M
  BY <1>1, <1>2 DEF DecodeOne
<1>3. CASE ~(st.i > M)
  <2>1. E[st.i] \in Nat /\ st.i + 1 \in Nat \ {0} /\ st.i + 2 \in Nat \ {0}
    BY <1>1, <1>3
  <2>2. CASE IsEscape(E, st.i)
    <3> DEFINE c == CHOOSE d \in DOMAIN EscapeLetter : EscapeLetter[d] = E[st.i + 1]
    <3>1. c \in DOMAIN EscapeLetter
      BY <2>2, Zenon DEF IsEscape
    <3>2. c \in Nat
      <4> HIDE DEF c
      <4>. QED
        BY <3>1 DEF EscapeLetter, NL, CR, TAB, Backslash
    <3>3. DecodeOne(E, st) = [i |-> st.i + 2, out |-> Append(st.out, c)]
      BY <1>1, <1>3, <2>2, Zenon DEF DecodeOne
    <3> HIDE DEF c
    <3>4. Append(st.out, c) \in Seq(Nat)
      BY <1>1, <3>2
    <3>. QED
      BY <2>1, <3>3, <3>4 DEF DecodeStates
  <2>3. CASE ~IsEscape(E, st.i)
    <3>1. DecodeOne(E, st) = [i |-> st.i + 1, out |-> Append(st.out, E[st.i])]
      BY <1>1, <1>3, <2>3, Zenon DEF DecodeOne
    <3>2. Append(st.out, E[st.i]) \in Seq(Nat)
      BY <1>1, <2>1
    <3>. QED
      BY <2>1, <3>1, <3>2 DEF DecodeStates
  <2>. QED
    BY <2>2, <2>3
<1>. QED
  BY <1>2, <1>3

LEMMA DecodeLoop ==
  ASSUME NEW M \in Nat, NEW E \in [1..M -> Nat]
  PROVE  \E g : /\ g \in [0..M -> DecodeStates] /\ g[0] = DecodeStart
                /\ \A n \in 1..M : g[n] = DecodeOne(E, g[n - 1])
                /\ decode_escape(E) = g[M].out
<1> DEFINE f == [n \in 1..M |-> [st \in DecodeStates |-> DecodeOne(E, st)]]
<1>1. DecodeStart \in DecodeStates /\ Len(E) = M
  BY DEF DecodeStart, DecodeStates
<1>2. f \in [1..M -> [DecodeStates -> DecodeStates]]
  BY DecodeOneType, Zenon
<1>3. \A n \in 1..M : \A st \in DecodeStates : f[n][st] = DecodeOne(E, st)
  BY Zenon
<1> HIDE DEF f
<1>4. PICK g \in [0..M -> DecodeStates] :
        g[0] = DecodeStart /\ \A n \in 1..M : g[n] = f[n][g[n - 1]]
  <2>1. \E g : IsLoop(g, DecodeStates, DecodeStart, M, f)
    BY <1>1, <1>2, Iteration, Zenon
  <2>. QED
    BY <2>1, Zenon DEF IsLoop
<1>5. \A n \in 1..M : g[n] = DecodeOne(E, g[n - 1])
  <2>1. \A n \in 1..M : n - 1 \in 0..M
    OBVIOUS
  <2>. QED
    BY <1>3, <1>4, <2>1, Zenon
<1> DEFINE Body(h) == [n \in 0..M |-> IF n = 0 THEN DecodeStart ELSE DecodeOne(E, h[n - 1])]
           dec == CHOOSE h : h = Body(h)
<1>6. g = Body(g)
  <2> DEFINE c == [n \in 0..M |-> DecodeOne(E, g[n - 1])]
  <2>1. \A n \in 1..M : n \in 0..M
    OBVIOUS
  <2>2. \A n \in 1..M : g[n] = c[n]
    BY <1>5, <2>1, Zenon
  <2>3. \A n \in 0..M : c[n] = DecodeOne(E, g[n - 1])
    BY Zenon
  <2> HIDE DEF c
  <2>4. g = [n \in 0..M |-> IF n = 0 THEN DecodeStart ELSE c[n]]
    BY <1>4, <2>2, AsOneFunction
  <2>. QED
    BY <2>3, <2>4, Zenon
<1>7. dec = Body(dec) /\ decode_escape(E) = dec[M].out
  BY <1>1, <1>6, Zenon DEF decode_escape, DecodeStart
<1> HIDE DEF dec
<1>8. dec[0] = DecodeStart /\ \A n \in 1..M : dec[n] = DecodeOne(E, dec[n - 1])
  <2>1. 0 \in 0..M /\ \A n \in 1..M : n \in 0..M /\ n # 0
    OBVIOUS
  <2>. QED
    BY <1>7, <2>1, Zenon
<1>9. Alike(dec, g, M)
  BY <1>4, <1>5, <1>8, Zenon DEF Alike
<1>10. dec[M] = g[M]
  BY <1>9, SameRounds, Zenon
<1>. QED
  BY <1>4, <1>5, <1>7, <1>10, Zenon

\* One round takes the escape of one byte.
TakesEscape(E, a, c, o) ==
  /\ Len(Encoded(c)) \in {1, 2}
  /\ DecodeOne(E, DecodeState(a + 1, o)) = DecodeState(a + Len(Encoded(c)) + 1, Append(o, c))

LEMMA DecodesOne ==
  ASSUME NEW M, M \in Nat, NEW E, E \in [1..M -> Nat], NEW c, c \in Nat, NEW a, a \in Nat,
         Carries(E, a, Encoded(c)), NEW o, o \in Seq(Nat)
  PROVE  TakesEscape(E, a, c, o)
<1> DEFINE st == DecodeState(a + 1, o)
<1>1. st.i = a + 1 /\ st.out = o /\ Len(E) = M
  BY DEF DecodeState
<1>2. a + Len(Encoded(c)) <= M /\ \A k \in 1..Len(Encoded(c)) : E[a + k] = Encoded(c)[k]
  BY <1>1, Zenon DEF Carries
<1> HIDE DEF st
<1>3. CASE c \in {NL, CR, TAB, Backslash}
  <2>1. /\ Encoded(c) = <<Backslash, EscapeLetter[c]>> /\ EscapeLetter[c] \in Nat
        /\ \A d \in DOMAIN EscapeLetter : EscapeLetter[d] = EscapeLetter[c] => d = c
    BY <1>3, EncodedIs, Zenon
  <2>2. Len(Encoded(c)) = 2 /\ Encoded(c)[1] = Backslash /\ Encoded(c)[2] = EscapeLetter[c]
    BY <2>1
  <2>3. a + 2 <= M /\ E[a + 1] = Backslash /\ E[a + 2] = EscapeLetter[c]
    BY <1>2, <2>2
  <2>4. c \in DOMAIN EscapeLetter
    BY <1>3, Zenon DEF EscapeLetter
  <2>5. ~(st.i > Len(E)) /\ st.i < Len(E) /\ st.i + 1 = a + 2 /\ st.i + 2 = a + 2 + 1
    BY <1>1, <2>3
  <2>6. E[st.i] = Backslash /\ E[st.i + 1] = EscapeLetter[c]
    BY <1>1, <2>3, <2>5, Zenon
  <2>7. IsEscape(E, st.i)
    BY <2>4, <2>5, <2>6, Zenon DEF IsEscape
  <2>8. (CHOOSE d \in DOMAIN EscapeLetter : EscapeLetter[d] = E[st.i + 1]) = c
    BY <2>1, <2>4, <2>6, Zenon
  <2>9. DecodeOne(E, st) = [i |-> st.i + 2, out |-> Append(st.out, c)]
    BY <2>5, <2>7, <2>8, Zenon DEF DecodeOne
  <2>. QED
    BY <1>1, <2>2, <2>5, <2>9, Zenon DEF st, DecodeState, TakesEscape
<1>4. CASE c \notin {NL, CR, TAB, Backslash}
  <2>1. Encoded(c) = <<c>>
    BY <1>4, EncodedIs, Zenon
  <2>2. Len(Encoded(c)) = 1 /\ Encoded(c)[1] = c
    BY <2>1
  <2>3. a + 1 <= M /\ E[a + 1] = c
    BY <1>2, <2>2
  <2>4. ~(st.i > Len(E)) /\ st.i + 1 = a + 1 + 1
    BY <1>1, <2>3
  <2>5. E[st.i] = c
    BY <1>1, <2>3, Zenon
  <2>6. ~IsEscape(E, st.i)
    BY <1>4, <2>5, Zenon DEF IsEscape
  <2>7. DecodeOne(E, st) = [i |-> st.i + 1, out |-> Append(st.out, E[st.i])]
    BY <2>4, <2>6, Zenon DEF DecodeOne
  <2>. QED
    BY <1>1, <2>2, <2>4, <2>5, <2>7, Zenon DEF st, DecodeState, TakesEscape
<1>. QED
  BY <1>3, <1>4, Zenon

LEMMA DecodeUndoesEncode ==
  ASSUME NEW N \in Nat, NEW s \in [1..N -> Nat]
  PROVE  decode_escape(encode_escape(s)) = s
<1> DEFINE E == encode_escape(s)
<1>1. E \in Seq(Nat) /\ \E at : Escaping(E, at, N, s)
  <2>1. \A n \in 1..N : Encoded(s[n]) \in Seq(Nat)
    BY EncodedIs, Zenon
  <2>. QED
    BY <2>1, EncodedText, Zenon
<1> HIDE DEF E
<1>2. PICK at : Escaping(E, at, N, s)
  BY <1>1
<1>3. /\ at \in [0..N -> Nat] /\ at[0] = 0 /\ at[N] = Len(E)
      /\ \A n \in 1..N : at[n] = at[n - 1] + Len(Encoded(s[n])) /\ Carries(E, at[n - 1], Encoded(s[n]))
  BY <1>2, Zenon DEF Escaping
<1>4. PICK M \in Nat : M = Len(E) /\ E \in [1..M -> Nat]
  BY <1>1
<1>5. PICK g : /\ g \in [0..M -> DecodeStates] /\ g[0] = DecodeStart
               /\ \A n \in 1..M : g[n] = DecodeOne(E, g[n - 1])
               /\ decode_escape(E) = g[M].out
  BY <1>4, DecodeLoop, Zenon
<1> DEFINE Read(n) == [k \in 1..n |-> s[k]]
           After(n) == DecodeState(at[n] + 1, Read(n))
           T == {n \in 0..N : n <= at[n] /\ at[n] <= M /\ n <= M /\ g[n] = After(n)}
<1>6. 0 \in T
  <2>1. Read(0) = <<>>
    OBVIOUS
  <2>2. at[0] + 1 = 1
    BY <1>3
  <2>3. g[0] = After(0)
    BY <1>5, <2>1, <2>2, Zenon DEF DecodeStart, DecodeState
  <2> HIDE DEF After
  <2>. QED
    BY <1>3, <1>4, <2>3
<1>7. ASSUME NEW n \in 1..N, n - 1 \in T PROVE n \in T
  <2> DEFINE a == at[n - 1]
             c == s[n]
             o == Read(n - 1)
  <2>1. /\ n - 1 \in 0..N /\ n \in 0..N /\ n - 1 <= a /\ n - 1 <= M
        /\ g[n - 1] = DecodeState(a + 1, o)
    BY <1>7
  <2>2. a \in Nat /\ c \in Nat /\ o \in Seq(Nat) /\ Append(o, c) = Read(n)
    <3>1. a \in Nat /\ c \in Nat
      BY <1>3, <2>1, Zenon
    <3>2. PICK m \in Nat : m = n - 1 /\ n = m + 1
      OBVIOUS
    <3>3. \A k \in 1..m : s[k] \in Nat
      BY <3>2
    <3>4. o \in Seq(Nat) /\ Len(o) = m /\ \A k \in 1..m : o[k] = s[k]
      BY <3>2, <3>3
    <3>5. Append(o, c) \in [1..(m + 1) -> Nat] /\ \A k \in 1..(m + 1) : Append(o, c)[k] = s[k]
      <4> HIDE DEF o
      <4>1. Append(o, c) \in Seq(Nat) /\ Len(Append(o, c)) = m + 1 /\ Append(o, c)[m + 1] = c
        BY <3>1, <3>4
      <4>2. \A k \in 1..m : Append(o, c)[k] = s[k]
        BY <3>1, <3>4
      <4>3. \A k \in 1..(m + 1) : k \in 1..m \/ k = m + 1
        OBVIOUS
      <4>4. Append(o, c)[m + 1] = s[m + 1]
        BY <3>2, <4>1
      <4>5. Append(o, c) \in [1..(m + 1) -> Nat]
        <5> DEFINE r == Append(o, c)
        <5>1. r \in Seq(Nat) /\ Len(r) = m + 1
          BY <4>1
        <5> HIDE DEF r
        <5>2. r \in [1..(m + 1) -> Nat]
          BY <5>1
        <5>. QED
          BY <5>2, Zenon DEF r
      <4>. QED
        BY <4>2, <4>3, <4>4, <4>5, Zenon
    <3>6. Append(o, c) = Read(n)
      <4> DEFINE r == Append(o, c)
      <4> HIDE DEF r
      <4>1. r \in [1..n -> Nat] /\ \A k \in 1..n : r[k] = s[k]
        BY <3>2, <3>5, Zenon DEF r
      <4>2. r = [k \in 1..n |-> s[k]]
        BY <4>1, Zenon
      <4>. QED
        BY <4>2, Zenon DEF r
    <3>. QED
      BY <3>1, <3>4, <3>6, Zenon
  <2>3. at[n] = a + Len(Encoded(c)) /\ Carries(E, a, Encoded(c))
    BY <1>3, Zenon
  <2> HIDE DEF a, c, o, Read, T
  <2>4. /\ Len(Encoded(c)) \in {1, 2}
        /\ DecodeOne(E, DecodeState(a + 1, o)) = DecodeState(a + Len(Encoded(c)) + 1, Append(o, c))
    <3>1. E \in [1..M -> Nat] /\ a \in Nat /\ c \in Nat /\ o \in Seq(Nat)
      BY <1>4, <2>2, Zenon
    <3>2. TakesEscape(E, a, c, o)
      BY <2>3, <3>1, DecodesOne, Zenon
    <3>. QED
      BY <3>2, Zenon DEF TakesEscape
  <2>5. /\ a + Len(Encoded(c)) <= M /\ n <= a + Len(Encoded(c)) /\ n <= M /\ n \in 1..M
        /\ at[n] \in Nat
    <3>1. a + Len(Encoded(c)) <= M
      BY <1>4, <2>3, Zenon DEF Carries
    <3>2. at[n] \in Nat
      BY <1>3, <2>1, Zenon
    <3>3. PICK l \in {1, 2} : l = Len(Encoded(c))
      BY <2>4, Zenon
    <3>4. a + l <= M /\ a \in Nat /\ n - 1 <= a
      BY <2>1, <2>2, <3>1, <3>3, Zenon
    <3>5. n <= a + l /\ n <= M /\ n \in 1..M
      BY <3>4
    <3>. QED
      BY <3>1, <3>2, <3>3, <3>5, Zenon
  <2>6. g[n] = After(n)
    BY <1>5, <2>1, <2>2, <2>3, <2>4, <2>5, Zenon
  <2>. QED
    BY <2>1, <2>3, <2>5, <2>6, Zenon DEF T
<1> HIDE DEF T
<1>8. \A n \in 0..N : n \in T
  BY <1>6, <1>7, RoundInduction, Zenon
<1>9. N <= M /\ g[N] = After(N)
  <2>1. N \in T
    BY <1>8
  <2>. QED
    BY <2>1, Zenon DEF T
<1>10. g[M] = g[N]
  <2> DEFINE U == {d \in 0..(M - N) : g[N + d] = g[N]}
  <2>1. 0 \in U
    BY <1>4, <1>9
  <2>2. ASSUME NEW d \in 1..(M - N), d - 1 \in U PROVE d \in U
    <3>1. d \in 0..(M - N) /\ N + d \in 1..M /\ (N + d) - 1 = N + (d - 1)
      BY <1>4, <1>9
    <3>2. g[N + d] = DecodeOne(E, g[N])
      BY <1>5, <2>2, <3>1, Zenon
    <3>3. g[N].i = M + 1
      BY <1>3, <1>4, <1>9 DEF DecodeState
    <3>4. g[N].i > Len(E)
      BY <1>4, <3>3
    <3>5. DecodeOne(E, g[N]) = g[N]
      BY <3>4, Zenon DEF DecodeOne
    <3>. QED
      BY <3>1, <3>2, <3>5, Zenon
  <2>3. M - N \in Nat /\ M - N \in 0..(M - N) /\ N + (M - N) = M
    BY <1>4, <1>9
  <2>4. M - N \in U
    <3> HIDE DEF U
    <3>. QED
      BY <2>1, <2>2, <2>3, RoundInduction, Zenon
  <2>. QED
    BY <2>3, <2>4, Zenon
<1>11. g[M].out = Read(N)
  BY <1>9, <1>10 DEF DecodeState
<1>12. Read(N) = s
  BY Zenon
<1>. QED
  BY <1>5, <1>11, <1>12, Zenon DEF E

\* The bytes an escape is made of.
OnOneLine == Nat \ {NL, CR, TAB}

LEMMA EscapeBytes ==
  ASSUME NEW c, c \in Nat
  PROVE  /\ Encoded(c) \in Seq(OnOneLine)
         /\ c # Quote => Encoded(c) \in Seq(OnOneLine \ {Quote})
<1>1. CASE c \in {NL, CR, TAB, Backslash}
  <2>1. Encoded(c) = <<Backslash, EscapeLetter[c]>> /\ EscapeLetter[c] \in OnOneLine \ {Quote}
    BY <1>1, EncodedIs DEF OnOneLine
  <2>2. Backslash \in OnOneLine \ {Quote}
    BY DEF OnOneLine, NL, CR, TAB, Backslash, Quote
  <2>. QED
    BY <2>1, <2>2
<1>2. CASE c \notin {NL, CR, TAB, Backslash}
  <2>1. Encoded(c) = <<c>> /\ c \in OnOneLine
    BY <1>2, EncodedIs DEF OnOneLine
  <2>. QED
    BY <2>1
<1>. QED
  BY <1>1, <1>2

\* The backslashes at the end of the first n bytes start at j, an even number.
EvenRun(E, n, j) ==
  /\ j \in 1..(n + 1) /\ \A m \in j..n : E[m] = Backslash
  /\ j = 1 \/ E[j - 1] # Backslash
  /\ \E h \in Nat : n + 1 - j = 2 * h

LEMMA EscapesEndEven ==
  ASSUME NEW N \in Nat, NEW s \in [1..N -> Nat], NEW E \in Seq(Nat), NEW at, Escaping(E, at, N, s)
  PROVE  \E j : EvenRun(E, Len(E), j)
<1>1. /\ at \in [0..N -> Nat] /\ at[0] = 0 /\ at[N] = Len(E)
      /\ \A n \in 1..N : at[n] = at[n - 1] + Len(Encoded(s[n])) /\ Carries(E, at[n - 1], Encoded(s[n]))
  BY Zenon DEF Escaping
<1> DEFINE T == {n \in 0..N : \E j : EvenRun(E, at[n], j)}
<1>2. 0 \in T
  <2>1. EvenRun(E, 0, 1)
    BY DEF EvenRun
  <2>2. 0 \in 0..N
    OBVIOUS
  <2>. QED
    BY <1>1, <2>1, <2>2, Zenon
<1>3. ASSUME NEW n \in 1..N, n - 1 \in T PROVE n \in T
  <2>0. n \in 0..N /\ n - 1 \in 0..N
    OBVIOUS
  <2>1. PICK a \in Nat, c \in Nat : a = at[n - 1] /\ c = s[n]
    BY <1>1, <2>0
  <2>2. at[n] = a + Len(Encoded(c)) /\ \A k \in 1..Len(Encoded(c)) : E[a + k] = Encoded(c)[k]
    BY <1>1, <2>1, Zenon DEF Carries
  <2>3. PICK j : EvenRun(E, a, j)
    BY <1>3, <2>1, Zenon
  <2>4. CASE c = Backslash
    <3>1. Encoded(c) = <<Backslash, Backslash>>
      BY <2>4, EncodedIs
    <3>2. at[n] = a + 2 /\ E[a + 1] = Backslash /\ E[a + 2] = Backslash
      BY <2>2, <3>1
    <3>3. /\ j \in 1..(a + 1) /\ \A m \in j..a : E[m] = Backslash
          /\ j = 1 \/ E[j - 1] # Backslash
      BY <2>3 DEF EvenRun
    <3>4. PICK h \in Nat : a + 1 - j = 2 * h
      BY <2>3 DEF EvenRun
    <3>5. j \in 1..((a + 2) + 1) /\ h + 1 \in Nat /\ (a + 2) + 1 - j = 2 * (h + 1)
      BY <3>3, <3>4
    <3>6. \A m \in j..(a + 2) : E[m] = Backslash
      <4>1. \A m \in j..(a + 2) : m \in j..a \/ m = a + 1 \/ m = a + 2
        BY <3>3
      <4>. QED
        BY <3>2, <3>3, <4>1, Zenon
    <3>7. EvenRun(E, a + 2, j)
      BY <3>3, <3>5, <3>6, Zenon DEF EvenRun
    <3>. QED
      BY <2>0, <3>2, <3>7, Zenon
  <2>5. CASE c # Backslash
    <3>1. PICK l \in {1, 2} : l = Len(Encoded(c)) /\ Encoded(c)[l] # Backslash
      <4>1. CASE c \in {NL, CR, TAB, Backslash}
        <5>1. Encoded(c) = <<Backslash, EscapeLetter[c]>> /\ EscapeLetter[c] # Backslash
          BY <2>5, <4>1, EncodedIs
        <5>. QED
          BY <5>1
      <4>2. CASE c \notin {NL, CR, TAB, Backslash}
        <5>1. Encoded(c) = <<c>>
          BY <4>2, EncodedIs
        <5>. QED
          BY <2>5, <5>1
      <4>. QED
        BY <4>1, <4>2
    <3>2. at[n] = a + l /\ E[a + l] # Backslash
      <4>1. l \in 1..l
        OBVIOUS
      <4>. QED
        BY <2>2, <3>1, <4>1, Zenon
    <3>3. /\ (a + l) + 1 \in 1..((a + l) + 1) /\ ((a + l) + 1) - 1 = a + l
          /\ (a + l) + 1 - ((a + l) + 1) = 2 * 0 /\ 0 \in Nat
          /\ \A m \in ((a + l) + 1)..(a + l) : FALSE
      OBVIOUS
    <3>4. EvenRun(E, a + l, (a + l) + 1)
      BY <3>2, <3>3 DEF EvenRun
    <3>. QED
      BY <2>0, <3>2, <3>4, Zenon
  <2>. QED
    BY <2>4, <2>5, Zenon
<1>4. N \in T
  <2> HIDE DEF T
  <2>1. N \in 0..N
    OBVIOUS
  <2>. QED
    BY <1>2, <1>3, <2>1, RoundInduction, Zenon
<1>. QED
  BY <1>1, <1>4, Zenon

\* The text in quotes ends where a reader that skips escaped bytes ends it.
LEMMA QuoteEnds ==
  ASSUME NEW M \in Nat, NEW E \in [1..M -> Nat \ {Quote}], NEW j, EvenRun(E, M, j),
         NEW js, js = <<Quote>> \o E \o <<Quote>>
  PROVE  \A i \in 2..Len(js) : js[i] = Quote /\ ~Escaped(js, i) <=> i = Len(js)
<1>1. /\ Len(js) = M + 2 /\ js[1] = Quote /\ js[M + 2] = Quote
      /\ \A k \in 1..M : js[k + 1] = E[k]
  <2>1. E \in Seq(Nat) /\ Len(E) = M /\ Quote \in Nat
    BY DEF Quote
  <2> DEFINE q == <<Quote>> \o E
  <2>2. /\ q \in Seq(Nat) /\ Len(q) = M + 1 /\ q[1] = Quote
        /\ \A k \in 1..M : q[k + 1] = E[k]
    BY <2>1
  <2> HIDE DEF q
  <2>3. js = q \o <<Quote>>
    BY DEF q
  <2>4. /\ Len(js) = M + 2 /\ js[M + 2] = Quote /\ \A k \in 1..(M + 1) : js[k] = q[k]
    <3>1. q \in Seq(Nat)
      BY <2>2
    <3>2. /\ Len(q \o <<Quote>>) = Len(q) + 1 /\ (q \o <<Quote>>)[Len(q) + 1] = Quote
          /\ \A k \in 1..Len(q) : (q \o <<Quote>>)[k] = q[k]
      BY <2>1, <3>1
    <3>3. Len(q) = M + 1 /\ Len(q) + 1 = M + 2
      BY <2>2
    <3>. QED
      BY <2>3, <3>2, <3>3, Zenon
  <2>5. 1 \in 1..(M + 1) /\ \A k \in 1..M : k + 1 \in 1..(M + 1)
    OBVIOUS
  <2>. QED
    BY <2>2, <2>4, <2>5, Zenon
<1>2. /\ j \in 1..(M + 1) /\ \A m \in j..M : E[m] = Backslash
      /\ j = 1 \/ E[j - 1] # Backslash
  BY DEF EvenRun
<1>3. PICK h \in Nat : M + 1 - j = 2 * h
  BY DEF EvenRun
<1>4. ASSUME NEW i \in 2..Len(js), i # Len(js) PROVE js[i] # Quote
  <2>1. i - 1 \in 1..M /\ (i - 1) + 1 = i
    BY <1>1, <1>4
  <2>2. js[i] = E[i - 1]
    BY <1>1, <2>1, Zenon
  <2>. QED
    BY <2>1, <2>2
<1>5. ~Escaped(js, M + 2)
  <2> DEFINE R == {k \in 1..(M + 2) : \A m \in k..((M + 2) - 1) : js[m] = Backslash}
  <2>1. ASSUME NEW k \in (j + 1)..(M + 2) PROVE k \in R
    <3>1. k \in 1..(M + 2)
      BY <1>2
    <3>2. ASSUME NEW m \in k..((M + 2) - 1) PROVE js[m] = Backslash
      <4>1. m - 1 \in j..M /\ m - 1 \in 1..M /\ (m - 1) + 1 = m
        BY <1>2
      <4>. QED
        BY <1>1, <1>2, <4>1, Zenon
    <3>. QED
      BY <3>1, <3>2, Zenon
  <2>2. ASSUME NEW k \in R PROVE k \in (j + 1)..(M + 2)
    <3>1. k \in 1..(M + 2) /\ \A m \in k..((M + 2) - 1) : js[m] = Backslash
      OBVIOUS
    <3>2. SUFFICES ASSUME k <= j PROVE FALSE
      BY <1>2, <3>1
    <3>3. j \in k..((M + 2) - 1)
      BY <1>2, <3>1, <3>2
    <3>4. js[j] = Backslash
      BY <3>1, <3>3, Zenon
    <3>5. CASE j = 1
      BY <1>1, <3>4, <3>5 DEF Quote, Backslash
    <3>6. CASE j # 1
      <4>1. j - 1 \in 1..M /\ (j - 1) + 1 = j
        BY <1>2, <3>6
      <4>. QED
        BY <1>1, <1>2, <3>4, <3>6, <4>1, Zenon
    <3>. QED
      BY <3>5, <3>6
  <2> HIDE DEF R
  <2>3. R = (j + 1)..(M + 2)
    BY <2>1, <2>2, Zenon
  <2>4. Cardinality((j + 1)..(M + 2)) = 2 * h + 1
    <3>1. j + 1 \in Int /\ M + 2 \in Int /\ ~(j + 1 > M + 2) /\ (M + 2) - (j + 1) + 1 = 2 * h + 1
      BY <1>2, <1>3
    <3>. QED
      BY <3>1, FS_Interval
  <2>5. (2 * h + 1) % 2 # 0
    OBVIOUS
  <2>6. Escaped(js, M + 2) <=> Cardinality(R) % 2 = 0
    BY Zenon DEF Escaped, Quantify, R
  <2>. QED
    BY <2>3, <2>4, <2>5, <2>6, Zenon
<1>. QED
  BY <1>1, <1>4, <1>5, Zenon

\* encode_escape is reversible and keeps a text of any bytes on one line; the
\* JSON string of a text without quotes ends at its last byte only.
THEOREM EscapingIsReversible ==
  ASSUME NEW s \in Seq(Nat)
  PROVE  RoundTrips(s)
<1>1. PICK N \in Nat : N = Len(s) /\ s \in [1..N -> Nat]
  OBVIOUS
<1> DEFINE E == encode_escape(s)
<1>2. decode_escape(E) = s
  BY <1>1, DecodeUndoesEncode, Zenon
<1>3. \A n \in 1..N : s[n] \in Nat
  BY <1>1
<1>4. \A i \in DOMAIN E : E[i] \notin {NL, CR, TAB}
  <2>1. \A n \in 1..N : Encoded(s[n]) \in Seq(OnOneLine)
    BY <1>3, EscapeBytes, Zenon
  <2>2. E \in Seq(OnOneLine)
    BY <1>1, <2>1, EncodedText, Zenon
  <2> HIDE DEF E
  <2>. QED
    BY <2>2 DEF OnOneLine
<1>5. ASSUME Quote \notin ToSet(s)
      PROVE  \A i \in 2..Len(JsonString(s)) :
               JsonString(s)[i] = Quote /\ ~Escaped(JsonString(s), i) <=> i = Len(JsonString(s))
  <2>1. \A n \in 1..N : s[n] # Quote
    <3>1. \A n \in 1..N : n \in DOMAIN s
      BY <1>1
    <3>. QED
      BY <1>5, <3>1, Zenon DEF ToSet
  <2>2. \A n \in 1..N : Encoded(s[n]) \in Seq(OnOneLine \ {Quote})
    BY <1>3, <2>1, EscapeBytes, Zenon
  <2>3. E \in Seq(OnOneLine \ {Quote}) /\ \E at : Escaping(E, at, N, s)
    BY <1>1, <2>2, EncodedText, Zenon
  <2>4. JsonString(s) = <<Quote>> \o E \o <<Quote>>
    BY Zenon DEF JsonString
  <2> HIDE DEF E
  <2>5. E \in Seq(Nat)
    BY <2>3 DEF OnOneLine
  <2>6. PICK M \in Nat : M = Len(E) /\ E \in [1..M -> Nat \ {Quote}]
    BY <2>3 DEF OnOneLine
  <2>7. PICK j : EvenRun(E, M, j)
    BY <1>1, <2>3, <2>5, <2>6, EscapesEndEven, Zenon
  <2>. QED
    BY <2>4, <2>6, <2>7, QuoteEnds, Zenon
<1>. QED
  BY <1>2, <1>4, <1>5, Zenon DEF RoundTrips
-----------------------------------------------------------------------------
(* Truncation *)

LEMMA MaxIs ==
  ASSUME NEW S, S \subseteq Int, NEW p, p \in S, \A y \in S : y <= p
  PROVE  Max(S) = p
<1>1. Max(S) \in S /\ \A y \in S : Max(S) >= y
  <2>1. \E x \in S : \A y \in S : x >= y
    OBVIOUS
  <2>. QED
    BY <2>1, Zenon DEF Max
<1>2. Max(S) \in Int /\ p \in Int /\ Max(S) <= p /\ Max(S) >= p
  BY <1>1
<1>. QED
  BY <1>2

LEMMA CharLength ==
  ASSUME NEW c
  PROVE  utf8_char_length(c) \in {1, 2, 3, 4}
BY DEF utf8_char_length

LEMMA AdvanceStays ==
  ASSUME NEW N \in Nat, NEW s \in [1..N -> Nat], NEW i \in 0..N
  PROVE  AdvanceOne(s, i) \in 0..N
<1>1. PICK l \in {1, 2, 3, 4} : l = utf8_char_length(s[i + 1])
  BY CharLength, Zenon
<1>2. Len(s) = N
  OBVIOUS
<1>3. AdvanceOne(s, i) = IF i >= N \/ i + l > N THEN i ELSE i + l
  BY <1>1, <1>2, Zenon DEF AdvanceOne
<1>. QED
  BY <1>3

LEMMA TruncateLoop ==
  ASSUME NEW N \in Nat, NEW s \in [1..N -> Nat], NEW m \in Nat
  PROVE  \E g : /\ g \in [0..m -> 0..N] /\ g[0] = 0
                /\ \A n \in 1..m : g[n] = AdvanceOne(s, g[n - 1])
                /\ utf8_truncate(s, m) = SubSeq(s, 1, g[m])
<1> DEFINE f == [n \in 1..m |-> [st \in 0..N |-> AdvanceOne(s, st)]]
<1>1. 0 \in 0..N
  OBVIOUS
<1>2. f \in [1..m -> [0..N -> 0..N]]
  BY AdvanceStays, Zenon
<1>3. \A n \in 1..m : \A st \in 0..N : f[n][st] = AdvanceOne(s, st)
  BY Zenon
<1> HIDE DEF f
<1>4. PICK g \in [0..m -> 0..N] : g[0] = 0 /\ \A n \in 1..m : g[n] = f[n][g[n - 1]]
  <2>1. \E g : IsLoop(g, 0..N, 0, m, f)
    BY <1>1, <1>2, Iteration, Zenon
  <2>. QED
    BY <2>1, Zenon DEF IsLoop
<1>5. \A n \in 1..m : g[n] = AdvanceOne(s, g[n - 1])
  <2>1. \A n \in 1..m : n - 1 \in 0..m
    OBVIOUS
  <2>. QED
    BY <1>3, <1>4, <2>1, Zenon
<1> DEFINE Body(h) == [n \in 0..m |-> IF n = 0 THEN 0 ELSE AdvanceOne(s, h[n - 1])]
           cut == CHOOSE h : h = Body(h)
<1>6. g = Body(g)
  <2> DEFINE c == [n \in 0..m |-> AdvanceOne(s, g[n - 1])]
  <2>1. \A n \in 1..m : n \in 0..m
    OBVIOUS
  <2>2. \A n \in 1..m : g[n] = c[n]
    BY <1>5, <2>1, Zenon
  <2>3. \A n \in 0..m : c[n] = AdvanceOne(s, g[n - 1])
    BY Zenon
  <2> HIDE DEF c
  <2>4. g = [n \in 0..m |-> IF n = 0 THEN 0 ELSE c[n]]
    BY <1>4, <2>2, AsOneFunction
  <2>. QED
    BY <2>3, <2>4, Zenon
<1>7. cut = Body(cut) /\ utf8_truncate(s, m) = SubSeq(s, 1, cut[m])
  BY <1>6, Zenon DEF utf8_truncate
<1> HIDE DEF cut
<1>8. cut[0] = 0 /\ \A n \in 1..m : cut[n] = AdvanceOne(s, cut[n - 1])
  <2>1. 0 \in 0..m /\ \A n \in 1..m : n \in 0..m /\ n # 0
    OBVIOUS
  <2>. QED
    BY <1>7, <2>1, Zenon
<1>9. Alike(cut, g, m)
  BY <1>4, <1>5, <1>8, Zenon DEF Alike
<1>10. cut[m] = g[m]
  BY <1>9, SameRounds, Zenon
<1>. QED
  BY <1>4, <1>5, <1>7, <1>10, Zenon

\* Behind a lead byte stand the bytes it announces, and then the next lead.
LEMMA CharacterApart ==
  ASSUME NEW N \in Nat, NEW s \in [1..N -> Nat], WellFormed(s), NEW i, i \in Leads(s),
         NEW k, k \in (i + 1)..N, k <= i + utf8_char_length(s[i])
  PROVE  k \in Leads(s) <=> k = i + utf8_char_length(s[i])
<1>1. i \in 1..N /\ Len(s) = N
  BY DEF Leads
<1>2. PICK l \in {1, 2, 3, 4} : l = utf8_char_length(s[i])
  BY CharLength, Zenon
<1>3. \A x \in (i + 1)..Min({i + l, N}) : x \in Leads(s) <=> x = i + l
  BY <1>1, <1>2, Zenon DEF WellFormed
<1>4. Min({i + l, N}) \in {i + l, N}
  <2>1. {i + l, N} \in SUBSET Nat /\ {i + l, N} # {}
    BY <1>1
  <2>. QED
    BY <2>1, LeastNumber, Zenon
<1>5. k \in (i + 1)..Min({i + l, N})
  BY <1>1, <1>2, <1>4
<1>. QED
  BY <1>2, <1>3, <1>5, Zenon

\* The lead bytes up to i: how many characters have begun by then.
Begun(s, i) == {k \in Leads(s) : k <= i}

LEMMA BegunCounts ==
  ASSUME NEW N \in Nat, NEW s \in [1..N -> Nat], NEW i \in 0..N
  PROVE  /\ IsFiniteSet(Begun(s, i)) /\ Cardinality(Begun(s, i)) \in Nat
         /\ \A j \in 0..i : Cardinality(Begun(s, j)) <= Cardinality(Begun(s, i))
<1>1. Begun(s, i) \in SUBSET (1..N) /\ \A j \in 0..i : Begun(s, j) \in SUBSET Begun(s, i)
  BY DEF Begun, Leads
<1>2. IsFiniteSet(1..N)
  BY FS_Interval
<1>3. IsFiniteSet(Begun(s, i))
  BY <1>1, <1>2, FS_Subset, Zenon
<1>. QED
  BY <1>1, <1>3, FS_Subset, FS_CardinalityType, Zenon

LEMMA BegunNext ==
  ASSUME NEW N \in Nat, NEW s \in [1..N -> Nat], NEW i \in 0..N, NEW j, j \in Leads(s),
         i < j, \A k \in (i + 1)..(j - 1) : k \notin Leads(s)
  PROVE  Cardinality(Begun(s, j)) = Cardinality(Begun(s, i)) + 1
<1>1. Begun(s, j) = Begun(s, i) \cup {j} /\ j \notin Begun(s, i)
  BY DEF Begun, Leads
<1>2. IsFiniteSet(Begun(s, i))
  BY BegunCounts
<1>. QED
  BY <1>1, <1>2, FS_AddElement, Zenon

\* Where the loop stands after c rounds: behind a whole character that is one
\* of the first c, before the next one, and if that is whole it is number c + 1.
Standing(s, p, c) ==
  /\ p = 0 \/ \E j \in Leads(s) : j + utf8_char_length(s[j]) - 1 = p /\ Cardinality(Begun(s, j)) <= c
  /\ p < Len(s) => p + 1 \in Leads(s)
  /\ p < Len(s) /\ p + utf8_char_length(s[p + 1]) <= Len(s) => Cardinality(Begun(s, p + 1)) = c + 1

LEMMA StandsAtStart ==
  ASSUME NEW N \in Nat, NEW s \in [1..N -> Nat], WellFormed(s)
  PROVE  Standing(s, 0, 0)
<1>1. Len(s) = N
  OBVIOUS
<1>2. CASE N = 0
  BY <1>1, <1>2 DEF Standing
<1>3. CASE N > 0
  <2>1. s # <<>>
    BY <1>3
  <2>2. 1 \in Leads(s)
    BY <2>1, Zenon DEF WellFormed
  <2>3. Begun(s, 0) = {} /\ \A k \in (0 + 1)..(1 - 1) : k \notin Leads(s)
    BY DEF Begun, Leads
  <2>4. Cardinality(Begun(s, 0)) = 0
    BY <2>3, FS_EmptySet, Zenon
  <2>5. Cardinality(Begun(s, 1)) = 0 + 1
    BY <2>2, <2>3, <2>4, BegunNext, 0 \in 0..N, 0 < 1
  <2>6. 0 + 1 = 1
    OBVIOUS
  <2>. QED
    BY <2>2, <2>5, <2>6, Zenon DEF Standing
<1>. QED
  BY <1>2, <1>3

LEMMA StandsOn ==
  ASSUME NEW N \in Nat, NEW s \in [1..N -> Nat], WellFormed(s),
         NEW p \in 0..N, NEW c \in Nat, Standing(s, p, c)
  PROVE  Standing(s, AdvanceOne(s, p), c + 1)
<1>1. Len(s) = N
  OBVIOUS
<1>2. PICK l \in {1, 2, 3, 4} : l = utf8_char_length(s[p + 1])
  BY CharLength, Zenon
<1>3. CASE p >= N \/ p + l > N
  <2>1. AdvanceOne(s, p) = p
    BY <1>1, <1>2, <1>3, Zenon DEF AdvanceOne
  <2>2. ~(p < N /\ p + l <= N)
    BY <1>3
  <2>3. \A x \in Nat : x <= c => x <= c + 1
    OBVIOUS
  <2>4. \A j \in Leads(s) : Cardinality(Begun(s, j)) \in Nat
    BY BegunCounts DEF Leads
  <2>. QED
    BY <1>1, <1>2, <2>1, <2>2, <2>3, <2>4, Zenon DEF Standing
<1>4. CASE p < N /\ p + l <= N
  <2>1. AdvanceOne(s, p) = p + l
    <3>1. ~(p >= N \/ p + l > N)
      BY <1>4
    <3>. QED
      BY <1>1, <1>2, <3>1, Zenon DEF AdvanceOne
  <2>2. p + 1 \in Leads(s) /\ Cardinality(Begun(s, p + 1)) = c + 1
    BY <1>1, <1>2, <1>4, Zenon DEF Standing
  <2>3. (p + 1) + l - 1 = p + l /\ c + 1 <= c + 1 /\ c + 1 \in Nat
    OBVIOUS
  <2>4. \E j \in Leads(s) : j + utf8_char_length(s[j]) - 1 = p + l /\ Cardinality(Begun(s, j)) <= c + 1
    BY <1>2, <2>2, <2>3, Zenon
  <2>5. ASSUME p + l < N
        PROVE  p + l + 1 \in Leads(s) /\ Cardinality(Begun(s, p + l + 1)) = c + 1 + 1
    <3>1. \A k \in (p + 1 + 1)..N : k <= p + 1 + l => (k \in Leads(s) <=> k = p + 1 + l)
      BY <1>2, <2>2, CharacterApart, Zenon
    <3>2. p + l + 1 \in (p + 1 + 1)..N /\ p + l + 1 <= p + 1 + l /\ p + l + 1 = p + 1 + l
      BY <2>5
    <3>3. p + l + 1 \in Leads(s)
      BY <3>1, <3>2, Zenon
    <3>4. \A k \in (p + 1 + 1)..(p + l + 1 - 1) : k \in (p + 1 + 1)..N /\ k <= p + 1 + l /\ k # p + 1 + l
      BY <2>5
    <3>5. \A k \in (p + 1 + 1)..(p + l + 1 - 1) : k \notin Leads(s)
      BY <3>1, <3>4, Zenon
    <3>6. p + 1 \in 0..N /\ p + 1 < p + l + 1
      BY <1>4
    <3>7. Cardinality(Begun(s, p + l + 1)) = Cardinality(Begun(s, p + 1)) + 1
      <4>1. ASSUME NEW i \in 0..N, NEW j, j \in Leads(s), i < j, \A k \in (i + 1)..(j - 1) : k \notin Leads(s)
            PROVE  Cardinality(Begun(s, j)) = Cardinality(Begun(s, i)) + 1
        BY <4>1, BegunNext, Zenon
      <4>. QED
        BY <3>3, <3>5, <3>6, <4>1
    <3>. QED
      BY <2>2, <3>3, <3>7, Zenon
  <2>. QED
    BY <1>1, <2>1, <2>4, <2>5, Zenon DEF Standing
<1>. QED
  BY <1>3, <1>4

LEMMA StandsAtCut ==
  ASSUME NEW N \in Nat, NEW s \in [1..N -> Nat], WellFormed(s),
         NEW p \in 0..N, NEW m \in Nat, Standing(s, p, m)
  PROVE  p = Max({0} \cup CharacterEnds(s, m))
<1> DEFINE LastAt(j) == j + utf8_char_length(s[j]) - 1
           ends == {0} \cup CharacterEnds(s, m)
<1>1. Len(s) = N
  OBVIOUS
<1>2. \A j \in Leads(s) : LastAt(j) \in Int /\ j \in 1..N /\ Cardinality(Begun(s, j)) \in Nat
  <2>1. \A j \in Leads(s) : j \in 1..N
    BY DEF Leads
  <2>2. \A j \in 1..N : LastAt(j) \in Int
    BY CharLength
  <2>. QED
    BY <2>1, <2>2, BegunCounts
<1>3. \A y : y \in ends <=>
         \/ y = 0
         \/ \E j \in Leads(s) : y = LastAt(j) /\ LastAt(j) <= N /\ Cardinality(Begun(s, j)) <= m
  BY <1>1, Zenon DEF CharacterEnds, Quantify, Begun
<1>4. ends \subseteq Int
  <2> HIDE DEF ends, LastAt
  <2>1. 0 \in Int
    OBVIOUS
  <2>. QED
    BY <1>2, <1>3, <2>1, Zenon
<1>5. p \in ends
  <2>1. p <= N
    OBVIOUS
  <2>. QED
    BY <1>3, <2>1, Zenon DEF Standing
<1>6. ASSUME NEW j, j \in Leads(s)
          PROVE  \A k \in (j + 1)..N : k <= j + utf8_char_length(s[j]) =>
                                      (k \in Leads(s) <=> k = j + utf8_char_length(s[j]))
  BY <1>6, CharacterApart, Zenon
<1>7. ASSUME NEW i \in Leads(s), LastAt(i) <= N, Cardinality(Begun(s, i)) <= m, LastAt(i) > p
      PROVE  FALSE
  <2>1. PICK l \in {1, 2, 3, 4} : l = utf8_char_length(s[i])
    BY CharLength, Zenon
  <2>2. i + l - 1 <= N /\ i + l - 1 > p /\ i \in 1..N
    BY <1>2, <1>7, <2>1
  <2>3. p < N
    BY <2>1, <2>2
  <2>4. p + 1 \in Leads(s)
    BY <1>1, <2>3, Zenon DEF Standing
  <2>5. PICK q \in {1, 2, 3, 4} : q = utf8_char_length(s[p + 1])
    BY CharLength, Zenon
  <2>6. CASE i <= p
    <3>1. p + 1 \in (i + 1)..N /\ p + 1 <= i + l /\ p + 1 # i + l
      BY <2>2, <2>3, <2>6, SMTT(30)
    <3>. QED
      BY <1>6, <2>1, <2>4, <3>1, Zenon
  <2>7. CASE i > p
    <3>1. p + q <= N
      <4>1. CASE i = p + 1
        <5>1. l = q
          BY <2>1, <2>5, <4>1, Zenon
        <5>. QED
          BY <2>2, <4>1, <5>1
      <4>2. CASE i > p + 1
        <5>1. i \in (p + 1 + 1)..N
          BY <2>2, <4>2
        <5>2. \A k \in (p + 1 + 1)..N : k <= p + 1 + q => (k \in Leads(s) <=> k = p + 1 + q)
          BY <1>6, <2>4, <2>5, Zenon
        <5>3. i <= p + 1 + q => i = p + 1 + q
          BY <5>1, <5>2, Zenon
        <5>. QED
          BY <5>1, <5>3, <2>5
      <4>. QED
        BY <2>2, <2>7, <4>1, <4>2
    <3>2. Cardinality(Begun(s, p + 1)) = m + 1
      BY <1>1, <2>3, <2>5, <3>1, Zenon DEF Standing
    <3>3. p + 1 \in 0..i /\ i \in 0..N
      BY <2>2, <2>7
    <3>4. Cardinality(Begun(s, p + 1)) <= Cardinality(Begun(s, i))
      BY <3>3, BegunCounts, Zenon
    <3>. QED
      BY <1>2, <1>7, <3>2, <3>4
  <2>. QED
    BY <2>2, <2>6, <2>7
<1>8. \A y \in ends : y <= p
  <2> HIDE DEF ends, LastAt
  <2>1. 0 <= p
    OBVIOUS
  <2>2. \A y \in Int : y > p \/ y <= p
    OBVIOUS
  <2>. QED
    BY <1>2, <1>3, <1>7, <2>1, <2>2, Zenon
<1> HIDE DEF ends
<1>9. Max(ends) = p
  BY <1>4, <1>5, <1>8, MaxIs, Zenon
<1>. QED
  BY <1>9, Zenon DEF ends

LEMMA PrefixOf ==
  ASSUME NEW N \in Nat, NEW s \in [1..N -> Nat], NEW p \in 0..N
  PROVE  Len(SubSeq(s, 1, p)) = p /\ IsPrefix(SubSeq(s, 1, p), s)
<1>1. s \in Seq(Nat) /\ Len(s) = N
  OBVIOUS
<1>2. SubSeq(s, 1, p) \in Seq(Nat) /\ Len(SubSeq(s, 1, p)) = p
  BY <1>1
<1>3. SubSeq(SubSeq(s, 1, p), 1, p) = SubSeq(s, 1, p)
  BY <1>1, <1>2
<1>. QED
  BY <1>1, <1>2, <1>3 DEF IsPrefix

\* utf8_truncate keeps the longest run of at most m whole characters at the
\* start of a well-formed text, and a prefix of any other.
THEOREM TruncationKeepsCharacters ==
  ASSUME NEW s, s \in Seq(Nat), NEW m, m \in Nat
  PROVE  KeepsCharacters(s, m)
<1> DEFINE N == Len(s)
<1>1. N \in Nat /\ s \in [1..N -> Nat]
  OBVIOUS
<1> HIDE DEF N
<1>2. PICK g : /\ g \in [0..m -> 0..N] /\ g[0] = 0
               /\ \A n \in 1..m : g[n] = AdvanceOne(s, g[n - 1])
               /\ utf8_truncate(s, m) = SubSeq(s, 1, g[m])
  BY <1>1, TruncateLoop, Zenon
<1>3. g[m] \in 0..N
  BY <1>2, m \in 0..m
<1>4. Len(SubSeq(s, 1, g[m])) = g[m] /\ IsPrefix(SubSeq(s, 1, g[m]), s)
  BY <1>1, <1>3, PrefixOf, Zenon
<1>5. ASSUME WellFormed(s)
      PROVE  Standing(s, g[m], m)
  <2> DEFINE S == {n \in 0..m : Standing(s, g[n], n)}
  <2>1. 0 \in S
    BY <1>1, <1>2, <1>5, StandsAtStart, 0 \in 0..m, Zenon
  <2>2. ASSUME NEW n \in 1..m, n - 1 \in S
        PROVE  n \in S
    <3>1. n - 1 \in Nat /\ n - 1 \in 0..m /\ n \in 0..m /\ (n - 1) + 1 = n
      OBVIOUS
    <3>2. g[n - 1] \in 0..N /\ Standing(s, g[n - 1], n - 1)
      BY <1>2, <2>2, <3>1, Zenon
    <3>3. Standing(s, AdvanceOne(s, g[n - 1]), (n - 1) + 1)
      BY <1>1, <1>5, <3>1, <3>2, StandsOn, Zenon
    <3>. QED
      BY <1>2, <3>1, <3>3, Zenon
  <2>3. S \in SUBSET (0..m) /\ m \in 0..m
    OBVIOUS
  <2> HIDE DEF S
  <2>4. m \in S
    BY <2>1, <2>2, <2>3, RoundInduction, Zenon
  <2>. QED
    BY <2>4, Zenon DEF S
<1>. QED
  BY <1>1, <1>2, <1>3, <1>4, <1>5, StandsAtCut, Zenon DEF KeepsCharacters
-----------------------------------------------------------------------------
(* Splitting *)

\* What Joined has put together after each piece.
Glued(ps, d, n) == IF n = 1 THEN ps[n] ELSE d \o ps[n]

IsJoin(g, ps, d, N) ==
  /\ g \in [0..N -> Seq(Nat)] /\ g[0] = <<>> /\ Joined(ps, d) = g[N]
  /\ \A n \in 1..N : g[n] = g[n - 1] \o Glued(ps, d, n)

LEMMA JoinedLoop ==
  ASSUME NEW N, N \in Nat, NEW ps, ps \in [1..N -> Seq(Nat)], NEW d, d \in Seq(Nat)
  PROVE  \E g : IsJoin(g, ps, d, N)
<1> DEFINE f == [n \in 1..N |-> [st \in Seq(Nat) |-> st \o Glued(ps, d, n)]]
<1>1. <<>> \in Seq(Nat) /\ Len(ps) = N
  OBVIOUS
<1>2. f \in [1..N -> [Seq(Nat) -> Seq(Nat)]]
  <2>1. \A n \in 1..N : \A st \in Seq(Nat) : st \o Glued(ps, d, n) \in Seq(Nat)
    BY DEF Glued
  <2>. QED
    BY <2>1, Zenon
<1>3. \A n \in 1..N : \A st \in Seq(Nat) : f[n][st] = st \o Glued(ps, d, n)
  BY Zenon
<1> HIDE DEF f
<1>4. PICK g \in [0..N -> Seq(Nat)] : g[0] = <<>> /\ \A n \in 1..N : g[n] = f[n][g[n - 1]]
  <2>1. \E g : IsLoop(g, Seq(Nat), <<>>, N, f)
    BY <1>1, <1>2, Iteration, Zenon
  <2>. QED
    BY <2>1, Zenon DEF IsLoop
<1>5. \A n \in 1..N : g[n] = g[n - 1] \o Glued(ps, d, n)
  <2>1. \A n \in 1..N : n - 1 \in 0..N
    OBVIOUS
  <2>. QED
    BY <1>3, <1>4, <2>1, Zenon
<1> DEFINE Body(h) == [n \in 0..N |-> IF n = 0 THEN <<>> ELSE h[n - 1] \o Glued(ps, d, n)]
           all == CHOOSE h : h = Body(h)
<1>6. g = Body(g)
  <2> DEFINE c == [n \in 0..N |-> g[n - 1] \o Glued(ps, d, n)]
  <2>1. \A n \in 1..N : n \in 0..N
    OBVIOUS
  <2>2. \A n \in 1..N : g[n] = c[n]
    BY <1>5, <2>1, Zenon
  <2>3. \A n \in 0..N : c[n] = g[n - 1] \o Glued(ps, d, n)
    BY Zenon
  <2> HIDE DEF c
  <2>4. g = [n \in 0..N |-> IF n = 0 THEN <<>> ELSE c[n]]
    <3> DEFINE S == Seq(Nat)
               x == <<>>
    <3>1. g \in [0..N -> S] /\ g[0] = x
      BY <1>4, Zenon
    <3> HIDE DEF S, x
    <3>2. g = [n \in 0..N |-> IF n = 0 THEN x ELSE c[n]]
      BY <2>2, <3>1, AsOneFunction
    <3>. QED
      BY <3>2, Zenon DEF x
  <2>. QED
    BY <2>3, <2>4, Zenon
<1>7. all = Body(all) /\ Joined(ps, d) = all[N]
  BY <1>1, <1>6, Zenon DEF Joined, Glued
<1> HIDE DEF all
<1>8. all[0] = <<>> /\ \A n \in 1..N : all[n] = all[n - 1] \o Glued(ps, d, n)
  <2>1. 0 \in 0..N /\ \A n \in 1..N : n \in 0..N /\ n # 0
    OBVIOUS
  <2>. QED
    BY <1>7, <2>1, Zenon
<1>9. Alike(all, g, N)
  BY <1>4, <1>5, <1>8, Zenon DEF Alike
<1>10. all[N] = g[N]
  BY <1>9, SameRounds, Zenon
<1>. QED
  BY <1>4, <1>5, <1>7, <1>10, Zenon DEF IsJoin

\* A piece more goes behind the delimiter, the first one excepted.
LEMMA JoinedAppend ==
  ASSUME NEW ps, ps \in Seq(Seq(Nat)), NEW x, x \in Seq(Nat), NEW d, d \in Seq(Nat)
  PROVE  /\ Joined(ps, d) \in Seq(Nat)
         /\ Joined(Append(ps, x), d) = IF ps = <<>> THEN x ELSE (Joined(ps, d) \o d) \o x
<1> DEFINE N == Len(ps)
           qs == Append(ps, x)
<1>1. /\ N \in Nat /\ ps \in [1..N -> Seq(Nat)] /\ qs \in [1..(N + 1) -> Seq(Nat)]
      /\ qs[N + 1] = x /\ \A n \in 1..N : qs[n] = ps[n]
      /\ ps = <<>> <=> N = 0
  <2>1. N \in Nat /\ ps \in [1..N -> Seq(Nat)] /\ (ps = <<>> <=> N = 0)
    BY SeqIsFunction
  <2>2. /\ qs \in [1..(N + 1) -> Seq(Nat)]
        /\ qs[N + 1] = x /\ \A n \in 1..N : qs[n] = ps[n]
    BY AppendOne
  <2>. QED
    BY <2>1, <2>2, Zenon
<1> HIDE DEF N, qs
<1>2. N + 1 \in Nat /\ (N + 1) - 1 = N /\ N + 1 \in 1..(N + 1) /\ N \in 0..N
  BY <1>1
<1>3. PICK g : IsJoin(g, ps, d, N)
  BY <1>1, JoinedLoop, Zenon
<1>4. PICK h : IsJoin(h, qs, d, N + 1)
  BY <1>1, <1>2, JoinedLoop, Zenon
<1>5. \A n \in 1..N : n \in 1..(N + 1) /\ Glued(qs, d, n) = Glued(ps, d, n)
  <2>1. \A n \in 1..N : n \in 1..(N + 1)
    BY <1>1
  <2>. QED
    BY <1>1, <2>1, Zenon DEF Glued
<1>6. Alike(h, g, N)
  BY <1>3, <1>4, <1>5, Zenon DEF Alike, IsJoin
<1>7. h[N] = g[N]
  BY <1>1, <1>6, SameRounds, Zenon
<1>8. Joined(qs, d) = g[N] \o Glued(qs, d, N + 1)
  BY <1>2, <1>4, <1>7, Zenon DEF IsJoin
<1>9. g[N] \in Seq(Nat) /\ Joined(ps, d) = g[N] /\ g[0] = <<>>
  BY <1>2, <1>3, Zenon DEF IsJoin
<1>10. CASE N = 0
  <2>1. Glued(qs, d, N + 1) = x
    <3>1. N + 1 = 1
      BY <1>10
    <3>. QED
      BY <1>1, <3>1, Zenon DEF Glued
  <2>2. g[N] = <<>>
    BY <1>9, <1>10, Zenon
  <2>3. <<>> \o x = x
    OBVIOUS
  <2>. QED
    BY <1>1, <1>8, <1>9, <1>10, <2>1, <2>2, <2>3, Zenon DEF qs
<1>11. CASE N # 0
  <2>1. Glued(qs, d, N + 1) = d \o x
    <3>1. N + 1 # 1
      BY <1>1, <1>11
    <3>. QED
      BY <1>1, <3>1, Zenon DEF Glued
  <2>2. (g[N] \o d) \o x = g[N] \o (d \o x)
    <3>1. Regroups(g[N], d, x)
      BY <1>9, Associates, Zenon
    <3>. QED
      BY <3>1, Zenon DEF Regroups
  <2>. QED
    BY <1>1, <1>8, <1>9, <1>11, <2>1, <2>2, Zenon DEF qs
<1>. QED
  BY <1>10, <1>11, Zenon

SplitStates(N) == [pos : 1..(N + 1), out : Seq(Seq(Nat))]
SplitState(p, o) == [pos |-> p, out |-> o]
SplitStart == [pos |-> 1, out |-> <<>>]

\* No occurrence of d begins in s at one of the positions P.
NoneAt(s, d, P) == \A p \in P : SubSeq(s, p, p + Len(d) - 1) # d

\* One round: it is over, or the rest is the last piece, or the piece ends
\* before the first occurrence q.
SplitRound(s, d, pos, o, st) ==
  LET N == Len(s)
  IN \/ pos > N /\ st = SplitState(pos, o)
     \/ /\ pos <= N /\ st = SplitState(N + 1, Append(o, SubSeq(s, pos, N)))
        /\ NoneAt(s, d, pos..(N - Len(d) + 1))
     \/ \E q \in pos..(N - Len(d) + 1) :
          /\ pos <= N /\ st = SplitState(q + Len(d), Append(o, SubSeq(s, pos, q - 1)))
          /\ SubSeq(s, q, q + Len(d) - 1) = d /\ NoneAt(s, d, pos..(q - 1))

LEMMA SplitOneIs ==
  ASSUME NEW N \in Nat, NEW s \in [1..N -> Nat], NEW L \in Nat \ {0}, NEW d \in [1..L -> Nat],
         NEW pos \in 1..(N + 1), NEW o
  PROVE  SplitRound(s, d, pos, o, SplitOne(s, d, SplitState(pos, o)))
<1> DEFINE st == SplitState(pos, o)
           found == Occurrences(s, d, pos)
<1>1. Len(s) = N /\ Len(d) = L /\ pos \in Int /\ N \in Int
  OBVIOUS
<1>2. st.pos = pos /\ st.out = o
  BY DEF SplitState
<1> HIDE DEF st
<1>3. found = {p \in pos..(N - L + 1) : SubSeq(s, p, p + L - 1) = d}
  BY <1>1, Zenon DEF Occurrences
<1> HIDE DEF found
<1>4. CASE pos > N
  BY <1>1, <1>2, <1>4, Zenon DEF SplitRound, SplitOne, st
<1>5. CASE ~(pos > N) /\ found = {}
  <2>1. SplitOne(s, d, st) = SplitState(N + 1, Append(o, SubSeq(s, pos, N)))
    BY <1>1, <1>2, <1>5, Zenon DEF SplitOne, SplitState, found
  <2>2. pos <= N
    BY <1>1, <1>5
  <2>3. NoneAt(s, d, pos..(N - L + 1))
    BY <1>1, <1>3, <1>5, Zenon DEF NoneAt
  <2>. QED
    BY <1>1, <2>1, <2>2, <2>3, Zenon DEF SplitRound, st
<1>6. CASE ~(pos > N) /\ found # {}
  <2> DEFINE q == Min(found)
  <2>1. SplitOne(s, d, st) = SplitState(q + L, Append(o, SubSeq(s, pos, q - 1)))
    BY <1>1, <1>2, <1>6, Zenon DEF SplitOne, SplitState, found
  <2>2. pos <= N
    BY <1>1, <1>6
  <2>3. found \in SUBSET Nat
    <3>1. pos..(N - L + 1) \subseteq Nat
      OBVIOUS
    <3>. QED
      BY <1>3, <3>1, Zenon
  <2>4. q \in found /\ \A p \in found : q <= p
    BY <1>6, <2>3, LeastNumber, Zenon
  <2> HIDE DEF q
  <2>5. q \in pos..(N - L + 1) /\ SubSeq(s, q, q + L - 1) = d
    BY <1>3, <2>4, Zenon
  <2>6. \A p \in pos..(q - 1) : p \in pos..(N - L + 1) /\ ~(q <= p)
    BY <2>5
  <2>7. NoneAt(s, d, pos..(q - 1))
    BY <1>1, <1>3, <2>4, <2>6, Zenon DEF NoneAt
  <2>. QED
    BY <1>1, <2>1, <2>2, <2>5, <2>7, Zenon DEF SplitRound, st
<1>. QED
  BY <1>4, <1>5, <1>6, Zenon DEF st

LEMMA Piece ==
  ASSUME NEW N \in Nat, NEW s \in [1..N -> Nat], NEW a \in 1..(N + 1), NEW b \in (a - 1)..N
  PROVE  SubSeq(s, a, b) \in Seq(Nat) /\ Len(SubSeq(s, a, b)) = b - a + 1
<1>1. \A i \in a..b : s[i] \in Nat
  OBVIOUS
<1>2. a \in Int /\ b \in Int /\ (IF a <= b THEN b - a + 1 ELSE 0) = b - a + 1
  OBVIOUS
<1>. QED
  BY <1>1, <1>2, SubSeqProperties

LEMMA SplitOneType ==
  ASSUME NEW N \in Nat, NEW s \in [1..N -> Nat], NEW L \in Nat \ {0}, NEW d \in [1..L -> Nat],
         NEW st, st \in SplitStates(N)
  PROVE  SplitOne(s, d, st) \in SplitStates(N)
<1>1. PICK pos \in 1..(N + 1), o \in Seq(Seq(Nat)) : st = SplitState(pos, o)
  BY DEF SplitStates, SplitState
<1>2. \A p \in 1..(N + 1), r \in Seq(Seq(Nat)) : SplitState(p, r) \in SplitStates(N)
  BY DEF SplitStates, SplitState
<1>3. \A x \in Seq(Nat) : Append(o, x) \in Seq(Seq(Nat))
  OBVIOUS
<1>4. Len(s) = N /\ Len(d) = L
  OBVIOUS
<1>5. SplitRound(s, d, pos, o, SplitOne(s, d, st))
  BY <1>1, SplitOneIs, Zenon
<1>6. pos <= N => SubSeq(s, pos, N) \in Seq(Nat)
  <2>1. pos <= N => N \in (pos - 1)..N
    OBVIOUS
  <2>. QED
    BY <2>1, Piece, Zenon
<1>7. \A q \in pos..(N - L + 1) : SubSeq(s, pos, q - 1) \in Seq(Nat) /\ q + L \in 1..(N + 1)
  <2>1. \A q \in pos..(N - L + 1) : q - 1 \in (pos - 1)..N /\ q + L \in 1..(N + 1)
    OBVIOUS
  <2>. QED
    BY <2>1, Piece, Zenon
<1>8. N + 1 \in 1..(N + 1)
  OBVIOUS
<1> DEFINE r == SplitOne(s, d, st)
<1>9. CASE r = SplitState(pos, o)
  BY <1>2, <1>9, Zenon
<1>10. CASE pos <= N /\ r = SplitState(N + 1, Append(o, SubSeq(s, pos, N)))
  <2>1. Append(o, SubSeq(s, pos, N)) \in Seq(Seq(Nat))
    BY <1>3, <1>6, <1>10, Zenon
  <2>. QED
    BY <1>2, <1>8, <1>10, <2>1, Zenon
<1>11. ASSUME NEW q \in pos..(N - L + 1), r = SplitState(q + L, Append(o, SubSeq(s, pos, q - 1)))
       PROVE  r \in SplitStates(N)
  <2>1. Append(o, SubSeq(s, pos, q - 1)) \in Seq(Seq(Nat)) /\ q + L \in 1..(N + 1)
    BY <1>3, <1>7, Zenon
  <2>. QED
    BY <1>2, <1>11, <2>1, Zenon
<1>. QED
  BY <1>4, <1>5, <1>9, <1>10, <1>11, Zenon DEF SplitRound

IsSplit(g, s, d, N) ==
  /\ g \in [0..N -> SplitStates(N)] /\ g[0] = SplitStart
  /\ \A n \in 1..N : g[n] = SplitOne(s, d, g[n - 1])
  /\ SplitAt(s, d) = g[N].out

LEMMA SplitLoop ==
  ASSUME NEW N \in Nat, NEW s \in [1..N -> Nat], NEW L \in Nat \ {0}, NEW d \in [1..L -> Nat]
  PROVE  \E g : IsSplit(g, s, d, N)
<1> DEFINE States == SplitStates(N)
           f == [n \in 1..N |-> [st \in States |-> SplitOne(s, d, st)]]
<1>1. SplitStart \in States /\ Len(s) = N
  BY DEF SplitStart, SplitStates
<1>2. f \in [1..N -> [States -> States]]
  BY SplitOneType, Zenon
<1> HIDE DEF States
<1>3. \A n \in 1..N : \A st \in States : f[n][st] = SplitOne(s, d, st)
  BY Zenon
<1> HIDE DEF f
<1>4. PICK g \in [0..N -> States] :
        g[0] = SplitStart /\ \A n \in 1..N : g[n] = f[n][g[n - 1]]
  <2>1. \E g : IsLoop(g, States, SplitStart, N, f)
    BY <1>1, <1>2, Iteration, Zenon
  <2>. QED
    BY <2>1, Zenon DEF IsLoop
<1>5. \A n \in 1..N : g[n] = SplitOne(s, d, g[n - 1])
  <2>1. \A n \in 1..N : n - 1 \in 0..N
    OBVIOUS
  <2>. QED
    BY <1>3, <1>4, <2>1, Zenon
<1> DEFINE Body(h) == [n \in 0..N |-> IF n = 0 THEN SplitStart ELSE SplitOne(s, d, h[n - 1])]
           cut == CHOOSE h : h = Body(h)
<1>6. g = Body(g)
  <2> DEFINE c == [n \in 0..N |-> SplitOne(s, d, g[n - 1])]
  <2>1. \A n \in 1..N : n \in 0..N
    OBVIOUS
  <2>2. \A n \in 1..N : g[n] = c[n]
    BY <1>5, <2>1, Zenon
  <2>3. \A n \in 0..N : c[n] = SplitOne(s, d, g[n - 1])
    BY Zenon
  <2> HIDE DEF c
  <2>4. g = [n \in 0..N |-> IF n = 0 THEN SplitStart ELSE c[n]]
    BY <1>4, <2>2, AsOneFunction
  <2>. QED
    BY <2>3, <2>4, Zenon
<1>7. cut = Body(cut) /\ SplitAt(s, d) = cut[N].out
  BY <1>1, <1>6, Zenon DEF SplitAt, SplitStart
<1> HIDE DEF cut
<1>8. cut[0] = SplitStart /\ \A n \in 1..N : cut[n] = SplitOne(s, d, cut[n - 1])
  <2>1. 0 \in 0..N /\ \A n \in 1..N : n \in 0..N /\ n # 0
    OBVIOUS
  <2>. QED
    BY <1>7, <2>1, Zenon
<1>9. Alike(cut, g, N)
  BY <1>4, <1>5, <1>8, Zenon DEF Alike
<1>10. cut[N] = g[N]
  BY <1>9, SameRounds, Zenon
<1>. QED
  BY <1>4, <1>5, <1>7, <1>10, Zenon DEF IsSplit, States

\* What is cut out before the first occurrence has none of its own.
LEMMA PieceFree ==
  ASSUME NEW N \in Nat, NEW s \in [1..N -> Nat], NEW L \in Nat \ {0}, NEW d \in [1..L -> Nat],
         NEW a \in 1..(N + 1), NEW b \in (a - 1)..N, NoneAt(s, d, a..(b - L + 1))
  PROVE  Occurrences(SubSeq(s, a, b), d, 1) = {}
<1> DEFINE x == SubSeq(s, a, b)
<1>1. Len(d) = L
  OBVIOUS
<1>2. Len(x) = b - a + 1
  BY Piece, Zenon
<1>3. ASSUME NEW p \in 1..(Len(x) - L + 1) PROVE SubSeq(x, p, p + L - 1) # d
  <2>1. a + p - 1 \in a..(b - L + 1) /\ (a + p - 1) + L - 1 = a + (p + L - 1) - 1
    BY <1>2
  <2>2. SubSeq(s, a + p - 1, a + (p + L - 1) - 1) # d
    BY <1>1, <2>1, Zenon DEF NoneAt
  <2>3. /\ s \in Seq(Nat) /\ Len(s) = N /\ a \in 1..N /\ b \in 1..N
        /\ p \in 1..(b - a + 1) /\ p + L - 1 \in 1..(b - a + 1)
    <3>1. s \in Seq(Nat) /\ Len(s) = N
      OBVIOUS
    <3>2. a \in 1..N /\ b \in 1..N /\ p \in 1..(b - a + 1) /\ p + L - 1 \in 1..(b - a + 1)
      BY <1>2
    <3>. QED
      BY <3>1, <3>2, Zenon
  <2>4. SubSeq(x, p, p + L - 1) = SubSeq(s, a + p - 1, a + (p + L - 1) - 1)
    BY <2>3, SubSeqOfSubSeq
  <2>. QED
    BY <2>2, <2>4, Zenon
<1> HIDE DEF x
<1>4. Occurrences(x, d, 1) = {}
  BY <1>1, <1>3, Zenon DEF Occurrences
<1>. QED
  BY <1>4, Zenon DEF x

\* What stands before pos: the pieces so far, each followed by the delimiter,
\* or all of the text when the last piece has been taken.
SplitBefore(s, d, pos, o) ==
  \/ o = <<>> /\ pos = 1
  \/ o # <<>> /\ Joined(o, d) \o d = SubSeq(s, 1, pos - 1)
  \/ o # <<>> /\ Joined(o, d) = s /\ pos = Len(s) + 1
NoneInside(o, d) == \A i \in 1..Len(o) : Occurrences(o[i], d, 1) = {}

JoinsUpTo(w, s, d, b) == w # <<>> /\ Joined(w, d) = SubSeq(s, 1, b)

LEMMA PieceAdded ==
  ASSUME NEW N \in Nat, NEW s \in [1..N -> Nat], NEW d, d \in Seq(Nat),
         NEW pos \in 1..N, NEW b \in (pos - 1)..N,
         NEW o, o \in Seq(Seq(Nat)), SplitBefore(s, d, pos, o)
  PROVE  JoinsUpTo(Append(o, SubSeq(s, pos, b)), s, d, b)
<1> DEFINE x == SubSeq(s, pos, b)
<1>1. x \in Seq(Nat) /\ Len(s) = N /\ s \in Seq(Nat)
  <2>1. pos \in 1..(N + 1)
    OBVIOUS
  <2>2. x \in Seq(Nat)
    BY <2>1, Piece, Zenon
  <2>3. Len(s) = N /\ s \in Seq(Nat)
    OBVIOUS
  <2>. QED
    BY <2>2, <2>3, Zenon
<1>2. Joined(Append(o, x), d) = IF o = <<>> THEN x ELSE (Joined(o, d) \o d) \o x
  BY <1>1, JoinedAppend, Zenon
<1>3. ASSUME o = <<>>, pos = 1 PROVE Joined(Append(o, x), d) = SubSeq(s, 1, b)
  BY <1>2, <1>3, Zenon
<1>4. ASSUME o # <<>>, Joined(o, d) \o d = SubSeq(s, 1, pos - 1)
      PROVE  Joined(Append(o, x), d) = SubSeq(s, 1, b)
  <2>1. SubSeq(s, 1, pos - 1) \o SubSeq(s, (pos - 1) + 1, b) = SubSeq(s, 1, b)
    <3>1. 1 \in 1..(N + 1) /\ pos - 1 \in (1 - 1)..N /\ b \in (pos - 1)..N
      OBVIOUS
    <3>. QED
      BY <1>1, <3>1, ConcatAdjacentSubSeq
  <2>2. (pos - 1) + 1 = pos
    OBVIOUS
  <2>. QED
    BY <1>2, <1>4, <2>1, <2>2, Zenon
<1>5. pos # Len(s) + 1
  BY <1>1
<1>6. Append(o, x) # <<>>
  <2> HIDE DEF x
  <2>. QED
    BY <1>1, AppendFills
<1>7. Joined(Append(o, x), d) = SubSeq(s, 1, b)
  BY <1>3, <1>4, <1>5, Zenon DEF SplitBefore
<1>. QED
  BY <1>6, <1>7, Zenon DEF JoinsUpTo

LEMMA MoreFree ==
  ASSUME NEW o, o \in Seq(Seq(Nat)), NEW x, x \in Seq(Nat), NEW d, NoneInside(o, d),
         Occurrences(x, d, 1) = {}
  PROVE  NoneInside(Append(o, x), d)
<1>1. Len(Append(o, x)) = Len(o) + 1 /\ Len(o) \in Nat
  OBVIOUS
<1>2. Append(o, x)[Len(o) + 1] = x /\ \A n \in 1..Len(o) : Append(o, x)[n] = o[n]
  BY AppendOne
<1>3. \A i \in 1..(Len(o) + 1) : i = Len(o) + 1 \/ i \in 1..Len(o)
  BY <1>1
<1>. QED
  BY <1>1, <1>2, <1>3, Zenon DEF NoneInside

Splitting(s, d, n, st) ==
  \E pos \in (n + 1)..(Len(s) + 1), o \in Seq(Seq(Nat)) :
    st = SplitState(pos, o) /\ SplitBefore(s, d, pos, o) /\ NoneInside(o, d)

LEMMA SplitsOn ==
  ASSUME NEW N \in Nat, NEW s \in [1..N -> Nat], NEW L \in Nat \ {0}, NEW d \in [1..L -> Nat],
         NEW n \in 0..(N - 1), NEW st, Splitting(s, d, n, st)
  PROVE  Splitting(s, d, n + 1, SplitOne(s, d, st))
<1>1. Len(s) = N /\ Len(d) = L /\ d \in Seq(Nat) /\ s \in Seq(Nat)
  <2>1. Len(s) = N /\ s \in Seq(Nat)
    OBVIOUS
  <2>2. Len(d) = L /\ d \in Seq(Nat)
    OBVIOUS
  <2>. QED
    BY <2>1, <2>2, Zenon
<1>2. PICK pos \in (n + 1)..(N + 1), o \in Seq(Seq(Nat)) :
         st = SplitState(pos, o) /\ SplitBefore(s, d, pos, o) /\ NoneInside(o, d)
  BY <1>1, Zenon DEF Splitting
<1> DEFINE r == SplitOne(s, d, st)
<1>3. SplitRound(s, d, pos, o, r)
  <2>1. pos \in 1..(N + 1)
    OBVIOUS
  <2>. QED
    BY <1>2, <2>1, SplitOneIs, Zenon
<1> HIDE DEF r
<1>4. CASE pos > N /\ r = SplitState(pos, o)
  <2>1. pos \in (n + 1 + 1)..(N + 1)
    BY <1>4
  <2>. QED
    BY <1>1, <1>2, <1>4, <2>1, Zenon DEF Splitting, r
<1>5. CASE /\ pos <= N /\ r = SplitState(N + 1, Append(o, SubSeq(s, pos, N)))
           /\ NoneAt(s, d, pos..(N - L + 1))
  <2> DEFINE w == Append(o, SubSeq(s, pos, N))
  <2>1. pos \in 1..N /\ pos \in 1..(N + 1) /\ N \in (pos - 1)..N /\ N + 1 \in (n + 1 + 1)..(N + 1)
    BY <1>5
  <2>2. SubSeq(s, pos, N) \in Seq(Nat) /\ Occurrences(SubSeq(s, pos, N), d, 1) = {}
    BY <1>5, <2>1, Piece, PieceFree, Zenon
  <2>3. w \in Seq(Seq(Nat)) /\ NoneInside(w, d)
    <3>1. w \in Seq(Seq(Nat))
      BY <2>2
    <3>. QED
      BY <1>2, <2>2, <3>1, MoreFree, Zenon
  <2>4. w # <<>> /\ Joined(w, d) = SubSeq(s, 1, N)
    <3>1. JoinsUpTo(w, s, d, N)
      BY <1>1, <1>2, <2>1, PieceAdded, Zenon
    <3>. QED
      BY <3>1, Zenon DEF JoinsUpTo
  <2> HIDE DEF w
  <2>5. SubSeq(s, 1, N) = s
    BY <1>1, SubSeqFull
  <2>6. SplitBefore(s, d, N + 1, w)
    BY <1>1, <2>4, <2>5, Zenon DEF SplitBefore
  <2>. QED
    BY <1>1, <1>5, <2>1, <2>3, <2>6, Zenon DEF Splitting, r, w
<1>6. ASSUME NEW q \in pos..(N - L + 1), pos <= N, NoneAt(s, d, pos..(q - 1)),
             r = SplitState(q + L, Append(o, SubSeq(s, pos, q - 1))), SubSeq(s, q, q + L - 1) = d
      PROVE  Splitting(s, d, n + 1, r)
  <2> DEFINE w == Append(o, SubSeq(s, pos, q - 1))
  <2>1. /\ pos \in 1..N /\ pos \in 1..(N + 1) /\ q - 1 \in (pos - 1)..N /\ (q - 1) + 1 = q
        /\ q + L - 1 \in (q - 1)..N /\ (q + L) - 1 = q + L - 1 /\ q + L \in (n + 1 + 1)..(N + 1)
    BY <1>6
  <2>2. SubSeq(s, pos, q - 1) \in Seq(Nat) /\ Occurrences(SubSeq(s, pos, q - 1), d, 1) = {}
    <3>1. NoneAt(s, d, pos..((q - 1) - L + 1))
      <4>1. \A p \in pos..((q - 1) - L + 1) : p \in pos..(q - 1)
        OBVIOUS
      <4>. QED
        BY <1>6, <4>1, Zenon DEF NoneAt
    <3>. QED
      BY <2>1, <3>1, Piece, PieceFree, Zenon
  <2>3. w \in Seq(Seq(Nat)) /\ NoneInside(w, d)
    <3>1. w \in Seq(Seq(Nat))
      BY <2>2
    <3>. QED
      BY <1>2, <2>2, <3>1, MoreFree, Zenon
  <2>4. w # <<>> /\ Joined(w, d) = SubSeq(s, 1, q - 1)
    <3>1. JoinsUpTo(w, s, d, q - 1)
      BY <1>1, <1>2, <2>1, PieceAdded, Zenon
    <3>. QED
      BY <3>1, Zenon DEF JoinsUpTo
  <2> HIDE DEF w
  <2>5. SubSeq(s, 1, q - 1) \o SubSeq(s, (q - 1) + 1, q + L - 1) = SubSeq(s, 1, q + L - 1)
    <3>1. 1 \in 1..(N + 1) /\ q - 1 \in (1 - 1)..N
      BY <2>1
    <3>. QED
      BY <1>1, <2>1, <3>1, ConcatAdjacentSubSeq
  <2>6. SplitBefore(s, d, q + L, w)
    BY <1>6, <2>1, <2>4, <2>5, Zenon DEF SplitBefore
  <2>. QED
    BY <1>1, <1>6, <2>1, <2>3, <2>6, Zenon DEF Splitting, w
<1>. QED
  BY <1>1, <1>3, <1>4, <1>5, <1>6, Zenon DEF SplitRound, r

LEMMA SplitByDelimiter ==
  ASSUME NEW s, s \in Seq(Nat), NEW d, d \in Seq(Nat), d # <<>>
  PROVE  /\ Joined(SplitAt(s, d), d) = s \/ Joined(SplitAt(s, d), d) \o d = s
         /\ \A i \in DOMAIN SplitAt(s, d) : Occurrences(SplitAt(s, d)[i], d, 1) = {}
<1> DEFINE N == Len(s)
           L == Len(d)
<1>1. N \in Nat /\ s \in [1..N -> Nat] /\ L \in Nat \ {0} /\ d \in [1..L -> Nat]
  OBVIOUS
<1> HIDE DEF N, L
<1>2. PICK g : IsSplit(g, s, d, N)
  BY <1>1, SplitLoop, Zenon
<1> DEFINE T == {n \in 0..N : Splitting(s, d, n, g[n])}
<1>3. 0 \in T
  <2>1. 0 \in 0..N /\ 1 \in (0 + 1)..(Len(s) + 1) /\ <<>> \in Seq(Seq(Nat)) /\ Len(<<>>) = 0
    BY <1>1 DEF N
  <2>2. 1..0 = {}
    OBVIOUS
  <2>3. NoneInside(<<>>, d)
    BY <2>1, <2>2, Zenon DEF NoneInside
  <2>4. SplitBefore(s, d, 1, <<>>)
    BY Zenon DEF SplitBefore
  <2>5. g[0] = SplitState(1, <<>>)
    BY <1>2, Zenon DEF IsSplit, SplitStart, SplitState
  <2>. QED
    BY <2>1, <2>3, <2>4, <2>5, Zenon DEF Splitting
<1>4. ASSUME NEW n \in 1..N, n - 1 \in T
      PROVE  n \in T
  <2>1. n \in 0..N /\ n - 1 \in 0..(N - 1) /\ (n - 1) + 1 = n
    BY <1>1
  <2>2. Splitting(s, d, n - 1, g[n - 1])
    BY <1>4, Zenon
  <2>3. Splitting(s, d, (n - 1) + 1, SplitOne(s, d, g[n - 1]))
    BY <1>1, <2>1, <2>2, SplitsOn, Zenon
  <2>. QED
    BY <1>2, <2>1, <2>3, Zenon DEF IsSplit
<1>5. N \in T
  <2> HIDE DEF T
  <2>1. N \in 0..N
    BY <1>1
  <2>. QED
    BY <1>1, <1>3, <1>4, <2>1, RoundInduction, Zenon
<1>6. PICK pos \in (N + 1)..(N + 1), o \in Seq(Seq(Nat)) :
        g[N] = SplitState(pos, o) /\ SplitBefore(s, d, pos, o) /\ NoneInside(o, d)
  BY <1>5, Zenon DEF Splitting, N
<1>7. pos = N + 1 /\ pos - 1 = N
  BY <1>1
<1>8. SplitAt(s, d) = o
  <2>1. SplitAt(s, d) = SplitState(pos, o).out
    BY <1>2, <1>6, Zenon DEF IsSplit
  <2>. QED
    BY <2>1 DEF SplitState
<1>9. DOMAIN o = 1..Len(o)
  OBVIOUS
<1>10. SubSeq(s, 1, N) = s
  BY SubSeqFull DEF N
<1>11. CASE o = <<>> /\ pos = 1
  <2>1. N = 0
    BY <1>1, <1>7, <1>11
  <2>2. s = <<>>
    BY <2>1 DEF N
  <2>3. Joined(<<>>, d) = <<>>
    <3>1. 0 \in Nat /\ <<>> \in [1..0 -> Seq(Nat)]
      <4>1. <<>> \in Seq(Seq(Nat)) /\ Len(<<>>) = 0
        OBVIOUS
      <4>. QED
        BY <4>1, SeqIsFunction
    <3>2. PICK h : IsJoin(h, <<>>, d, 0)
      BY <3>1, JoinedLoop, Zenon
    <3>. QED
      BY <3>2, Zenon DEF IsJoin
  <2>. QED
    BY <1>6, <1>8, <1>9, <1>11, <2>2, <2>3, Zenon DEF NoneInside
<1>12. CASE ~(o = <<>> /\ pos = 1)
  <2>1. Joined(o, d) = s \/ Joined(o, d) \o d = s
    BY <1>6, <1>7, <1>10, <1>12, Zenon DEF SplitBefore
  <2>. QED
    BY <1>6, <1>8, <1>9, <2>1, Zenon DEF NoneInside
<1>. QED
  BY <1>11, <1>12, Zenon

LEMMA SplitByByte ==
  ASSUME NEW s, s \in Seq(Nat)
  PROVE  Joined([i \in DOMAIN s |-> <<s[i]>>], <<>>) = s
<1> DEFINE N == Len(s)
           ps == [i \in DOMAIN s |-> <<s[i]>>]
<1>1. N \in Nat /\ s \in [1..N -> Nat] /\ DOMAIN s = 1..N
  OBVIOUS
<1>2. ps \in [1..N -> Seq(Nat)] /\ \A n \in 1..N : ps[n] = <<s[n]>>
  <2>1. \A n \in 1..N : <<s[n]>> \in Seq(Nat)
    BY <1>1
  <2> HIDE DEF N
  <2>. QED
    BY <1>1, <2>1, Zenon
<1> HIDE DEF N, ps
<1>3. PICK g : IsJoin(g, ps, <<>>, N)
  <2>1. <<>> \in Seq(Nat)
    OBVIOUS
  <2>. QED
    BY <1>1, <1>2, <2>1, JoinedLoop, Zenon
<1> DEFINE T == {n \in 0..N : g[n] = SubSeq(s, 1, n)}
<1>4. 0 \in T
  <2>1. SubSeq(s, 1, 0) = <<>> /\ 0 \in 0..N
    BY <1>1, SubSeqEmpty
  <2>. QED
    BY <1>3, <2>1, Zenon DEF IsJoin
<1>5. ASSUME NEW n \in 1..N, n - 1 \in T
      PROVE  n \in T
  <2>1. Glued(ps, <<>>, n) = <<s[n]>>
    <3>1. <<>> \o <<s[n]>> = <<s[n]>>
      BY <1>1
    <3>. QED
      BY <1>2, <3>1, Zenon DEF Glued
  <2>2. g[n - 1] = SubSeq(s, 1, n - 1)
    BY <1>5, Zenon
  <2>3. SubSeq(s, 1, n) = SubSeq(s, 1, n - 1) \o <<s[n]>>
    <3>1. s \in Seq(Nat) /\ 1 \in 1..Len(s) /\ n \in 1..Len(s)
      BY <1>1 DEF N
    <3>. QED
      BY <3>1, SubSeqRecursiveSecond
  <2>4. n \in 0..N
    BY <1>1
  <2>. QED
    BY <1>3, <2>1, <2>2, <2>3, <2>4, Zenon DEF IsJoin
<1>6. N \in T
  <2> HIDE DEF T
  <2>1. N \in 0..N
    BY <1>1
  <2>. QED
    BY <1>1, <1>4, <1>5, <2>1, RoundInduction, Zenon
<1>7. SubSeq(s, 1, N) = s
  BY SubSeqFull DEF N
<1>8. Joined(ps, <<>>) = s
  BY <1>3, <1>6, <1>7, Zenon DEF IsJoin
<1>. QED
  BY <1>8, Zenon DEF ps

\* The pieces split_string cuts a text into give the text back, joined by the
\* delimiter, but for a delimiter at the very end; no piece has one inside.
THEOREM SplittingRejoins ==
  ASSUME NEW s, s \in Seq(Nat), NEW d, d \in Seq(Nat)
  PROVE  Rejoins(s, d)
<1>1. CASE d = <<>>
  <2>1. Joined([i \in DOMAIN s |-> <<s[i]>>], <<>>) = s
    BY SplitByByte, Zenon
  <2>. QED
    BY <1>1, <2>1, Zenon DEF Rejoins, split_string
<1>2. CASE d # <<>>
  <2>1. /\ Joined(SplitAt(s, d), d) = s \/ Joined(SplitAt(s, d), d) \o d = s
        /\ \A i \in DOMAIN SplitAt(s, d) : Occurrences(SplitAt(s, d)[i], d, 1) = {}
    BY <1>2, SplitByDelimiter, Zenon
  <2>2. split_string(s, d) = SplitAt(s, d)
    BY <1>2, Zenon DEF split_string
  <2>. QED
    BY <2>1, <2>2, Zenon DEF Rejoins
<1>. QED
  BY <1>1, <1>2, Zenon
-----------------------------------------------------------------------------
(* Lines *)

LEMMA BlockSums ==
  ASSUME NEW b \in Nat, NEW z \in Nat
  PROVE  b * z \in Nat /\ (b + 1) * z = b * z + z /\ 0 * z = 0
OBVIOUS

LEMMA BlocksGrow ==
  ASSUME NEW b \in Nat, NEW m \in Nat, NEW z \in Nat
  PROVE  (b + m) * z = b * z + m * z
OBVIOUS

\* The whole blocks of z bytes reach as far as they can and are apart.
LEMMA WholeBlocks ==
  ASSUME NEW N \in Nat, NEW z \in Nat \ {0}
  PROVE  N \div z \in Nat /\ (N \div z) * z \in 0..N
<1>1. N \div z \in Nat
  OBVIOUS
<1>2. (N \div z) * z <= N
  OBVIOUS
<1>. QED
  BY <1>1, <1>2, BlockSums

LEMMA BlocksCover ==
  ASSUME NEW B \in Nat, NEW z \in Nat \ {0}
  PROVE  /\ \A i \in 1..(B * z) : \E b \in 0..(B - 1), k \in 1..z : i = b * z + k
         /\ \A b \in 0..(B - 1), k \in 1..z : b * z + k \in 1..(B * z)
<1> DEFINE Covers(c) == \A i \in 1..(c * z) : \E b \in 0..(c - 1), k \in 1..z : i = b * z + k
           T == {c \in Nat : Covers(c)}
<1>1. T \in SUBSET Nat
  OBVIOUS
<1>2. 0 \in T
  <2>1. 0 * z = 0 /\ 1..0 = {} /\ 0 \in Nat
    BY BlockSums
  <2>. QED
    BY <2>1, Zenon
<1>3. ASSUME NEW c \in T PROVE c + 1 \in T
  <2>1. c \in Nat /\ c * z \in Nat /\ (c + 1) * z = c * z + z /\ Covers(c)
    BY BlockSums
  <2>2. ASSUME NEW i \in 1..((c + 1) * z)
        PROVE  \E b \in 0..((c + 1) - 1), k \in 1..z : i = b * z + k
    <3>1. PICK y \in Nat : y = c * z
      BY <2>1
    <3>2. i \in 1..(y + z)
      BY <2>1, <3>1, Zenon
    <3>3. CASE i <= y
      <4>1. i \in 1..(c * z)
        BY <3>1, <3>2, <3>3
      <4>2. PICK b \in 0..(c - 1), k \in 1..z : i = b * z + k
        BY <2>1, <4>1, Zenon
      <4>3. b \in 0..((c + 1) - 1)
        BY <2>1
      <4>. QED
        BY <4>2, <4>3, Zenon
    <3>4. CASE i > y
      <4>1. i - y \in 1..z /\ i = y + (i - y) /\ c \in 0..((c + 1) - 1)
        BY <2>1, <3>2, <3>4
      <4>. QED
        BY <3>1, <4>1, Zenon
    <3>. QED
      BY <3>2, <3>3, <3>4
  <2>3. c + 1 \in Nat
    BY <2>1
  <2>. QED
    BY <2>2, <2>3, Zenon
<1>4. Covers(B)
  <2>1. B \in T
    <3> HIDE DEF T
    <3>. QED
      BY <1>1, <1>2, <1>3, SetInduction
  <2>. QED
    BY <2>1, Zenon
<1>5. ASSUME NEW b \in 0..(B - 1), NEW k \in 1..z
      PROVE  b * z + k \in 1..(B * z)
  <2>1. PICK m \in Nat : B = (b + 1) + m
    <3>1. B - (b + 1) \in Nat /\ B = (b + 1) + (B - (b + 1))
      OBVIOUS
    <3>. QED
      BY <3>1, Zenon
  <2>2. B * z = (b + 1) * z + m * z
    <3>1. b + 1 \in Nat /\ z \in Nat
      OBVIOUS
    <3>. QED
      BY <2>1, <3>1, BlocksGrow
  <2>3. b \in Nat /\ z \in Nat
    OBVIOUS
  <2>4. b * z \in Nat /\ (b + 1) * z = b * z + z /\ m * z \in Nat
    BY <2>3, BlockSums
  <2>5. PICK y \in Nat, x \in Nat : y = b * z /\ x = m * z
    BY <2>4
  <2>6. B * z = (y + z) + x
    BY <2>2, <2>4, <2>5, Zenon
  <2>7. y + k \in 1..((y + z) + x)
    OBVIOUS
  <2>. QED
    BY <2>5, <2>6, <2>7, Zenon
<1>. QED
  BY <1>4, <1>5, Zenon

Newlines(s) == {i \in DOMAIN s : s[i] = Newline}

\* The blocks and the rest of the text between them hold every newline.
LEMMA NewlinesFound ==
  ASSUME NEW C, NEW N \in Nat, NEW s \in [1..N -> C], NEW z \in Nat \ {0}
  PROVE  NewlinePositions(s, z) = Newlines(s)
<1> DEFINE B == N \div z
           I(b) == {b * z + k : k \in {m \in 1..z : s[b * z + m] = Newline}}
           R == {i \in (B * z + 1)..N : s[i] = Newline}
<1>1. Len(s) = N /\ DOMAIN s = 1..N
  OBVIOUS
<1>2. B \in Nat /\ B * z \in 0..N
  BY WholeBlocks
<1> HIDE DEF B
<1>3. /\ \A i \in 1..(B * z) : \E b \in 0..(B - 1), k \in 1..z : i = b * z + k
      /\ \A b \in 0..(B - 1), k \in 1..z : b * z + k \in 1..(B * z)
  BY <1>2, BlocksCover
<1>4. NewlinePositions(s, z) = (UNION {I(b) : b \in 0..(B - 1)}) \cup R
  BY <1>1, Zenon DEF NewlinePositions, B
<1>5. ASSUME NEW i, i \in Newlines(s)
      PROVE  i \in (UNION {I(b) : b \in 0..(B - 1)}) \cup R
  <2>1. i \in 1..N /\ s[i] = Newline
    BY <1>1, <1>5, Zenon DEF Newlines
  <2>2. i \in 1..(B * z) \/ i \in (B * z + 1)..N
    BY <1>2, <2>1
  <2>3. CASE i \in 1..(B * z)
    <3>1. PICK b \in 0..(B - 1), k \in 1..z : i = b * z + k
      BY <1>3, <2>3, Zenon
    <3>2. i \in I(b)
      BY <2>1, <3>1, Zenon
    <3> HIDE DEF I
    <3>. QED
      BY <3>1, <3>2, Zenon
  <2>4. CASE i \in (B * z + 1)..N
    <3>1. i \in R
      BY <2>1, <2>4, Zenon
    <3> HIDE DEF R, I
    <3>. QED
      BY <3>1, Zenon
  <2>. QED
    BY <2>2, <2>3, <2>4, Zenon
<1>6. ASSUME NEW b \in 0..(B - 1), NEW i, i \in I(b)
      PROVE  i \in Newlines(s)
  <2>1. PICK k \in 1..z : i = b * z + k /\ s[b * z + k] = Newline
    BY <1>6, Zenon
  <2>2. i \in 1..(B * z) /\ s[i] = Newline
    BY <1>3, <2>1, Zenon
  <2>3. i \in 1..N
    BY <1>2, <2>2
  <2>. QED
    BY <1>1, <2>2, <2>3, Zenon DEF Newlines
<1>7. ASSUME NEW i, i \in R
      PROVE  i \in Newlines(s)
  <2>1. i \in 1..N /\ s[i] = Newline
    BY <1>2, <1>7
  <2>. QED
    BY <1>1, <2>1, Zenon DEF Newlines
<1> HIDE DEF I, R
<1>8. \A i : i \in NewlinePositions(s, z) <=> i \in Newlines(s)
  <2>1. ASSUME NEW i, i \in UNION {I(b) : b \in 0..(B - 1)} PROVE i \in Newlines(s)
    BY <1>6, <2>1, Zenon
  <2>2. ASSUME NEW i, i \in NewlinePositions(s, z) PROVE i \in Newlines(s)
    BY <1>4, <1>7, <2>1, <2>2, Zenon
  <2>3. ASSUME NEW i, i \in Newlines(s) PROVE i \in NewlinePositions(s, z)
    BY <1>4, <1>5, <2>3, Zenon
  <2>. QED
    BY <2>2, <2>3, Zenon
<1>. QED
  BY <1>8, Zenon

\* The n lowest of P, in order.
ListsLowest(w, P, n) ==
  /\ w \in [1..n -> P] /\ IsFiniteSet(ToSet(w)) /\ Cardinality(ToSet(w)) = n
  /\ \A a, b \in 1..n : a < b => w[a] < w[b]
  /\ \A i \in P : i \in ToSet(w) \/ \A a \in 1..n : w[a] < i

LEMMA ListedNext ==
  ASSUME NEW P, P \in SUBSET Nat, IsFiniteSet(P), NEW n \in Nat, n < Cardinality(P),
         NEW w, w \in Seq(P), ListsLowest(w, P, n)
  PROVE  ListsLowest(Append(w, Min(P \ ToSet(w))), P, n + 1)
<1> DEFINE x == Min(P \ ToSet(w))
           v == Append(w, x)
<1>1. Len(w) = n /\ DOMAIN w = 1..n /\ ToSet(w) \in SUBSET P
  <2>1. w \in [1..n -> P]
    BY Zenon DEF ListsLowest
  <2>2. Len(w) = n /\ DOMAIN w = 1..n
    BY <2>1
  <2>. QED
    BY <2>1, <2>2, Zenon DEF ToSet
<1>2. P \ ToSet(w) # {}
  <2>1. n \in Int /\ Cardinality(P) \in Nat
    BY FS_CardinalityType
  <2>2. n # Cardinality(P)
    BY <2>1
  <2>3. P # ToSet(w)
    BY <2>2, Zenon DEF ListsLowest
  <2>. QED
    BY <1>1, <2>3, Zenon
<1>3. x \in P /\ x \notin ToSet(w) /\ \A i \in P \ ToSet(w) : x <= i
  <2>1. P \ ToSet(w) \in SUBSET Nat
    BY Zenon
  <2>2. x \in P \ ToSet(w) /\ \A i \in P \ ToSet(w) : x <= i
    BY <1>2, <2>1, LeastNumber, Zenon
  <2>. QED
    BY <2>2, Zenon
<1> HIDE DEF x
<1>4. v \in [1..(n + 1) -> P] /\ v[n + 1] = x /\ \A a \in 1..n : v[a] = w[a]
  BY <1>1, <1>3, AppendOne
<1> HIDE DEF v
<1>5. n + 1 \in 1..(n + 1) /\ \A a \in 1..(n + 1) : a \in 1..n \/ a = n + 1
  OBVIOUS
<1>6. \A a \in 1..n : a \in 1..(n + 1)
  OBVIOUS
<1>7. ToSet(v) = ToSet(w) \cup {x}
  <2>1. DOMAIN v = 1..(n + 1)
    BY <1>4, Zenon
  <2>2. \A y : y \in ToSet(v) <=> \E a \in 1..(n + 1) : y = v[a]
    BY <2>1, Zenon DEF ToSet
  <2>3. \A y : y \in ToSet(w) <=> \E a \in 1..n : y = w[a]
    BY <1>1, Zenon DEF ToSet
  <2>4. ASSUME NEW y, y \in ToSet(v) PROVE y \in ToSet(w) \cup {x}
    <3>1. PICK a \in 1..(n + 1) : y = v[a]
      BY <2>2, <2>4, Zenon
    <3>2. CASE a \in 1..n
      BY <1>4, <2>3, <3>1, <3>2, Zenon
    <3>3. CASE a = n + 1
      BY <1>4, <3>1, <3>3, Zenon
    <3>. QED
      BY <1>5, <3>2, <3>3, Zenon
  <2>5. ASSUME NEW y, y \in ToSet(w) PROVE y \in ToSet(v)
    BY <1>4, <1>6, <2>2, <2>3, <2>5, Zenon
  <2>6. x \in ToSet(v)
    BY <1>4, <1>5, <2>2, Zenon
  <2>. QED
    BY <2>4, <2>5, <2>6, Zenon
<1>8. IsFiniteSet(ToSet(v)) /\ Cardinality(ToSet(v)) = n + 1
  <2>1. IsFiniteSet(ToSet(w)) /\ Cardinality(ToSet(w)) = n
    BY Zenon DEF ListsLowest
  <2>2. /\ IsFiniteSet(ToSet(w) \cup {x})
        /\ Cardinality(ToSet(w) \cup {x}) = IF x \in ToSet(w) THEN Cardinality(ToSet(w))
                                            ELSE Cardinality(ToSet(w)) + 1
    BY <2>1, FS_AddElement, Zenon
  <2>. QED
    BY <1>3, <1>7, <2>1, <2>2, Zenon
<1>9. \A a \in 1..n : w[a] \in Nat /\ w[a] < x
  BY <1>1, <1>3, Zenon DEF ListsLowest, ToSet
<1>10. ASSUME NEW a \in 1..(n + 1), NEW b \in 1..(n + 1), a < b
       PROVE  v[a] < v[b]
  <2>1. CASE b \in 1..n
    <3>1. a \in 1..n
      BY <1>10, <2>1
    <3>. QED
      BY <1>4, <1>10, <2>1, <3>1, Zenon DEF ListsLowest
  <2>2. CASE b = n + 1
    <3>1. a \in 1..n
      BY <1>10, <2>2
    <3>. QED
      BY <1>4, <1>9, <2>2, <3>1, Zenon
  <2>. QED
    BY <1>5, <2>1, <2>2, Zenon
<1>11. ASSUME NEW i \in P, i \notin ToSet(v)
       PROVE  \A a \in 1..(n + 1) : v[a] < i
  <2>1. i \notin ToSet(w) /\ i # x
    BY <1>7, <1>11, Zenon
  <2>2. x <= i
    BY <1>3, <2>1, Zenon
  <2>3. x \in Nat /\ i \in Nat
    BY <1>3, Zenon
  <2>4. x < i
    BY <2>1, <2>2, <2>3
  <2>5. \A a \in 1..n : w[a] < i
    BY <2>1, Zenon DEF ListsLowest
  <2>. QED
    BY <1>4, <1>5, <2>4, <2>5, Zenon
<1>12. ListsLowest(v, P, n + 1)
  BY <1>4, <1>8, <1>10, <1>11, Zenon DEF ListsLowest
<1>. QED
  BY <1>12, Zenon DEF v, x

\* The list starts empty.
LEMMA ListedStart ==
  ASSUME NEW P
  PROVE  ListsLowest(<<>>, P, 0) /\ <<>> \in Seq(P)
<1>1. <<>> \in Seq(P) /\ Len(<<>>) = 0 /\ DOMAIN <<>> = 1..0 /\ 1..0 = {}
  OBVIOUS
<1>2. <<>> \in [1..0 -> P]
  BY <1>1, SeqIsFunction
<1>3. ToSet(<<>>) = {}
  BY <1>1, Zenon DEF ToSet
<1>4. IsFiniteSet({}) /\ Cardinality({}) = 0
  BY FS_EmptySet, Zenon
<1>. QED
  BY <1>1, <1>2, <1>3, <1>4, Zenon DEF ListsLowest

NextListed(P, w) == Append(w, Min(P \ ToSet(w)))
IsListing(g, P, G, K) ==
  /\ g \in [0..K -> Seq(G)] /\ g[0] = <<>>
  /\ \A n \in 1..K : g[n] = NextListed(P, g[n - 1])
  /\ Ascending(P) = g[K]

LEMMA AscendingLoop ==
  ASSUME NEW P, P \in SUBSET Nat, NEW K \in Nat, K = Cardinality(P)
  PROVE  \E g : IsListing(g, P, Nat \cup {Min({})}, K)
<1> DEFINE G == Nat \cup {Min({})}
           States == Seq(G)
           Start == <<>>
           f == [n \in 1..K |-> [st \in States |-> NextListed(P, st)]]
<1>1. Start \in States
  OBVIOUS
<1>2. ASSUME NEW st, st \in States PROVE NextListed(P, st) \in States
  <2>1. Min(P \ ToSet(st)) \in G
    <3>1. CASE P \ ToSet(st) = {}
      BY <3>1, Zenon
    <3>2. CASE P \ ToSet(st) # {}
      <4>1. P \ ToSet(st) \in SUBSET Nat
        BY Zenon
      <4>2. Min(P \ ToSet(st)) \in P \ ToSet(st)
        BY <3>2, <4>1, LeastNumber, Zenon
      <4>. QED
        BY <4>2, Zenon
    <3>. QED
      BY <3>1, <3>2, Zenon
  <2> HIDE DEF G
  <2>2. Append(st, Min(P \ ToSet(st))) \in Seq(G)
    BY <1>2, <2>1
  <2>. QED
    BY <2>2, Zenon DEF NextListed
<1> HIDE DEF States, Start
<1>3. f \in [1..K -> [States -> States]]
  BY <1>2, Zenon
<1>4. \A n \in 1..K : \A st \in States : f[n][st] = NextListed(P, st)
  BY Zenon
<1> HIDE DEF f
<1>5. PICK g \in [0..K -> States] :
        g[0] = Start /\ \A n \in 1..K : g[n] = f[n][g[n - 1]]
  <2>1. \E g : IsLoop(g, States, Start, K, f)
    BY <1>1, <1>3, Iteration, Zenon
  <2>. QED
    BY <2>1, Zenon DEF IsLoop
<1>6. \A n \in 1..K : g[n] = NextListed(P, g[n - 1])
  <2>1. \A n \in 1..K : n - 1 \in 0..K
    OBVIOUS
  <2>. QED
    BY <1>4, <1>5, <2>1, Zenon
<1> DEFINE Body(h) == [n \in 0..K |-> IF n = 0 THEN Start ELSE NextListed(P, h[n - 1])]
           least == CHOOSE h : h = Body(h)
<1>7. g = Body(g)
  <2> DEFINE c == [n \in 0..K |-> NextListed(P, g[n - 1])]
  <2>1. \A n \in 1..K : n \in 0..K
    OBVIOUS
  <2>2. \A n \in 1..K : g[n] = c[n]
    BY <1>6, <2>1, Zenon
  <2>3. \A n \in 0..K : c[n] = NextListed(P, g[n - 1])
    BY Zenon
  <2> HIDE DEF c
  <2>4. g = [n \in 0..K |-> IF n = 0 THEN Start ELSE c[n]]
    BY <1>5, <2>2, AsOneFunction
  <2>. QED
    BY <2>3, <2>4, Zenon
<1>8. least = Body(least) /\ Ascending(P) = least[K]
  BY <1>7, Zenon DEF Ascending, NextListed, Start
<1> HIDE DEF least
<1>9. least[0] = Start /\ \A n \in 1..K : least[n] = NextListed(P, least[n - 1])
  <2>1. 0 \in 0..K /\ \A n \in 1..K : n \in 0..K /\ n # 0
    OBVIOUS
  <2>. QED
    BY <1>8, <2>1, Zenon
<1>10. Alike(least, g, K)
  BY <1>5, <1>6, <1>9, Zenon DEF Alike
<1>11. least[K] = g[K]
  BY <1>10, SameRounds, Zenon
<1>. QED
  BY <1>5, <1>6, <1>8, <1>11, Zenon DEF IsListing, States, Start

\* All of P, in order.
IsAscending(w, P, K) ==
  /\ w \in [1..K -> P]
  /\ \A a, b \in 1..K : a < b => w[a] < w[b]
  /\ \A i \in P : \E a \in 1..K : w[a] = i

LEMMA AscendingIs ==
  ASSUME NEW P, P \in SUBSET Nat, IsFiniteSet(P), NEW K \in Nat, K = Cardinality(P)
  PROVE  IsAscending(Ascending(P), P, K)
<1>1. PICK g : IsListing(g, P, Nat \cup {Min({})}, K)
  BY AscendingLoop, Zenon
<1> DEFINE T == {n \in 0..K : g[n] \in Seq(P) /\ ListsLowest(g[n], P, n)}
<1>2. 0 \in T
  <2>1. 0 \in 0..K
    OBVIOUS
  <2>. QED
    BY <1>1, <2>1, ListedStart, Zenon DEF IsListing
<1>3. ASSUME NEW n \in 1..K, n - 1 \in T
      PROVE  n \in T
  <2>1. n \in 0..K /\ n - 1 \in Nat /\ n - 1 < K /\ (n - 1) + 1 = n
    OBVIOUS
  <2>2. g[n - 1] \in Seq(P) /\ ListsLowest(g[n - 1], P, n - 1) /\ g[n] = NextListed(P, g[n - 1])
    BY <1>1, <1>3, Zenon DEF IsListing
  <2>3. n - 1 < Cardinality(P)
    BY <2>1, Zenon
  <2>4. ListsLowest(NextListed(P, g[n - 1]), P, (n - 1) + 1)
    BY <2>1, <2>2, <2>3, ListedNext, Zenon DEF NextListed
  <2>5. ListsLowest(g[n], P, n)
    BY <2>1, <2>2, <2>4, Zenon
  <2>6. g[n] \in [1..n -> P]
    BY <2>5, Zenon DEF ListsLowest
  <2>7. g[n] \in Seq(P)
    BY <2>6
  <2>. QED
    BY <2>1, <2>5, <2>7, Zenon
<1>4. K \in T
  <2> HIDE DEF T
  <2>1. K \in 0..K
    OBVIOUS
  <2>. QED
    BY <1>2, <1>3, <2>1, RoundInduction, Zenon
<1> DEFINE w == Ascending(P)
<1>5. ListsLowest(w, P, K)
  BY <1>1, <1>4, Zenon DEF IsListing
<1> HIDE DEF w, T
<1>6. DOMAIN w = 1..K /\ ToSet(w) \in SUBSET P /\ Cardinality(ToSet(w)) = Cardinality(P)
  BY <1>5, Zenon DEF ListsLowest, ToSet
<1>7. ToSet(w) = P
  BY <1>6, FS_Subset, Zenon
<1>8. \A i \in P : \E a \in 1..K : w[a] = i
  BY <1>6, <1>7, Zenon DEF ToSet
<1>9. IsAscending(w, P, K)
  BY <1>5, <1>8, Zenon DEF IsAscending, ListsLowest
<1>. QED
  BY <1>9, Zenon DEF w

\* Line n ends at the nth newline and begins behind the one before.
LineStart(w, n) == IF n = 1 THEN 1 ELSE w[n - 1] + 1
NoNewline(s, a, b) == \A i \in a..b : s[i] # Newline

IsLine(s, a, e) == a \in 1..e /\ NoNewline(s, a, e - 1)

LEMMA LineEnds ==
  ASSUME NEW C, NEW N \in Nat, NEW s \in [1..N -> C], NEW K \in Nat,
         NEW w, IsAscending(w, Newlines(s), K), NEW n \in 1..K
  PROVE  w[n] \in 1..N /\ s[w[n]] = Newline /\ IsLine(s, LineStart(w, n), w[n])
<1> DEFINE P == Newlines(s)
<1>1. \A i : i \in P <=> i \in 1..N /\ s[i] = Newline
  <2>1. DOMAIN s = 1..N
    OBVIOUS
  <2>. QED
    BY <2>1, Zenon DEF Newlines
<1>2. /\ \A a \in 1..K : w[a] \in 1..N /\ s[w[a]] = Newline
      /\ \A a, b \in 1..K : a < b => w[a] < w[b]
      /\ \A i \in 1..N : s[i] = Newline => \E a \in 1..K : w[a] = i
  <2>1. w \in [1..K -> P] /\ \A i \in P : \E a \in 1..K : w[a] = i
    BY Zenon DEF IsAscending
  <2>2. \A a \in 1..K : w[a] \in P
    BY <2>1, Zenon
  <2> HIDE DEF P
  <2>. QED
    BY <1>1, <2>1, <2>2, Zenon DEF IsAscending
<1>3. LineStart(w, n) \in 1..w[n] /\ \A a \in 1..K : a < n => w[a] < LineStart(w, n)
  <2>1. CASE n = 1
    <3>1. LineStart(w, n) = 1
      BY <2>1, Zenon DEF LineStart
    <3>. QED
      BY <1>2, <2>1, <3>1
  <2>2. CASE n # 1
    <3>1. LineStart(w, n) = w[n - 1] + 1
      BY <2>2, Zenon DEF LineStart
    <3>2. n - 1 \in 1..K /\ n - 1 < n
      BY <2>2
    <3>3. w[n - 1] < w[n] /\ w[n - 1] \in 1..N /\ w[n] \in 1..N
      BY <1>2, <3>2, Zenon
    <3>4. \A a \in 1..K : a < n => a = n - 1 \/ a < n - 1
      OBVIOUS
    <3>5. \A a \in 1..K : a < n => a = n - 1 \/ w[a] < w[n - 1]
      BY <1>2, <3>2, <3>4, Zenon
    <3>. QED
      BY <1>2, <3>1, <3>3, <3>5
  <2>. QED
    BY <2>1, <2>2
<1>4. ASSUME NEW i \in LineStart(w, n)..(w[n] - 1), s[i] = Newline
      PROVE  FALSE
  <2>1. i \in 1..N /\ i < w[n] /\ i >= LineStart(w, n) /\ i \in Int /\ LineStart(w, n) \in Int
    BY <1>2, <1>3
  <2>2. PICK a \in 1..K : w[a] = i
    BY <1>2, <1>4, <2>1, Zenon
  <2>3. CASE a < n
    <3>1. w[a] < LineStart(w, n)
      BY <1>3, <2>3, Zenon
    <3>. QED
      BY <2>1, <2>2, <3>1
  <2>4. CASE n < a
    <3>1. w[n] < w[a] /\ w[n] \in Int
      BY <1>2, <2>4
    <3>. QED
      BY <2>1, <2>2, <3>1
  <2>5. CASE a = n
    <3>1. w[a] < w[a] /\ w[a] \in Int
      BY <1>2, <2>1, <2>2, <2>5
    <3>. QED
      BY <3>1
  <2>6. a < n \/ n < a \/ a = n
    OBVIOUS
  <2>. QED
    BY <2>3, <2>4, <2>5, <2>6, Zenon
<1>. QED
  BY <1>2, <1>3, <1>4, Zenon DEF IsLine, NoNewline

\* What is left behind the last newline: nothing, exactly if it ends the text.
LEMMA LastStart ==
  ASSUME NEW C, NEW N \in Nat, NEW s \in [1..N -> C], NEW K \in Nat,
         NEW w, IsAscending(w, Newlines(s), K)
  PROVE  /\ LineStart(w, K + 1) \in 1..(N + 1) /\ NoNewline(s, LineStart(w, K + 1), N)
         /\ LineStart(w, K + 1) > N <=> (N = 0 \/ N \in Newlines(s))
<1> DEFINE q == LineStart(w, K + 1)
<1>1. \A i : i \in Newlines(s) <=> i \in 1..N /\ s[i] = Newline
  <2>1. DOMAIN s = 1..N
    OBVIOUS
  <2>. QED
    BY <2>1, Zenon DEF Newlines
<1>2. \A a \in 1..K : w[a] \in 1..N /\ w[a] \in Newlines(s)
  BY <1>1, Zenon DEF IsAscending
<1>3. q \in 1..(N + 1) /\ (\A a \in 1..K : w[a] < q) /\ (K = 0 => q = 1)
      /\ (K # 0 => K \in 1..K /\ q = w[K] + 1)
  <2>1. CASE K = 0
    <3>1. K + 1 = 1
      BY <2>1
    <3>2. q = 1
      BY <3>1, Zenon DEF LineStart
    <3> HIDE DEF q
    <3>. QED
      BY <2>1, <3>2
  <2>2. CASE K # 0
    <3>1. K + 1 # 1 /\ (K + 1) - 1 = K /\ K \in 1..K
      BY <2>2
    <3>2. q = w[K] + 1
      BY <3>1, Zenon DEF LineStart
    <3>3. \A a \in 1..K : a = K \/ a < K
      OBVIOUS
    <3>4. \A a \in 1..K : a = K \/ w[a] < w[K]
      BY <3>1, <3>3, Zenon DEF IsAscending
    <3> HIDE DEF q
    <3>. QED
      BY <1>2, <2>2, <3>1, <3>2, <3>4
  <2>. QED
    BY <2>1, <2>2, Zenon
<1> HIDE DEF q
<1>4. ASSUME NEW i, i \in Newlines(s) PROVE i < q
  <2>1. PICK a \in 1..K : w[a] = i
    BY <1>4, Zenon DEF IsAscending
  <2>. QED
    BY <1>3, <2>1, Zenon
<1>5. NoNewline(s, q, N)
  <2>1. ASSUME NEW i \in q..N, s[i] = Newline PROVE FALSE
    <3>1. i \in 1..N /\ ~(i < q)
      BY <1>3
    <3>. QED
      BY <1>1, <1>4, <2>1, <3>1, Zenon
  <2>. QED
    BY <2>1, Zenon DEF NoNewline
<1>6. ASSUME N \in Newlines(s) PROVE q > N
  <2>1. N < q
    BY <1>4, <1>6, Zenon
  <2>. QED
    BY <1>3, <2>1
<1>7. ASSUME q > N, N # 0 PROVE N \in Newlines(s)
  <2>1. K # 0
    BY <1>3, <1>7
  <2>2. K \in 1..K /\ q = w[K] + 1
    BY <1>3, <2>1, Zenon
  <2>3. w[K] \in 1..N
    BY <1>2, <2>2, Zenon
  <2>4. w[K] = N
    BY <1>7, <2>2, <2>3
  <2>. QED
    BY <1>2, <2>2, <2>4, Zenon
<1>8. N = 0 => q > N
  BY <1>3
<1>. QED
  BY <1>3, <1>5, <1>6, <1>7, <1>8, Zenon DEF q

LineStates(C) == [pos : Nat \ {0}, lines : Seq(Seq(C))]
LineState(p, ls) == [pos |-> p, lines |-> ls]

\* A line is part of the text and has no newline in it.
LEMMA LineIs ==
  ASSUME NEW C, NEW N \in Nat, NEW s \in [1..N -> C], NEW a, NEW e \in 1..(N + 1), IsLine(s, a, e)
  PROVE  LineOf(s, a, e) \in Seq(C) /\ Newline \notin ToSet(LineOf(s, a, e))
<1>1. a \in 1..e /\ \A i \in a..(e - 1) : s[i] # Newline
  BY Zenon DEF IsLine, NoNewline
<1>2. PICK b \in {e - 1, e - 2} : LineOf(s, a, e) = SubSeq(s, a, b)
  BY Zenon DEF LineOf
<1> DEFINE x == SubSeq(s, a, b)
<1>3. /\ x \in Seq(C) /\ Len(x) = (IF a <= b THEN b - a + 1 ELSE 0)
      /\ \A i \in 1..(b - a + 1) : x[i] = s[a + i - 1]
  <2>1. \A i \in a..b : s[i] \in C
    BY <1>1
  <2>2. a \in Int /\ b \in Int
    BY <1>1
  <2>. QED
    BY <2>1, <2>2, SubSeqProperties
<1> HIDE DEF x
<1>4. DOMAIN x = 1..Len(x) /\ Len(x) \in Nat
  BY <1>3
<1>5. ASSUME NEW i \in DOMAIN x PROVE x[i] # Newline
  <2>1. i \in 1..(b - a + 1) /\ a + i - 1 \in a..(e - 1)
    BY <1>1, <1>3, <1>4
  <2>. QED
    BY <1>1, <1>3, <2>1, Zenon
<1>6. Newline \notin ToSet(x)
  BY <1>5, Zenon DEF ToSet
<1>. QED
  BY <1>2, <1>3, <1>6, Zenon DEF x

Stays(s, st) == NextLine(s, st) = st

LEMMA RoundAtEnd ==
  ASSUME NEW N \in Nat, NEW C, NEW s \in [1..N -> C], NEW p, p > N, NEW ls
  PROVE  Stays(s, LineState(p, ls))
<1>1. Len(s) = N /\ LineState(p, ls).pos = p
  BY DEF LineState
<1>. QED
  BY <1>1, Zenon DEF NextLine, Stays

LEMMA RoundToNewline ==
  ASSUME NEW N \in Nat, NEW C, NEW s \in [1..N -> C], NEW e \in 1..N, s[e] = Newline,
         NEW p, IsLine(s, p, e), NEW ls
  PROVE  NextLine(s, LineState(p, ls)) = LineState(e + 1, Append(ls, LineOf(s, p, e)))
<1> DEFINE st == LineState(p, ls)
           found == {i \in p..N : s[i] = Newline}
<1>1. Len(s) = N /\ st.pos = p /\ st.lines = ls
  BY DEF LineState
<1> HIDE DEF st
<1>2. p \in 1..e /\ \A i \in p..(e - 1) : s[i] # Newline
  BY Zenon DEF IsLine, NoNewline
<1>3. ~(p > N) /\ e \in p..N
  BY <1>2
<1>4. e \in found
  BY <1>3, Zenon
<1>5. found \in SUBSET Nat
  <2>1. p..N \subseteq Nat
    BY <1>2
  <2>. QED
    BY <2>1, Zenon
<1>6. Min(found) = e
  <2>1. Min(found) \in found /\ Min(found) <= e
    BY <1>4, <1>5, LeastNumber, Zenon
  <2>2. PICK m : m = Min(found)
    OBVIOUS
  <2>3. m \in p..N /\ s[m] = Newline /\ m <= e
    BY <2>1, <2>2, Zenon
  <2>4. m \notin p..(e - 1)
    BY <1>2, <2>3, Zenon
  <2>5. m = e
    BY <1>2, <2>3, <2>4
  <2>. QED
    BY <2>2, <2>5, Zenon
<1>7. found # {}
  BY <1>4, Zenon
<1> HIDE DEF found
<1>8. NextLine(s, st) = [pos |-> e + 1, lines |-> Append(ls, LineOf(s, p, e))]
  BY <1>1, <1>3, <1>6, <1>7, Zenon DEF NextLine, found
<1>. QED
  BY <1>8, Zenon DEF st, LineState

LEMMA RoundToEnd ==
  ASSUME NEW N \in Nat, NEW C, NEW s \in [1..N -> C], NEW p \in 1..N, NoNewline(s, p, N), NEW ls
  PROVE  NextLine(s, LineState(p, ls)) = LineState((N + 1) + 1, Append(ls, LineOf(s, p, N + 1)))
<1> DEFINE st == LineState(p, ls)
           found == {i \in p..N : s[i] = Newline}
<1>1. Len(s) = N /\ st.pos = p /\ st.lines = ls /\ ~(p > N)
  BY DEF LineState
<1> HIDE DEF st
<1>2. found = {}
  BY Zenon DEF NoNewline
<1> HIDE DEF found
<1>3. NextLine(s, st) = [pos |-> (N + 1) + 1, lines |-> Append(ls, LineOf(s, p, N + 1))]
  BY <1>1, <1>2, Zenon DEF NextLine, found
<1>. QED
  BY <1>3, Zenon DEF st, LineState

LEMMA NextLineType ==
  ASSUME NEW N \in Nat, NEW C, NEW s \in [1..N -> C], NEW st, st \in LineStates(C)
  PROVE  NextLine(s, st) \in LineStates(C)
<1>1. PICK p \in Nat \ {0}, ls \in Seq(Seq(C)) : st = LineState(p, ls)
  BY DEF LineStates, LineState
<1>2. \A q \in Nat \ {0}, x \in Seq(C) : LineState(q, Append(ls, x)) \in LineStates(C)
  BY DEF LineStates, LineState
<1>3. CASE p > N
  <2>1. Stays(s, LineState(p, ls))
    BY <1>3, RoundAtEnd, Zenon
  <2>. QED
    BY <1>1, <2>1, Zenon DEF Stays
<1>4. CASE p <= N /\ NoNewline(s, p, N)
  <2>1. p \in 1..N /\ N + 1 \in 1..(N + 1) /\ p \in 1..(N + 1) /\ (N + 1) - 1 = N /\ (N + 1) + 1 \in Nat \ {0}
    BY <1>4
  <2>2. IsLine(s, p, N + 1)
    BY <1>4, <2>1, Zenon DEF IsLine
  <2>3. LineOf(s, p, N + 1) \in Seq(C)
    BY <2>1, <2>2, LineIs, Zenon
  <2>4. NextLine(s, st) = LineState((N + 1) + 1, Append(ls, LineOf(s, p, N + 1)))
    BY <1>1, <1>4, <2>1, RoundToEnd, Zenon
  <2>. QED
    BY <1>2, <2>1, <2>3, <2>4, Zenon
<1>5. CASE p <= N /\ ~NoNewline(s, p, N)
  <2> DEFINE found == {i \in p..N : s[i] = Newline}
             e == Min(found)
  <2>1. found # {}
    BY <1>5, Zenon DEF NoNewline
  <2>2. found \in SUBSET Nat
    <3>1. p..N \subseteq Nat
      OBVIOUS
    <3>. QED
      BY <3>1, Zenon
  <2>3. e \in found /\ \A m \in found : e <= m
    BY <2>1, <2>2, LeastNumber, Zenon
  <2> HIDE DEF e
  <2>4. e \in p..N /\ s[e] = Newline
    BY <2>3, Zenon
  <2>5. /\ e \in 1..N /\ e \in 1..(N + 1) /\ p \in 1..e /\ e + 1 \in Nat \ {0}
        /\ \A i \in p..(e - 1) : i \in p..N /\ ~(e <= i)
    BY <2>4
  <2>6. IsLine(s, p, e)
    BY <2>3, <2>5, Zenon DEF IsLine, NoNewline
  <2>7. LineOf(s, p, e) \in Seq(C)
    BY <2>5, <2>6, LineIs, Zenon
  <2>8. NextLine(s, st) = LineState(e + 1, Append(ls, LineOf(s, p, e)))
    BY <1>1, <2>4, <2>5, <2>6, RoundToNewline, Zenon
  <2>. QED
    BY <1>2, <2>5, <2>7, <2>8, Zenon
<1>6. p > N \/ p <= N
  OBVIOUS
<1>. QED
  BY <1>3, <1>4, <1>5, <1>6, Zenon

LineBegin == [pos |-> 1, lines |-> <<>>]
IsReading(g, C, s, N) ==
  /\ g \in [0..N -> LineStates(C)] /\ g[0] = LineBegin
  /\ \A n \in 1..N : g[n] = NextLine(s, g[n - 1])
  /\ read_lines_default(s) = g[N].lines

LEMMA ReadLoop ==
  ASSUME NEW N \in Nat, NEW C, NEW s \in [1..N -> C]
  PROVE  \E g : IsReading(g, C, s, N)
<1> DEFINE States == LineStates(C)
           f == [n \in 1..N |-> [st \in States |-> NextLine(s, st)]]
<1>1. LineBegin \in States /\ Len(s) = N
  BY DEF LineBegin, LineStates
<1>2. f \in [1..N -> [States -> States]]
  BY NextLineType, Zenon
<1> HIDE DEF States
<1>3. \A n \in 1..N : \A st \in States : f[n][st] = NextLine(s, st)
  BY Zenon
<1> HIDE DEF f
<1>4. PICK g \in [0..N -> States] :
        g[0] = LineBegin /\ \A n \in 1..N : g[n] = f[n][g[n - 1]]
  <2>1. \E g : IsLoop(g, States, LineBegin, N, f)
    BY <1>1, <1>2, Iteration, Zenon
  <2>. QED
    BY <2>1, Zenon DEF IsLoop
<1>5. \A n \in 1..N : g[n] = NextLine(s, g[n - 1])
  <2>1. \A n \in 1..N : n - 1 \in 0..N
    OBVIOUS
  <2>. QED
    BY <1>3, <1>4, <2>1, Zenon
<1> DEFINE Body(h) == [n \in 0..N |-> IF n = 0 THEN LineBegin ELSE NextLine(s, h[n - 1])]
           all == CHOOSE h : h = Body(h)
<1>6. g = Body(g)
  <2> DEFINE c == [n \in 0..N |-> NextLine(s, g[n - 1])]
  <2>1. \A n \in 1..N : n \in 0..N
    OBVIOUS
  <2>2. \A n \in 1..N : g[n] = c[n]
    BY <1>5, <2>1, Zenon
  <2>3. \A n \in 0..N : c[n] = NextLine(s, g[n - 1])
    BY Zenon
  <2> HIDE DEF c
  <2>4. g = [n \in 0..N |-> IF n = 0 THEN LineBegin ELSE c[n]]
    BY <1>4, <2>2, AsOneFunction
  <2>. QED
    BY <2>3, <2>4, Zenon
<1>7. all = Body(all) /\ read_lines_default(s) = all[N].lines
  BY <1>1, <1>6, Zenon DEF read_lines_default, LineBegin
<1> HIDE DEF all
<1>8. all[0] = LineBegin /\ \A n \in 1..N : all[n] = NextLine(s, all[n - 1])
  <2>1. 0 \in 0..N /\ \A n \in 1..N : n \in 0..N /\ n # 0
    OBVIOUS
  <2>. QED
    BY <1>7, <2>1, Zenon
<1>9. Alike(all, g, N)
  BY <1>4, <1>5, <1>8, Zenon DEF Alike
<1>10. all[N] = g[N]
  BY <1>9, SameRounds, Zenon
<1>. QED
  BY <1>4, <1>5, <1>7, <1>10, Zenon DEF IsReading, States

\* The first n lines, and with them what no newline ends.
FirstLines(s, w, n) == [i \in 1..n |-> LineOf(s, LineStart(w, i), w[i])]
AllLines(s, w, K) ==
  FirstLines(s, w, K) \o (IF LineStart(w, K + 1) <= Len(s)
                          THEN <<LineOf(s, LineStart(w, K + 1), Len(s) + 1)>> ELSE <<>>)

LEMMA OneMore ==
  ASSUME NEW S, NEW n \in Nat, NEW F, F \in [1..(n + 1) -> S]
  PROVE  F = Append([i \in 1..n |-> F[i]], F[n + 1])
<1> DEFINE h == [i \in 1..n |-> F[i]]
           y == F[n + 1]
<1>1. h \in [1..n -> S] /\ y \in S /\ \A i \in 1..n : h[i] = F[i]
  OBVIOUS
<1> HIDE DEF h, y
<1>2. h \in Seq(S) /\ Len(h) = n
  BY <1>1
<1>3. /\ Append(h, y) \in [1..(n + 1) -> S] /\ Append(h, y)[n + 1] = y
      /\ \A i \in 1..n : Append(h, y)[i] = h[i]
  BY <1>1, <1>2, AppendOne
<1>4. \A i \in 1..(n + 1) : i \in 1..n \/ i = n + 1
  OBVIOUS
<1>5. \A i \in 1..(n + 1) : Append(h, y)[i] = F[i]
  BY <1>1, <1>3, <1>4, Zenon DEF y
<1>6. PICK u : u = Append(h, y)
  OBVIOUS
<1>7. u \in [1..(n + 1) -> S] /\ \A i \in 1..(n + 1) : u[i] = F[i]
  BY <1>3, <1>5, <1>6, Zenon
<1>8. u = F
  BY <1>7
<1>. QED
  BY <1>6, <1>8, Zenon DEF h, y

LinesKnown(C, s, w, K) ==
  /\ \A i \in 1..K : Newline \notin ToSet(FirstLines(s, w, K)[i])
  /\ \A n \in 0..K : FirstLines(s, w, n) \in [1..n -> Seq(C)]
  /\ \A n \in 1..K : FirstLines(s, w, n) =
                       Append(FirstLines(s, w, n - 1), LineOf(s, LineStart(w, n), w[n]))

LEMMA FirstLinesAre ==
  ASSUME NEW C, NEW N \in Nat, NEW s \in [1..N -> C], NEW K \in Nat,
         NEW w, IsAscending(w, Newlines(s), K)
  PROVE  LinesKnown(C, s, w, K)
<1>1. ASSUME NEW i \in 1..K
      PROVE  LineOf(s, LineStart(w, i), w[i]) \in Seq(C)
             /\ Newline \notin ToSet(LineOf(s, LineStart(w, i), w[i]))
  <2>1. w[i] \in 1..N /\ IsLine(s, LineStart(w, i), w[i])
    BY LineEnds, Zenon
  <2>2. w[i] \in 1..(N + 1)
    BY <2>1
  <2>. QED
    BY <2>1, <2>2, LineIs, Zenon
<1>2. \A n \in 0..K : \A i \in 1..n : i \in 1..K
  OBVIOUS
<1>3. \A n \in 0..K : FirstLines(s, w, n) \in [1..n -> Seq(C)]
  BY <1>1, <1>2, Zenon DEF FirstLines
<1>4. \A i \in 1..K : Newline \notin ToSet(FirstLines(s, w, K)[i])
  BY <1>1, Zenon DEF FirstLines
<1>5. ASSUME NEW n \in 1..K
      PROVE  FirstLines(s, w, n) = Append(FirstLines(s, w, n - 1), LineOf(s, LineStart(w, n), w[n]))
  <2> DEFINE F == FirstLines(s, w, n)
  <2>1. n - 1 \in Nat /\ (n - 1) + 1 = n /\ n \in 0..K /\ n \in 1..n
    OBVIOUS
  <2>2. F \in [1..((n - 1) + 1) -> Seq(C)]
    BY <1>3, <2>1, Zenon
  <2>3. F = Append([i \in 1..(n - 1) |-> F[i]], F[(n - 1) + 1])
    BY <2>1, <2>2, OneMore
  <2>4. \A i \in 1..(n - 1) : i \in 1..n
    OBVIOUS
  <2>5. [i \in 1..(n - 1) |-> F[i]] = FirstLines(s, w, n - 1)
    BY <2>4, Zenon DEF FirstLines
  <2>6. F[(n - 1) + 1] = LineOf(s, LineStart(w, n), w[n])
    BY <2>1, Zenon DEF FirstLines
  <2>. QED
    BY <2>3, <2>5, <2>6, Zenon
<1>. QED
  BY <1>3, <1>4, <1>5, Zenon DEF LinesKnown

LEMMA Avx2Is ==
  ASSUME NEW C, NEW N \in Nat, NEW s \in [1..N -> C], NEW z \in Nat \ {0},
         NEW K \in Nat, IsAscending(Ascending(Newlines(s)), Newlines(s), K)
  PROVE  read_lines_with_avx2(s, z) = AllLines(s, Ascending(Newlines(s)), K)
<1> DEFINE w == Ascending(Newlines(s))
<1>1. NewlinePositions(s, z) = Newlines(s)
  BY NewlinesFound, Zenon
<1>2. w \in [1..K -> Newlines(s)]
  BY Zenon DEF IsAscending
<1> HIDE DEF w
<1>3. Len(w) = K /\ DOMAIN w = 1..K
  BY <1>2
<1>. QED
  BY <1>1, <1>3, Zenon DEF read_lines_with_avx2, AllLines, FirstLines, LineStart, w

\* What the plain reader has after n rounds.
LinesSoFar(s, w, K, n, st) ==
  IF n <= K THEN st = LineState(LineStart(w, n + 1), FirstLines(s, w, n))
  ELSE \E p \in Nat : p > Len(s) /\ st = LineState(p, AllLines(s, w, K))

LEMMA ReadsOn ==
  ASSUME NEW C, NEW N \in Nat, NEW s \in [1..N -> C], NEW K \in Nat,
         NEW w, IsAscending(w, Newlines(s), K), NEW n \in Nat \ {0}, NEW st,
         LinesSoFar(s, w, K, n - 1, st)
  PROVE  LinesSoFar(s, w, K, n, NextLine(s, st))
<1>1. Len(s) = N
  OBVIOUS
<1>2. CASE n <= K
  <2>1. n - 1 <= K /\ (n - 1) + 1 = n /\ n \in 1..K /\ n + 1 # 1 /\ (n + 1) - 1 = n
    BY <1>2
  <2>2. st = LineState(LineStart(w, n), FirstLines(s, w, n - 1))
    BY <2>1, Zenon DEF LinesSoFar
  <2>3. w[n] \in 1..N /\ s[w[n]] = Newline /\ IsLine(s, LineStart(w, n), w[n])
    BY <2>1, LineEnds, Zenon
  <2>4. NextLine(s, LineState(LineStart(w, n), FirstLines(s, w, n - 1)))
          = LineState(w[n] + 1, Append(FirstLines(s, w, n - 1), LineOf(s, LineStart(w, n), w[n])))
    BY <2>3, RoundToNewline
  <2>5. LineStart(w, n + 1) = w[n] + 1
    BY <2>1, Zenon DEF LineStart
  <2>6. FirstLines(s, w, n) = Append(FirstLines(s, w, n - 1), LineOf(s, LineStart(w, n), w[n]))
    <3>1. LinesKnown(C, s, w, K)
      BY FirstLinesAre, Zenon
    <3>. QED
      BY <2>1, <3>1, Zenon DEF LinesKnown
  <2>. QED
    BY <1>2, <2>2, <2>4, <2>5, <2>6, Zenon DEF LinesSoFar
<1>3. CASE n = K + 1
  <2> DEFINE q == LineStart(w, K + 1)
             F == FirstLines(s, w, K)
  <2>1. n - 1 <= K /\ n - 1 = K /\ (n - 1) + 1 = K + 1 /\ ~(n <= K)
    BY <1>3
  <2>2. st = LineState(q, F)
    BY <2>1, Zenon DEF LinesSoFar
  <2>3. q \in 1..(N + 1) /\ NoNewline(s, q, N)
    BY LastStart, Zenon
  <2>4. F \in Seq(Seq(C))
    <3>1. F \in [1..K -> Seq(C)]
      <4>1. LinesKnown(C, s, w, K) /\ K \in 0..K
        BY FirstLinesAre
      <4>. QED
        BY <4>1, Zenon DEF LinesKnown
    <3> HIDE DEF F
    <3>. QED
      BY <3>1
  <2>5. CASE q > N
    <3>1. ~(q <= N) /\ q \in Nat
      BY <2>3, <2>5
    <3>2. F \o <<>> = F
      <4> HIDE DEF F
      <4>. QED
        BY <2>4
    <3>3. AllLines(s, w, K) = F
      BY <1>1, <3>1, <3>2, Zenon DEF AllLines
    <3>4. Stays(s, LineState(q, F))
      <4> HIDE DEF q, F
      <4>. QED
        BY <2>5, RoundAtEnd, Zenon
    <3>. QED
      BY <1>1, <2>1, <2>2, <2>5, <3>1, <3>3, <3>4, Zenon DEF LinesSoFar, Stays
  <2>6. CASE q <= N
    <3>1. q \in 1..N /\ q \in 1..(N + 1) /\ N + 1 \in 1..(N + 1) /\ (N + 1) - 1 = N /\ (N + 1) + 1 \in Nat
          /\ (N + 1) + 1 > N
      BY <2>3, <2>6
    <3>2. IsLine(s, q, N + 1)
      BY <2>3, <3>1, Zenon DEF IsLine
    <3>3. LineOf(s, q, N + 1) \in Seq(C)
      BY <3>1, <3>2, LineIs, Zenon
    <3>4. NextLine(s, LineState(q, F)) = LineState((N + 1) + 1, Append(F, LineOf(s, q, N + 1)))
      <4> HIDE DEF q, F
      <4>. QED
        BY <2>3, <3>1, RoundToEnd
    <3>5. Append(F, LineOf(s, q, N + 1)) = F \o <<LineOf(s, q, N + 1)>>
      <4> HIDE DEF q, F
      <4>. QED
        BY <2>4, <3>3, AppendIsConcat
    <3>6. AllLines(s, w, K) = F \o <<LineOf(s, q, N + 1)>>
      BY <1>1, <2>6, Zenon DEF AllLines
    <3>. QED
      BY <1>1, <2>1, <2>2, <3>1, <3>4, <3>5, <3>6, Zenon DEF LinesSoFar
  <2>7. q > N \/ q <= N
    <3> HIDE DEF q
    <3>. QED
      BY <2>3
  <2>. QED
    BY <2>5, <2>6, <2>7, Zenon
<1>4. CASE n > K + 1
  <2>1. ~(n - 1 <= K) /\ ~(n <= K)
    BY <1>4
  <2>2. PICK p \in Nat : p > N /\ st = LineState(p, AllLines(s, w, K))
    BY <1>1, <2>1, Zenon DEF LinesSoFar
  <2>3. Stays(s, LineState(p, AllLines(s, w, K)))
    BY <2>2, RoundAtEnd, Zenon
  <2>. QED
    BY <1>1, <2>1, <2>2, <2>3, Zenon DEF LinesSoFar, Stays
<1>. QED
  BY <1>2, <1>3, <1>4

\* One line for each newline and one for what none ends.
Ended(s) == {i \in DOMAIN s : s[i] = Newline \/ i = Len(s)}

LEMMA LineCount ==
  ASSUME NEW C, NEW N \in Nat, NEW s \in [1..N -> C], NEW K \in Nat, K = Cardinality(Newlines(s)),
         NEW w, IsAscending(w, Newlines(s), K)
  PROVE  Len(AllLines(s, w, K)) = Cardinality(Ended(s))
<1> DEFINE q == LineStart(w, K + 1)
           F == FirstLines(s, w, K)
           P == Newlines(s)
           Q == Ended(s)
<1>1. Len(s) = N /\ DOMAIN s = 1..N
  OBVIOUS
<1>2. Q = {i \in 1..N : s[i] = Newline \/ i = N}
  BY <1>1, Zenon DEF Ended
<1>3. F \in Seq(Seq(C)) /\ Len(F) = K
  <2>1. LinesKnown(C, s, w, K) /\ K \in 0..K
    BY FirstLinesAre
  <2>2. F \in [1..K -> Seq(C)]
    BY <2>1, Zenon DEF LinesKnown
  <2> HIDE DEF F
  <2>. QED
    BY <2>2
<1>4. q \in 1..(N + 1) /\ NoNewline(s, q, N) /\ (q > N <=> (N = 0 \/ N \in P))
  BY LastStart, Zenon
<1>5. IsFiniteSet(P)
  <2>1. P \in SUBSET (1..N)
    BY <1>1, Zenon DEF Newlines
  <2>2. IsFiniteSet(1..N)
    BY FS_Interval
  <2>. QED
    BY <2>1, <2>2, FS_Subset, Zenon
<1>6. CASE q > N
  <2>1. ~(q <= N)
    BY <1>4, <1>6
  <2>2. F \o <<>> = F
    <3> HIDE DEF F
    <3>. QED
      BY <1>3
  <2>3. AllLines(s, w, K) = F
    BY <1>1, <2>1, <2>2, Zenon DEF AllLines
  <2>4. Q = P
    <3>1. CASE N = 0
      <4>1. 1..N = {}
        BY <3>1
      <4>. QED
        BY <1>1, <1>2, <4>1, Zenon DEF Newlines
    <3>2. CASE N \in P
      BY <1>1, <1>2, <3>2, Zenon DEF Newlines
    <3>. QED
      BY <1>4, <1>6, <3>1, <3>2, Zenon
  <2>. QED
    BY <1>3, <2>3, <2>4, Zenon
<1>7. CASE q <= N
  <2>1. ~(q > N) /\ q \in 1..(N + 1) /\ q \in 1..N /\ N \in 1..N
    BY <1>4, <1>7
  <2>2. N \notin P
    BY <1>4, <2>1, Zenon
  <2>3. Q = P \cup {N}
    BY <1>1, <1>2, <2>1, Zenon DEF Newlines
  <2>4. Cardinality(P \cup {N}) = IF N \in P THEN Cardinality(P) ELSE Cardinality(P) + 1
    BY <1>5, FS_AddElement, Zenon
  <2>5. Cardinality(Q) = K + 1
    BY <2>2, <2>3, <2>4, Zenon
  <2>6. LineOf(s, q, N + 1) \in Seq(C)
    <3>1. N + 1 \in 1..(N + 1) /\ (N + 1) - 1 = N
      OBVIOUS
    <3>2. IsLine(s, q, N + 1)
      BY <1>4, <2>1, <3>1, Zenon DEF IsLine
    <3>. QED
      BY <3>1, <3>2, LineIs, Zenon
  <2>7. AllLines(s, w, K) = F \o <<LineOf(s, q, N + 1)>>
    BY <1>1, <1>7, Zenon DEF AllLines
  <2>8. Len(F \o <<LineOf(s, q, N + 1)>>) = K + 1
    <3> HIDE DEF F, q
    <3>. QED
      BY <1>3, <2>6
  <2>. QED
    BY <2>5, <2>7, <2>8, Zenon
<1>8. q > N \/ q <= N
  <2> HIDE DEF q
  <2>. QED
    BY <1>4
<1>. QED
  BY <1>6, <1>7, <1>8, Zenon

LEMMA LinesFree ==
  ASSUME NEW C, NEW N \in Nat, NEW s \in [1..N -> C], NEW K \in Nat,
         NEW w, IsAscending(w, Newlines(s), K)
  PROVE  \A i \in DOMAIN AllLines(s, w, K) : Newline \notin ToSet(AllLines(s, w, K)[i])
<1> DEFINE q == LineStart(w, K + 1)
           F == FirstLines(s, w, K)
           x == LineOf(s, q, N + 1)
<1>1. Len(s) = N
  OBVIOUS
<1>2. F \in [1..K -> Seq(C)] /\ \A i \in 1..K : Newline \notin ToSet(F[i])
  <2>1. LinesKnown(C, s, w, K) /\ K \in 0..K
    BY FirstLinesAre
  <2>. QED
    BY <2>1, Zenon DEF LinesKnown
<1>3. q \in 1..(N + 1) /\ NoNewline(s, q, N)
  BY LastStart, Zenon
<1>4. x \in Seq(C) /\ Newline \notin ToSet(x)
  <2>1. N + 1 \in 1..(N + 1) /\ (N + 1) - 1 = N
    OBVIOUS
  <2>2. IsLine(s, q, N + 1)
    BY <1>3, <2>1, Zenon DEF IsLine
  <2>. QED
    BY <2>1, <2>2, LineIs, Zenon
<1>5. AllLines(s, w, K) = F \o (IF q <= N THEN <<x>> ELSE <<>>)
  BY <1>1, Zenon DEF AllLines
<1> HIDE DEF q, F, x
<1>6. CASE q <= N
  <2>1. AllLines(s, w, K) = F \o <<x>>
    BY <1>5, <1>6, Zenon
  <2>2. /\ DOMAIN (F \o <<x>>) = 1..(K + 1) /\ (F \o <<x>>)[K + 1] = x
        /\ \A i \in 1..K : (F \o <<x>>)[i] = F[i]
    <3>1. F \in Seq(Seq(C)) /\ Len(F) = K
      BY <1>2
    <3>2. Append(F, x) = F \o <<x>>
      BY <1>4, <3>1, AppendIsConcat
    <3>3. /\ Append(F, x) \in [1..(K + 1) -> Seq(C)] /\ Append(F, x)[K + 1] = x
          /\ \A n \in 1..K : Append(F, x)[n] = F[n]
      <4>1. /\ Append(F, x) \in [1..(Len(F) + 1) -> Seq(C)] /\ Append(F, x)[Len(F) + 1] = x
            /\ \A n \in 1..Len(F) : Append(F, x)[n] = F[n]
        <5>1. PICK S : S = Seq(C)
          OBVIOUS
        <5>2. F \in Seq(S) /\ x \in S
          BY <1>4, <3>1, <5>1, Zenon
        <5>3. /\ Append(F, x) \in [1..(Len(F) + 1) -> S] /\ Append(F, x)[Len(F) + 1] = x
              /\ \A n \in 1..Len(F) : Append(F, x)[n] = F[n]
          BY <5>2, AppendOne
        <5>. QED
          BY <5>1, <5>3, Zenon
      <4>. QED
        BY <3>1, <4>1, Zenon
    <3>. QED
      BY <3>2, <3>3, Zenon
  <2>3. \A i \in 1..(K + 1) : i \in 1..K \/ i = K + 1
    OBVIOUS
  <2>. QED
    BY <1>2, <1>4, <2>1, <2>2, <2>3, Zenon
<1>7. CASE ~(q <= N)
  <2>1. F \o <<>> = F /\ DOMAIN F = 1..K
    <3>1. F \in Seq(Seq(C)) /\ Len(F) = K
      BY <1>2
    <3>. QED
      BY <3>1
  <2>2. AllLines(s, w, K) = F
    BY <1>5, <1>7, <2>1, Zenon
  <2>. QED
    BY <1>2, <2>1, <2>2, Zenon
<1>. QED
  BY <1>6, <1>7, Zenon

\* Both readers cut a text of any length into the same lines, whatever the
\* size of the AVX2 reader's blocks: one for each newline and one for what no
\* newline ends, none with a newline in it.
THEOREM ReadersAgree ==
  ASSUME NEW C, NEW s, s \in Seq(C), NEW z, z \in Nat \ {0}
  PROVE  CutsLines(s, z)
<1> DEFINE N == Len(s)
           P == Newlines(s)
           K == Cardinality(P)
           w == Ascending(P)
<1>1. N \in Nat /\ s \in [1..N -> C] /\ DOMAIN s = 1..N
  OBVIOUS
<1> HIDE DEF N
<1>2. P \in SUBSET (1..N) /\ IsFiniteSet(1..N) /\ 1..N \in SUBSET Nat
  <2>1. P \in SUBSET (1..N)
    BY <1>1, Zenon DEF Newlines
  <2>2. IsFiniteSet(1..N) /\ 1..N \in SUBSET Nat
    BY <1>1, FS_Interval
  <2>. QED
    BY <2>1, <2>2, Zenon
<1>3. IsFiniteSet(P) /\ P \in SUBSET Nat
  BY <1>2, FS_Subset, Zenon
<1> HIDE DEF P
<1>4. K \in Nat
  BY <1>3, FS_CardinalityType, Zenon
<1> HIDE DEF K
<1>5. IsAscending(w, P, K)
  BY <1>3, <1>4, AscendingIs, Zenon DEF K
<1> HIDE DEF w
<1>6. K <= N /\ (K = N => P = 1..N)
  <2>1. Cardinality(1..N) = N
    BY <1>1, FS_Interval
  <2>2. /\ K <= Cardinality(1..N)
        /\ Cardinality(1..N) = K => 1..N = P
    BY <1>2, FS_Subset, Zenon DEF K
  <2>. QED
    BY <2>1, <2>2, Zenon
<1>7. read_lines_with_avx2(s, z) = AllLines(s, w, K)
  BY <1>1, <1>4, <1>5, Avx2Is, Zenon DEF w, P
<1>8. PICK g : IsReading(g, C, s, N)
  BY <1>1, ReadLoop, Zenon
<1> DEFINE T == {n \in 0..N : LinesSoFar(s, w, K, n, g[n])}
<1>9. 0 \in T
  <2>1. 0 \in 0..N /\ 0 <= K /\ 0 + 1 = 1 /\ 1..0 = {}
    BY <1>1, <1>4
  <2>2. FirstLines(s, w, 0) = <<>>
    <3>1. LinesKnown(C, s, w, K) /\ 0 \in 0..K
      BY <1>1, <1>4, <1>5, FirstLinesAre DEF P
    <3>2. FirstLines(s, w, 0) \in [1..0 -> Seq(C)]
      BY <3>1, Zenon DEF LinesKnown
    <3>. QED
      BY <3>2
  <2>3. LineStart(w, 0 + 1) = 1
    BY <2>1, Zenon DEF LineStart
  <2>. QED
    BY <1>8, <2>1, <2>2, <2>3, Zenon DEF IsReading, LineBegin, LineState, LinesSoFar
<1>10. ASSUME NEW n \in 1..N, n - 1 \in T
       PROVE  n \in T
  <2>1. n \in 0..N /\ n \in Nat \ {0}
    BY <1>1
  <2>2. LinesSoFar(s, w, K, n - 1, g[n - 1]) /\ g[n] = NextLine(s, g[n - 1])
    BY <1>8, <1>10, Zenon DEF IsReading
  <2>3. LinesSoFar(s, w, K, n, NextLine(s, g[n - 1]))
    BY <1>1, <1>4, <1>5, <2>1, <2>2, ReadsOn, Zenon DEF P
  <2>. QED
    BY <2>1, <2>2, <2>3, Zenon
<1>11. LinesSoFar(s, w, K, N, g[N])
  <2> HIDE DEF T
  <2>1. N \in 0..N
    BY <1>1
  <2>2. N \in T
    BY <1>1, <1>9, <1>10, <2>1, RoundInduction, Zenon
  <2>. QED
    BY <2>2, Zenon DEF T
<1>12. g[N].lines = AllLines(s, w, K)
  <2>1. \A p, ls : LineState(p, ls).lines = ls
    BY DEF LineState
  <2>2. CASE N <= K
    <3>1. N = K
      BY <1>1, <1>4, <1>6, <2>2
    <3>2. N = 0 \/ N \in P
      <4>1. N = 0 \/ N \in 1..N
        BY <1>1
      <4>. QED
        BY <1>6, <3>1, <4>1, Zenon
    <3>3. LineStart(w, K + 1) \in 1..(N + 1) /\ LineStart(w, K + 1) > N
      BY <1>1, <1>4, <1>5, <3>2, LastStart, Zenon DEF P
    <3>4. ~(LineStart(w, K + 1) <= N)
      BY <1>1, <3>3
    <3>5. FirstLines(s, w, K) \o <<>> = FirstLines(s, w, K)
      <4>1. LinesKnown(C, s, w, K) /\ K \in 0..K
        BY <1>1, <1>4, <1>5, FirstLinesAre DEF P
      <4>2. FirstLines(s, w, K) \in [1..K -> Seq(C)]
        BY <4>1, Zenon DEF LinesKnown
      <4>3. FirstLines(s, w, K) \in Seq(Seq(C))
        BY <1>4, <4>2
      <4>. QED
        BY <4>3
    <3>6. AllLines(s, w, K) = FirstLines(s, w, K)
      BY <3>4, <3>5, Zenon DEF AllLines, N
    <3>7. g[N] = LineState(LineStart(w, N + 1), FirstLines(s, w, N))
      BY <1>11, <2>2, Zenon DEF LinesSoFar
    <3>. QED
      BY <2>1, <3>1, <3>6, <3>7, Zenon
  <2>3. CASE ~(N <= K)
    BY <1>11, <2>1, <2>3, Zenon DEF LinesSoFar
  <2>. QED
    BY <2>2, <2>3, Zenon
<1>13. read_lines_default(s) = AllLines(s, w, K)
  BY <1>8, <1>12, Zenon DEF IsReading
<1>14. Len(AllLines(s, w, K)) = Cardinality(Ended(s))
  BY <1>1, <1>4, <1>5, LineCount, Zenon DEF P, K
<1>15. \A i \in DOMAIN AllLines(s, w, K) : Newline \notin ToSet(AllLines(s, w, K)[i])
  BY <1>1, <1>4, <1>5, LinesFree, Zenon DEF P
<1>. QED
  BY <1>7, <1>13, <1>14, <1>15, Zenon DEF CutsLines, Quantify, Ended
-----------------------------------------------------------------------------
(* The paths of archives *)

LEMMA MinIs ==
  ASSUME NEW S, S \in SUBSET Nat, NEW p, p \in S, \A y \in S : p <= y
  PROVE  Min(S) = p
<1>1. Min(S) \in S /\ \A y \in S : Min(S) <= y
  BY LeastNumber, Zenon
<1>2. Min(S) \in Nat /\ p \in Nat /\ Min(S) <= p /\ p <= Min(S)
  BY <1>1
<1>. QED
  BY <1>2

LEMMA LastOfIs ==
  ASSUME NEW C, NEW s \in Seq(C), NEW c
  PROVE  /\ LastOf(s, c) \in 0..Len(s) /\ (LastOf(s, c) # 0 => s[LastOf(s, c)] = c)
         /\ \A i \in (LastOf(s, c) + 1)..Len(s) : s[i] # c
<1> DEFINE P == {i \in DOMAIN s : s[i] = c}
           S == {0} \cup P
           R == {Len(s) - i : i \in S}
<1>1. Len(s) \in Nat /\ DOMAIN s = 1..Len(s)
  OBVIOUS
<1>2. R \in SUBSET Nat /\ R # {}
  BY <1>1
<1>3. PICK r \in R : \A m \in R : r <= m
  <2> HIDE DEF R
  <2>. QED
    BY <1>2, LeastNumber, Zenon
<1>4. PICK l \in S : r = Len(s) - l
  BY <1>3
<1>5. l \in 0..Len(s) /\ \A i \in S : i <= l
  <2>1. l \in 0..Len(s) /\ \A i \in S : i \in 0..Len(s)
    BY <1>1
  <2>2. ASSUME NEW i \in S PROVE i <= l
    <3>1. Len(s) - i \in R
      BY Zenon
    <3>2. r <= Len(s) - i
      BY <1>3, <3>1, Zenon
    <3>. QED
      BY <1>1, <1>4, <2>1, <3>2
  <2>. QED
    BY <2>1, <2>2
<1>6. LastOf(s, c) = l
  <2>1. S \subseteq Int
    BY <1>1
  <2>2. Max(S) = l
    <3> HIDE DEF S
    <3>. QED
      BY <1>4, <1>5, <2>1, MaxIs, Zenon
  <2>. QED
    BY <2>2, Zenon DEF LastOf
<1>7. l # 0 => s[l] = c
  BY <1>4, Zenon
<1>8. ASSUME NEW i \in (l + 1)..Len(s) PROVE s[i] # c
  <2>1. i \in 1..Len(s) /\ ~(i <= l)
    BY <1>1, <1>5
  <2>. QED
    BY <1>1, <1>5, <2>1, Zenon
<1>. QED
  BY <1>5, <1>6, <1>7, <1>8, Zenon

LEMMA LastOfAt ==
  ASSUME NEW C, NEW s \in Seq(C), NEW c, NEW k \in 1..Len(s), s[k] = c,
         \A i \in (k + 1)..Len(s) : s[i] # c
  PROVE  LastOf(s, c) = k
<1> DEFINE l == LastOf(s, c)
<1>1. l \in 0..Len(s) /\ (l # 0 => s[l] = c) /\ \A i \in (l + 1)..Len(s) : s[i] # c
  BY LastOfIs, Zenon
<1> HIDE DEF l
<1>2. Len(s) \in Nat
  OBVIOUS
<1>3. ~(k \in (l + 1)..Len(s))
  BY <1>1, Zenon
<1>4. l # 0
  BY <1>1, <1>2, <1>3
<1>5. ~(l \in (k + 1)..Len(s))
  BY <1>1, <1>4, Zenon
<1>6. l = k
  BY <1>1, <1>2, <1>3, <1>5
<1>. QED
  BY <1>6 DEF l

\* The component that stands at i ends before e.
EndsAt(s, i, e) ==
  /\ e \in i..(Len(s) + 1) /\ (e = Len(s) + 1 \/ s[e] = Sep)
  /\ \A j \in i..(e - 1) : s[j] # Sep

LEMMA EndOfIs ==
  ASSUME NEW C, NEW s \in Seq(C), NEW i \in 1..(Len(s) + 1)
  PROVE  EndsAt(s, i, EndOf(s, i))
<1> DEFINE P == {j \in i..Len(s) : s[j] = Sep}
           S == {Len(s) + 1} \cup P
           e == Min(S)
<1>1. Len(s) \in Nat
  OBVIOUS
<1>2. S \in SUBSET Nat /\ S # {}
  BY <1>1
<1>3. e \in S /\ \A m \in S : e <= m
  <2> HIDE DEF S
  <2>. QED
    BY <1>2, LeastNumber, Zenon
<1>4. EndOf(s, i) = e
  BY Zenon DEF EndOf
<1> HIDE DEF e
<1>5. e \in i..(Len(s) + 1) /\ (e = Len(s) + 1 \/ s[e] = Sep)
  BY <1>1, <1>3
<1>6. ASSUME NEW j \in i..(e - 1) PROVE s[j] # Sep
  <2>1. j \in i..Len(s) /\ ~(e <= j)
    BY <1>1, <1>5
  <2>. QED
    BY <1>3, <2>1, Zenon
<1>. QED
  BY <1>4, <1>5, <1>6, Zenon DEF EndsAt

LEMMA EndIsOne ==
  ASSUME NEW C, NEW s \in Seq(C), NEW i \in 1..(Len(s) + 1), NEW e, EndsAt(s, i, e)
  PROVE  EndOf(s, i) = e
<1>1. PICK d : d = EndOf(s, i)
  OBVIOUS
<1>2. EndsAt(s, i, d)
  BY <1>1, EndOfIs, Zenon
<1>3. Len(s) \in Nat
  OBVIOUS
<1>4. d = e
  BY <1>2, <1>3 DEF EndsAt
<1>. QED
  BY <1>1, <1>4, Zenon

LEMMA ListedOnce ==
  ASSUME NEW P, P \in SUBSET Nat, NEW K \in Nat, NEW v, NEW w,
         IsAscending(v, P, K), IsAscending(w, P, K)
  PROVE  v = w
<1> DEFINE Same(n) == \A i \in 1..n : v[i] = w[i]
           T == {n \in 0..K : Same(n)}
<1>1. 0 \in T
  OBVIOUS
<1>2. ASSUME NEW n \in 1..K, n - 1 \in T PROVE n \in T
  <2>1. \A i \in 1..(n - 1) : v[i] = w[i]
    BY <1>2
  <2>2. v[n] \in Nat /\ w[n] \in Nat
    BY DEF IsAscending
  <2>3. ~(v[n] < w[n])
    <3> SUFFICES ASSUME v[n] < w[n] PROVE FALSE
      OBVIOUS
    <3>1. PICK a \in 1..K : w[a] = v[n]
      BY Zenon DEF IsAscending
    <3>2. a < n
      <4>1. a = n \/ n < a \/ a < n
        OBVIOUS
      <4>2. n < a => w[n] < w[a]
        BY Zenon DEF IsAscending
      <4>. QED
        BY <2>2, <3>1, <4>1, <4>2
    <3>3. v[a] = w[a] /\ v[a] < v[n]
      <4>1. a \in 1..(n - 1)
        BY <3>2
      <4>. QED
        BY <2>1, <3>2, <4>1, Zenon DEF IsAscending
    <3>. QED
      BY <2>2, <3>1, <3>3
  <2>4. ~(w[n] < v[n])
    <3> SUFFICES ASSUME w[n] < v[n] PROVE FALSE
      OBVIOUS
    <3>1. PICK a \in 1..K : v[a] = w[n]
      BY Zenon DEF IsAscending
    <3>2. a < n
      <4>1. a = n \/ n < a \/ a < n
        OBVIOUS
      <4>2. n < a => v[n] < v[a]
        BY Zenon DEF IsAscending
      <4>. QED
        BY <2>2, <3>1, <4>1, <4>2
    <3>3. v[a] = w[a] /\ w[a] < w[n]
      <4>1. a \in 1..(n - 1)
        BY <3>2
      <4>. QED
        BY <2>1, <3>2, <4>1, Zenon DEF IsAscending
    <3>. QED
      BY <2>2, <3>1, <3>3
  <2>5. v[n] = w[n]
    BY <2>2, <2>3, <2>4
  <2>6. n \in 0..K /\ \A i \in 1..n : i = n \/ i \in 1..(n - 1)
    OBVIOUS
  <2>7. Same(n)
    BY <2>1, <2>5, <2>6, Zenon
  <2>. QED
    BY <2>6, <2>7, Zenon
<1>3. K \in T
  <2> HIDE DEF T
  <2>1. K \in 0..K
    OBVIOUS
  <2>. QED
    BY <1>1, <1>2, <2>1, RoundInduction, Zenon
<1>4. \A i \in 1..K : v[i] = w[i]
  BY <1>3, Zenon
<1>5. v \in [1..K -> P] /\ w \in [1..K -> P]
  BY Zenon DEF IsAscending
<1>. QED
  BY <1>4, <1>5

\* One more, higher than the others, comes last.
LEMMA AscendingMore ==
  ASSUME NEW P, P \in SUBSET Nat, IsFiniteSet(P), NEW x \in Nat, \A i \in P : i < x
  PROVE  Ascending(P \cup {x}) = Append(Ascending(P), x)
<1>1. PICK K \in Nat : K = Cardinality(P)
  BY FS_CardinalityType, Zenon
<1>2. PICK w : w = Ascending(P)
  OBVIOUS
<1>3. IsAscending(w, P, K)
  BY <1>1, <1>2, AscendingIs, Zenon
<1> DEFINE Q == P \cup {x}
           v == Append(w, x)
<1>4. x \notin P
  <2>1. ~(x < x)
    OBVIOUS
  <2>. QED
    BY <2>1, Zenon
<1>5. Q \in SUBSET Nat /\ IsFiniteSet(Q) /\ Cardinality(Q) = K + 1
  BY <1>1, <1>4, FS_AddElement, Zenon
<1>6. w \in [1..K -> P] /\ w \in Seq(P) /\ Len(w) = K
  <2>1. w \in [1..K -> P]
    BY <1>3, Zenon DEF IsAscending
  <2>. QED
    BY <2>1
<1>7. v \in [1..(K + 1) -> Q] /\ v[K + 1] = x /\ \A n \in 1..K : v[n] = w[n]
  <2>1. w \in Seq(Q) /\ x \in Q
    <3>1. w \in [1..K -> Q]
      BY <1>6, Zenon
    <3>. QED
      BY <3>1
  <2> HIDE DEF Q
  <2>2. /\ v \in [1..(Len(w) + 1) -> Q] /\ v[Len(w) + 1] = x
        /\ \A n \in 1..Len(w) : v[n] = w[n]
    BY <2>1, AppendOne
  <2> HIDE DEF v
  <2>. QED
    BY <1>6, <2>2, Zenon
<1> HIDE DEF v
<1>8. IsAscending(v, Q, K + 1)
  <2>1. ASSUME NEW a \in 1..(K + 1), NEW b \in 1..(K + 1), a < b PROVE v[a] < v[b]
    <3>1. a \in 1..K
      BY <2>1
    <3>2. CASE b = K + 1
      <4>1. v[a] \in P
        BY <1>6, <1>7, <3>1, Zenon
      <4>. QED
        BY <1>7, <3>2, <4>1, Zenon
    <3>3. CASE b # K + 1
      <4>1. b \in 1..K
        BY <3>3
      <4>. QED
        BY <1>3, <1>7, <2>1, <3>1, <4>1, Zenon DEF IsAscending
    <3>. QED
      BY <3>2, <3>3, Zenon
  <2>2. K + 1 \in 1..(K + 1) /\ \A a \in 1..K : a \in 1..(K + 1)
    OBVIOUS
  <2>3. ASSUME NEW i \in Q PROVE \E a \in 1..(K + 1) : v[a] = i
    <3>1. CASE i = x
      BY <1>7, <2>2, <3>1, Zenon
    <3>2. CASE i \in P
      <4>1. PICK a \in 1..K : w[a] = i
        BY <1>3, <3>2, Zenon DEF IsAscending
      <4>. QED
        BY <1>7, <2>2, <4>1, Zenon
    <3>. QED
      BY <3>1, <3>2, Zenon
  <2> HIDE DEF Q
  <2>. QED
    BY <1>7, <2>1, <2>3, Zenon DEF IsAscending
<1>9. K + 1 \in Nat
  OBVIOUS
<1>10. IsAscending(Ascending(Q), Q, K + 1)
  <2> HIDE DEF Q
  <2>. QED
    BY <1>5, <1>9, AscendingIs, Zenon
<1>11. Ascending(Q) = v
  <2> HIDE DEF Q
  <2>. QED
    BY <1>5, <1>8, <1>9, <1>10, ListedOnce, Zenon
<1>. QED
  BY <1>2, <1>11, Zenon DEF v

LEMMA AscendingNone == Ascending({}) = <<>>
<1>1. IsFiniteSet({}) /\ Cardinality({}) = 0 /\ {} \in SUBSET Nat /\ 0 \in Nat
  BY FS_EmptySet, Zenon
<1>2. IsAscending(Ascending({}), {}, 0)
  BY <1>1, AscendingIs, Zenon
<1>3. Ascending({}) \in [1..0 -> {}]
  BY <1>2, Zenon DEF IsAscending
<1>. QED
  BY <1>3

LEMMA BeginsNumbers ==
  ASSUME NEW C, NEW s \in Seq(C)
  PROVE  Begins(s) \in SUBSET Nat /\ IsFiniteSet(Begins(s)) /\ Begins(s) \in SUBSET (1..Len(s))
<1>1. Begins(s) \in SUBSET (1..Len(s)) /\ 1..Len(s) \in SUBSET Nat /\ Len(s) \in Nat
  BY DEF Begins
<1>2. IsFiniteSet(1..Len(s))
  <2>1. 1 \in Int /\ Len(s) \in Int
    BY <1>1
  <2>. QED
    BY <2>1, FS_Interval, Zenon
<1>. QED
  BY <1>1, <1>2, FS_Subset, Zenon

LEMMA SameSub ==
  ASSUME NEW C, NEW x \in Seq(C), NEW y \in Seq(C), NEW b \in 1..(Len(x) + 1),
         NEW c \in (b - 1)..Len(x), c <= Len(y), \A j \in b..c : y[j] = x[j]
  PROVE  SubSeq(y, b, c) = SubSeq(x, b, c)
<1>1. b \in Int /\ c \in Int /\ Len(x) \in Nat /\ Len(y) \in Nat
  OBVIOUS
<1>2. /\ SubSeq(x, b, c) = [i \in 1..(c - b + 1) |-> x[b + i - 1]]
      /\ SubSeq(y, b, c) = [i \in 1..(c - b + 1) |-> y[b + i - 1]]
  BY <1>1
<1>3. \A i \in 1..(c - b + 1) : b + i - 1 \in b..c
  BY <1>1
<1>. QED
  BY <1>2, <1>3, Zenon

\* The component of s that begins at b.
ComponentAt(s, b) == SubSeq(s, b, EndOf(s, b) - 1)

\* Components from where they begin.
LEMMA ComponentsAre ==
  ASSUME NEW C, NEW s \in Seq(C)
  PROVE  \E K, w : /\ K \in Nat /\ w \in [1..K -> Begins(s)] /\ w = Ascending(Begins(s))
                    /\ Components(s) = [k \in 1..K |-> ComponentAt(s, w[k])]
<1>1. PICK K \in Nat : K = Cardinality(Begins(s))
  BY BeginsNumbers, FS_CardinalityType, Zenon
<1>2. PICK w : w = Ascending(Begins(s))
  OBVIOUS
<1>3. IsAscending(w, Begins(s), K)
  BY <1>1, <1>2, BeginsNumbers, AscendingIs, Zenon
<1>4. w \in [1..K -> Begins(s)] /\ DOMAIN w = 1..K
  BY <1>3, Zenon DEF IsAscending
<1>5. Components(s) = [k \in DOMAIN w |-> SubSeq(s, w[k], EndOf(s, w[k]) - 1)]
  BY <1>2, Zenon DEF Components
<1>6. K \in Nat
  OBVIOUS
<1>7. Components(s) = [k \in 1..K |-> ComponentAt(s, w[k])]
  BY <1>4, <1>5, Zenon DEF ComponentAt
<1>8. /\ K \in Nat /\ w \in [1..K -> Begins(s)] /\ w = Ascending(Begins(s))
      /\ Components(s) = [k \in 1..K |-> ComponentAt(s, w[k])]
  BY <1>2, <1>4, <1>6, <1>7, Zenon
<1>. QED
  <2>. WITNESS K, w
  <2>. QED
    BY <1>8, Zenon

\* y goes on where x ends, and no component of x goes on with it.
Extends(y, x) ==
  /\ Len(x) <= Len(y) /\ (\A i \in 1..Len(x) : y[i] = x[i])
  /\ Len(x) = Len(y) \/ y[Len(x) + 1] = Sep

LEMMA ComponentStays ==
  ASSUME NEW C, NEW x \in Seq(C), NEW y \in Seq(C), Extends(y, x), NEW b \in 1..Len(x)
  PROVE  ComponentAt(y, b) = ComponentAt(x, b)
<1>1. Len(x) \in Nat /\ Len(y) \in Nat /\ b \in 1..(Len(x) + 1) /\ b \in 1..(Len(y) + 1)
  BY DEF Extends
<1>2. PICK e : e = EndOf(x, b)
  OBVIOUS
<1>3. EndsAt(x, b, e)
  BY <1>1, <1>2, EndOfIs, Zenon
<1>4. /\ e \in b..(Len(x) + 1) /\ (e = Len(x) + 1 \/ x[e] = Sep)
      /\ \A j \in b..(e - 1) : x[j] # Sep
  BY <1>3, Zenon DEF EndsAt
<1>5. e \in b..(Len(y) + 1)
  BY <1>1, <1>4 DEF Extends
<1>6. e = Len(y) + 1 \/ y[e] = Sep
  <2>1. CASE e = Len(x) + 1
    BY <1>1, <2>1 DEF Extends
  <2>2. CASE e # Len(x) + 1
    <3>1. e \in 1..Len(x) /\ x[e] = Sep
      BY <1>1, <1>4, <2>2
    <3>. QED
      BY <3>1, Zenon DEF Extends
  <2>. QED
    BY <2>1, <2>2, Zenon
<1>7. ASSUME NEW j \in b..(e - 1) PROVE y[j] # Sep
  <2>1. j \in 1..Len(x)
    BY <1>1, <1>4
  <2>. QED
    BY <1>4, <2>1, Zenon DEF Extends
<1>8. EndOf(y, b) = e
  <2>1. EndsAt(y, b, e)
    BY <1>5, <1>6, <1>7, Zenon DEF EndsAt
  <2>. QED
    BY <1>1, <2>1, EndIsOne, Zenon
<1>9. SubSeq(y, b, e - 1) = SubSeq(x, b, e - 1)
  <2>1. b \in 1..(Len(x) + 1) /\ e - 1 \in (b - 1)..Len(x) /\ e - 1 <= Len(y)
    BY <1>1, <1>4 DEF Extends
  <2>2. \A j \in b..(e - 1) : j \in 1..Len(x)
    BY <1>1, <2>1
  <2>3. \A j \in b..(e - 1) : y[j] = x[j]
    BY <2>2, Zenon DEF Extends
  <2>. QED
    BY <2>1, <2>3, SameSub, Zenon
<1>. QED
  BY <1>2, <1>8, <1>9, Zenon DEF ComponentAt

\* A separator behind a path adds no component.
LEMMA ComponentsSep ==
  ASSUME NEW C, Sep \in C, NEW x \in Seq(C)
  PROVE  Components(x \o <<Sep>>) = Components(x)
<1>1. PICK y : y = x \o <<Sep>>
  OBVIOUS
<1>2. y \in Seq(C) /\ Len(y) = Len(x) + 1 /\ y[Len(x) + 1] = Sep /\ \A i \in 1..Len(x) : y[i] = x[i]
  BY <1>1
<1>3. Len(x) \in Nat
  OBVIOUS
<1>4. Extends(y, x)
  BY <1>2, <1>3 DEF Extends
<1>5. Begins(y) = Begins(x)
  <2>1. DOMAIN x = 1..Len(x) /\ DOMAIN y = 1..(Len(x) + 1)
    BY <1>2
  <2>2. \A i \in 1..(Len(x) + 1) : i = Len(x) + 1 \/ (i \in 1..Len(x) /\ (i = 1 \/ i - 1 \in 1..Len(x)))
    BY <1>3
  <2>3. \A i \in 1..Len(x) : i \in 1..(Len(x) + 1)
    BY <1>3
  <2>4. ASSUME NEW i \in Begins(y) PROVE i \in Begins(x)
    <3>1. i \in 1..(Len(x) + 1) /\ y[i] # Sep /\ (i = 1 \/ y[i - 1] = Sep)
      BY <2>1, <2>4, Zenon DEF Begins
    <3>2. i \in 1..Len(x) /\ (i = 1 \/ i - 1 \in 1..Len(x))
      BY <1>2, <2>2, <3>1, Zenon
    <3>. QED
      BY <1>2, <2>1, <3>1, <3>2, Zenon DEF Begins
  <2>5. ASSUME NEW i \in Begins(x) PROVE i \in Begins(y)
    <3>1. i \in 1..Len(x) /\ x[i] # Sep /\ (i = 1 \/ x[i - 1] = Sep)
      BY <2>1, <2>5, Zenon DEF Begins
    <3>2. i = 1 \/ i - 1 \in 1..Len(x)
      BY <3>1
    <3>. QED
      BY <1>2, <2>1, <2>3, <3>1, <3>2, Zenon DEF Begins
  <2>. QED
    BY <2>4, <2>5, Zenon
<1>6. PICK K, w : /\ K \in Nat /\ w \in [1..K -> Begins(x)] /\ w = Ascending(Begins(x))
                  /\ Components(x) = [k \in 1..K |-> ComponentAt(x, w[k])]
  BY ComponentsAre, Zenon
<1>7. PICK L, v : /\ L \in Nat /\ v \in [1..L -> Begins(y)] /\ v = Ascending(Begins(y))
                  /\ Components(y) = [k \in 1..L |-> ComponentAt(y, v[k])]
  BY <1>2, ComponentsAre, Zenon
<1>8. v = w /\ 1..L = 1..K
  BY <1>5, <1>6, <1>7, Zenon
<1>9. \A k \in 1..K : ComponentAt(y, w[k]) = ComponentAt(x, w[k])
  <2>1. \A k \in 1..K : w[k] \in 1..Len(x)
    BY <1>6, BeginsNumbers, Zenon
  <2>2. \A b \in 1..Len(x) : ComponentAt(y, b) = ComponentAt(x, b)
    BY <1>2, <1>4, ComponentStays, Zenon
  <2>. QED
    BY <2>1, <2>2, Zenon
<1>10. Components(y) = Components(x)
  BY <1>6, <1>7, <1>8, <1>9, Zenon
<1>. QED
  BY <1>1, <1>10, Zenon

\* The name of a file: no separator, not empty.
IsName(C, f) == f \in Seq(C) /\ f # <<>> /\ \A i \in 1..Len(f) : f[i] # Sep

LEMMA NamedLast ==
  ASSUME NEW C, Sep \in C, NEW x \in Seq(C), NEW f, IsName(C, f)
  PROVE  /\ Begins(x \o <<Sep>> \o f) = Begins(x) \cup {Len(x) + 2}
         /\ ComponentAt(x \o <<Sep>> \o f, Len(x) + 2) = f
         /\ Extends(x \o <<Sep>> \o f, x)
<1>1. PICK y : y = x \o <<Sep>> \o f
  OBVIOUS
<1>2. PICK N \in Nat : N = Len(x)
  BY SeqIsFunction, Zenon
<1>3. PICK M \in Nat : M = Len(f)
  BY SeqIsFunction, Zenon DEF IsName
<1>4. f \in Seq(C) /\ M # 0 /\ \A i \in 1..M : f[i] # Sep
  <2>1. f \in Seq(C) /\ f # <<>>
    BY Zenon DEF IsName
  <2>2. M # 0
    BY <1>3, <2>1
  <2>. QED
    BY <1>3, <2>1, <2>2, Zenon DEF IsName
<1>5. PICK z : z = x \o <<Sep>>
  OBVIOUS
<1>6. z \in Seq(C) /\ Len(z) = N + 1 /\ z[N + 1] = Sep /\ \A i \in 1..N : z[i] = x[i]
  BY <1>2, <1>5
<1>7. /\ y \in Seq(C) /\ Len(y) = N + 1 + M /\ (\A i \in 1..(N + 1) : y[i] = z[i])
      /\ \A i \in 1..M : y[N + 1 + i] = f[i]
  <2>1. y = z \o f
    BY <1>1, <1>5, Zenon
  <2>2. /\ z \o f \in Seq(C) /\ Len(z \o f) = Len(z) + Len(f)
        /\ \A i \in 1..Len(z) : (z \o f)[i] = z[i]
        /\ \A i \in 1..Len(f) : (z \o f)[Len(z) + i] = f[i]
    BY <1>4, <1>6
  <2>3. Len(z) = N + 1 /\ Len(f) = M
    BY <1>3, <1>6, Zenon
  <2>. QED
    BY <2>1, <2>2, <2>3, Zenon
<1>8. y[N + 1] = Sep /\ \A i \in 1..N : y[i] = x[i]
  <2>1. N + 1 \in 1..(N + 1) /\ \A i \in 1..N : i \in 1..(N + 1)
    OBVIOUS
  <2>. QED
    BY <1>6, <1>7, <2>1, Zenon
<1>9. \A j \in (N + 2)..(N + 1 + M) : y[j] # Sep
  <2>1. ASSUME NEW j \in (N + 2)..(N + 1 + M) PROVE y[j] # Sep
    <3>1. j - (N + 1) \in 1..M /\ N + 1 + (j - (N + 1)) = j
      OBVIOUS
    <3>2. y[N + 1 + (j - (N + 1))] # Sep
      BY <1>4, <1>7, <3>1, Zenon
    <3>. QED
      BY <3>1, <3>2, Zenon
  <2>. QED
    BY <2>1, Zenon
<1>10. DOMAIN y = 1..(N + 1 + M) /\ DOMAIN x = 1..N
  BY <1>2, <1>7
<1>11. Begins(y) = Begins(x) \cup {N + 2}
  <2>1. ASSUME NEW i \in Begins(y) PROVE i \in Begins(x) \cup {N + 2}
    <3>1. i \in 1..(N + 1 + M) /\ y[i] # Sep /\ (i = 1 \/ y[i - 1] = Sep)
      BY <1>10, <2>1, Zenon DEF Begins
    <3>2. CASE i \in 1..N
      <4>1. i = 1 \/ i - 1 \in 1..N
        BY <3>2
      <4>. QED
        BY <1>8, <1>10, <3>1, <3>2, <4>1, Zenon DEF Begins
    <3>3. CASE i = N + 1
      BY <1>8, <3>1, <3>3, Zenon
    <3>4. CASE i = N + 2
      BY <3>4, Zenon
    <3>5. CASE i \in (N + 3)..(N + 1 + M)
      <4>1. i # 1 /\ i - 1 \in (N + 2)..(N + 1 + M)
        BY <3>5
      <4>. QED
        BY <1>9, <3>1, <4>1, Zenon
    <3>6. i \in 1..N \/ i = N + 1 \/ i = N + 2 \/ i \in (N + 3)..(N + 1 + M)
      BY <3>1
    <3>. QED
      BY <3>2, <3>3, <3>4, <3>5, <3>6, Zenon
  <2>2. ASSUME NEW i \in Begins(x) PROVE i \in Begins(y)
    <3>1. i \in 1..N /\ x[i] # Sep /\ (i = 1 \/ x[i - 1] = Sep)
      BY <1>10, <2>2, Zenon DEF Begins
    <3>2. (i = 1 \/ i - 1 \in 1..N) /\ i \in 1..(N + 1 + M)
      BY <3>1
    <3>. QED
      BY <1>8, <1>10, <3>1, <3>2, Zenon DEF Begins
  <2>3. N + 2 \in Begins(y)
    <3>1. N + 2 \in 1..(N + 1 + M) /\ N + 2 \in (N + 2)..(N + 1 + M) /\ (N + 2) - 1 = N + 1
      BY <1>4
    <3>2. y[N + 2] # Sep /\ y[(N + 2) - 1] = Sep
      BY <1>8, <1>9, <3>1, Zenon
    <3>. QED
      BY <1>10, <3>1, <3>2, Zenon DEF Begins
  <2>. QED
    BY <2>1, <2>2, <2>3, Zenon
<1>12. ComponentAt(y, N + 2) = f
  <2>1. N + 2 \in 1..(Len(y) + 1) /\ Len(y) + 1 = N + 1 + M + 1 /\ (N + 1 + M + 1) - 1 = N + 1 + M
    BY <1>4, <1>7
  <2>2. EndsAt(y, N + 2, N + 1 + M + 1)
    <3>1. N + 1 + M + 1 \in (N + 2)..(N + 1 + M + 1)
      BY <1>4
    <3>. QED
      BY <1>9, <2>1, <3>1, Zenon DEF EndsAt
  <2>3. EndOf(y, N + 2) = N + 1 + M + 1
    BY <1>7, <2>1, <2>2, EndIsOne, Zenon
  <2>4. SubSeq(y, N + 2, N + 1 + M) = f
    <3>1. SubSeq(y, N + 2, N + 1 + M) = [i \in 1..M |-> y[N + 1 + i]]
      <4>1. /\ SubSeq(y, N + 2, N + 1 + M) = [i \in 1..((N + 1 + M) - (N + 2) + 1) |-> y[(N + 2) + i - 1]]
            /\ (N + 1 + M) - (N + 2) + 1 = M /\ \A i \in 1..M : (N + 2) + i - 1 = N + 1 + i
        BY <1>7
      <4>. QED
        BY <4>1, Zenon
    <3>2. f = [i \in 1..M |-> f[i]]
      BY <1>3, <1>4, SeqIsFunction, Zenon
    <3>. QED
      BY <1>7, <3>1, <3>2, Zenon
  <2>. QED
    BY <2>1, <2>3, <2>4, Zenon DEF ComponentAt
<1>13. Extends(y, x)
  <2>1. N <= N + 1 + M
    OBVIOUS
  <2>. QED
    BY <1>2, <1>7, <1>8, <2>1, Zenon DEF Extends
<1>. QED
  BY <1>1, <1>2, <1>11, <1>12, <1>13, Zenon

\* The components of a path that ends in the name of a file.
LEMMA ComponentsMore ==
  ASSUME NEW C, Sep \in C, NEW x \in Seq(C), NEW f, IsName(C, f)
  PROVE  /\ Components(x) \in Seq(Seq(C))
         /\ Components(x \o <<Sep>> \o f) = Append(Components(x), f)
<1>1. PICK y : y = x \o <<Sep>> \o f
  OBVIOUS
<1>2. Begins(y) = Begins(x) \cup {Len(x) + 2} /\ ComponentAt(y, Len(x) + 2) = f /\ Extends(y, x)
  BY <1>1, NamedLast, Zenon
<1>3. y \in Seq(C) /\ f \in Seq(C) /\ Len(x) \in Nat
  BY <1>1 DEF IsName
<1>4. PICK K, w : /\ K \in Nat /\ w \in [1..K -> Begins(x)] /\ w = Ascending(Begins(x))
                  /\ Components(x) = [k \in 1..K |-> ComponentAt(x, w[k])]
  BY ComponentsAre, Zenon
<1>5. PICK L, v : /\ L \in Nat /\ v \in [1..L -> Begins(y)] /\ v = Ascending(Begins(y))
                  /\ Components(y) = [k \in 1..L |-> ComponentAt(y, v[k])]
  BY <1>3, ComponentsAre, Zenon
<1>6. K \in Nat /\ L \in Nat
  BY <1>4, <1>5, Zenon
<1>7. v = Append(w, Len(x) + 2)
  <2>1. Begins(x) \in SUBSET Nat /\ IsFiniteSet(Begins(x)) /\ Begins(x) \in SUBSET (1..Len(x))
    BY BeginsNumbers, Zenon
  <2>2. Len(x) + 2 \in Nat /\ \A i \in 1..Len(x) : i < Len(x) + 2
    BY <1>3
  <2>3. \A i \in Begins(x) : i < Len(x) + 2
    BY <2>1, <2>2, Zenon
  <2>. QED
    BY <1>2, <1>4, <1>5, <2>1, <2>2, <2>3, AscendingMore, Zenon
<1>8. L = K + 1 /\ v[K + 1] = Len(x) + 2 /\ \A k \in 1..K : v[k] = w[k]
  <2>1. w \in [1..K -> Nat]
    BY <1>4, BeginsNumbers, Zenon
  <2>2. w \in Seq(Nat) /\ Len(w) = K /\ Len(x) + 2 \in Nat
    BY <1>3, <1>6, <2>1
  <2>3. Len(v) = K + 1 /\ v[K + 1] = Len(x) + 2 /\ \A k \in 1..K : v[k] = w[k]
    BY <1>6, <1>7, <2>2
  <2>4. Len(v) = L
    BY <1>5, <1>6
  <2>. QED
    BY <2>3, <2>4, Zenon
<1>9. \A k \in 1..K : w[k] \in 1..Len(x)
  BY <1>4, BeginsNumbers, Zenon
<1> DEFINE cs == Components(x)
<1>10. cs \in [1..K -> Seq(C)]
  <2>1. ASSUME NEW b \in 1..Len(x) PROVE ComponentAt(x, b) \in Seq(C)
    <3>1. PICK e : e = EndOf(x, b)
      OBVIOUS
    <3>2. b \in 1..(Len(x) + 1)
      BY <1>3
    <3>3. e \in b..(Len(x) + 1)
      BY <3>1, <3>2, EndOfIs, Zenon DEF EndsAt
    <3>4. SubSeq(x, b, e - 1) \in Seq(C)
      BY <1>3, <3>3
    <3>. QED
      BY <3>1, <3>4, Zenon DEF ComponentAt
  <2>. QED
    BY <1>4, <1>9, <2>1, Zenon
<1>11. cs \in Seq(Seq(C)) /\ Len(cs) = K
  BY <1>6, <1>10
<1>12. \A k \in 1..K : ComponentAt(y, v[k]) = cs[k]
  <2>1. \A b \in 1..Len(x) : ComponentAt(y, b) = ComponentAt(x, b)
    BY <1>2, <1>3, ComponentStays, Zenon
  <2>. QED
    BY <1>4, <1>8, <1>9, <2>1, Zenon
<1> HIDE DEF cs
<1>13. Components(y) = Append(cs, f)
  <2>1. /\ Append(cs, f) \in [1..(Len(cs) + 1) -> Seq(C)] /\ Append(cs, f)[Len(cs) + 1] = f
        /\ \A n \in 1..Len(cs) : Append(cs, f)[n] = cs[n]
    <3>1. PICK D : D = Seq(C)
      OBVIOUS
    <3>2. cs \in Seq(D) /\ f \in D
      BY <1>3, <1>11, <3>1, Zenon
    <3>3. /\ Append(cs, f) \in [1..(Len(cs) + 1) -> D] /\ Append(cs, f)[Len(cs) + 1] = f
          /\ \A n \in 1..Len(cs) : Append(cs, f)[n] = cs[n]
      BY <3>2, AppendOne
    <3>. QED
      BY <3>1, <3>3, Zenon
  <2>2. /\ Append(cs, f) \in [1..(K + 1) -> Seq(C)] /\ Append(cs, f)[K + 1] = f
        /\ \A n \in 1..K : Append(cs, f)[n] = cs[n]
    BY <1>11, <2>1, Zenon
  <2>3. \A n \in 1..(K + 1) : n \in 1..K \/ n = K + 1
    BY <1>6
  <2>4. Components(y) = [k \in 1..(K + 1) |-> ComponentAt(y, v[k])]
    BY <1>5, <1>8, Zenon
  <2>5. \A n \in 1..(K + 1) : ComponentAt(y, v[n]) = Append(cs, f)[n]
    BY <1>2, <1>8, <1>12, <2>2, <2>3, Zenon
  <2>6. Append(cs, f) = [k \in 1..(K + 1) |-> Append(cs, f)[k]]
    BY <2>2, Zenon
  <2>. QED
    BY <2>4, <2>5, <2>6, Zenon
<1>. QED
  BY <1>1, <1>11, <1>13, Zenon DEF cs

LEMMA ComponentsNone ==
  Components(<<>>) = <<>>
<1>1. Begins(<<>>) = {}
  BY DEF Begins
<1>2. Components(<<>>) = [k \in DOMAIN <<>> |-> SubSeq(<<>>, <<>>[k], EndOf(<<>>, <<>>[k]) - 1)]
  BY <1>1, AscendingNone, Zenon DEF Components
<1>3. DOMAIN <<>> = 1..0
  OBVIOUS
<1> DEFINE c(k) == SubSeq(<<>>, <<>>[k], EndOf(<<>>, <<>>[k]) - 1)
<1>4. Components(<<>>) = [k \in 1..0 |-> c(k)]
  BY <1>2, <1>3, Zenon
<1> HIDE DEF c
<1>5. [k \in 1..0 |-> c(k)] = <<>>
  OBVIOUS
<1>. QED
  BY <1>4, <1>5, Zenon

LEMMA ComponentsOne ==
  ASSUME NEW C, NEW f, IsName(C, f)
  PROVE  Components(f) = <<f>>
<1>1. f \in Seq(C) /\ f # <<>> /\ \A i \in 1..Len(f) : f[i] # Sep
  BY Zenon DEF IsName
<1>2. PICK M \in Nat : M = Len(f)
  BY <1>1, SeqIsFunction, Zenon
<1>3. M # 0
  BY <1>1, <1>2
<1>4. Begins(f) = {} \cup {1}
  <2>1. \A i \in 1..Len(f) : i = 1 \/ i - 1 \in 1..Len(f)
    BY <1>2
  <2>2. DOMAIN f = 1..Len(f) /\ 1 \in 1..Len(f)
    BY <1>1, <1>2, <1>3
  <2>. QED
    BY <1>1, <2>1, <2>2, Zenon DEF Begins
<1>5. Ascending(Begins(f)) = <<1>>
  <2>1. {} \in SUBSET Nat /\ IsFiniteSet({}) /\ 1 \in Nat
    BY FS_EmptySet, Zenon
  <2>2. Ascending({} \cup {1}) = Append(Ascending({}), 1)
    BY <2>1, AscendingMore, Zenon
  <2>3. Append(<<>>, 1) = <<1>>
    OBVIOUS
  <2>. QED
    BY <1>4, <2>2, <2>3, AscendingNone, Zenon
<1>6. EndOf(f, 1) = M + 1
  <2>1. EndsAt(f, 1, M + 1)
    <3>1. M + 1 \in 1..(M + 1) /\ (M + 1) - 1 = M
      OBVIOUS
    <3>. QED
      BY <1>1, <1>2, <3>1, Zenon DEF EndsAt
  <2>2. 1 \in 1..(Len(f) + 1)
    BY <1>2
  <2>. QED
    BY <1>1, <2>1, <2>2, EndIsOne, Zenon
<1>7. SubSeq(f, 1, (M + 1) - 1) = f
  <2>1. (M + 1) - 1 = M
    OBVIOUS
  <2>. QED
    BY <1>1, <1>2, <2>1, SubSeqFull, Zenon
<1>8. Components(f) = [k \in DOMAIN <<1>> |-> SubSeq(f, <<1>>[k], EndOf(f, <<1>>[k]) - 1)]
  BY <1>5, Zenon DEF Components
<1>9. DOMAIN <<1>> = 1..1 /\ \A k \in 1..1 : <<1>>[k] = 1
  OBVIOUS
<1>10. Components(f) = [k \in 1..1 |-> f]
  BY <1>6, <1>7, <1>8, <1>9, Zenon
<1>11. [k \in 1..1 |-> f] = <<f>>
  BY <1>1
<1>. QED
  BY <1>10, <1>11, Zenon

LEMMA JoinTwo ==
  ASSUME NEW x, NEW y
  PROVE  join_path(<<x, y>>) = JoinOne(JoinOne(<<>>, x), y)
<1> DEFINE a == JoinOne(<<>>, x)
           b == JoinOne(a, y)
           ps == <<x, y>>
           Body(h) == [n \in 0..2 |-> IF n = 0 THEN <<>> ELSE JoinOne(h[n - 1], ps[n])]
           g == [n \in 0..2 |-> IF n = 0 THEN <<>> ELSE IF n = 1 THEN a ELSE b]
           all == CHOOSE h : h = Body(h)
<1>1. Len(ps) = 2 /\ ps[1] = x /\ ps[2] = y
  OBVIOUS
<1> HIDE DEF ps
<1>2. g[0] = <<>> /\ g[1] = a /\ g[2] = b /\ 2 - 1 = 1 /\ 1 - 1 = 0 /\ 0 \in 0..2 /\ 1 \in 0..2 /\ 2 \in 0..2
  OBVIOUS
<1>3. \A n \in 0..2 : n = 0 \/ n = 1 \/ n = 2
  OBVIOUS
<1>4. \A n \in 0..2 : g[n] = IF n = 0 THEN <<>> ELSE JoinOne(g[n - 1], ps[n])
  <2>1. ASSUME NEW n \in 0..2, n = 1 PROVE g[n] = JoinOne(g[n - 1], ps[n]) /\ n # 0
    <3>1. n - 1 = 0 /\ n # 0
      BY <2>1
    <3>. QED
      BY <1>1, <1>2, <2>1, <3>1, Zenon
  <2>2. ASSUME NEW n \in 0..2, n = 2 PROVE g[n] = JoinOne(g[n - 1], ps[n]) /\ n # 0
    <3>1. n - 1 = 1 /\ n # 0
      BY <2>2
    <3>. QED
      BY <1>1, <1>2, <2>2, <3>1, Zenon
  <2> HIDE DEF g
  <2>. QED
    BY <1>2, <1>3, <2>1, <2>2, Zenon
<1>5. g = Body(g)
  <2>1. g = [n \in 0..2 |-> g[n]]
    BY Zenon
  <2> HIDE DEF g
  <2>. QED
    BY <1>4, <2>1, Zenon
<1>6. all = Body(all) /\ join_path(ps) = all[2]
  BY <1>1, <1>5, Zenon DEF join_path
<1> HIDE DEF all
<1>7. all[0] = <<>>
  BY <1>2, <1>6, Zenon
<1>8. all[1] = a
  <2>1. 1 # 0
    OBVIOUS
  <2>2. all[1] = JoinOne(all[1 - 1], ps[1])
    BY <1>2, <1>6, <2>1, Zenon
  <2>. QED
    BY <1>1, <1>2, <1>7, <2>2, Zenon
<1>9. all[2] = b
  <2>1. 2 # 0
    OBVIOUS
  <2>2. all[2] = JoinOne(all[2 - 1], ps[2])
    BY <1>2, <1>6, <2>1, Zenon
  <2>. QED
    BY <1>1, <1>2, <1>8, <2>2, Zenon
<1>. QED
  BY <1>6, <1>9, Zenon DEF ps

\* Part of a name.
IsPlain(C, s) == s \in Seq(C) /\ \A i \in 1..Len(s) : s[i] # Sep

LEMMA PlainTogether ==
  ASSUME NEW C, NEW s, IsPlain(C, s), NEW t, IsPlain(C, t)
  PROVE  IsPlain(C, s \o t) /\ Len(s \o t) = Len(s) + Len(t)
<1>1. s \in Seq(C) /\ t \in Seq(C) /\ Len(s) \in Nat /\ Len(t) \in Nat
  BY DEF IsPlain
<1>2. /\ s \o t \in Seq(C) /\ Len(s \o t) = Len(s) + Len(t)
      /\ \A i \in 1..(Len(s) + Len(t)) : (s \o t)[i] = IF i <= Len(s) THEN s[i] ELSE t[i - Len(s)]
  BY <1>1, ConcatProperties
<1>3. ASSUME NEW i \in 1..(Len(s) + Len(t)) PROVE (s \o t)[i] # Sep
  <2>1. CASE i <= Len(s)
    <3>1. i \in 1..Len(s)
      BY <1>1, <2>1
    <3>. QED
      BY <1>2, <2>1, <3>1, Zenon DEF IsPlain
  <2>2. CASE ~(i <= Len(s))
    <3>1. i - Len(s) \in 1..Len(t)
      BY <1>1, <2>2
    <3>. QED
      BY <1>2, <2>2, <3>1, Zenon DEF IsPlain
  <2>. QED
    BY <2>1, <2>2, Zenon
<1>. QED
  BY <1>2, <1>3, Zenon DEF IsPlain

LEMMA PlainPart ==
  ASSUME NEW C, NEW s \in Seq(C), NEW a \in 1..(Len(s) + 1), NEW b \in (a - 1)..Len(s),
         \A i \in a..b : s[i] # Sep
  PROVE  IsPlain(C, SubSeq(s, a, b)) /\ Len(SubSeq(s, a, b)) = b - a + 1
<1>1. a \in Int /\ b \in Int /\ Len(s) \in Nat
  OBVIOUS
<1>2. /\ SubSeq(s, a, b) \in Seq(C) /\ Len(SubSeq(s, a, b)) = b - a + 1
      /\ \A i \in 1..(b - a + 1) : SubSeq(s, a, b)[i] = s[a + i - 1]
  BY <1>1
<1>3. \A i \in 1..(b - a + 1) : a + i - 1 \in a..b
  BY <1>1
<1>. QED
  BY <1>2, <1>3, Zenon DEF IsPlain

LEMMA PlainOne ==
  ASSUME NEW C, NEW c \in C, c # Sep
  PROVE  IsPlain(C, <<c>>) /\ Len(<<c>>) = 1
<1>1. <<c>> \in Seq(C) /\ Len(<<c>>) = 1 /\ \A i \in 1..1 : <<c>>[i] = c
  OBVIOUS
<1>. QED
  BY <1>1, Zenon DEF IsPlain

\* The characters an archive's path is made of.
PathCharacters(C) == {Sep, Dot, "_", "-", "gz"} \subseteq C

LEMMA Distinct == Dot # Sep /\ "_" # Sep /\ "-" # Sep /\ "gz" # Sep /\ "gz" # Dot
BY DEF Sep, Dot

\* What ArchivePath puts behind the directory.
Numbered(digits) == IF digits # <<>> THEN <<"-">> \o digits ELSE <<>>
Stamped(p, stamp) == file_name_without_extension(p) \o <<"_">> \o stamp
BeforeGz(p, stamp, digits) ==
  Stamped(p, stamp) \o Numbered(digits) \o <<Dot>> \o file_extension(p)
ArchiveName(p, stamp, digits) == BeforeGz(p, stamp, digits) \o <<Dot, "gz">>

LEMMA ArchivePathIs ==
  ASSUME NEW p, NEW stamp, NEW digits
  PROVE  ArchivePath(p, stamp, digits) = join_path(<<parent_dir(p), ArchiveName(p, stamp, digits)>>)
BY Zenon DEF ArchivePath, ArchiveName, BeforeGz, Stamped, Numbered

\* The name of the file a path ends in.
FileName(p) == From(p, LastOf(p, Sep) + 1)

LEMMA StemAndExtension ==
  ASSUME NEW C, NEW p \in Seq(C)
  PROVE  /\ IsPlain(C, file_name_without_extension(p)) /\ IsPlain(C, file_extension(p))
         /\ IsPlain(C, FileName(p)) /\ Len(FileName(p)) = Len(p) - LastOf(p, Sep)
         /\ Len(FileName(p)) <= Len(file_name_without_extension(p)) + Len(file_extension(p)) + 1
<1>1. PICK L \in 0..Len(p) : L = LastOf(p, Sep) /\ \A i \in (L + 1)..Len(p) : p[i] # Sep
  BY LastOfIs, Zenon
<1>2. PICK D \in 0..Len(p) : D = LastOf(p, Dot)
  BY LastOfIs, Zenon
<1>3. Len(p) \in Nat
  OBVIOUS
<1>4. IsPlain(C, FileName(p)) /\ Len(FileName(p)) = Len(p) - L
  <2>1. L + 1 \in 1..(Len(p) + 1) /\ Len(p) \in ((L + 1) - 1)..Len(p) /\ Len(p) - (L + 1) + 1 = Len(p) - L
    BY <1>3
  <2>2. IsPlain(C, SubSeq(p, L + 1, Len(p))) /\ Len(SubSeq(p, L + 1, Len(p))) = Len(p) - (L + 1) + 1
    BY <1>1, <2>1, PlainPart, Zenon
  <2>. QED
    BY <1>1, <2>1, <2>2, Zenon DEF FileName, From
<1>5. CASE HasExtension(p)
  <2>1. D > L + 1
    BY <1>1, <1>2, <1>5, Zenon DEF HasExtension
  <2>2. /\ file_extension(p) = SubSeq(p, D + 1, Len(p))
        /\ file_name_without_extension(p) = SubSeq(p, L + 1, D - 1)
    BY <1>1, <1>2, <1>5, Zenon DEF file_extension, file_name_without_extension, From
  <2>3. IsPlain(C, SubSeq(p, D + 1, Len(p))) /\ Len(SubSeq(p, D + 1, Len(p))) = Len(p) - (D + 1) + 1
    <3>1. /\ D + 1 \in 1..(Len(p) + 1) /\ Len(p) \in ((D + 1) - 1)..Len(p)
          /\ \A i \in (D + 1)..Len(p) : i \in (L + 1)..Len(p)
      BY <1>3, <2>1
    <3>2. \A i \in (D + 1)..Len(p) : p[i] # Sep
      BY <1>1, <3>1, Zenon
    <3>. QED
      BY <3>1, <3>2, PlainPart, Zenon
  <2>4. IsPlain(C, SubSeq(p, L + 1, D - 1)) /\ Len(SubSeq(p, L + 1, D - 1)) = (D - 1) - (L + 1) + 1
    <3>1. /\ L + 1 \in 1..(Len(p) + 1) /\ D - 1 \in ((L + 1) - 1)..Len(p)
          /\ \A i \in (L + 1)..(D - 1) : i \in (L + 1)..Len(p)
      BY <1>3, <2>1
    <3>2. \A i \in (L + 1)..(D - 1) : p[i] # Sep
      BY <1>1, <3>1, Zenon
    <3>. QED
      BY <3>1, <3>2, PlainPart, Zenon
  <2>5. Len(FileName(p)) <= Len(SubSeq(p, L + 1, D - 1)) + Len(SubSeq(p, D + 1, Len(p))) + 1
    <3>1. Len(p) - L <= ((D - 1) - (L + 1) + 1) + (Len(p) - (D + 1) + 1) + 1
      BY <1>3
    <3>. QED
      BY <1>4, <2>3, <2>4, <3>1, Zenon
  <2>. QED
    BY <1>1, <1>4, <2>2, <2>3, <2>4, <2>5, Zenon
<1>6. CASE ~HasExtension(p)
  <2>1. file_extension(p) = <<>> /\ file_name_without_extension(p) = FileName(p)
    BY <1>6, Zenon DEF file_extension, file_name_without_extension, FileName
  <2>2. <<>> \in Seq(C) /\ Len(<<>>) = 0 /\ 1..0 = {}
    OBVIOUS
  <2>3. IsPlain(C, <<>>)
    BY <2>2, Zenon DEF IsPlain
  <2>4. Len(p) - L <= (Len(p) - L) + 0 + 1
    BY <1>3
  <2>. QED
    BY <1>1, <1>4, <2>1, <2>2, <2>3, <2>4, Zenon
<1>. QED
  BY <1>5, <1>6, Zenon

PlainOf(C, s, n) == IsPlain(C, s) /\ Len(s) = n

LEMMA PlainJoined ==
  ASSUME NEW C, NEW s, NEW m, PlainOf(C, s, m), NEW t, NEW n, PlainOf(C, t, n)
  PROVE  PlainOf(C, s \o t, m + n)
BY PlainTogether, Zenon DEF PlainOf

LEMMA OfTwo ==
  ASSUME NEW C, NEW a \in C, NEW b \in C
  PROVE  /\ <<a, b>> \in Seq(C) /\ Len(<<a, b>>) = 2 /\ <<a, b>>[1] = a /\ <<a, b>>[2] = b
         /\ \A i \in 1..2 : i = 1 \/ i = 2
OBVIOUS

LEMMA OneOf ==
  ASSUME NEW C, NEW s \in Seq(C), NEW k \in 1..Len(s)
  PROVE  SubSeq(s, k, k) = <<s[k]>>
<1>1. SubSeq(s, k, k) = [i \in 1..1 |-> s[k]]
  <2>1. k \in Int /\ k - k + 1 = 1 /\ \A i \in 1..1 : k + i - 1 = k
    OBVIOUS
  <2>2. SubSeq(s, k, k) = [i \in 1..(k - k + 1) |-> s[k + i - 1]]
    BY <2>1
  <2>. QED
    BY <2>1, <2>2, Zenon
<1>2. PICK c : c = s[k]
  OBVIOUS
<1>3. [i \in 1..1 |-> c] = <<c>>
  OBVIOUS
<1>. QED
  BY <1>1, <1>2, <1>3, Zenon

LEMMA CancelRight ==
  ASSUME NEW C, NEW s \in Seq(C), NEW t \in Seq(C), NEW v \in Seq(C), s \o v = t \o v
  PROVE  s = t
BY ConcatSimplifications, Zenon

LEMMA CancelLeft ==
  ASSUME NEW C, NEW s \in Seq(C), NEW t \in Seq(C), NEW v \in Seq(C), v \o s = v \o t
  PROVE  s = t
BY ConcatSimplifications, Zenon

LEMMA NumberedPlain ==
  ASSUME NEW C, PathCharacters(C), NEW d, IsPlain(C, d)
  PROVE  IsPlain(C, Numbered(d))
<1>1. CASE d = <<>>
  BY <1>1, Zenon DEF Numbered
<1>2. CASE d # <<>>
  <2>1. "-" \in C
    BY DEF PathCharacters
  <2>2. IsPlain(C, <<"-">>)
    BY <2>1, Distinct, PlainOne, Zenon
  <2>3. IsPlain(C, <<"-">> \o d)
    BY <2>2, PlainTogether, Zenon
  <2>. QED
    BY <1>2, <2>3, Zenon DEF Numbered
<1>. QED
  BY <1>1, <1>2, Zenon

LEMMA ArchiveNameIs ==
  ASSUME NEW C, PathCharacters(C), NEW p \in Seq(C), NEW stamp, IsPlain(C, stamp), NEW d, IsPlain(C, d)
  PROVE  /\ IsPlain(C, Stamped(p, stamp)) /\ IsPlain(C, Numbered(d)) /\ IsPlain(C, file_extension(p))
         /\ IsPlain(C, BeforeGz(p, stamp, d)) /\ BeforeGz(p, stamp, d) # <<>>
         /\ IsName(C, ArchiveName(p, stamp, d))
         /\ Len(FileName(p)) < Len(ArchiveName(p, stamp, d))
<1> DEFINE stem == file_name_without_extension(p)
           ext == file_extension(p)
           f == FileName(p)
<1>1. IsPlain(C, stem) /\ IsPlain(C, ext) /\ IsPlain(C, f) /\ Len(f) <= Len(stem) + Len(ext) + 1
  BY StemAndExtension, Zenon
<1> HIDE DEF stem, ext, f
<1>2. "_" \in C /\ Dot \in C /\ "gz" \in C
  BY DEF PathCharacters
<1>3. IsPlain(C, <<"_">>) /\ Len(<<"_">>) = 1 /\ IsPlain(C, <<Dot>>) /\ Len(<<Dot>>) = 1
  BY <1>2, Distinct, PlainOne, Zenon
<1>4. IsPlain(C, Numbered(d))
  BY NumberedPlain, Zenon
<1>5. PICK k1, k2, k3, k4 : /\ PlainOf(C, stem, k1) /\ PlainOf(C, stamp, k2)
                              /\ PlainOf(C, Numbered(d), k3) /\ PlainOf(C, ext, k4)
  BY <1>1, <1>4, Zenon DEF PlainOf
<1>6. PlainOf(C, <<"_">>, 1) /\ PlainOf(C, <<Dot>>, 1) /\ PlainOf(C, <<Dot, "gz">>, 2)
  <2>1. /\ <<Dot, "gz">> \in Seq(C) /\ Len(<<Dot, "gz">>) = 2 /\ <<Dot, "gz">>[1] = Dot
        /\ <<Dot, "gz">>[2] = "gz" /\ \A i \in 1..2 : i = 1 \/ i = 2
    BY <1>2, OfTwo, Zenon
  <2>. QED
    BY <1>3, <2>1, Distinct, Zenon DEF PlainOf, IsPlain
<1>7. PICK b : b = stem \o <<"_">> \o stamp
  OBVIOUS
<1>8. PlainOf(C, b, k1 + 1 + k2)
  BY <1>5, <1>6, <1>7, PlainJoined, Zenon
<1>9. PICK g : g = b \o Numbered(d) \o <<Dot>> \o ext
  OBVIOUS
<1>10. PlainOf(C, g, k1 + 1 + k2 + k3 + 1 + k4)
  BY <1>5, <1>6, <1>8, <1>9, PlainJoined, Zenon
<1>11. PICK h : h = g \o <<Dot, "gz">>
  OBVIOUS
<1>12. PlainOf(C, h, k1 + 1 + k2 + k3 + 1 + k4 + 2)
  BY <1>6, <1>10, <1>11, PlainJoined, Zenon
<1>13. b = Stamped(p, stamp) /\ g = BeforeGz(p, stamp, d) /\ h = ArchiveName(p, stamp, d)
  BY <1>7, <1>9, <1>11, Zenon DEF Stamped, BeforeGz, ArchiveName, stem, ext
<1>14. /\ Len(stem) = k1 /\ Len(ext) = k4 /\ k1 \in Nat /\ k2 \in Nat /\ k3 \in Nat /\ k4 \in Nat
       /\ Len(f) \in Nat
  <2>1. /\ stem \in Seq(C) /\ stamp \in Seq(C) /\ Numbered(d) \in Seq(C) /\ ext \in Seq(C)
        /\ f \in Seq(C) /\ Len(stem) = k1 /\ Len(ext) = k4 /\ Len(stamp) = k2 /\ Len(Numbered(d)) = k3
    BY <1>1, <1>5, Zenon DEF PlainOf, IsPlain
  <2>. QED
    BY <2>1, SeqIsFunction, Zenon
<1>15. /\ IsPlain(C, b) /\ IsPlain(C, g) /\ IsPlain(C, h) /\ Len(g) = k1 + 1 + k2 + k3 + 1 + k4
       /\ Len(h) = k1 + 1 + k2 + k3 + 1 + k4 + 2
  BY <1>8, <1>10, <1>12, Zenon DEF PlainOf
<1>16. Len(g) > 0 /\ Len(h) > 0 /\ Len(f) < Len(h)
  <2>1. Len(f) <= k1 + k4 + 1
    BY <1>1, <1>14, Zenon
  <2>. QED
    BY <1>14, <1>15, <2>1
<1>17. g # <<>> /\ h # <<>>
  BY <1>16
<1>18. IsName(C, h)
  BY <1>15, <1>17, Zenon DEF IsName, IsPlain
<1>. QED
  BY <1>1, <1>4, <1>13, <1>15, <1>16, <1>17, <1>18, Zenon DEF ext, f

\* Archives that differ in their counter have different names.
LEMMA NamesDiffer ==
  ASSUME NEW C, PathCharacters(C), NEW p \in Seq(C), NEW stamp, IsPlain(C, stamp),
         NEW m, IsPlain(C, m), NEW n, IsPlain(C, n),
         ArchiveName(p, stamp, m) = ArchiveName(p, stamp, n)
  PROVE  m = n
<1> DEFINE b == Stamped(p, stamp)
           ext == file_extension(p)
           x == Numbered(m)
           y == Numbered(n)
           gz == <<Dot, "gz">>
           dot == <<Dot>>
<1>1. IsPlain(C, b) /\ IsPlain(C, ext) /\ IsPlain(C, x) /\ IsPlain(C, y)
  BY ArchiveNameIs, Zenon
<1>2. Dot \in C /\ "gz" \in C /\ "-" \in C
  BY DEF PathCharacters
<1>3. b \in Seq(C) /\ ext \in Seq(C) /\ x \in Seq(C) /\ y \in Seq(C) /\ gz \in Seq(C) /\ dot \in Seq(C)
  <2>1. gz \in Seq(C) /\ dot \in Seq(C)
    BY <1>2
  <2>. QED
    BY <1>1, <2>1, Zenon DEF IsPlain
<1>4. b \o x \o dot \o ext \o gz = b \o y \o dot \o ext \o gz
  BY Zenon DEF ArchiveName, BeforeGz
<1> HIDE DEF b, ext, x, y, gz, dot
<1>5. /\ b \o x \in Seq(C) /\ b \o x \o dot \in Seq(C) /\ b \o x \o dot \o ext \in Seq(C)
      /\ b \o y \in Seq(C) /\ b \o y \o dot \in Seq(C) /\ b \o y \o dot \o ext \in Seq(C)
  BY <1>3
<1>7. b \o x \o dot \o ext = b \o y \o dot \o ext
  BY <1>3, <1>4, <1>5, CancelRight, Zenon
<1>8. b \o x \o dot = b \o y \o dot
  BY <1>3, <1>5, <1>7, CancelRight, Zenon
<1>9. b \o x = b \o y
  BY <1>3, <1>5, <1>8, CancelRight, Zenon
<1>10. x = y
  BY <1>3, <1>9, CancelLeft, Zenon
<1>11. m \in Seq(C) /\ n \in Seq(C)
  BY Zenon DEF IsPlain
<1>12. <<"-">> \in Seq(C) /\ <<"-">> # <<>>
  BY <1>2
<1>13. <<"-">> \o m # <<>> /\ <<"-">> \o n # <<>>
  BY <1>11, <1>12, ConcatSimplifications, Zenon
<1>14. <<"-">> \o m = <<"-">> \o n => m = n
  BY <1>11, <1>12, CancelLeft, Zenon
<1>. QED
  BY <1>10, <1>13, <1>14, Zenon DEF x, y, Numbered

\* A name is what sanitize_component leaves of it.
LEMMA NameStays ==
  ASSUME NEW C, NEW f, IsName(C, f), NEW first
  PROVE  sanitize_component(f, first) = f
<1>1. f \in Seq(C) /\ f # <<>> /\ \A i \in 1..Len(f) : f[i] # Sep
  BY Zenon DEF IsName
<1>2. 1 \in 1..Len(f) /\ Len(f) \in 1..Len(f)
  BY <1>1
<1>3. f[1] # Sep /\ f[Len(f)] # Sep
  BY <1>1, <1>2, Zenon
<1>. QED
  BY <1>3, Zenon DEF sanitize_component, Last

\* The directory and the name join_path puts together; a separator the
\* directory ends in is not doubled.
Joins(C, x, f) ==
  LET s == sanitize_component(x, TRUE)
  IN /\ s \in Seq(C) /\ (x = s \/ x = s \o <<Sep>>)
     /\ join_path(<<x, f>>) = IF s = <<>> THEN f ELSE s \o <<Sep>> \o f

LEMMA JoinsName ==
  ASSUME NEW C, Sep \in C, NEW x \in Seq(C), NEW f, IsName(C, f)
  PROVE  Joins(C, x, f)
<1> DEFINE s == sanitize_component(x, TRUE)
<1>1. s = IF x # <<>> /\ x[Len(x)] = Sep THEN SubSeq(x, 1, Len(x) - 1) ELSE x
  BY Zenon DEF sanitize_component, Last, Front
<1> HIDE DEF s
<1>2. s \in Seq(C) /\ (x = s \/ x = s \o <<Sep>>)
  <2>1. CASE x # <<>> /\ x[Len(x)] = Sep
    <3>1. Len(x) \in 1..Len(x)
      BY <2>1
    <3>2. Len(x) \in Nat /\ 1 \in 1..Len(x)
      BY <3>1
    <3>3. SubSeq(x, 1, Len(x)) = SubSeq(x, 1, Len(x) - 1) \o <<x[Len(x)]>>
      BY <3>1, <3>2, SubSeqRecursiveSecond
    <3>4. x = SubSeq(x, 1, Len(x) - 1) \o <<Sep>>
      BY <2>1, <3>3, SubSeqFull, Zenon
    <3>5. SubSeq(x, 1, Len(x) - 1) \in Seq(C)
      BY <3>1, <3>2
    <3>. QED
      BY <1>1, <2>1, <3>4, <3>5, Zenon
  <2>2. CASE ~(x # <<>> /\ x[Len(x)] = Sep)
    BY <1>1, <2>2, Zenon
  <2>. QED
    BY <2>1, <2>2, Zenon
<1>3. JoinOne(<<>>, x) = s
  <2>1. sanitize_component(x, <<>> = <<>>) = s
    <3>1. (<<>> = <<>>) = TRUE
      OBVIOUS
    <3>. QED
      BY <3>1, Zenon DEF s
  <2>. QED
    BY <2>1, Zenon DEF JoinOne
<1>4. JoinOne(s, f) = IF s = <<>> THEN f ELSE s \o <<Sep>> \o f
  <2>1. sanitize_component(f, s = <<>>) = f /\ f # <<>>
    <3>1. PICK b : b = (s = <<>>)
      OBVIOUS
    <3>2. sanitize_component(f, b) = f
      BY NameStays, Zenon
    <3>. QED
      BY <3>1, <3>2, Zenon DEF IsName
  <2>. QED
    BY <2>1, Zenon DEF JoinOne
<1>5. join_path(<<x, f>>) = IF s = <<>> THEN f ELSE s \o <<Sep>> \o f
  BY <1>3, <1>4, JoinTwo, Zenon
<1>. QED
  BY <1>2, <1>5, Zenon DEF Joins, s

\* A path that ends in a name: a directory, a separator and the name.
LEMMA TakenApart ==
  ASSUME NEW C, NEW p \in Seq(C), p # <<>>, Last(p) # Sep
  PROVE  /\ IsName(C, FileName(p)) /\ parent_dir(p) \in Seq(C)
         /\ IF LastOf(p, Sep) = 0 THEN parent_dir(p) = <<>> /\ p = FileName(p)
                                  ELSE p = parent_dir(p) \o <<Sep>> \o FileName(p)
<1>1. PICK L \in 0..Len(p) : L = LastOf(p, Sep)
  BY LastOfIs, Zenon
<1>2. (L # 0 => p[L] = Sep) /\ \A i \in (L + 1)..Len(p) : p[i] # Sep
  BY <1>1, LastOfIs, Zenon
<1>3. Len(p) \in Nat /\ Len(p) # 0
  OBVIOUS
<1>4. L # Len(p)
  BY <1>2, <1>3, Zenon DEF Last
<1>5. IsName(C, FileName(p))
  <2>1. IsPlain(C, FileName(p)) /\ Len(FileName(p)) = Len(p) - L
    BY <1>1, StemAndExtension, Zenon
  <2>2. Len(FileName(p)) # 0
    BY <1>1, <1>3, <1>4, <2>1
  <2>3. FileName(p) # <<>>
    BY <2>2
  <2>. QED
    BY <2>1, <2>3, Zenon DEF IsName, IsPlain
<1>6. parent_dir(p) = SubSeq(p, 1, L - 1) /\ FileName(p) = SubSeq(p, L + 1, Len(p))
  BY <1>1, Zenon DEF parent_dir, FileName, From
<1>7. CASE L = 0
  <2>1. SubSeq(p, 1, L - 1) = <<>> /\ L + 1 = 1 /\ <<>> \in Seq(C)
    BY <1>7
  <2>. QED
    BY <1>1, <1>5, <1>6, <1>7, <2>1, SubSeqFull, Zenon
<1>8. CASE L # 0
  <2>1. 1 \in 1..(Len(p) + 1) /\ L \in (1 - 1)..Len(p) /\ Len(p) \in L..Len(p) /\ 1 \in 1..Len(p) /\ L \in 1..Len(p)
    BY <1>3, <1>8
  <2>2. SubSeq(p, 1, L) \o SubSeq(p, L + 1, Len(p)) = SubSeq(p, 1, Len(p))
    BY <2>1, ConcatAdjacentSubSeq
  <2>3. SubSeq(p, 1, L) = SubSeq(p, 1, L - 1) \o <<p[L]>>
    BY <2>1, SubSeqRecursiveSecond
  <2>4. SubSeq(p, 1, L - 1) \in Seq(C)
    BY <1>3, <2>1
  <2>. QED
    BY <1>1, <1>2, <1>5, <1>6, <1>8, <2>2, <2>3, <2>4, SubSeqFull, Zenon
<1>. QED
  BY <1>7, <1>8, Zenon

\* The extension of a path that ends in .gz.
LEMMA ExtensionIs ==
  ASSUME NEW C, PathCharacters(C), NEW x \in Seq(C), NEW g, IsPlain(C, g), g # <<>>
  PROVE  file_extension(x \o (g \o <<Dot, "gz">>)) = <<"gz">>
<1>1. Dot \in C /\ "gz" \in C
  BY DEF PathCharacters
<1>2. PICK N \in Nat, M \in Nat : N = Len(x) /\ M = Len(g)
  BY SeqIsFunction, Zenon DEF IsPlain
<1>3. g \in Seq(C) /\ M # 0 /\ \A i \in 1..M : g[i] # Sep
  <2>1. g \in Seq(C)
    BY Zenon DEF IsPlain
  <2>2. M # 0
    BY <1>2, <2>1
  <2>. QED
    BY <1>2, <2>1, <2>2, Zenon DEF IsPlain
<1>4. PICK h : h = g \o <<Dot, "gz">>
  OBVIOUS
<1>5. h \in Seq(C) /\ Len(h) = M + 2 /\ h[M + 1] = Dot /\ h[M + 2] = "gz" /\ \A i \in 1..M : h[i] = g[i]
  BY <1>1, <1>2, <1>3, <1>4
<1>6. PICK a : a = x \o h
  OBVIOUS
<1>7. a \in Seq(C) /\ Len(a) = N + M + 2 /\ \A i \in 1..(M + 2) : a[N + i] = h[i]
  <2>1. /\ x \o h \in Seq(C) /\ Len(x \o h) = Len(x) + Len(h)
        /\ \A i \in 1..Len(h) : (x \o h)[Len(x) + i] = h[i]
    BY <1>5
  <2>2. N + (M + 2) = N + M + 2
    OBVIOUS
  <2>. QED
    BY <1>2, <1>5, <1>6, <2>1, <2>2, Zenon
<1>8. a[N + M + 1] = Dot /\ a[N + M + 2] = "gz"
  <2>1. /\ M + 1 \in 1..(M + 2) /\ M + 2 \in 1..(M + 2) /\ N + (M + 1) = N + M + 1
        /\ N + (M + 2) = N + M + 2
    OBVIOUS
  <2>2. a[N + (M + 1)] = Dot /\ a[N + (M + 2)] = "gz"
    BY <1>5, <1>7, <2>1, Zenon
  <2>. QED
    BY <2>1, <2>2, Zenon
<1>9. LastOf(a, Dot) = N + M + 1
  <2>1. N + M + 1 \in 1..Len(a)
    BY <1>7
  <2>2. \A i \in (N + M + 1 + 1)..Len(a) : i = N + M + 2
    BY <1>7
  <2>3. \A i \in (N + M + 1 + 1)..Len(a) : a[i] # Dot
    BY <1>8, <2>2, Distinct, Zenon
  <2>. QED
    BY <1>7, <1>8, <2>1, <2>3, LastOfAt, Zenon
<1>10. LastOf(a, Sep) <= N
  <2>1. PICK L \in 0..Len(a) : L = LastOf(a, Sep) /\ (L # 0 => a[L] = Sep)
    BY <1>7, LastOfIs, Zenon
  <2>2. ASSUME ~(L <= N) PROVE FALSE
    <3>1. L - N \in 1..(M + 2) /\ N + (L - N) = L /\ L # 0
      BY <1>7, <2>1, <2>2
    <3>2. a[L] = h[L - N]
      BY <1>7, <3>1, Zenon
    <3>3. L - N \in 1..M \/ L - N = M + 1 \/ L - N = M + 2
      BY <3>1
    <3>4. h[L - N] # Sep
      BY <1>3, <1>5, <3>3, Distinct, Zenon
    <3>. QED
      BY <2>1, <3>1, <3>2, <3>4, Zenon
  <2>. QED
    BY <2>1, <2>2, Zenon
<1>11. LastOf(a, Sep) \in Nat
  <2>1. LastOf(a, Sep) \in 0..Len(a)
    BY <1>7, LastOfIs, Zenon
  <2>. QED
    BY <2>1
<1>12. HasExtension(a)
  <2>1. N + M + 1 # 0 /\ N + M + 1 > LastOf(a, Sep) + 1
    BY <1>3, <1>10, <1>11
  <2>. QED
    BY <1>9, <2>1, Zenon DEF HasExtension
<1>13. file_extension(a) = SubSeq(a, N + M + 1 + 1, Len(a))
  BY <1>9, <1>12, Zenon DEF file_extension, From
<1>14. SubSeq(a, N + M + 1 + 1, Len(a)) = <<"gz">>
  <2>1. N + M + 1 + 1 = N + M + 2 /\ N + M + 2 \in 1..Len(a)
    BY <1>7
  <2>2. SubSeq(a, N + M + 2, N + M + 2) = <<a[N + M + 2]>>
    BY <1>7, <2>1, OneOf, Zenon
  <2>. QED
    BY <1>7, <1>8, <2>1, <2>2, Zenon
<1>. QED
  BY <1>4, <1>6, <1>13, <1>14, Zenon

LEMMA RootKept ==
  ASSUME NEW C, NEW x \in Seq(C), x # <<>>, NEW y \in Seq(C)
  PROVE  x \o y # <<>> /\ (Rooted(x \o y) <=> Rooted(x))
<1>1. Len(x) \in Nat /\ Len(y) \in Nat /\ Len(x) # 0
  OBVIOUS
<1>2. x \o y \in Seq(C) /\ Len(x \o y) = Len(x) + Len(y) /\ (x \o y)[1] = x[1]
  BY <1>1
<1>3. Len(x \o y) # 0
  BY <1>1, <1>2
<1>4. x \o y # <<>>
  BY <1>3
<1>. QED
  BY <1>2, <1>4, Zenon DEF Rooted

LEMMA NameNotRooted ==
  ASSUME NEW C, NEW f, IsName(C, f)
  PROVE  ~Rooted(f)
<1>1. f \in Seq(C) /\ f # <<>> /\ \A i \in 1..Len(f) : f[i] # Sep
  BY Zenon DEF IsName
<1>2. 1 \in 1..Len(f)
  BY <1>1
<1>. QED
  BY <1>1, <1>2, Zenon DEF Rooted

\* The last name behind the others.
LEMMA FrontOf ==
  ASSUME NEW D, NEW cs \in Seq(D), NEW f \in D
  PROVE  Front(Append(cs, f)) = cs
<1>1. PICK u : u = Append(cs, f)
  OBVIOUS
<1>2. Len(u) = Len(cs) + 1 /\ Len(cs) \in Nat
  BY <1>1
<1>3. Len(u) - 1 = Len(cs)
  BY <1>2
<1>4. SubSeq(u, 1, Len(cs)) = cs
  BY <1>1
<1>. QED
  BY <1>1, <1>3, <1>4, Zenon DEF Front

LEMMA SameLast ==
  ASSUME NEW D, NEW cs \in Seq(D), NEW f \in D, NEW g \in D, Append(cs, f) = Append(cs, g)
  PROVE  f = g
<1>1. Append(cs, f)[Len(cs) + 1] = f /\ Append(cs, g)[Len(cs) + 1] = g
  OBVIOUS
<1>. QED
  BY <1>1, Zenon

\* The directory join_path keeps is empty for a plain name only: a path
\* straight under the root names no file that NamesFile speaks of.
LEMMA DirectoryKept ==
  ASSUME NEW C, PathCharacters(C), NEW p \in Seq(C), NamesFile(p), LastOf(p, Sep) # 0
  PROVE  sanitize_component(parent_dir(p), TRUE) # <<>>
<1> DEFINE x == parent_dir(p)
           f == FileName(p)
           s == sanitize_component(x, TRUE)
<1>1. Sep \in C /\ p # <<>> /\ Last(p) # Sep
  BY DEF PathCharacters, NamesFile
<1>2. IsName(C, f) /\ x \in Seq(C) /\ p = x \o <<Sep>> \o f
  BY <1>1, TakenApart, Zenon
<1>3. x = s \/ x = s \o <<Sep>>
  <2>1. Joins(C, x, f)
    BY <1>1, <1>2, JoinsName, Zenon
  <2>. QED
    BY <2>1, Zenon DEF Joins
<1>4. Components(x) \in Seq(Seq(C)) /\ Components(p) = Append(Components(x), f)
  BY <1>1, <1>2, ComponentsMore, Zenon
<1>5. f \in Seq(C)
  BY <1>2, Zenon DEF IsName
<1> SUFFICES ASSUME s = <<>> PROVE FALSE
  BY Zenon
<1> HIDE DEF x, f, s
<1>6. x = <<>> \/ x = <<>> \o <<Sep>>
  BY <1>3, Zenon
<1>7. <<>> \in Seq(C) /\ <<Sep>> \in Seq(C) /\ <<Sep>> # <<>> /\ <<>> \o <<Sep>> = <<Sep>>
  BY <1>1
<1>8. Components(x) = <<>>
  BY <1>1, <1>6, <1>7, ComponentsSep, ComponentsNone, Zenon
<1>9. Len(Components(p)) = 1
  <2>1. PICK D : D = Seq(C)
    OBVIOUS
  <2>2. Components(x) \in Seq(D) /\ f \in D
    BY <1>4, <1>5, <2>1, Zenon
  <2>3. Len(Append(Components(x), f)) = Len(Components(x)) + 1
    BY <2>2
  <2>4. Len(<<>>) + 1 = 1
    OBVIOUS
  <2>. QED
    BY <1>4, <1>8, <2>3, <2>4, Zenon
<1>10. Rooted(p)
  <2>1. Rooted(<<Sep>>)
    <3>1. <<Sep>>[1] = Sep
      OBVIOUS
    <3>. QED
      BY <1>7, <3>1, Zenon DEF Rooted
  <2>2. CASE x = <<>>
    <3>1. p = <<Sep>> \o f
      BY <1>2, <1>7, <2>2, Zenon
    <3>. QED
      BY <1>5, <1>7, <2>1, <3>1, RootKept, Zenon
  <2>3. CASE x = <<Sep>>
    <3>1. <<Sep>> \o <<Sep>> # <<>> /\ Rooted(<<Sep>> \o <<Sep>>)
      BY <1>7, <2>1, RootKept, Zenon
    <3>2. <<Sep>> \o <<Sep>> \in Seq(C)
      BY <1>7
    <3>. QED
      BY <1>2, <1>5, <2>3, <3>1, <3>2, RootKept, Zenon
  <2>. QED
    BY <1>6, <1>7, <2>2, <2>3, Zenon
<1>. QED
  BY <1>9, <1>10, Zenon DEF NamesFile

LEMMA ArchiveBeside ==
  ASSUME NEW C, PathCharacters(C), NEW p \in Seq(C), NamesFile(p), NEW stamp, IsPlain(C, stamp),
         NEW d, IsPlain(C, d)
  PROVE  Beside(ArchivePath(p, stamp, d), p)
<1> DEFINE x == parent_dir(p)
           f == FileName(p)
           s == sanitize_component(x, TRUE)
           g == BeforeGz(p, stamp, d)
           name == ArchiveName(p, stamp, d)
           a == ArchivePath(p, stamp, d)
<1>1. Sep \in C /\ p # <<>> /\ Last(p) # Sep
  BY DEF PathCharacters, NamesFile
<1>2. IsName(C, f) /\ x \in Seq(C)
  BY <1>1, TakenApart, Zenon
<1>3. /\ IsPlain(C, g) /\ g # <<>> /\ IsName(C, name) /\ Len(f) < Len(name)
      /\ name = g \o <<Dot, "gz">>
  BY ArchiveNameIs, Zenon DEF ArchiveName
<1>4. /\ s \in Seq(C) /\ (x = s \/ x = s \o <<Sep>>)
      /\ a = IF s = <<>> THEN name ELSE s \o <<Sep>> \o name
  <2>1. a = join_path(<<x, name>>)
    BY ArchivePathIs, Zenon
  <2> HIDE DEF a, x, name
  <2>2. Joins(C, x, name)
    BY <1>1, <1>2, <1>3, JoinsName, Zenon
  <2>. QED
    BY <2>1, <2>2, Zenon DEF Joins
<1>5. f \in Seq(C) /\ name \in Seq(C)
  BY <1>2, <1>3, Zenon DEF IsName
<1>6. f # name
  <2>1. Len(f) \in Nat
    BY <1>5
  <2>2. Len(f) # Len(name)
    BY <1>3, <2>1
  <2>. QED
    BY <2>2, Zenon
<1>7. <<>> \in Seq(C) /\ <<Sep>> \in Seq(C) /\ Len(<<Sep>>) = 1
  BY <1>1
<1>8. CASE LastOf(p, Sep) = 0
  <2>1. x = <<>> /\ p = f
    BY <1>1, <1>8, TakenApart, Zenon
  <2>2. s = <<>>
    <3>1. s \o <<Sep>> # <<>>
      BY <1>4, <1>7, ConcatSimplifications, Zenon
    <3>. QED
      BY <1>4, <2>1, <3>1, Zenon
  <2>3. a = name
    BY <1>4, <2>2, Zenon
  <2>4. Rooted(a) = Rooted(p)
    <3>1. ~Rooted(name) /\ ~Rooted(f)
      BY <1>2, <1>3, NameNotRooted, Zenon
    <3>2. ~Rooted(a) /\ ~Rooted(p)
      BY <2>1, <2>3, <3>1, Zenon
    <3> HIDE DEF a
    <3>. QED
      BY <3>2 DEF Rooted
  <2>5. Components(a) = <<name>> /\ Components(p) = <<f>>
    BY <1>2, <1>3, <2>1, <2>3, ComponentsOne, Zenon
  <2>6. Front(Components(a)) = Front(Components(p)) /\ Components(a) # Components(p)
    <3>1. PICK D : D = Seq(C)
      OBVIOUS
    <3>2. f \in D /\ name \in D
      BY <1>5, <3>1, Zenon
    <3>3. <<name>> = Append(<<>>, name) /\ <<f>> = Append(<<>>, f) /\ <<>> \in Seq(D)
      OBVIOUS
    <3>4. Front(<<name>>) = <<>> /\ Front(<<f>>) = <<>>
      <4>1. Front(Append(<<>>, name)) = <<>>
        BY <3>2, <3>3, FrontOf, Zenon
      <4>2. Front(Append(<<>>, f)) = <<>>
        BY <3>2, <3>3, FrontOf, Zenon
      <4>. QED
        BY <3>3, <4>1, <4>2, Zenon
    <3>5. <<name>> = <<f>> => name = f
      BY <3>2, <3>3, SameLast, Zenon
    <3>. QED
      BY <1>6, <2>5, <3>4, <3>5, Zenon
  <2>7. file_extension(a) = <<"gz">>
    <3>1. file_extension(<<>> \o (g \o <<Dot, "gz">>)) = <<"gz">>
      BY <1>3, <1>7, ExtensionIs, Zenon
    <3>2. <<>> \o name = name
      BY <1>5, ConcatEmptySeq, Zenon
    <3>. QED
      BY <1>3, <2>3, <3>1, <3>2, Zenon
  <2> HIDE DEF a
  <2>. QED
    BY <2>4, <2>6, <2>7, Zenon DEF Beside, a
<1>9. CASE LastOf(p, Sep) # 0
  <2>1. p = x \o <<Sep>> \o f
    BY <1>1, <1>9, TakenApart, Zenon
  <2>2. s # <<>>
    BY <1>9, DirectoryKept, Zenon
  <2>3. a = s \o <<Sep>> \o name
    BY <1>4, <2>2, Zenon
  <2> HIDE DEF a, x, s, f, g, name
  <2>4. s \o <<Sep>> \in Seq(C) /\ s \o <<Sep>> # <<>> /\ (Rooted(s \o <<Sep>>) <=> Rooted(s))
    <3>1. s \o <<Sep>> \in Seq(C)
      BY <1>4, <1>7
    <3>. QED
      BY <1>4, <1>7, <2>2, <3>1, RootKept, Zenon
  <2>5. x # <<>> /\ (Rooted(x) <=> Rooted(s))
    BY <1>4, <2>2, <2>4, Zenon
  <2>6. Rooted(a) = Rooted(p)
    <3>1. Rooted(a) <=> Rooted(s)
      BY <1>5, <2>3, <2>4, RootKept, Zenon
    <3>2. x \o <<Sep>> \in Seq(C)
      BY <1>2, <1>7
    <3>3. x \o <<Sep>> # <<>> /\ (Rooted(x \o <<Sep>>) <=> Rooted(x))
      BY <1>2, <1>7, <2>5, RootKept, Zenon
    <3>4. Rooted(p) <=> Rooted(x)
      BY <1>5, <2>1, <3>2, <3>3, RootKept, Zenon
    <3>. QED
      BY <2>5, <3>1, <3>4 DEF Rooted
  <2>7. Components(s) = Components(x)
    BY <1>1, <1>4, ComponentsSep, Zenon
  <2>8. /\ Components(s) \in Seq(Seq(C)) /\ Components(a) = Append(Components(s), name)
        /\ Components(p) = Append(Components(s), f)
    BY <1>1, <1>2, <1>3, <1>4, <2>1, <2>3, <2>7, ComponentsMore, Zenon
  <2>9. Front(Components(a)) = Front(Components(p)) /\ Components(a) # Components(p)
    <3>1. PICK D : D = Seq(C)
      OBVIOUS
    <3>2. Components(s) \in Seq(D) /\ f \in D /\ name \in D
      BY <1>5, <2>8, <3>1, Zenon
    <3>3. Front(Components(a)) = Components(s) /\ Front(Components(p)) = Components(s)
      <4>1. Front(Append(Components(s), name)) = Components(s)
        BY <3>2, FrontOf, Zenon
      <4>2. Front(Append(Components(s), f)) = Components(s)
        BY <3>2, FrontOf, Zenon
      <4>. QED
        BY <2>8, <4>1, <4>2, Zenon
    <3>4. Components(a) = Components(p) => name = f
      BY <2>8, <3>2, SameLast, Zenon
    <3>. QED
      BY <1>6, <3>3, <3>4, Zenon
  <2>10. file_extension(a) = <<"gz">>
    BY <1>3, <2>3, <2>4, ExtensionIs, Zenon
  <2>. QED
    BY <2>6, <2>9, <2>10, Zenon DEF Beside, a
<1>. QED
  BY <1>8, <1>9, Zenon

\* The archives FileSink makes of a log stand in the log's directory, whatever
\* its path, under names that end in gz, are not the log's and differ where
\* the counter differs.
THEOREM ArchivesStandBeside ==
  ASSUME NEW C, PathCharacters(C), NEW p \in Seq(C), NamesFile(p), NEW stamp, IsPlain(C, stamp)
  PROVE  /\ \A d : IsPlain(C, d) => Beside(ArchivePath(p, stamp, d), p)
         /\ \A m, n : IsPlain(C, m) /\ IsPlain(C, n) /\ m # n =>
                        ArchivePath(p, stamp, m) # ArchivePath(p, stamp, n)
<1>1. ASSUME NEW m, IsPlain(C, m), NEW n, IsPlain(C, n),
             ArchivePath(p, stamp, m) = ArchivePath(p, stamp, n)
      PROVE  m = n
  <2> DEFINE x == parent_dir(p)
             s == sanitize_component(x, TRUE)
             a == ArchiveName(p, stamp, m)
             b == ArchiveName(p, stamp, n)
  <2>1. Sep \in C /\ x \in Seq(C)
    <3>1. Sep \in C /\ p # <<>> /\ Last(p) # Sep
      BY DEF PathCharacters, NamesFile
    <3>. QED
      BY <3>1, TakenApart, Zenon
  <2>2. IsName(C, a) /\ IsName(C, b)
    BY <1>1, ArchiveNameIs, Zenon
  <2>3. /\ s \in Seq(C) /\ join_path(<<x, a>>) = IF s = <<>> THEN a ELSE s \o <<Sep>> \o a
        /\ join_path(<<x, b>>) = IF s = <<>> THEN b ELSE s \o <<Sep>> \o b
    <3> HIDE DEF x, a, b
    <3>. QED
      <4>1. Joins(C, x, a) /\ Joins(C, x, b)
        BY <2>1, <2>2, JoinsName, Zenon
      <4>. QED
        BY <4>1, Zenon DEF Joins
  <2>4. join_path(<<x, a>>) = join_path(<<x, b>>)
    BY <1>1, ArchivePathIs, Zenon
  <2>5. a \in Seq(C) /\ b \in Seq(C)
    BY <2>2, Zenon DEF IsName
  <2>6. a = b
    <3> HIDE DEF a, b, s, x
    <3>1. s \o <<Sep>> \in Seq(C)
      BY <2>1, <2>3
    <3>2. s \o <<Sep>> \o a = s \o <<Sep>> \o b => a = b
      BY <2>5, <3>1, CancelLeft, Zenon
    <3>. QED
      BY <2>3, <2>4, <3>2, Zenon
  <2>. QED
    BY <1>1, <2>6, NamesDiffer, Zenon
<1>2. ASSUME NEW d, IsPlain(C, d) PROVE Beside(ArchivePath(p, stamp, d), p)
  BY <1>2, ArchiveBeside, Zenon
<1>. QED
  BY <1>1, <1>2, Zenon
-----------------------------------------------------------------------------
(* Brackets *)

LEMMA BracketKind ==
  ASSUME NEW c
  PROVE  Bracket(c) \in Int
BY DEF Bracket, BracketTable

\* The brackets byte k closes, where closes has those the bytes before close.
ClosedAt(s, M, closes, k) ==
  {j \in 1..(k - 1) :
     /\ Bracket(s[k]) < 0 /\ IsOpen(s, closes, j, k)
     /\ \A m \in (j + 1)..(k - 1) : ~IsOpen(s, closes, m, k)
     /\ \/ Bracket(s[k]) = -Bracket(s[j])
        \/ Cardinality(OpenBefore(s, closes, j)) >= M}

LEMMA SameOpen ==
  ASSUME NEW s, NEW k \in Nat, NEW g, NEW h, \A c \in 1..(k - 1) : g[c] = h[c],
         NEW m \in 1..k, NEW i \in 1..k
  PROVE  IsOpen(s, g, m, i) <=> IsOpen(s, h, m, i)
<1>1. \A c \in (m + 1)..(i - 1) : c \in 1..(k - 1)
  OBVIOUS
<1>. QED
  BY <1>1, Zenon DEF IsOpen

LEMMA SameClosed ==
  ASSUME NEW s, NEW M, NEW k \in Nat, NEW g, NEW h, \A c \in 1..(k - 1) : g[c] = h[c]
  PROVE  ClosedAt(s, M, g, k) = ClosedAt(s, M, h, k)
<1>1. \A m, i \in 1..k : IsOpen(s, g, m, i) <=> IsOpen(s, h, m, i)
  BY SameOpen, Zenon
<1>2. \A j \in 1..(k - 1) : j \in 1..k /\ k \in 1..k /\ \A m \in (j + 1)..(k - 1) : m \in 1..k
  OBVIOUS
<1>3. \A j \in 1..(k - 1) : \A m \in 1..(j - 1) : m \in 1..k
  OBVIOUS
<1>4. \A j \in 1..(k - 1) : OpenBefore(s, g, j) = OpenBefore(s, h, j)
  BY <1>1, <1>2, <1>3, Zenon DEF OpenBefore
<1>5. \A j \in 1..(k - 1) : /\ IsOpen(s, g, j, k) <=> IsOpen(s, h, j, k)
                            /\ \A m \in (j + 1)..(k - 1) : IsOpen(s, g, m, k) <=> IsOpen(s, h, m, k)
  BY <1>1, <1>2, Zenon
<1>. QED
  BY <1>4, <1>5, Zenon DEF ClosedAt

\* There are brackets each byte closes.
LEMMA ClosingExists ==
  ASSUME NEW N \in Nat, NEW s, NEW M
  PROVE  \E h : h = [k \in 1..N |-> ClosedAt(s, M, h, k)]
<1> DEFINE S == [1..N -> SUBSET Nat]
           Start == [k \in 1..N |-> {}]
           Round(h, n) == [k \in 1..N |-> IF k = n THEN ClosedAt(s, M, h, n) ELSE h[k]]
           f == [n \in 1..N |-> [h \in S |-> Round(h, n)]]
<1>1. Start \in S
  OBVIOUS
<1>2. ASSUME NEW n \in 1..N, NEW h \in S PROVE Round(h, n) \in S
  <2>1. ClosedAt(s, M, h, n) \in SUBSET Nat
    <3>1. 1..(n - 1) \in SUBSET Nat
      OBVIOUS
    <3>. QED
      BY <3>1, Zenon DEF ClosedAt
  <2>. QED
    BY <2>1, Zenon
<1>3. \A h : \A n, k \in 1..N : Round(h, n)[k] = IF k = n THEN ClosedAt(s, M, h, n) ELSE h[k]
  BY Zenon
<1> HIDE DEF S, Start, Round
<1>4. f \in [1..N -> [S -> S]]
  BY <1>2, Zenon
<1>5. \A n \in 1..N : \A h \in S : f[n][h] = Round(h, n)
  BY Zenon
<1> HIDE DEF f
<1>6. PICK g \in [0..N -> S] : \A n \in 1..N : g[n] = f[n][g[n - 1]]
  <2>1. \E g : IsLoop(g, S, Start, N, f)
    BY <1>1, <1>4, Iteration, Zenon
  <2>. QED
    BY <2>1, Zenon DEF IsLoop
<1>7. \A n \in 1..N : g[n] = Round(g[n - 1], n)
  <2>1. \A n \in 1..N : n - 1 \in 0..N
    OBVIOUS
  <2>. QED
    BY <1>5, <1>6, <2>1, Zenon
<1>8. \A n \in 0..N : \A c \in 1..n : g[n][c] = g[c][c]
  <2> DEFINE T == {n \in 0..N : \A c \in 1..n : g[n][c] = g[c][c]}
  <2>1. 0 \in T
    OBVIOUS
  <2>2. ASSUME NEW n \in 1..N, n - 1 \in T PROVE n \in T
    <3>1. n \in 0..N /\ \A c \in 1..n : c \in 1..N /\ (c = n \/ c \in 1..(n - 1))
      OBVIOUS
    <3>2. ASSUME NEW c \in 1..n, c # n PROVE g[n][c] = g[c][c]
      <4>1. g[n][c] = g[n - 1][c]
        <5>1. c \in 1..N /\ g[n] = Round(g[n - 1], n)
          BY <1>7, <3>1, Zenon
        <5>2. Round(g[n - 1], n)[c] = g[n - 1][c]
          BY <1>3, <3>2, <5>1, Zenon
        <5>. QED
          BY <5>1, <5>2, Zenon
      <4>. QED
        BY <2>2, <3>1, <3>2, <4>1, Zenon
    <3>. QED
      BY <3>1, <3>2, Zenon
  <2> HIDE DEF T
  <2>3. \A n \in 0..N : n \in T
    BY <2>1, <2>2, RoundInduction, Zenon
  <2>. QED
    BY <2>3, Zenon DEF T
<1> DEFINE G == [k \in 1..N |-> g[k][k]]
<1>9. ASSUME NEW k \in 1..N PROVE G[k] = ClosedAt(s, M, G, k)
  <2>1. k \in Nat /\ k - 1 \in 0..N /\ \A c \in 1..(k - 1) : c \in 1..N
    OBVIOUS
  <2>2. G[k] = ClosedAt(s, M, g[k - 1], k)
    <3>1. G[k] = g[k][k] /\ g[k] = Round(g[k - 1], k)
      BY <1>7, Zenon
    <3>2. Round(g[k - 1], k)[k] = ClosedAt(s, M, g[k - 1], k)
      BY <1>3, Zenon
    <3>. QED
      BY <3>1, <3>2, Zenon
  <2>3. \A c \in 1..(k - 1) : g[k - 1][c] = G[c]
    BY <1>8, <2>1, Zenon
  <2> HIDE DEF G
  <2>4. ClosedAt(s, M, g[k - 1], k) = ClosedAt(s, M, G, k)
    BY <2>1, <2>3, SameClosed, Zenon
  <2>. QED
    BY <2>2, <2>4, Zenon
<1>10. G = [k \in 1..N |-> G[k]]
  BY Zenon
<1> HIDE DEF G
<1>11. G = [k \in 1..N |-> ClosedAt(s, M, G, k)]
  BY <1>9, <1>10, Zenon
<1>. QED
  BY <1>11, Zenon

LEMMA ClosesIs ==
  ASSUME NEW N \in Nat, NEW s, Len(s) = N, NEW M
  PROVE  \A k \in 1..N : Closes(s, M)[k] = ClosedAt(s, M, Closes(s, M), k)
<1> DEFINE Body(h) == [k \in 1..N |-> ClosedAt(s, M, h, k)]
           P == CHOOSE h : h = Body(h)
<1>1. \E h : h = Body(h)
  BY ClosingExists, Zenon
<1>2. P = Body(P)
  BY <1>1, Zenon
<1>3. Closes(s, M) = P
  BY Zenon DEF Closes, ClosedAt
<1> HIDE DEF P
<1>4. \A k \in 1..N : P[k] = ClosedAt(s, M, P, k)
  BY <1>2, Zenon
<1>. QED
  BY <1>3, <1>4, Zenon

\* The brackets that are open after n bytes of s.
OpenAfter(s, P, n) == {j \in 1..n : IsOpen(s, P, j, n + 1)}

\* The innermost of them, where byte n closes it.
Popped(O, b, M, n) ==
  {j \in O[n - 1] : /\ \A m \in O[n - 1] : m <= j
                    /\ b[n] = -b[j] \/ Cardinality(O[j - 1]) >= M}

\* O has the brackets open after each byte, b the kinds of the bytes.
IsNest(O, b, N, M) ==
  /\ O \in [0..N -> SUBSET Nat] /\ O[0] = {}
  /\ \A n \in 1..N : /\ b[n] > 0 => O[n] = O[n - 1] \cup {n}
                     /\ b[n] = 0 => O[n] = O[n - 1]
                     /\ b[n] < 0 => O[n] = O[n - 1] \ Popped(O, b, M, n)

BracketKinds(s, N) == [n \in 1..N |-> Bracket(s[n])]

LEMMA OpenThen ==
  ASSUME NEW s, NEW P, NEW n \in Nat, n # 0
  PROVE  /\ \A j \in 1..(n - 1) : IsOpen(s, P, j, n + 1) <=> IsOpen(s, P, j, n) /\ j \notin P[n]
         /\ IsOpen(s, P, n, n + 1) <=> Bracket(s[n]) > 0
<1>1. ASSUME NEW j \in 1..(n - 1)
      PROVE  IsOpen(s, P, j, n + 1) <=> IsOpen(s, P, j, n) /\ j \notin P[n]
  <2>1. /\ \A c \in (j + 1)..((n + 1) - 1) : c = n \/ c \in (j + 1)..(n - 1)
        /\ n \in (j + 1)..((n + 1) - 1) /\ \A c \in (j + 1)..(n - 1) : c \in (j + 1)..((n + 1) - 1)
    OBVIOUS
  <2>. QED
    BY <2>1, Zenon DEF IsOpen
<1>2. (n + 1)..((n + 1) - 1) = {}
  OBVIOUS
<1>3. IsOpen(s, P, n, n + 1) <=> Bracket(s[n]) > 0
  BY <1>2, Zenon DEF IsOpen
<1>. QED
  BY <1>1, <1>3, Zenon

LEMMA NestExists ==
  ASSUME NEW N \in Nat, NEW s \in [1..N -> Nat], NEW M \in Nat
  PROVE  \E O : /\ IsNest(O, BracketKinds(s, N), N, M)
                /\ \A n \in 1..(N + 1) : OpenBefore(s, Closes(s, M), n) = O[n - 1]
<1>0. Len(s) = N /\ DOMAIN s = 1..N
  OBVIOUS
<1>1. PICK P : P = Closes(s, M)
  OBVIOUS
<1>2. \A k \in 1..N : P[k] = ClosedAt(s, M, P, k)
  <2>1. \A k \in 1..N : Closes(s, M)[k] = ClosedAt(s, M, Closes(s, M), k)
    BY <1>0, ClosesIs
  <2>. QED
    BY <1>1, <2>1, Zenon
<1> DEFINE b == BracketKinds(s, N)
           O == [n \in 0..N |-> OpenAfter(s, P, n)]
<1>3. \A n \in 1..N : b[n] = Bracket(s[n]) /\ b[n] \in Int
  BY BracketKind, Zenon DEF BracketKinds
<1>4. \A n \in 0..N : O[n] = OpenAfter(s, P, n)
  BY Zenon
<1>5. \A n \in 0..N : OpenAfter(s, P, n) \in SUBSET (1..n)
  BY Zenon DEF OpenAfter
<1>6. O \in [0..N -> SUBSET Nat] /\ O[0] = {}
  <2>1. \A n \in 0..N : 1..n \in SUBSET Nat
    OBVIOUS
  <2>2. 0 \in 0..N /\ 1..0 = {}
    OBVIOUS
  <2>. QED
    BY <1>5, <2>1, <2>2, Zenon
<1> HIDE DEF O, b
<1>7. ASSUME NEW n \in 0..N, NEW j \in 1..n PROVE j \in O[n] <=> IsOpen(s, P, j, n + 1)
  BY <1>4, <1>7, Zenon DEF OpenAfter
<1>8. ASSUME NEW n \in 1..N PROVE \A j \in 1..(n - 1) : j \in O[n - 1] <=> IsOpen(s, P, j, n)
  <2>1. n - 1 \in 0..N /\ (n - 1) + 1 = n
    OBVIOUS
  <2>2. \A j \in 1..(n - 1) : j \in O[n - 1] <=> IsOpen(s, P, j, (n - 1) + 1)
    BY <1>7, <2>1, Zenon
  <2>. QED
    BY <2>1, <2>2, Zenon
<1>9. \A n \in 0..N : O[n] \in SUBSET (1..n)
  BY <1>4, <1>5, Zenon
<1>10. ASSUME NEW n \in 1..N
       PROVE  /\ \A j \in 1..(n - 1) : j \in O[n] <=> j \in O[n - 1] /\ j \notin P[n]
              /\ n \in O[n] <=> b[n] > 0
              /\ O[n] \in SUBSET (1..n) /\ O[n - 1] \in SUBSET (1..(n - 1))
  <2>1. n \in Nat /\ n # 0 /\ n \in 0..N /\ n - 1 \in 0..N /\ n \in 1..n /\ \A j \in 1..(n - 1) : j \in 1..n
    OBVIOUS
  <2>2. \A j \in 1..(n - 1) : j \in O[n] <=> j \in O[n - 1] /\ j \notin P[n]
    BY <1>7, <1>8, <2>1, OpenThen, Zenon
  <2>3. n \in O[n] <=> b[n] > 0
    <3>1. n \in O[n] <=> IsOpen(s, P, n, n + 1)
      BY <1>7, <2>1, Zenon
    <3>2. IsOpen(s, P, n, n + 1) <=> Bracket(s[n]) > 0
      BY <2>1, OpenThen, Zenon
    <3>. QED
      BY <1>3, <3>1, <3>2, Zenon
  <2>. QED
    BY <1>9, <2>1, <2>2, <2>3, Zenon
<1>11. ASSUME NEW n \in 1..N, ~(b[n] < 0) PROVE P[n] = {}
  BY <1>2, <1>3, <1>11, Zenon DEF ClosedAt
<1>12. ASSUME NEW n \in 1..N, b[n] < 0 PROVE P[n] = Popped(O, b, M, n)
  <2>1. O[n - 1] \in SUBSET (1..(n - 1)) /\ \A j \in 1..(n - 1) : j \in O[n - 1] <=> IsOpen(s, P, j, n)
    BY <1>8, <1>10, Zenon
  <2>2. ASSUME NEW j \in 1..(n - 1)
        PROVE  (\A m \in (j + 1)..(n - 1) : ~IsOpen(s, P, m, n)) <=> \A m \in O[n - 1] : m <= j
    <3>1. \A m \in (j + 1)..(n - 1) : m \in 1..(n - 1) /\ ~(m <= j)
      OBVIOUS
    <3>2. \A m \in 1..(n - 1) : m <= j \/ m \in (j + 1)..(n - 1)
      OBVIOUS
    <3>. QED
      BY <2>1, <3>1, <3>2, Zenon
  <2>3. ASSUME NEW j \in 1..(n - 1)
        PROVE  OpenBefore(s, P, j) = O[j - 1]
    <3>1. j \in 1..N
      OBVIOUS
    <3>. QED
      BY <1>8, <1>10, <3>1, Zenon DEF OpenBefore
  <2>4. \A j \in 1..(n - 1) : b[j] = Bracket(s[j])
    <3>1. \A j \in 1..(n - 1) : j \in 1..N
      OBVIOUS
    <3>. QED
      BY <1>3, <3>1, Zenon
  <2>5. ASSUME NEW j \in P[n] PROVE j \in Popped(O, b, M, n)
    <3>1. /\ j \in 1..(n - 1) /\ IsOpen(s, P, j, n) /\ (\A m \in (j + 1)..(n - 1) : ~IsOpen(s, P, m, n))
          /\ \/ Bracket(s[n]) = -Bracket(s[j])
             \/ Cardinality(OpenBefore(s, P, j)) >= M
      BY <1>2, <2>5, Zenon DEF ClosedAt
    <3>. QED
      BY <1>3, <2>1, <2>2, <2>3, <2>4, <3>1, Zenon DEF Popped
  <2>6. ASSUME NEW j \in Popped(O, b, M, n) PROVE j \in P[n]
    <3>1. /\ j \in O[n - 1] /\ (\A m \in O[n - 1] : m <= j)
          /\ b[n] = -b[j] \/ Cardinality(O[j - 1]) >= M
      BY <2>6, Zenon DEF Popped
    <3>2. j \in 1..(n - 1)
      BY <2>1, <3>1, Zenon
    <3>3. j \in ClosedAt(s, M, P, n)
      BY <1>3, <1>12, <2>1, <2>2, <2>3, <2>4, <3>1, <3>2, Zenon DEF ClosedAt
    <3>. QED
      BY <1>2, <3>3, Zenon
  <2>. QED
    BY <2>5, <2>6, Zenon
<1>13. ASSUME NEW n \in 1..N
       PROVE  /\ b[n] > 0 => O[n] = O[n - 1] \cup {n}
              /\ b[n] = 0 => O[n] = O[n - 1]
              /\ b[n] < 0 => O[n] = O[n - 1] \ Popped(O, b, M, n)
  <2>1. \A j \in 1..n : j = n \/ j \in 1..(n - 1)
    OBVIOUS
  <2>2. \A j \in 1..(n - 1) : j \in 1..n
    OBVIOUS
  <2>3. /\ b[n] > 0 => ~(b[n] < 0)
        /\ b[n] = 0 => ~(b[n] < 0) /\ ~(b[n] > 0)
        /\ b[n] < 0 => ~(b[n] > 0)
    BY <1>3
  <2>4. b[n] > 0 => O[n] = O[n - 1] \cup {n}
    BY <1>10, <1>11, <2>1, <2>2, <2>3, Zenon
  <2>5. ASSUME b[n] = 0 PROVE O[n] = O[n - 1]
    <3>1. P[n] = {} /\ n \notin O[n]
      BY <1>10, <1>11, <2>3, <2>5, Zenon
    <3>2. \A j \in O[n] : j \in 1..(n - 1)
      BY <1>10, <2>1, <3>1, Zenon
    <3>. QED
      BY <1>10, <3>1, <3>2, Zenon
  <2>6. ASSUME b[n] < 0 PROVE O[n] = O[n - 1] \ Popped(O, b, M, n)
    <3>1. P[n] = Popped(O, b, M, n) /\ n \notin O[n]
      BY <1>10, <1>12, <2>3, <2>6, Zenon
    <3>2. \A j \in O[n] : j \in 1..(n - 1)
      BY <1>10, <2>1, <3>1, Zenon
    <3>3. O[n] = O[n - 1] \ P[n]
      BY <1>10, <3>2, Zenon
    <3>. QED
      BY <3>1, <3>3, Zenon
  <2>. QED
    BY <2>4, <2>5, <2>6, Zenon
<1>14. ASSUME NEW n \in 1..(N + 1) PROVE OpenBefore(s, P, n) = O[n - 1]
  <2>1. n - 1 \in 0..N /\ (n - 1) + 1 = n
    OBVIOUS
  <2>. QED
    BY <1>4, <2>1, Zenon DEF OpenAfter, OpenBefore
<1>15. IsNest(O, b, N, M)
  BY <1>6, <1>13, Zenon DEF IsNest
<1>. QED
  BY <1>1, <1>14, <1>15, Zenon DEF b

LEMMA GreatestNumber ==
  ASSUME NEW N \in Nat, NEW S, S \in SUBSET (0..N), S # {}
  PROVE  \E l \in S : \A i \in S : i <= l
<1> DEFINE R == {N - i : i \in S}
<1>1. R \in SUBSET Nat /\ R # {}
  <2>1. \A i \in 0..N : N - i \in Nat
    OBVIOUS
  <2>. QED
    BY <2>1, Zenon
<1>2. PICK r \in R : \A m \in R : r <= m
  <2> HIDE DEF R
  <2>. QED
    BY <1>1, LeastNumber, Zenon
<1>3. PICK l \in S : r = N - l
  BY <1>2
<1>4. ASSUME NEW i \in S PROVE i <= l
  <2>1. N - i \in R
    BY Zenon
  <2>2. r <= N - i
    BY <1>2, <2>1, Zenon
  <2>. QED
    BY <1>3, <2>2
<1>. QED
  BY <1>4, Zenon

\* The brackets open after n bytes, each inside of those before it.
NestedAt(O, b, n) ==
  O[n] \in SUBSET (1..n) /\ \A j \in O[n] : b[j] > 0 /\ {m \in O[n] : m < j} = O[j - 1]

LEMMA Nested ==
  ASSUME NEW N \in Nat, NEW M \in Nat, NEW b \in [1..N -> Int], NEW O, IsNest(O, b, N, M)
  PROVE  \A n \in 0..N : NestedAt(O, b, n)
<1> DEFINE T == {n \in 0..N : NestedAt(O, b, n)}
<1>1. 0 \in T
  <2>1. 0 \in 0..N /\ O[0] = {}
    BY DEF IsNest
  <2>. QED
    BY <2>1, Zenon DEF NestedAt
<1>2. ASSUME NEW n \in 1..N, n - 1 \in T PROVE n \in T
  <2>1. NestedAt(O, b, n - 1)
    BY <1>2, Zenon
  <2>2. /\ O[n - 1] \in SUBSET (1..(n - 1))
        /\ \A j \in O[n - 1] : b[j] > 0 /\ {m \in O[n - 1] : m < j} = O[j - 1]
    BY <2>1, Zenon DEF NestedAt
  <2>3. /\ n \in 0..N /\ n \in 1..n /\ (\A j \in 1..(n - 1) : j \in 1..n /\ j < n /\ ~(n < j) /\ j # n)
        /\ ~(n < n)
    OBVIOUS
  <2>4. /\ b[n] > 0 => O[n] = O[n - 1] \cup {n}
        /\ b[n] = 0 => O[n] = O[n - 1]
        /\ b[n] < 0 => O[n] = O[n - 1] \ Popped(O, b, M, n)
    BY Zenon DEF IsNest
  <2>5. CASE b[n] > 0
    <3>1. O[n] = O[n - 1] \cup {n}
      BY <2>4, <2>5, Zenon
    <3>2. O[n] \in SUBSET (1..n)
      BY <2>2, <2>3, <3>1, Zenon
    <3>3. {m \in O[n] : m < n} = O[n - 1]
      BY <2>2, <2>3, <3>1, Zenon
    <3>4. ASSUME NEW j \in O[n - 1] PROVE b[j] > 0 /\ {m \in O[n] : m < j} = O[j - 1]
      <4>1. ~(n < j)
        BY <2>2, <2>3, <3>4, Zenon
      <4>2. {m \in O[n] : m < j} = {m \in O[n - 1] : m < j}
        BY <3>1, <4>1, Zenon
      <4>. QED
        BY <2>2, <3>4, <4>2, Zenon
    <3>5. b[n] > 0 /\ {m \in O[n] : m < n} = O[n - 1]
      BY <2>5, <3>3, Zenon
    <3>6. \A j \in O[n] : b[j] > 0 /\ {m \in O[n] : m < j} = O[j - 1]
      BY <3>1, <3>4, <3>5, Zenon
    <3>. QED
      BY <2>3, <3>2, <3>6, Zenon DEF NestedAt
  <2>6. CASE b[n] = 0
    BY <2>2, <2>3, <2>4, <2>6, Zenon DEF NestedAt
  <2>7. CASE b[n] < 0
    <3>1. PICK Z : O[n] = O[n - 1] \ Z /\ \A z \in Z : \A m \in O[n - 1] : m <= z
      BY <2>4, <2>7, Zenon DEF Popped
    <3>2. O[n] \in SUBSET (1..n)
      BY <2>2, <2>3, <3>1, Zenon
    <3>3. ASSUME NEW j \in O[n] PROVE b[j] > 0 /\ {m \in O[n] : m < j} = O[j - 1]
      <4>1. j \in O[n - 1] /\ j \in 1..(n - 1)
        BY <2>2, <3>1, Zenon
      <4>2. ASSUME NEW m \in O[n - 1], m < j PROVE m \notin Z
        <5>1. m \in 1..(n - 1)
          BY <2>2, Zenon
        <5>2. ~(j <= m)
          BY <4>1, <4>2, <5>1
        <5>. QED
          BY <3>1, <4>1, <5>2, Zenon
      <4>3. {m \in O[n] : m < j} = {m \in O[n - 1] : m < j}
        BY <3>1, <4>2, Zenon
      <4>. QED
        BY <2>2, <4>1, <4>3, Zenon
    <3>. QED
      BY <2>3, <3>2, <3>3, Zenon DEF NestedAt
  <2>8. b[n] > 0 \/ b[n] = 0 \/ b[n] < 0
    OBVIOUS
  <2>. QED
    BY <2>5, <2>6, <2>7, <2>8, Zenon
<1> HIDE DEF T
<1>3. \A n \in 0..N : n \in T
  BY <1>1, <1>2, RoundInduction, Zenon
<1>. QED
  BY <1>3, Zenon DEF T

\* How many they are.
LEMMA Depths ==
  ASSUME NEW N \in Nat, NEW M \in Nat, NEW b \in [1..N -> Int], NEW O, IsNest(O, b, N, M),
         NEW n \in 0..N
  PROVE  IsFiniteSet(O[n]) /\ Cardinality(O[n]) \in Nat /\ Cardinality(O[n]) <= n
<1>1. O[n] \in SUBSET (1..n)
  <2>1. NestedAt(O, b, n)
    BY Nested, Zenon
  <2>. QED
    BY <2>1, Zenon DEF NestedAt
<1>2. 1 \in Int /\ n \in Int /\ (IF 1 > n THEN 0 ELSE n - 1 + 1) = n
  OBVIOUS
<1>3. IsFiniteSet(1..n) /\ Cardinality(1..n) = n
  <2>1. Cardinality(1..n) = IF 1 > n THEN 0 ELSE n - 1 + 1
    BY <1>2, FS_Interval, Zenon
  <2>. QED
    BY <1>2, <2>1, FS_Interval, Zenon
<1>4. IsFiniteSet(O[n]) /\ Cardinality(O[n]) <= n
  BY <1>1, <1>3, FS_Subset, Zenon
<1>. QED
  BY <1>4, FS_CardinalityType, Zenon

LEMMA DeeperInside ==
  ASSUME NEW N \in Nat, NEW M \in Nat, NEW b \in [1..N -> Int], NEW O, IsNest(O, b, N, M),
         NEW n \in 0..N, NEW j \in O[n]
  PROVE  j \in 1..n /\ j - 1 \in 0..N /\ Cardinality(O[j - 1]) < Cardinality(O[n])
<1>0. NestedAt(O, b, n)
  BY Nested, Zenon
<1>1. j \in 1..n /\ {m \in O[n] : m < j} = O[j - 1]
  BY <1>0, Zenon DEF NestedAt
<1>2. j - 1 \in 0..N /\ ~(j < j)
  BY <1>1
<1>3. O[j - 1] \in SUBSET O[n] /\ j \notin O[j - 1]
  BY <1>1, <1>2, Zenon
<1>4. O[j - 1] # O[n]
  BY <1>3, Zenon
<1>5. IsFiniteSet(O[n]) /\ Cardinality(O[n]) \in Nat /\ Cardinality(O[j - 1]) \in Nat
  BY <1>2, Depths, Zenon
<1>6. Cardinality(O[j - 1]) <= Cardinality(O[n]) /\ Cardinality(O[j - 1]) # Cardinality(O[n])
  BY <1>3, <1>4, <1>5, FS_Subset, Zenon
<1>7. Cardinality(O[j - 1]) < Cardinality(O[n])
  BY <1>5, <1>6
<1>. QED
  BY <1>1, <1>2, <1>7, Zenon

\* The innermost of the brackets open after n bytes.
Innermost(O, n, top) ==
  /\ top \in O[n] /\ (\A m \in O[n] : m <= top)
  /\ Cardinality(O[top - 1]) = Cardinality(O[n]) - 1

LEMMA InnermostExists ==
  ASSUME NEW N \in Nat, NEW M \in Nat, NEW b \in [1..N -> Int], NEW O, IsNest(O, b, N, M),
         NEW n \in 0..N, O[n] # {}
  PROVE  \E top : Innermost(O, n, top)
<1>0. NestedAt(O, b, n)
  BY Nested, Zenon
<1>1. O[n] \in SUBSET (1..n) /\ \A j \in O[n] : {m \in O[n] : m < j} = O[j - 1]
  BY <1>0, Zenon DEF NestedAt
<1>2. O[n] \in SUBSET (0..N)
  <2>1. \A i \in 1..n : i \in 0..N
    OBVIOUS
  <2>. QED
    BY <1>1, <2>1, Zenon
<1>3. PICK top \in O[n] : \A m \in O[n] : m <= top
  BY <1>2, GreatestNumber, Zenon
<1>4. top \in 1..n
  BY <1>1, Zenon
<1>5. top - 1 \in 0..N /\ \A m \in 1..n : m <= top => m < top \/ m = top
  BY <1>4
<1>6. O[n] = O[top - 1] \cup {top}
  BY <1>1, <1>3, <1>5, Zenon
<1>7. top \notin O[top - 1]
  <2>1. ~(top < top)
    BY <1>4
  <2>. QED
    BY <1>1, <2>1, Zenon
<1>8. IsFiniteSet(O[top - 1]) /\ Cardinality(O[top - 1]) \in Nat
  BY <1>5, Depths, Zenon
<1>9. Cardinality(O[n]) = Cardinality(O[top - 1]) + 1
  BY <1>6, <1>7, <1>8, FS_AddElement, Zenon
<1>10. Cardinality(O[top - 1]) = Cardinality(O[n]) - 1
  BY <1>8, <1>9
<1>. QED
  BY <1>3, <1>10, Zenon DEF Innermost

\* What a byte does to the brackets that are open.
Opened(O, n) == O[n] = O[n - 1] \cup {n} /\ Cardinality(O[n]) = Cardinality(O[n - 1]) + 1
Closed(O, b, M, n, top) ==
  IF b[n] = -b[top] \/ Cardinality(O[n - 1]) > M
  THEN O[n] = O[n - 1] \ {top} /\ Cardinality(O[n]) = Cardinality(O[n - 1]) - 1
  ELSE O[n] = O[n - 1]

LEMMA Opens ==
  ASSUME NEW N \in Nat, NEW M \in Nat, NEW b \in [1..N -> Int], NEW O, IsNest(O, b, N, M),
         NEW n \in 1..N, b[n] > 0
  PROVE  Opened(O, n)
<1>1. O[n] = O[n - 1] \cup {n}
  BY Zenon DEF IsNest
<1>2. n - 1 \in 0..N /\ n \notin 1..(n - 1)
  OBVIOUS
<1>3. n \notin O[n - 1]
  BY <1>2, Nested, Zenon DEF NestedAt
<1>4. IsFiniteSet(O[n - 1])
  BY <1>2, Depths, Zenon
<1>. QED
  BY <1>1, <1>3, <1>4, FS_AddElement, Zenon DEF Opened

LEMMA ClosesOne ==
  ASSUME NEW N \in Nat, NEW M \in Nat, NEW b \in [1..N -> Int], NEW O, IsNest(O, b, N, M),
         NEW n \in 1..N, b[n] < 0, NEW top, Innermost(O, n - 1, top)
  PROVE  Closed(O, b, M, n, top)
<1>1. O[n] = O[n - 1] \ Popped(O, b, M, n)
  BY Zenon DEF IsNest
<1>2. n - 1 \in 0..N
  OBVIOUS
<1>3. IsFiniteSet(O[n - 1]) /\ Cardinality(O[n - 1]) \in Nat /\ O[n - 1] \in SUBSET (1..(n - 1))
  BY <1>2, Depths, Nested, Zenon DEF NestedAt
<1>4. /\ top \in O[n - 1] /\ (\A m \in O[n - 1] : m <= top)
      /\ Cardinality(O[top - 1]) = Cardinality(O[n - 1]) - 1
  BY Zenon DEF Innermost
<1>5. Cardinality(O[top - 1]) >= M <=> Cardinality(O[n - 1]) > M
  <2>1. PICK d \in Nat : d = Cardinality(O[n - 1])
    BY <1>3, Zenon
  <2>2. d - 1 >= M <=> d > M
    OBVIOUS
  <2>. QED
    BY <1>4, <2>1, <2>2, Zenon
<1>6. ASSUME NEW j \in O[n - 1], \A m \in O[n - 1] : m <= j PROVE j = top
  <2>1. j <= top /\ top <= j /\ j \in 1..(n - 1) /\ top \in 1..(n - 1)
    BY <1>3, <1>4, <1>6, Zenon
  <2>. QED
    BY <2>1
<1>7. Popped(O, b, M, n) = IF b[n] = -b[top] \/ Cardinality(O[n - 1]) > M THEN {top} ELSE {}
  <2>1. ASSUME NEW j \in Popped(O, b, M, n)
        PROVE  j = top /\ (b[n] = -b[top] \/ Cardinality(O[n - 1]) > M)
    BY <1>5, <1>6, <2>1, Zenon DEF Popped
  <2>2. b[n] = -b[top] \/ Cardinality(O[n - 1]) > M => top \in Popped(O, b, M, n)
    BY <1>4, <1>5, Zenon DEF Popped
  <2>. QED
    BY <2>1, <2>2, Zenon
<1>8. Cardinality(O[n - 1] \ {top}) = Cardinality(O[n - 1]) - 1
  BY <1>3, <1>4, FS_RemoveElement, Zenon
<1>9. O[n - 1] \ {} = O[n - 1]
  BY Zenon
<1>. QED
  BY <1>1, <1>7, <1>8, <1>9, Zenon DEF Closed

\* The states of the loop: below the nesting limit, every open bracket is stored.
Scan == [depth : Nat, stack : Seq(Int), out : Seq(Nat), overrun : BOOLEAN]
Scans(M) == {st \in Scan : Len(st.stack) >= st.depth \/ Len(st.stack) >= M}

\* What a byte does to the loop's state.
ScanOpened(st, t, c, M) ==
  /\ t \in Scans(M) /\ t.depth = st.depth + 1 /\ t.out = st.out /\ t.overrun = FALSE
  /\ st.depth >= M => t.stack = st.stack
  /\ st.depth < M => t.stack[st.depth + 1] = Bracket(c) /\ \A k \in 1..st.depth : t.stack[k] = st.stack[k]
ScanClosed(st, t, c, M) ==
  /\ t \in Scans(M) /\ t.out = st.out /\ t.stack = st.stack /\ t.overrun = FALSE
  /\ t.depth = IF st.depth > 0 /\ (st.depth > M \/ st.stack[st.depth] = -Bracket(c))
               THEN st.depth - 1 ELSE st.depth
ScanPassed(st, t, c, M) ==
  /\ t \in Scans(M) /\ t.depth = st.depth /\ t.stack = st.stack /\ t.overrun = FALSE
  /\ t.out = IF st.depth = 0 THEN Append(st.out, c) ELSE st.out

LEMMA ScanStops ==
  ASSUME NEW M \in Nat, NEW slots, NEW c, NEW st \in Scans(M),
         st.overrun = TRUE \/ (Bracket(c) > 0 /\ st.depth \in slots..(M - 1))
  PROVE  StepOn(st, c, slots, M) \in Scans(M) /\ StepOn(st, c, slots, M).overrun = TRUE
<1> DEFINE t == [st EXCEPT !.overrun = TRUE]
<1>1. StepOn(st, c, slots, M) = t
  BY DEF StepOn
<1>2. t \in Scan /\ t.overrun = TRUE /\ t.stack = st.stack /\ t.depth = st.depth
  BY DEF Scans, Scan
<1>3. Len(st.stack) >= st.depth \/ Len(st.stack) >= M
  BY Zenon DEF Scans
<1> HIDE DEF t
<1>4. t \in Scans(M)
  BY <1>2, <1>3 DEF Scans
<1>. QED
  BY <1>1, <1>2, <1>4, Zenon

LEMMA ScanOpens ==
  ASSUME NEW M \in Nat, NEW slots \in Nat, NEW c, Bracket(c) > 0, NEW st \in Scans(M),
         slots <= M, st.overrun = FALSE, ~(st.depth \in slots..(M - 1))
  PROVE  ScanOpened(st, StepOn(st, c, slots, M), c, M)
<1>1. PICK b \in Int : b = Bracket(c)
  BY BracketKind, Zenon
<1>2. st.depth \in Nat /\ st.stack \in Seq(Int) /\ (Len(st.stack) >= st.depth \/ Len(st.stack) >= M)
  BY DEF Scans, Scan
<1>3. PICK q : q = IF st.depth < slots THEN SubSeq(st.stack, 1, st.depth) \o <<b>> ELSE st.stack
  OBVIOUS
<1>4. PICK w : w = st.stack
  OBVIOUS
<1>5. PICK d \in Nat : d = st.depth
  BY <1>2, Zenon
<1>6. d < slots <=> d < M
  BY <1>5
<1>7. ASSUME d < M
      PROVE  /\ q \in Seq(Int) /\ Len(q) = d + 1 /\ q[d + 1] = b
             /\ \A k \in 1..d : q[k] = w[k]
  <2>1. w \in Seq(Int) /\ Len(w) >= d
    BY <1>2, <1>4, <1>5, <1>7
  <2>2. PICK z : z = SubSeq(w, 1, d)
    OBVIOUS
  <2>3. z \in Seq(Int) /\ Len(z) = d /\ \A k \in 1..d : z[k] = w[k]
    BY <2>1, <2>2
  <2>4. q = z \o <<b>>
    BY <1>3, <1>4, <1>5, <1>6, <1>7, <2>2, Zenon
  <2>5. /\ z \o <<b>> \in Seq(Int) /\ Len(z \o <<b>>) = d + 1 /\ (z \o <<b>>)[d + 1] = b
        /\ \A k \in 1..d : (z \o <<b>>)[k] = z[k]
    BY <2>3
  <2>. QED
    BY <2>3, <2>4, <2>5, Zenon
<1>8. ASSUME ~(d < M) PROVE q = w /\ Len(q) >= M
  <2>1. q = w
    BY <1>3, <1>4, <1>5, <1>6, <1>8, Zenon
  <2>. QED
    BY <1>2, <1>4, <1>5, <1>8, <2>1
<1>9. q \in Seq(Int)
  BY <1>2, <1>4, <1>7, <1>8, Zenon
<1> DEFINE t == [st EXCEPT !.depth = @ + 1, !.stack = q]
<1>10. StepOn(st, c, slots, M) = t
  BY <1>1, <1>3 DEF StepOn
<1>11. t \in Scan /\ t.depth = d + 1 /\ t.stack = q /\ t.out = st.out /\ t.overrun = FALSE
  <2>1. st \in Scan
    BY Zenon DEF Scans
  <2>2. st.depth + 1 \in Nat /\ st.depth + 1 = d + 1
    BY <1>5
  <2>3. t \in Scan
    BY <1>9, <2>1, <2>2 DEF Scan
  <2>4. t.depth = st.depth + 1 /\ t.stack = q /\ t.out = st.out /\ t.overrun = st.overrun
    BY <2>1 DEF Scan
  <2>. QED
    BY <2>2, <2>3, <2>4, Zenon
<1> HIDE DEF t
<1>12. t \in Scans(M)
  <2>1. Len(t.stack) >= t.depth \/ Len(t.stack) >= M
    BY <1>7, <1>8, <1>11
  <2>. QED
    BY <1>11, <2>1, Zenon DEF Scans
<1>13. d >= M <=> ~(d < M)
  OBVIOUS
<1>. QED
  BY <1>1, <1>4, <1>5, <1>7, <1>8, <1>10, <1>11, <1>12, <1>13, Zenon DEF ScanOpened

LEMMA ScanCloses ==
  ASSUME NEW M \in Nat, NEW slots, NEW c, Bracket(c) < 0, NEW st \in Scans(M), st.overrun = FALSE
  PROVE  ScanClosed(st, StepOn(st, c, slots, M), c, M)
<1>1. PICK b \in Int : b = Bracket(c)
  BY BracketKind, Zenon
<1>2. /\ st.depth \in Nat /\ (Len(st.stack) >= st.depth \/ Len(st.stack) >= M)
      /\ st \in Scan
  BY DEF Scans, Scan
<1> DEFINE u == [st EXCEPT !.depth = @ - 1]
           closes == st.depth > 0 /\ (st.depth > M \/ st.stack[st.depth] = -b)
<1>3. StepOn(st, c, slots, M) = IF closes THEN u ELSE st
  <2>1. ~(b > 0) /\ b # 0 /\ b < 0
    BY <1>1
  <2>. QED
    BY <1>1, <2>1 DEF StepOn, Matches
<1>4. ASSUME st.depth > 0
      PROVE  /\ u \in Scans(M) /\ u.depth = st.depth - 1 /\ u.stack = st.stack
             /\ u.out = st.out /\ u.overrun = FALSE
  <2>1. st.depth - 1 \in Nat
    BY <1>2, <1>4
  <2>2. u \in Scan
    BY <1>2, <2>1 DEF Scan
  <2>3. u.depth = st.depth - 1 /\ u.stack = st.stack /\ u.out = st.out /\ u.overrun = st.overrun
    BY <1>2 DEF Scan
  <2> HIDE DEF u
  <2>4. Len(u.stack) >= u.depth \/ Len(u.stack) >= M
    BY <1>2, <2>3
  <2>. QED
    BY <2>2, <2>3, <2>4, Zenon DEF Scans
<1> HIDE DEF u
<1>5. CASE closes
  BY <1>1, <1>3, <1>4, <1>5, Zenon DEF ScanClosed
<1>6. CASE ~closes
  BY <1>1, <1>3, <1>6, Zenon DEF ScanClosed
<1>. QED
  BY <1>5, <1>6, Zenon

LEMMA ScanPlain ==
  ASSUME NEW M \in Nat, NEW slots, NEW c \in Nat, Bracket(c) = 0, NEW st \in Scans(M), st.overrun = FALSE
  PROVE  ScanPassed(st, StepOn(st, c, slots, M), c, M)
<1>1. /\ st.depth \in Nat /\ st.out \in Seq(Nat) /\ st \in Scan
      /\ (Len(st.stack) >= st.depth \/ Len(st.stack) >= M)
  BY DEF Scans, Scan
<1>2. CASE st.depth # 0
  <2>1. StepOn(st, c, slots, M) = st
    BY <1>2 DEF StepOn
  <2>. QED
    BY <1>2, <2>1, Zenon DEF ScanPassed
<1>3. CASE st.depth = 0
  <2>1. PICK q : q = Append(st.out, c)
    OBVIOUS
  <2>2. q \in Seq(Nat)
    BY <1>1, <2>1
  <2> DEFINE t == [st EXCEPT !.out = q]
  <2>3. StepOn(st, c, slots, M) = t
    BY <1>3, <2>1 DEF StepOn
  <2>4. t \in Scan /\ t.depth = st.depth /\ t.stack = st.stack /\ t.out = q /\ t.overrun = st.overrun
    BY <1>1, <2>2 DEF Scan
  <2> HIDE DEF t
  <2>5. t \in Scans(M)
    <3>1. Len(t.stack) >= t.depth \/ Len(t.stack) >= M
      BY <1>1, <2>4
    <3>. QED
      BY <2>4, <3>1, Zenon DEF Scans
  <2>. QED
    BY <1>3, <2>1, <2>3, <2>4, <2>5, Zenon DEF ScanPassed
<1>. QED
  BY <1>2, <1>3, Zenon

LEMMA KeepOneMore ==
  ASSUME NEW s, NEW P, P \in SUBSET Nat, IsFiniteSet(P), NEW x \in Nat, \A i \in P : i < x
  PROVE  Keeping(s, P \cup {x}) = Append(Keeping(s, P), s[x])
<1>1. PICK K \in Nat : K = Cardinality(P)
  BY FS_CardinalityType, Zenon
<1>2. PICK w : w = Ascending(P)
  OBVIOUS
<1>3. w \in [1..K -> P]
  <2>1. IsAscending(w, P, K)
    BY <1>1, <1>2, AscendingIs, Zenon
  <2>. QED
    BY <2>1, Zenon DEF IsAscending
<1>4. w \in Seq(P) /\ Len(w) = K
  BY <1>3
<1>5. PICK v : v = Append(w, x)
  OBVIOUS
<1>6. Ascending(P \cup {x}) = v
  BY <1>2, <1>5, AscendingMore, Zenon
<1>7. DOMAIN v = 1..(K + 1) /\ v[K + 1] = x /\ \A k \in 1..K : v[k] = w[k]
  BY <1>4, <1>5
<1> DEFINE a == [k \in 1..K |-> s[w[k]]]
           c == [k \in 1..(K + 1) |-> s[v[k]]]
<1>8. Keeping(s, P) = a
  BY <1>2, <1>3, Zenon DEF Keeping
<1>9. Keeping(s, P \cup {x}) = c
  BY <1>6, <1>7, Zenon DEF Keeping
<1>10. c = Append(a, s[x])
  <2>1. PICK z : z = s[x]
    OBVIOUS
  <2>2. \A k \in 1..K : a[k] = s[w[k]]
    BY Zenon
  <2>3. c[K + 1] = z /\ \A k \in 1..K : c[k] = a[k]
    <3>1. K + 1 \in 1..(K + 1) /\ \A k \in 1..K : k \in 1..(K + 1)
      OBVIOUS
    <3>. QED
      BY <1>7, <2>1, <3>1, Zenon
  <2>4. PICK D : z \in D /\ \A k \in 1..K : a[k] \in D
    <3>1. \A k \in 1..K : a[k] \in {a[i] : i \in 1..K} \cup {z}
      BY Zenon
    <3>. QED
      BY <3>1, Zenon
  <2>5. \A k \in 1..(K + 1) : k = K + 1 \/ k \in 1..K
    OBVIOUS
  <2>6. a \in [1..K -> D]
    BY <2>4, Zenon
  <2>7. c = [k \in 1..(K + 1) |-> c[k]]
    BY Zenon
  <2> HIDE DEF a, c
  <2>8. a \in Seq(D) /\ Len(a) = K
    BY <2>6
  <2>9. Append(a, z) \in [1..(K + 1) -> D] /\ Append(a, z)[K + 1] = z /\ \A k \in 1..K : Append(a, z)[k] = a[k]
    <3>1. /\ Append(a, z) \in [1..(Len(a) + 1) -> D] /\ Append(a, z)[Len(a) + 1] = z
          /\ \A n \in 1..Len(a) : Append(a, z)[n] = a[n]
      BY <2>4, <2>8, AppendOne
    <3>. QED
      BY <2>8, <3>1, Zenon
  <2>10. PICK e : e = Append(a, z)
    OBVIOUS
  <2>11. e \in [1..(K + 1) -> D] /\ \A k \in 1..(K + 1) : c[k] = e[k]
    BY <2>3, <2>5, <2>9, <2>10, Zenon
  <2>12. c = e
    BY <2>7, <2>11, Zenon
  <2>. QED
    BY <2>1, <2>10, <2>12, Zenon
<1>. QED
  BY <1>8, <1>9, <1>10, Zenon

Emptied(O, n) == O[n] = {} <=> Cardinality(O[n]) = 0

LEMMA NoneOpen ==
  ASSUME NEW N \in Nat, NEW M \in Nat, NEW b \in [1..N -> Int], NEW O, IsNest(O, b, N, M),
         NEW n \in 0..N
  PROVE  Emptied(O, n)
<1>1. IsFiniteSet(O[n])
  BY Depths, Zenon
<1>. QED
  BY <1>1, FS_EmptySet, Zenon DEF Emptied

\* A byte closes one bracket at most.
LEMMA DepthNear ==
  ASSUME NEW N \in Nat, NEW M \in Nat, NEW b \in [1..N -> Int], NEW O, IsNest(O, b, N, M),
         NEW n \in 1..N
  PROVE  Cardinality(O[n]) >= Cardinality(O[n - 1]) - 1
<1>1. n \in 0..N /\ n - 1 \in 0..N
  OBVIOUS
<1>2. Cardinality(O[n]) \in Nat /\ Cardinality(O[n - 1]) \in Nat
  BY <1>1, Depths, Zenon
<1>3. CASE O[n] = O[n - 1]
  BY <1>2, <1>3
<1>4. CASE b[n] > 0
  <2>1. Cardinality(O[n]) = Cardinality(O[n - 1]) + 1
    <3>1. Opened(O, n)
      BY <1>4, Opens, Zenon
    <3>. QED
      BY <3>1, Zenon DEF Opened
  <2>. QED
    BY <1>2, <2>1
<1>5. CASE b[n] < 0
  <2>1. CASE O[n - 1] = {}
    <3>1. Cardinality(O[n - 1]) = 0
      BY <1>1, <2>1, NoneOpen, Zenon DEF Emptied
    <3>. QED
      BY <1>2, <3>1
  <2>2. CASE O[n - 1] # {}
    <3>1. PICK top : Innermost(O, n - 1, top)
      BY <1>1, <2>2, InnermostExists, Zenon
    <3>2. O[n] = O[n - 1] \/ Cardinality(O[n]) = Cardinality(O[n - 1]) - 1
      <4>1. Closed(O, b, M, n, top)
        BY <1>5, <3>1, ClosesOne, Zenon
      <4>. QED
        BY <4>1, Zenon DEF Closed
    <3>. QED
      BY <1>2, <3>2
  <2>. QED
    BY <2>1, <2>2, Zenon
<1>6. CASE b[n] = 0
  <2>1. O[n] = O[n - 1]
    BY <1>6, Zenon DEF IsNest
  <2>. QED
    BY <1>3, <2>1, Zenon
<1>7. b[n] > 0 \/ b[n] < 0 \/ b[n] = 0
  OBVIOUS
<1>. QED
  BY <1>4, <1>5, <1>6, <1>7, Zenon

\* The bytes among the first n that are kept.
Kept(O, b, n) == {i \in 1..n : b[i] = 0 /\ O[i - 1] = {}}

LEMMA KeptNext ==
  ASSUME NEW n \in Nat, n # 0, NEW O, NEW b
  PROVE  Kept(O, b, n) = IF b[n] = 0 /\ O[n - 1] = {} THEN Kept(O, b, n - 1) \cup {n} ELSE Kept(O, b, n - 1)
<1>1. /\ n \in 1..n /\ \A i \in 1..n : i = n \/ i \in 1..(n - 1)
      /\ \A i \in 1..(n - 1) : i \in 1..n /\ i # n
  OBVIOUS
<1>2. CASE b[n] = 0 /\ O[n - 1] = {}
  BY <1>1, <1>2, Zenon DEF Kept
<1>3. CASE ~(b[n] = 0 /\ O[n - 1] = {})
  BY <1>1, <1>3, Zenon DEF Kept
<1>. QED
  BY <1>2, <1>3, Zenon

KeepsByte(s, O, b, n) == Keeping(s, Kept(O, b, n)) = Append(Keeping(s, Kept(O, b, n - 1)), s[n])

LEMMA KeepsPlain ==
  ASSUME NEW s, NEW O, NEW b, NEW n \in Nat, n # 0, b[n] = 0, O[n - 1] = {}
  PROVE  KeepsByte(s, O, b, n)
<1> DEFINE P == Kept(O, b, n - 1)
<1>1. P \in SUBSET (1..(n - 1))
  BY Zenon DEF Kept
<1> HIDE DEF P
<1>2. 1..(n - 1) \in SUBSET Nat /\ (\A i \in 1..(n - 1) : i < n) /\ n - 1 \in Int /\ 1 \in Int
  OBVIOUS
<1>3. IsFiniteSet(1..(n - 1))
  BY <1>2, FS_Interval, Zenon
<1>4. P \in SUBSET Nat /\ IsFiniteSet(P) /\ \A i \in P : i < n
  BY <1>1, <1>2, <1>3, FS_Subset, Zenon
<1>5. Keeping(s, P \cup {n}) = Append(Keeping(s, P), s[n])
  BY <1>4, KeepOneMore, Zenon
<1>6. Kept(O, b, n) = P \cup {n}
  BY KeptNext, Zenon DEF P
<1>. QED
  BY <1>5, <1>6, Zenon DEF P, KeepsByte

\* The stack has the open brackets, as far down as it stores them.
Sound(st, O, b, M, n) ==
  /\ st.depth = Cardinality(O[n])
  /\ \A j \in O[n] : Cardinality(O[j - 1]) < M => st.stack[Cardinality(O[j - 1]) + 1] = b[j]

\* Byte n, or one of the first n, is a bracket that is stored past the last slot.
PastEnd(O, b, slots, M, n) == b[n] > 0 /\ Cardinality(O[n - 1]) \in slots..(M - 1)
Exceeds(O, b, slots, M, n) == \E i \in 1..n : PastEnd(O, b, slots, M, i)

\* What a step without such a bracket leaves.
Fits(t, res, O, b, M, n) ==
  t \in Scans(M) /\ t.overrun = FALSE /\ t.out = res /\ Sound(t, O, b, M, n)

Scanned(st, s, O, b, slots, M, n) ==
  /\ st \in Scans(M) /\ (st.overrun = TRUE <=> Exceeds(O, b, slots, M, n))
  /\ st.overrun = FALSE => st.out = Keeping(s, Kept(O, b, n)) /\ Sound(st, O, b, M, n)

LEMMA ExceedsNext ==
  ASSUME NEW n \in Nat, n # 0, NEW O, NEW b, NEW slots, NEW M
  PROVE  Exceeds(O, b, slots, M, n) <=> Exceeds(O, b, slots, M, n - 1) \/ PastEnd(O, b, slots, M, n)
<1>1. n \in 1..n /\ (\A i \in 1..n : i = n \/ i \in 1..(n - 1)) /\ \A i \in 1..(n - 1) : i \in 1..n
  OBVIOUS
<1>. QED
  BY <1>1, Zenon DEF Exceeds

LEMMA SoundOpens ==
  ASSUME NEW N \in Nat, NEW M \in Nat, NEW s \in [1..N -> Nat], NEW b, b = BracketKinds(s, N),
         NEW O, IsNest(O, b, N, M), NEW slots \in Nat, slots <= M, NEW n \in 1..N, b[n] > 0,
         NEW st \in Scans(M), st.overrun = FALSE, Sound(st, O, b, M, n - 1),
         ~PastEnd(O, b, slots, M, n)
  PROVE  Fits(StepOn(st, s[n], slots, M), st.out, O, b, M, n)
<1> DEFINE t == StepOn(st, s[n], slots, M)
<1>1. b \in [1..N -> Int] /\ b[n] = Bracket(s[n])
  BY BracketKind, Zenon DEF BracketKinds
<1>2. n - 1 \in 0..N
  OBVIOUS
<1>3. PICK d \in Nat : d = Cardinality(O[n - 1])
  BY <1>1, <1>2, Depths, Zenon
<1>4. st.depth = d /\ \A j \in O[n - 1] : Cardinality(O[j - 1]) < M => st.stack[Cardinality(O[j - 1]) + 1] = b[j]
  BY <1>3, Zenon DEF Sound
<1>5. O[n] = O[n - 1] \cup {n} /\ Cardinality(O[n]) = d + 1
  <2>1. Opened(O, n)
    BY <1>1, Opens, Zenon
  <2>. QED
    BY <1>3, <2>1, Zenon DEF Opened
<1>6. /\ t \in Scans(M) /\ t.depth = d + 1 /\ t.out = st.out /\ t.overrun = FALSE
      /\ d >= M => t.stack = st.stack
      /\ d < M => t.stack[d + 1] = b[n] /\ \A k \in 1..d : t.stack[k] = st.stack[k]
  <2>1. Bracket(s[n]) > 0
    BY <1>1, Zenon
  <2>2. ~(st.depth \in slots..(M - 1))
    BY <1>3, <1>4, Zenon DEF PastEnd
  <2>3. ScanOpened(st, t, s[n], M)
    BY <2>1, <2>2, ScanOpens, Zenon
  <2>. QED
    BY <1>1, <1>4, <2>3, Zenon DEF ScanOpened
<1> HIDE DEF t
<1>7. ASSUME NEW j \in O[n - 1], Cardinality(O[j - 1]) < M
      PROVE  t.stack[Cardinality(O[j - 1]) + 1] = b[j]
  <2>1. j - 1 \in 0..N /\ Cardinality(O[j - 1]) < d
    BY <1>1, <1>2, <1>3, DeeperInside, Zenon
  <2>2. Cardinality(O[j - 1]) \in Nat
    BY <1>1, <2>1, Depths, Zenon
  <2>3. Cardinality(O[j - 1]) + 1 \in 1..d /\ (d >= M \/ d < M)
    BY <2>1, <2>2
  <2>. QED
    BY <1>4, <1>6, <1>7, <2>3, Zenon
<1>8. d < M => t.stack[Cardinality(O[n - 1]) + 1] = b[n]
  BY <1>3, <1>6, Zenon
<1>9. Sound(t, O, b, M, n)
  BY <1>3, <1>5, <1>6, <1>7, <1>8, Zenon DEF Sound
<1>. QED
  BY <1>6, <1>9, Zenon DEF t, Fits

\* Brackets go, the others' places stay.
LEMMA FewerSound ==
  ASSUME NEW M \in Nat, NEW b, NEW O, NEW n, NEW m, O[n] \in SUBSET O[m],
         NEW st, Sound(st, O, b, M, m), NEW t, t.stack = st.stack, t.depth = Cardinality(O[n])
  PROVE  Sound(t, O, b, M, n)
BY Zenon DEF Sound

LEMMA SoundCloses ==
  ASSUME NEW N \in Nat, NEW M \in Nat, NEW s \in [1..N -> Nat], NEW b, b = BracketKinds(s, N),
         NEW O, IsNest(O, b, N, M), NEW slots, NEW n \in 1..N, b[n] < 0,
         NEW st \in Scans(M), st.overrun = FALSE, Sound(st, O, b, M, n - 1)
  PROVE  Fits(StepOn(st, s[n], slots, M), st.out, O, b, M, n)
<1> DEFINE t == StepOn(st, s[n], slots, M)
<1>1. b \in [1..N -> Int] /\ b[n] = Bracket(s[n]) /\ Bracket(s[n]) < 0
  BY BracketKind, Zenon DEF BracketKinds
<1>2. n - 1 \in 0..N
  OBVIOUS
<1>3. PICK d \in Nat : d = Cardinality(O[n - 1])
  BY <1>1, <1>2, Depths, Zenon
<1>4. st.depth = d
  BY <1>3, Zenon DEF Sound
<1>5. ScanClosed(st, t, s[n], M)
  BY <1>1, ScanCloses, Zenon
<1> HIDE DEF t
<1>6. /\ t \in Scans(M) /\ t.out = st.out /\ t.stack = st.stack /\ t.overrun = FALSE
      /\ t.depth = IF d > 0 /\ (d > M \/ st.stack[d] = -b[n]) THEN d - 1 ELSE d
  BY <1>1, <1>4, <1>5, Zenon DEF ScanClosed
<1>7. O[n] \in SUBSET O[n - 1] /\ t.depth = Cardinality(O[n])
  <2>1. CASE O[n - 1] = {}
    <3>1. Emptied(O, n - 1)
      BY <1>1, <1>2, NoneOpen, Zenon
    <3>2. d = 0
      BY <1>3, <2>1, <3>1, Zenon DEF Emptied
    <3>3. ~(d > 0)
      BY <3>2
    <3>4. O[n] = O[n - 1]
      <4>1. O[n] = O[n - 1] \ Popped(O, b, M, n)
        BY Zenon DEF IsNest
      <4>. QED
        BY <2>1, <4>1, Zenon
    <3>. QED
      BY <1>3, <1>6, <3>3, <3>4, Zenon
  <2>2. CASE O[n - 1] # {}
    <3>1. PICK top : Innermost(O, n - 1, top)
      BY <1>1, <1>2, <2>2, InnermostExists, Zenon
    <3>2. Closed(O, b, M, n, top)
      BY <1>1, <3>1, ClosesOne, Zenon
    <3>3. top \in O[n - 1] /\ Cardinality(O[top - 1]) = d - 1
      BY <1>3, <3>1, Zenon DEF Innermost
    <3>4. NestedAt(O, b, n - 1)
      BY <1>1, <1>2, Nested, Zenon
    <3>5. top \in 1..(n - 1)
      BY <3>3, <3>4, Zenon DEF NestedAt
    <3>6. b[top] \in Int /\ b[n] \in Int
      BY <1>1, <3>5
    <3>7. d > 0
      <4>1. Emptied(O, n - 1)
        BY <1>1, <1>2, NoneOpen, Zenon
      <4>2. d # 0
        BY <1>3, <2>2, <4>1, Zenon DEF Emptied
      <4>. QED
        BY <4>2
    <3>8. /\ b[n] = -b[top] \/ d > M => O[n] = O[n - 1] \ {top} /\ Cardinality(O[n]) = d - 1
          /\ ~(b[n] = -b[top] \/ d > M) => O[n] = O[n - 1]
      BY <1>3, <3>2, Zenon DEF Closed
    <3>9. CASE d > M
      BY <1>6, <3>7, <3>8, <3>9, Zenon
    <3>10. CASE ~(d > M)
      <4>1. d - 1 < M /\ (d - 1) + 1 = d
        BY <3>10
      <4>2. st.stack[d] = b[top]
        <5>1. Cardinality(O[top - 1]) < M => st.stack[Cardinality(O[top - 1]) + 1] = b[top]
          BY <3>3, Zenon DEF Sound
        <5>. QED
          BY <3>3, <4>1, <5>1, Zenon
      <4>3. st.stack[d] = -b[n] <=> b[n] = -b[top]
        <5>1. PICK v \in Int : v = b[top]
          BY <3>6, Zenon
        <5>2. PICK k \in Int : k = b[n]
          BY <3>6, Zenon
        <5>3. v = -k <=> k = -v
          OBVIOUS
        <5>. QED
          BY <4>2, <5>1, <5>2, <5>3, Zenon
      <4>4. CASE b[n] = -b[top]
        BY <1>6, <3>7, <3>8, <4>3, <4>4, Zenon
      <4>5. CASE b[n] # -b[top]
        <5>1. t.depth = d
          BY <1>6, <3>10, <4>3, <4>5, Zenon
        <5>2. O[n] = O[n - 1]
          BY <3>8, <3>10, <4>5, Zenon
        <5>. QED
          BY <1>3, <5>1, <5>2, Zenon
      <4>. QED
        BY <4>4, <4>5, Zenon
    <3>. QED
      BY <3>9, <3>10, Zenon
  <2>. QED
    BY <2>1, <2>2, Zenon
<1>8. Sound(t, O, b, M, n)
  BY <1>6, <1>7, FewerSound, Zenon
<1>. QED
  BY <1>6, <1>8, Zenon DEF t, Fits

LEMMA SoundPlain ==
  ASSUME NEW N \in Nat, NEW M \in Nat, NEW s \in [1..N -> Nat], NEW b, b = BracketKinds(s, N),
         NEW O, IsNest(O, b, N, M), NEW slots, NEW n \in 1..N, b[n] = 0,
         NEW st \in Scans(M), st.overrun = FALSE, Sound(st, O, b, M, n - 1),
         st.out = Keeping(s, Kept(O, b, n - 1))
  PROVE  Fits(StepOn(st, s[n], slots, M), Keeping(s, Kept(O, b, n)), O, b, M, n)
<1> DEFINE t == StepOn(st, s[n], slots, M)
<1>1. b \in [1..N -> Int] /\ b[n] = Bracket(s[n]) /\ s[n] \in Nat
  BY BracketKind, Zenon DEF BracketKinds
<1>2. n - 1 \in 0..N /\ n \in Nat /\ n # 0
  OBVIOUS
<1>3. O[n] = O[n - 1]
  BY Zenon DEF IsNest
<1>4. /\ t \in Scans(M) /\ t.depth = st.depth /\ t.stack = st.stack /\ t.overrun = FALSE
      /\ t.out = IF st.depth = 0 THEN Append(st.out, s[n]) ELSE st.out
  <2>1. ScanPassed(st, t, s[n], M)
    BY <1>1, ScanPlain, Zenon
  <2>. QED
    BY <2>1, Zenon DEF ScanPassed
<1> HIDE DEF t
<1>5. Sound(t, O, b, M, n)
  BY <1>3, <1>4, Zenon DEF Sound
<1>6. O[n - 1] = {} <=> st.depth = 0
  <2>1. Emptied(O, n - 1)
    BY <1>1, <1>2, NoneOpen, Zenon
  <2>. QED
    BY <2>1, Zenon DEF Emptied, Sound
<1>7. t.out = Keeping(s, Kept(O, b, n))
  <2>1. CASE st.depth = 0
    <3>1. O[n - 1] = {}
      BY <1>6, <2>1, Zenon
    <3>2. KeepsByte(s, O, b, n)
      BY <1>2, <3>1, KeepsPlain, Zenon
    <3>. QED
      BY <1>4, <2>1, <3>2, Zenon DEF KeepsByte
  <2>2. CASE st.depth # 0
    <3>1. Kept(O, b, n) = Kept(O, b, n - 1)
      BY <1>2, <1>6, <2>2, KeptNext, Zenon
    <3>. QED
      BY <1>4, <2>2, <3>1, Zenon
  <2>. QED
    BY <2>1, <2>2, Zenon
<1>. QED
  BY <1>4, <1>5, <1>7, Zenon DEF t, Fits

\* Each byte leaves the loop in a state that fits the open brackets, unless a
\* bracket has been stored past the last slot.
LEMMA ScansOn ==
  ASSUME NEW N \in Nat, NEW M \in Nat, NEW s \in [1..N -> Nat], NEW b, b = BracketKinds(s, N),
         NEW O, IsNest(O, b, N, M), NEW slots \in Nat, slots <= M, NEW n \in 1..N,
         NEW st, Scanned(st, s, O, b, slots, M, n - 1)
  PROVE  Scanned(StepOn(st, s[n], slots, M), s, O, b, slots, M, n)
<1> DEFINE t == StepOn(st, s[n], slots, M)
<1>1. b[n] = Bracket(s[n]) /\ b[n] \in Int /\ n \in Nat /\ n # 0
  <2>1. b[n] = Bracket(s[n])
    BY Zenon DEF BracketKinds
  <2>2. s[n] \in Nat /\ n \in Nat /\ n # 0
    OBVIOUS
  <2>3. b[n] \in Int
    BY <2>1, <2>2, BracketKind, Zenon
  <2>. QED
    BY <2>1, <2>2, <2>3
<1>2. /\ st \in Scans(M) /\ (st.overrun = TRUE <=> Exceeds(O, b, slots, M, n - 1))
      /\ st.overrun = FALSE => st.out = Keeping(s, Kept(O, b, n - 1)) /\ Sound(st, O, b, M, n - 1)
  BY Zenon DEF Scanned
<1>3. st.overrun \in BOOLEAN
  BY <1>2 DEF Scans, Scan
<1>4. Exceeds(O, b, slots, M, n) <=> Exceeds(O, b, slots, M, n - 1) \/ PastEnd(O, b, slots, M, n)
  BY <1>1, ExceedsNext, Zenon
<1>5. CASE Exceeds(O, b, slots, M, n)
  <2>1. st.overrun = TRUE \/ (Bracket(s[n]) > 0 /\ st.depth \in slots..(M - 1))
    BY <1>1, <1>2, <1>3, <1>4, <1>5, Zenon DEF PastEnd, Sound
  <2>2. t \in Scans(M) /\ t.overrun = TRUE
    BY <1>2, <2>1, ScanStops, Zenon
  <2>. QED
    BY <1>5, <2>2, Zenon DEF Scanned
<1>6. CASE ~Exceeds(O, b, slots, M, n)
  <2>1. st.overrun = FALSE /\ ~PastEnd(O, b, slots, M, n)
    BY <1>2, <1>3, <1>4, <1>6, Zenon
  <2>2. /\ st.out = Keeping(s, Kept(O, b, n - 1)) /\ Sound(st, O, b, M, n - 1)
    BY <1>2, <2>1, Zenon
  <2>3. Fits(t, Keeping(s, Kept(O, b, n)), O, b, M, n)
    <3>1. b[n] # 0 => Kept(O, b, n) = Kept(O, b, n - 1)
      BY <1>1, KeptNext, Zenon
    <3>2. CASE b[n] # 0
      <4>1. Fits(t, st.out, O, b, M, n)
        <5>1. CASE b[n] > 0
          BY <1>2, <2>1, <2>2, <5>1, SoundOpens, Zenon
        <5>2. CASE b[n] < 0
          BY <1>2, <2>1, <2>2, <5>2, SoundCloses, Zenon
        <5>3. b[n] > 0 \/ b[n] < 0
          BY <1>1, <3>2
        <5>. QED
          BY <5>1, <5>2, <5>3, Zenon
      <4>2. st.out = Keeping(s, Kept(O, b, n))
        BY <2>2, <3>1, <3>2, Zenon
      <4>. QED
        BY <4>1, <4>2, Zenon
    <3>3. CASE b[n] = 0
      BY <1>2, <2>1, <2>2, <3>3, SoundPlain, Zenon
    <3>. QED
      BY <3>2, <3>3, Zenon
  <2> HIDE DEF t
  <2>4. t.overrun = FALSE /\ ~(t.overrun = TRUE)
    BY <2>3 DEF Fits
  <2>. QED
    BY <1>6, <2>3, <2>4, Zenon DEF Scanned, Fits, t
<1>. QED
  BY <1>5, <1>6, Zenon

LEMMA SlotsAre ==
  ASSUME NEW N \in Nat, NEW s, Len(s) = N, NEW M \in Nat
  PROVE  /\ StackSlots(s, M) \in Nat /\ StackSlots(s, M) <= M
         /\ \A d \in Nat : StackSlots(s, M) <= d /\ d < M => N <= 2 * d + 1
<1>1. PICK h \in Nat : h = N \div 2 /\ N <= 2 * h + 1
  OBVIOUS
<1>2. PICK m : m = StackSlots(s, M)
  OBVIOUS
<1>3. m \in {h, M} /\ \A x \in {h, M} : m <= x
  <2>1. {h, M} \in SUBSET Nat /\ {h, M} # {}
    OBVIOUS
  <2>2. Min({h, M}) \in {h, M} /\ \A x \in {h, M} : Min({h, M}) <= x
    BY <2>1, LeastNumber, Zenon
  <2>3. m = Min({h, M})
    BY <1>1, <1>2, Zenon DEF StackSlots
  <2>. QED
    BY <2>2, <2>3, Zenon
<1>4. m \in Nat /\ m <= M
  BY <1>3
<1>5. ASSUME NEW d \in Nat, m <= d, d < M PROVE N <= 2 * d + 1
  <2>1. m = h
    BY <1>3, <1>4, <1>5
  <2>. QED
    BY <1>1, <1>5, <2>1
<1>. QED
  BY <1>2, <1>4, <1>5, Zenon

LEMMA OneAtATime ==
  ASSUME NEW N \in Nat, NEW M \in Nat, NEW b \in [1..N -> Int], NEW O, IsNest(O, b, N, M),
         NEW i \in 0..N
  PROVE  \A k \in 0..(N - i) : Cardinality(O[i + k]) >= Cardinality(O[i]) - k
<1> DEFINE T == {k \in 0..(N - i) : Cardinality(O[i + k]) >= Cardinality(O[i]) - k}
<1>1. PICK d \in Nat : d = Cardinality(O[i])
  BY Depths, Zenon
<1>2. N - i \in Nat /\ i + 0 = i /\ 0 \in 0..(N - i) /\ d >= d - 0
  OBVIOUS
<1>3. 0 \in T
  BY <1>1, <1>2, Zenon
<1>4. ASSUME NEW k \in 1..(N - i), k - 1 \in T PROVE k \in T
  <2>1. /\ i + k \in 1..N /\ i + k \in 0..N /\ (i + k) - 1 \in 0..N
        /\ k \in 0..(N - i) /\ i + (k - 1) = (i + k) - 1
    OBVIOUS
  <2>2. Cardinality(O[i + k]) >= Cardinality(O[(i + k) - 1]) - 1
    BY <2>1, DepthNear, Zenon
  <2>3. Cardinality(O[(i + k) - 1]) >= d - (k - 1)
    BY <1>1, <1>4, <2>1, Zenon
  <2>4. PICK x \in Nat : x = Cardinality(O[i + k])
    BY <2>1, Depths, Zenon
  <2>5. PICK y \in Nat : y = Cardinality(O[(i + k) - 1])
    BY <2>1, Depths, Zenon
  <2>6. x >= d - k
    BY <2>2, <2>3, <2>4, <2>5
  <2>. QED
    BY <1>1, <2>1, <2>4, <2>6, Zenon
<1> HIDE DEF T
<1>5. \A k \in 0..(N - i) : k \in T
  BY <1>2, <1>3, <1>4, RoundInduction, Zenon
<1>. QED
  BY <1>5, Zenon DEF T

\* A bracket stored past the last slot stands so deep that there are fewer
\* bytes behind it than brackets to close.
LEMMA ClosedTextFits ==
  ASSUME NEW N \in Nat, NEW s, Len(s) = N, NEW M \in Nat, NEW b \in [1..N -> Int],
         NEW O, IsNest(O, b, N, M), O[N] = {}
  PROVE  ~Exceeds(O, b, StackSlots(s, M), M, N)
<1> SUFFICES ASSUME NEW i \in 1..N, PastEnd(O, b, StackSlots(s, M), M, i)
             PROVE  FALSE
  BY Zenon DEF Exceeds
<1>1. i - 1 \in 0..N /\ i \in 0..N /\ N \in 0..N /\ N - i \in 0..(N - i) /\ i + (N - i) = N
  OBVIOUS
<1>2. PICK d \in Nat : d = Cardinality(O[i - 1]) /\ d <= i - 1
  BY <1>1, Depths, Zenon
<1>3. N <= 2 * d + 1
  <2>1. StackSlots(s, M) \in Nat
    BY SlotsAre, Zenon
  <2>2. d \in StackSlots(s, M)..(M - 1)
    BY <1>2, Zenon DEF PastEnd
  <2>3. StackSlots(s, M) <= d /\ d < M
    BY <2>1, <2>2
  <2>. QED
    BY <2>3, SlotsAre, Zenon
<1>4. Cardinality(O[i]) = d + 1
  <2>1. Opened(O, i)
    BY Opens, Zenon DEF PastEnd
  <2>. QED
    BY <1>2, <2>1, Zenon DEF Opened
<1>5. Cardinality(O[N]) = 0
  BY FS_EmptySet, Zenon
<1>6. Cardinality(O[i + (N - i)]) >= Cardinality(O[i]) - (N - i)
  BY <1>1, OneAtATime, Zenon
<1>7. 0 >= (d + 1) - (N - i)
  BY <1>1, <1>4, <1>5, <1>6, Zenon
<1>. QED
  BY <1>2, <1>3, <1>7

\* The states after each byte.
ScanStart == [depth |-> 0, stack |-> <<>>, out |-> <<>>, overrun |-> FALSE]

IsScan(g, s, M, N) ==
  /\ g \in [0..N -> Scans(M)] /\ g[0] = ScanStart /\ g[N] = remove_bracket(s, M)
  /\ \A n \in 1..N : g[n] = StepOn(g[n - 1], s[n], StackSlots(s, M), M)

LEMMA BracketLoop ==
  ASSUME NEW N \in Nat, NEW M \in Nat, NEW s \in [1..N -> Nat]
  PROVE  \E g : IsScan(g, s, M, N)
<1> DEFINE S == Scans(M)
           slots == StackSlots(s, M)
           f == [n \in 1..N |-> [st \in S |-> StepOn(st, s[n], slots, M)]]
<1>1. ScanStart \in S
  <2>1. ScanStart \in Scan /\ Len(ScanStart.stack) >= ScanStart.depth
    BY DEF ScanStart, Scan
  <2>. QED
    BY <2>1, Zenon DEF Scans
<1>2. Len(s) = N
  OBVIOUS
<1>3. slots \in Nat /\ slots <= M
  BY <1>2, SlotsAre, Zenon
<1> HIDE DEF slots
<1>4. ASSUME NEW n \in 1..N, NEW st \in S PROVE StepOn(st, s[n], slots, M) \in S
  <2>1. s[n] \in Nat
    OBVIOUS
  <2>2. Bracket(s[n]) \in Int
    BY BracketKind, Zenon
  <2>3. Bracket(s[n]) > 0 \/ Bracket(s[n]) < 0 \/ Bracket(s[n]) = 0
    BY <2>2
  <2>4. st.overrun \in BOOLEAN
    BY DEF Scans, Scan
  <2>5. CASE st.overrun = TRUE \/ (Bracket(s[n]) > 0 /\ st.depth \in slots..(M - 1))
    BY <2>5, ScanStops, Zenon
  <2>6. CASE ~(st.overrun = TRUE \/ (Bracket(s[n]) > 0 /\ st.depth \in slots..(M - 1)))
    <3>1. st.overrun = FALSE
      BY <2>4, <2>6, Zenon
    <3>2. CASE Bracket(s[n]) > 0
      <4>1. ScanOpened(st, StepOn(st, s[n], slots, M), s[n], M)
        BY <1>3, <2>6, <3>1, <3>2, ScanOpens, Zenon
      <4>. QED
        BY <4>1, Zenon DEF ScanOpened
    <3>3. CASE Bracket(s[n]) < 0
      <4>1. ScanClosed(st, StepOn(st, s[n], slots, M), s[n], M)
        BY <3>1, <3>3, ScanCloses, Zenon
      <4>. QED
        BY <4>1, Zenon DEF ScanClosed
    <3>4. CASE Bracket(s[n]) = 0
      <4>1. ScanPassed(st, StepOn(st, s[n], slots, M), s[n], M)
        BY <2>1, <3>1, <3>4, ScanPlain, Zenon
      <4>. QED
        BY <4>1, Zenon DEF ScanPassed
    <3>. QED
      BY <2>3, <3>2, <3>3, <3>4, Zenon
  <2>. QED
    BY <2>5, <2>6, Zenon
<1> HIDE DEF S
<1>5. f \in [1..N -> [S -> S]]
  BY <1>4, Zenon
<1>6. \A n \in 1..N : \A st \in S : f[n][st] = StepOn(st, s[n], slots, M)
  BY Zenon
<1> HIDE DEF f
<1>7. PICK g \in [0..N -> S] : g[0] = ScanStart /\ \A n \in 1..N : g[n] = f[n][g[n - 1]]
  <2>1. \E g : IsLoop(g, S, ScanStart, N, f)
    BY <1>1, <1>5, Iteration, Zenon
  <2>. QED
    BY <2>1, Zenon DEF IsLoop
<1>8. \A n \in 1..N : g[n] = StepOn(g[n - 1], s[n], slots, M)
  <2>1. \A n \in 1..N : n - 1 \in 0..N
    OBVIOUS
  <2>. QED
    BY <1>6, <1>7, <2>1, Zenon
<1> DEFINE Body(h) == [n \in 0..N |-> IF n = 0 THEN ScanStart ELSE StepOn(h[n - 1], s[n], slots, M)]
           loop == CHOOSE h : h = Body(h)
<1>9. g = Body(g)
  <2> DEFINE c == [n \in 0..N |-> StepOn(g[n - 1], s[n], slots, M)]
  <2>1. \A n \in 1..N : n \in 0..N
    OBVIOUS
  <2>2. \A n \in 1..N : g[n] = c[n]
    BY <1>8, <2>1, Zenon
  <2>3. \A n \in 0..N : c[n] = StepOn(g[n - 1], s[n], slots, M)
    BY Zenon
  <2> HIDE DEF c
  <2>4. g = [n \in 0..N |-> IF n = 0 THEN ScanStart ELSE c[n]]
    BY <1>7, <2>2, AsOneFunction
  <2>. QED
    BY <2>3, <2>4, Zenon
<1>10. loop = Body(loop)
  BY <1>9, Zenon
<1>11. remove_bracket(s, M) = loop[N]
  BY <1>2, Zenon DEF remove_bracket, ScanStart, slots
<1> HIDE DEF loop
<1>12. loop[0] = ScanStart /\ \A n \in 1..N : loop[n] = StepOn(loop[n - 1], s[n], slots, M)
  <2>1. 0 \in 0..N /\ \A n \in 1..N : n \in 0..N /\ n # 0
    OBVIOUS
  <2>. QED
    BY <1>10, <2>1, Zenon
<1>13. Alike(loop, g, N)
  BY <1>7, <1>8, <1>12, Zenon DEF Alike
<1>14. loop[N] = g[N]
  BY <1>13, SameRounds, Zenon
<1>15. IsScan(g, s, M, N)
  BY <1>7, <1>8, <1>11, <1>14, Zenon DEF IsScan, S, slots
<1>. QED
  BY <1>15, Zenon

\* What the loop has found in the end.
LEMMA ScannedThrough ==
  ASSUME NEW N \in Nat, NEW M \in Nat, NEW s \in [1..N -> Nat], NEW b, b = BracketKinds(s, N),
         NEW O, IsNest(O, b, N, M)
  PROVE  Scanned(remove_bracket(s, M), s, O, b, StackSlots(s, M), M, N)
<1>1. PICK g : IsScan(g, s, M, N)
  BY BracketLoop, Zenon
<1>2. PICK slots : slots = StackSlots(s, M)
  OBVIOUS
<1>3. slots \in Nat /\ slots <= M
  <2>1. Len(s) = N
    OBVIOUS
  <2>. QED
    BY <1>2, <2>1, SlotsAre, Zenon
<1> DEFINE T == {n \in 0..N : Scanned(g[n], s, O, b, slots, M, n)}
<1>4. 0 \in T
  <2>1. PICK st : st = ScanStart
    OBVIOUS
  <2>2. 0 \in 0..N /\ 1..0 = {} /\ st.depth = 0 /\ st.out = <<>> /\ st.overrun = FALSE /\ ~(st.overrun = TRUE)
    BY <2>1 DEF ScanStart
  <2>3. g[0] = st /\ st \in Scans(M)
    BY <1>1, <2>1, <2>2, Zenon DEF IsScan
  <2>4. O[0] = {} /\ Cardinality({}) = 0
    BY FS_EmptySet, Zenon DEF IsNest
  <2>5. Kept(O, b, 0) = {}
    BY <2>2, Zenon DEF Kept
  <2>6. Keeping(s, {}) = <<>>
    <3>1. Keeping(s, {}) = [k \in DOMAIN Ascending({}) |-> s[Ascending({})[k]]]
      BY Zenon DEF Keeping
    <3>2. DOMAIN Ascending({}) = {}
      BY AscendingNone
    <3>. QED
      BY <3>1, <3>2
  <2>7. ~Exceeds(O, b, slots, M, 0)
    BY <2>2, Zenon DEF Exceeds
  <2>8. Scanned(st, s, O, b, slots, M, 0)
    BY <2>2, <2>3, <2>4, <2>5, <2>6, <2>7, Zenon DEF Scanned, Sound
  <2>. QED
    BY <2>2, <2>3, <2>8, Zenon
<1>5. ASSUME NEW n \in 1..N, n - 1 \in T PROVE n \in T
  <2>1. n \in 0..N /\ Scanned(g[n - 1], s, O, b, slots, M, n - 1)
    BY <1>5
  <2>2. g[n] = StepOn(g[n - 1], s[n], slots, M)
    BY <1>1, <1>2, Zenon DEF IsScan
  <2>3. Scanned(StepOn(g[n - 1], s[n], slots, M), s, O, b, slots, M, n)
    BY <1>3, <2>1, ScansOn, Zenon
  <2>. QED
    BY <2>1, <2>2, <2>3, Zenon
<1> HIDE DEF T
<1>6. \A n \in 0..N : n \in T
  BY <1>4, <1>5, RoundInduction, Zenon
<1>7. N \in 0..N
  OBVIOUS
<1>8. Scanned(g[N], s, O, b, slots, M, N)
  BY <1>6, <1>7, Zenon DEF T
<1>. QED
  BY <1>1, <1>2, <1>8, Zenon DEF IsScan

\* remove_bracket, for every text and every nesting limit: it stores a bracket
\* past the end of its vector exactly where one opens inside of as many as the
\* vector has slots, or of more, below the limit; never in a text whose
\* brackets all close; and if it does not, it returns the bytes outside of
\* brackets and nothing else.
THEOREM BracketedTextGoes ==
  ASSUME NEW s, s \in Seq(Nat), NEW M \in Nat
  PROVE  KeepsOutside(s, M)
<1>1. PICK N \in Nat : N = Len(s) /\ s \in [1..N -> Nat]
  BY SeqIsFunction, Zenon
<1>2. PICK b : b = BracketKinds(s, N)
  OBVIOUS
<1>3. PICK P : P = Closes(s, M)
  OBVIOUS
<1>4. PICK O : IsNest(O, b, N, M) /\ \A n \in 1..(N + 1) : OpenBefore(s, P, n) = O[n - 1]
  <2>1. PICK K : /\ IsNest(K, BracketKinds(s, N), N, M)
                 /\ \A n \in 1..(N + 1) : OpenBefore(s, Closes(s, M), n) = K[n - 1]
    BY <1>1, NestExists, Zenon
  <2>2. IsNest(K, b, N, M)
    BY <1>2, <2>1, Zenon
  <2>3. \A n \in 1..(N + 1) : OpenBefore(s, P, n) = K[n - 1]
    BY <1>3, <2>1, Zenon
  <2>. QED
    BY <2>2, <2>3, Zenon
<1>5. PICK result : result = remove_bracket(s, M)
  OBVIOUS
<1>6. PICK slots : slots = StackSlots(s, M)
  OBVIOUS
<1>7. Scanned(result, s, O, b, slots, M, N)
  BY <1>1, <1>2, <1>4, <1>5, <1>6, ScannedThrough, Zenon
<1>8. /\ \A n \in 1..N : n \in 1..(N + 1)
      /\ N + 1 \in 1..(N + 1) /\ (N + 1) - 1 = N /\ DOMAIN s = 1..N
  BY <1>1
<1>9. b \in [1..N -> Int] /\ \A n \in 1..N : b[n] = Bracket(s[n])
  BY <1>2, BracketKind, Zenon DEF BracketKinds
<1>10. Exceeds(O, b, slots, M, N) <=> NestsTooDeep(s, P, M)
  <2>1. \A n \in 1..N : Cardinality(OpenBefore(s, P, n)) = Cardinality(O[n - 1])
    BY <1>4, <1>8, Zenon
  <2>. QED
    BY <1>6, <1>8, <1>9, <2>1, Zenon DEF Exceeds, PastEnd, NestsTooDeep
<1>11. Outside(s, P) = Kept(O, b, N)
  <2>1. \A n \in 1..N : OpenBefore(s, P, n) = O[n - 1]
    BY <1>4, <1>8, Zenon
  <2>. QED
    BY <1>8, <1>9, <2>1, Zenon DEF Outside, Kept
<1>12. AllClosed(s, P) => ~Exceeds(O, b, slots, M, N)
  <2>1. AllClosed(s, P) <=> O[N] = {}
    <3>1. OpenBefore(s, P, N + 1) = O[N]
      BY <1>4, <1>8, Zenon
    <3>. QED
      BY <1>1, <3>1, Zenon DEF AllClosed
  <2>. QED
    BY <1>1, <1>4, <1>6, <1>9, <2>1, ClosedTextFits, Zenon
<1>13. result.overrun \in BOOLEAN
  BY <1>7 DEF Scanned, Scans, Scan
<1>14. /\ result.overrun <=> NestsTooDeep(s, P, M)
       /\ ~result.overrun => result.out = Keeping(s, Outside(s, P))
       /\ AllClosed(s, P) => ~result.overrun
  BY <1>7, <1>10, <1>11, <1>12, <1>13, Zenon DEF Scanned
<1>. QED
  BY <1>3, <1>5, <1>14, Zenon DEF KeepsOutside
-----------------------------------------------------------------------------
(* The texts the run grows, whatever their length *)

TextType == component \in DOMAIN Alphabet => text \in Seq(Alphabet[component])

LEMMA AlphabetOf ==
  /\ ByteTexts \in SUBSET DOMAIN Alphabet /\ "lines" \in DOMAIN Alphabet
  /\ \A k \in ByteTexts : Alphabet[k] \in SUBSET Nat
BY DEF Alphabet, ByteTexts, NL, TAB, Backslash, Quote

LEMMA TextTypeHolds == Spec => []TextType
<1>1. Init => TextType
  <2>1. ASSUME NEW S PROVE <<>> \in Seq(S)
    OBVIOUS
  <2>. QED
    BY <2>1, Zenon DEF Init, TextType
<1>2. TextType /\ [Next]_vars => TextType'
  <2> SUFFICES ASSUME TextType, [Next]_vars PROVE TextType'
    OBVIOUS
  <2>1. CASE UNCHANGED <<component, text>>
    BY <2>1, Zenon DEF TextType
  <2>2. CASE TextStep
    <3>1. component' = component
      BY <2>2, Zenon DEF TextStep
    <3>2. CASE Full
      BY <3>1, <3>2, Zenon DEF Full, TextType
    <3>3. ASSUME NEW c \in Alphabet[component], Type(c)
          PROVE  TextType'
      <4>1. component \in DOMAIN Alphabet /\ text' = Append(text, c)
        BY <2>2, <3>3, Zenon DEF TextStep, Type
      <4>2. PICK S : S = Alphabet[component]
        OBVIOUS
      <4>3. text \in Seq(S) /\ c \in S
        BY <4>1, <4>2, Zenon DEF TextType
      <4>4. Append(text, c) \in Seq(S)
        BY <4>3
      <4>. QED
        BY <3>1, <4>1, <4>2, <4>4, Zenon DEF TextType
    <3>. QED
      BY <2>2, <3>2, <3>3, Zenon DEF TextStep
  <2>3. CASE FileStep \/ TraceStep \/ RegistryStep
    BY <2>1, <2>3, Zenon DEF FileStep, TraceStep, RegistryStep
  <2>4. CASE UNCHANGED vars
    BY <2>1, <2>4, Zenon DEF vars
  <2>. QED
    BY <2>2, <2>3, <2>4, Zenon DEF Next
<1>. QED
  BY <1>1, <1>2, PTL DEF Spec

LEMMA ByteText ==
  ASSUME TextType, component \in ByteTexts
  PROVE  text \in Seq(Nat)
<1>1. PICK S : S = Alphabet[component]
  OBVIOUS
<1>2. text \in Seq(S) /\ S \in SUBSET Nat
  BY <1>1, AlphabetOf, Zenon DEF TextType
<1>3. PICK x : x = text
  OBVIOUS
<1>4. x \in Seq(S)
  BY <1>2, <1>3, Zenon
<1>5. x \in [1..Len(x) -> Nat] /\ Len(x) \in Nat
  <2>1. x \in [1..Len(x) -> S] /\ Len(x) \in Nat
    BY <1>4, SeqIsFunction, Zenon
  <2>. QED
    BY <1>2, <2>1, Zenon
<1>6. x \in Seq(Nat)
  BY <1>5
<1>. QED
  BY <1>3, <1>6, Zenon

\* encode_escape and decode_escape, as the run checks them, on texts of
\* every length.
THEOREM TextsEscapeReversibly == Spec => []EscapeRoundTrips
<1>1. TextType => EscapeRoundTrips
  BY ByteText, EscapingIsReversible, Zenon DEF EscapeRoundTrips
<1>. QED
  BY <1>1, TextTypeHolds, PTL

\* utf8_truncate, as the run checks it, on texts of every length and for
\* every max_chars.
THEOREM TextsTruncateWhole == Spec => []TruncateKeepsCharacters
<1>1. \A n \in 0..MaxChars : n \in Nat
  BY UtilityConstants
<1>2. TextType => TruncateKeepsCharacters
  BY <1>1, ByteText, TruncationKeepsCharacters, Zenon DEF TruncateKeepsCharacters
<1>. QED
  BY <1>2, TextTypeHolds, PTL

\* split_string, as the run checks it, on texts of every length.
THEOREM TextsSplitAndJoin == Spec => []SplitJoins
<1>1. \A d \in Delimiters : d \in Seq(Nat)
  <2>1. <<>> \in Seq(Nat) /\ <<44>> \in Seq(Nat)
    OBVIOUS
  <2>2. <<44, 59>> \in Seq(Nat)
    OBVIOUS
  <2>3. <<44, 44>> \in Seq(Nat)
    OBVIOUS
  <2>. QED
    BY <2>1, <2>2, <2>3, Zenon DEF Delimiters
<1>2. TextType => SplitJoins
  BY <1>1, ByteText, SplittingRejoins, Zenon DEF SplitJoins
<1>. QED
  BY <1>2, TextTypeHolds, PTL

\* read_lines_default and read_lines_with_avx2, as the run checks them, on
\* texts of every length and for every size of a block.
THEOREM TextsReadAlike == Spec => []LinesAgree
<1>1. \A z \in Blocks : z \in Nat \ {0}
  BY UtilityConstants, Zenon
<1>2. TextType /\ component = "lines" => text \in Seq(Alphabet["lines"])
  BY AlphabetOf, Zenon DEF TextType
<1>3. TextType => LinesAgree
  BY <1>1, <1>2, ReadersAgree, Zenon DEF LinesAgree
<1>. QED
  BY <1>3, TextTypeHolds, PTL

\* ArchivePath, as the run checks it, on paths of every length.
THEOREM PathsArchiveBeside == Spec => []ArchiveBesideLog
<1> DEFINE C == {Sep, Dot, "a", "_", "-", "gz", "t", "1", "2"}
<1>1. PathCharacters(C)
  BY DEF PathCharacters
<1>2. IsPlain(C, <<>>) /\ \A c \in {"t", "1", "2"} : IsPlain(C, <<c>>)
  <2>1. \A c \in {"t", "1", "2"} : c \in C /\ c # Sep
    BY DEF Sep
  <2>2. <<>> \in Seq(C) /\ Len(<<>>) = 0 /\ 1..0 = {}
    OBVIOUS
  <2> HIDE DEF C
  <2>. QED
    BY <2>1, <2>2, PlainOne, Zenon DEF IsPlain
<1>3. \A n \in Counters : IsPlain(C, n)
  <2> HIDE DEF C
  <2>. QED
    BY <1>2, Zenon DEF Counters
<1>4. TextType /\ component = "path" => text \in Seq(C)
  <2>1. Alphabet["path"] = {Sep, Dot, "a"} /\ "path" \in DOMAIN Alphabet
    BY DEF Alphabet
  <2>2. {Sep, Dot, "a"} \subseteq C
    OBVIOUS
  <2>3. TextType /\ component = "path" => text \in Seq({Sep, Dot, "a"})
    BY <2>1, Zenon DEF TextType
  <2>4. ASSUME NEW A, A \subseteq C, text \in Seq(A) PROVE text \in Seq(C)
    <3> HIDE DEF C
    <3>. QED
      BY <2>4
  <2> HIDE DEF C
  <2>. QED
    BY <2>2, <2>3, <2>4, Zenon
<1> HIDE DEF C
<1>5. TextType => ArchiveBesideLog
  BY <1>1, <1>2, <1>3, <1>4, ArchivesStandBeside, Zenon DEF ArchiveBesideLog
<1>. QED
  BY <1>5, TextTypeHolds, PTL

\* remove_bracket, as the run checks it, on texts of every length.
THEOREM TextsLoseBrackets == Spec => []BracketsRemoved
<1>1. \A n \in 0..MaxNest : n \in Nat
  BY UtilityConstants
<1>2. TextType => BracketsRemoved
  BY <1>1, ByteText, BracketedTextGoes, Zenon DEF BracketsRemoved
<1>. QED
  BY <1>2, TextTypeHolds, PTL
=============================================================================
