--------------------------- MODULE UnderstoodProof ----------------------------
(* The configuration the parser builds is what the file says, for any tokens   *)
(* and files of any length.  What a file says is followed while the file grows *)
(* by the tokens of one action: a directive, the opening of a block or its end.*)
EXTENDS StartUpProof, WellFoundedInduction

-----------------------------------------------------------------------------
(* A file that grows.                                                          *)

(* g is the file f with the tokens t after it.                                 *)
Extends(f, t, g) ==
    /\ Len(f) \in Nat /\ Len(t) \in Nat \ {0} /\ Len(g) = Len(f) + Len(t)
    /\ \A n \in 1..Len(f) : g[n] = f[n]
    /\ \A j \in 1..Len(t) : g[Len(f) + j] = t[j]

(* What one action reads: its last token is a delimiter, and no other is.      *)
Sentence(t) ==
    /\ t[Len(t)] \in Delimiters
    /\ \A j \in 1..(Len(t) - 1) : t[j] \notin Delimiters
    /\ t[Len(t)] = RBrace => Len(t) = 1

AtStart(f) == Len(f) = 0 \/ f[Len(f)] \in Delimiters

(* The braces of one kind before a place.                                      *)
Braces(f, n, x) == {k \in 1..(n - 1) : f[k] = x}

LEMMA DepthIs ==
    ASSUME NEW f, NEW n \in Int
    PROVE  Depth(f, n) = Cardinality(Braces(f, n, LBrace)) - Cardinality(Braces(f, n, RBrace))
    BY DEF Depth, Braces

(* The delimiters are different, and no word of the language is one.           *)
Words ==
    {"server", "location", "listen", "server_name", "client_max_body_size", "error_page",
     "root", "methods", "autoindex", "index", "upload_store", "return", "cgi_interpreter"}

LEMMA Distinct ==
    /\ LBrace # RBrace /\ LBrace # Semicolon /\ RBrace # Semicolon
    /\ \A w \in Words \cup Methods \cup {"on", "off"} : w \notin Delimiters
    BY Zenon DEF Words, Methods, Delimiters, LBrace, RBrace, Semicolon

LEMMA DepthType ==
    ASSUME NEW f, NEW n \in Nat
    PROVE  Depth(f, n) \in Int
<1>1. ASSUME NEW x PROVE Cardinality(Braces(f, n, x)) \in Nat
    <2>1. IsFiniteSet(1..(n - 1))
        BY FS_Interval
    <2>2. Braces(f, n, x) \subseteq 1..(n - 1)
        BY DEF Braces
    <2> QED
        BY <2>1, <2>2, FS_Subset, FS_CardinalityType
<1>2. /\ Cardinality(Braces(f, n, LBrace)) \in Nat /\ Cardinality(Braces(f, n, RBrace)) \in Nat
      /\ Depth(f, n) = Cardinality(Braces(f, n, LBrace)) - Cardinality(Braces(f, n, RBrace))
    BY <1>1, DepthIs
<1> QED
    BY <1>2

(* The depth of a place depends on the tokens before it.                       *)
LEMMA DepthKept ==
    ASSUME NEW f, NEW t, NEW g, Extends(f, t, g), NEW n \in 1..(Len(f) + 1)
    PROVE  Depth(g, n) = Depth(f, n)
<1>1. \A k \in 1..(n - 1) : g[k] = f[k]
    BY DEF Extends
<1>2. \A x : Braces(g, n, x) = Braces(f, n, x)
    BY <1>1 DEF Braces
<1>3. /\ Depth(g, n) = Cardinality(Braces(g, n, LBrace)) - Cardinality(Braces(g, n, RBrace))
      /\ Depth(f, n) = Cardinality(Braces(f, n, LBrace)) - Cardinality(Braces(f, n, RBrace))
    <2>1. n \in Int
        BY DEF Extends
    <2> QED
        BY <2>1, DepthIs
<1> QED
    BY <1>2, <1>3

(* It is the same within a sentence.                                           *)
LEMMA DepthWithin ==
    ASSUME NEW f, NEW t, NEW g, Extends(f, t, g), Sentence(t), NEW j \in 1..Len(t)
    PROVE  Depth(g, Len(f) + j) = Depth(f, Len(f) + 1)
<1> DEFINE L == Len(f)
<1>1. L \in Nat /\ Len(t) \in Nat
    BY DEF Extends
<1>2. \A k \in 1..(L + j - 1) :
        \/ k \in 1..L /\ g[k] = f[k]
        \/ k \notin 1..L /\ g[k] \notin Delimiters
    <2> SUFFICES ASSUME NEW k \in 1..(L + j - 1), k \notin 1..L
                 PROVE  g[k] \notin Delimiters
        BY DEF Extends
    <2>1. PICK i \in 1..(Len(t) - 1) : k = L + i
        <3>1. k - L \in 1..(Len(t) - 1) /\ k = L + (k - L)
            BY <1>1
        <3> QED
            BY <3>1
    <2>2. i \in 1..Len(t) /\ g[L + i] = t[i]
        BY <1>1 DEF Extends
    <2> QED
        BY <2>1, <2>2 DEF Sentence
<1>3. L + 1 - 1 = L /\ 1..L \subseteq 1..(L + j - 1)
    BY <1>1
<1>4. \A x \in {LBrace, RBrace} : Braces(g, L + j, x) = Braces(f, L + 1, x)
    BY <1>2, <1>3 DEF Delimiters, Braces
<1>5. /\ L + j \in Int /\ L + 1 \in Int
      /\ Braces(g, L + j, LBrace) = Braces(f, L + 1, LBrace)
      /\ Braces(g, L + j, RBrace) = Braces(f, L + 1, RBrace)
    BY <1>1, <1>4
<1>6. /\ Depth(g, L + j) = Cardinality(Braces(g, L + j, LBrace)) - Cardinality(Braces(g, L + j, RBrace))
      /\ Depth(f, L + 1) = Cardinality(Braces(f, L + 1, LBrace)) - Cardinality(Braces(f, L + 1, RBrace))
    BY <1>5, DepthIs
<1> QED
    BY <1>5, <1>6

(* One more element in a set of positions.                                     *)
LEMMA OneMore ==
    ASSUME NEW n \in Nat, NEW S, S \subseteq 1..n, NEW x, x \notin S
    PROVE  Cardinality(S \cup {x}) = Cardinality(S) + 1 /\ Cardinality(S) \in Nat
<1>1. IsFiniteSet(1..n)
    BY FS_Interval
<1>2. IsFiniteSet(S)
    BY <1>1, FS_Subset
<1> QED
    BY <1>2, FS_AddElement, FS_CardinalityType

(* The brace that ends a sentence counts.                                      *)
LEMMA DepthAfter ==
    ASSUME NEW f, NEW t, NEW g, Extends(f, t, g), Sentence(t)
    PROVE  Depth(g, Len(g) + 1) =
             Depth(f, Len(f) + 1)
               + (IF t[Len(t)] = LBrace THEN 1 ELSE IF t[Len(t)] = RBrace THEN -1 ELSE 0)
<1> DEFINE N == Len(g)
           Opens(n)  == {k \in 1..n : g[k] = LBrace}
           Closes(n) == {k \in 1..n : g[k] = RBrace}
<1>1. N \in Nat \ {0} /\ Len(f) \in Nat /\ Len(t) \in Nat \ {0} /\ N = Len(f) + Len(t)
    BY DEF Extends
<1>2. g[N] = t[Len(t)]
    BY <1>1 DEF Extends
<1>3. Depth(g, N) = Depth(f, Len(f) + 1)
    BY <1>1, DepthWithin
<1>4. /\ Depth(g, N) = Cardinality(Opens(N - 1)) - Cardinality(Closes(N - 1))
      /\ Depth(g, N + 1) = Cardinality(Opens(N)) - Cardinality(Closes(N))
    <2>1. N + 1 - 1 = N
        BY <1>1
    <2>2. /\ Braces(g, N + 1, LBrace) = Opens(N) /\ Braces(g, N + 1, RBrace) = Closes(N)
          /\ Braces(g, N, LBrace) = Opens(N - 1) /\ Braces(g, N, RBrace) = Closes(N - 1)
        BY <2>1 DEF Braces
    <2>3. N \in Int /\ N + 1 \in Int
        BY <1>1
    <2> HIDE DEF N, Opens, Closes
    <2>4. /\ Depth(g, N) = Cardinality(Braces(g, N, LBrace)) - Cardinality(Braces(g, N, RBrace))
          /\ Depth(g, N + 1)
               = Cardinality(Braces(g, N + 1, LBrace)) - Cardinality(Braces(g, N + 1, RBrace))
        BY <2>3, DepthIs
    <2> QED
        BY <2>2, <2>4
<1>5. N - 1 \in Nat /\ N \notin 1..(N - 1) /\ 1..N = 1..(N - 1) \cup {N}
    BY <1>1
<1>6. /\ Opens(N) = IF g[N] = LBrace THEN Opens(N - 1) \cup {N} ELSE Opens(N - 1)
      /\ Closes(N) = IF g[N] = RBrace THEN Closes(N - 1) \cup {N} ELSE Closes(N - 1)
    BY <1>5
<1>7. /\ Opens(N - 1) \subseteq 1..(N - 1) /\ N \notin Opens(N - 1)
      /\ Closes(N - 1) \subseteq 1..(N - 1) /\ N \notin Closes(N - 1)
    BY <1>5
<1> HIDE DEF Opens, Closes, N
<1>8. /\ Cardinality(Opens(N - 1) \cup {N}) = Cardinality(Opens(N - 1)) + 1
      /\ Cardinality(Closes(N - 1) \cup {N}) = Cardinality(Closes(N - 1)) + 1
      /\ Cardinality(Opens(N - 1)) \in Nat /\ Cardinality(Closes(N - 1)) \in Nat
    BY <1>5, <1>7, OneMore
<1>9. Depth(g, N + 1) = Depth(g, N)
        + (IF g[N] = LBrace THEN 1 ELSE IF g[N] = RBrace THEN -1 ELSE 0)
    BY <1>4, <1>6, <1>8, Distinct
<1> QED
    BY <1>2, <1>3, <1>9 DEF N

-----------------------------------------------------------------------------
(* The directives of a file that grows by a sentence.                          *)

(* The block that begins at b is closed.                                       *)
Complete(f, b) == \E k \in b..Len(f) : Ends(f, b, k)

(* The first token of a sentence begins a directive, the others do not.        *)
LEMMA DirectivesJoined ==
    ASSUME NEW f, NEW t, NEW g, Extends(f, t, g), Sentence(t), AtStart(f),
           NEW word, word \notin Delimiters, NEW depth
    PROVE  Directives(g, word, depth) =
             Directives(f, word, depth)
               \cup (IF t[1] = word /\ Depth(f, Len(f) + 1) = depth THEN {Len(f) + 1} ELSE {})
<1> DEFINE L == Len(f)
<1>1. L \in Nat /\ Len(t) \in Nat \ {0} /\ Len(g) = L + Len(t)
    BY DEF Extends
<1>2. ASSUME NEW n \in 1..L
      PROVE  n \in Directives(g, word, depth) <=> n \in Directives(f, word, depth)
    <2>1. g[n] = f[n] /\ (n # 1 => g[n - 1] = f[n - 1])
        <3>1. \A m \in 1..L : g[m] = f[m]
            BY DEF Extends
        <3>2. n # 1 => n - 1 \in 1..L
            BY <1>1
        <3> HIDE DEF L
        <3> QED
            BY <3>1, <3>2
    <2>2. Depth(g, n) = Depth(f, n)
        BY <1>1, DepthKept
    <2> QED
        BY <1>1, <2>1, <2>2 DEF Directives
<1>3. L + 1 \in Directives(g, word, depth) <=> t[1] = word /\ Depth(f, L + 1) = depth
    <2>1. g[L + 1] = t[1] /\ L + 1 - 1 = L /\ L + 1 \in 1..Len(g)
        BY <1>1 DEF Extends
    <2>2. L + 1 = 1 \/ g[L + 1 - 1] \in Delimiters
        BY <1>1, <2>1 DEF Extends, AtStart
    <2>3. Depth(g, L + 1) = Depth(f, L + 1)
        BY <1>1, DepthKept
    <2> QED
        BY <2>1, <2>2, <2>3 DEF Directives
<1>4. ASSUME NEW n \in Directives(g, word, depth), n \notin 1..(L + 1)
      PROVE  FALSE
    <2>1. n \in 1..(L + Len(t)) /\ n # 1 /\ g[n - 1] \in Delimiters
        BY <1>1, <1>4 DEF Directives
    <2>2. PICK j \in 2..Len(t) : n = L + j
        <3>1. n - L \in 2..Len(t) /\ n = L + (n - L)
            BY <1>1, <1>4, <2>1
        <3> QED
            BY <3>1
    <2>3. n - 1 = L + (j - 1) /\ j - 1 \in 1..Len(t) /\ j - 1 \in 1..(Len(t) - 1)
        BY <1>1, <2>2
    <2>4. g[L + (j - 1)] = t[j - 1]
        BY <2>3 DEF Extends
    <2> QED
        BY <2>1, <2>3, <2>4 DEF Sentence
<1>5. Directives(f, word, depth) \subseteq 1..L
    BY DEF Directives
<1> HIDE DEF L
<1>6. L + 1 \notin 1..L /\ 1..L \subseteq 1..(L + 1) /\ \A n \in 1..(L + 1) : n \in 1..L \/ n = L + 1
    BY <1>1
<1>7. \A n : n \in Directives(g, word, depth) <=>
               \/ n \in Directives(f, word, depth)
               \/ n = L + 1 /\ t[1] = word /\ Depth(f, L + 1) = depth
    BY <1>2, <1>3, <1>4, <1>5, <1>6
<1> QED
    BY <1>7 DEF L

(* A block is closed by a brace at its depth.                                  *)
LEMMA CompleteJoined ==
    ASSUME NEW f, NEW t, NEW g, Extends(f, t, g), Sentence(t), NEW b \in 1..Len(f)
    PROVE  Complete(g, b) <=>
             \/ Complete(f, b)
             \/ t[1] = RBrace /\ Depth(f, Len(f) + 1) = Depth(f, b) + 1
<1> DEFINE L == Len(f)
<1>1. L \in Nat /\ Len(t) \in Nat \ {0} /\ Len(g) = L + Len(t)
    BY DEF Extends
<1>2. Depth(g, b) = Depth(f, b)
    BY <1>1, DepthKept
<1>3. ASSUME NEW k \in b..L
      PROVE  Ends(g, b, k) <=> Ends(f, b, k)
    <2>1. k \in 1..L /\ k \in 1..(L + 1)
        BY <1>1
    <2>2. g[k] = f[k] /\ Depth(g, k) = Depth(f, k)
        BY <2>1, DepthKept DEF Extends
    <2> QED
        BY <1>2, <2>2 DEF Ends
<1>4. ASSUME NEW j \in 1..Len(t)
      PROVE  Ends(g, b, L + j) <=>
               t[1] = RBrace /\ j = 1 /\ Depth(f, L + 1) = Depth(f, b) + 1
    <2>1. g[L + j] = t[j] /\ Depth(g, L + j) = Depth(f, L + 1)
        BY DepthWithin DEF Extends
    <2>2. t[j] = RBrace <=> t[1] = RBrace /\ j = 1
        <3>1. RBrace \in Delimiters
            BY DEF Delimiters
        <3>2. ASSUME t[j] = RBrace PROVE j = 1
            <4>1. j \notin 1..(Len(t) - 1)
                BY <3>1, <3>2 DEF Sentence
            <4>2. j = Len(t)
                BY <1>1, <4>1
            <4> QED
                BY <3>2, <4>2 DEF Sentence
        <3> QED
            BY <3>2
    <2> QED
        BY <1>2, <2>1, <2>2 DEF Ends
<1>5. \A k : k \in b..Len(g) <=> k \in b..L \/ \E j \in 1..Len(t) : k = L + j
    <2>1. ASSUME NEW k \in b..Len(g), k \notin b..L
          PROVE  \E j \in 1..Len(t) : k = L + j
        <3>1. k - L \in 1..Len(t) /\ k = L + (k - L)
            BY <1>1, <2>1
        <3> QED
            BY <3>1
    <2>2. b..L \subseteq b..Len(g) /\ \A j \in 1..Len(t) : L + j \in b..Len(g)
        BY <1>1
    <2> QED
        BY <2>1, <2>2
<1> HIDE DEF L
<1>6. 1 \in 1..Len(t)
    BY <1>1
<1>7. Complete(g, b) <=> \/ \E k \in b..L : Ends(g, b, k)
                         \/ \E j \in 1..Len(t) : Ends(g, b, L + j)
    BY <1>5 DEF Complete
<1>8. Complete(f, b) <=> \E k \in b..L : Ends(f, b, k)
    BY DEF Complete, L
<1> QED
    BY <1>3, <1>4, <1>6, <1>7, <1>8 DEF L

(* A sentence of the open block adds its directive, any other adds none.       *)
LEMMA InJoined ==
    ASSUME NEW f, NEW t, NEW g, Extends(f, t, g), Sentence(t), AtStart(f),
           NEW b \in 1..Len(f), NEW word, word \notin Delimiters
    PROVE  In(g, b, word) =
             In(f, b, word)
               \cup (IF /\ t[1] = word /\ ~Complete(f, b)
                        /\ Depth(f, Len(f) + 1) = Depth(f, b) + 1
                     THEN {Len(f) + 1} ELSE {})
<1> DEFINE L == Len(f)
           d == Depth(f, b) + 1
<1>1. L \in Nat /\ Len(t) \in Nat \ {0} /\ Len(g) = L + Len(t) /\ b \in 1..(L + 1)
    BY DEF Extends
<1>2. Depth(g, b) = Depth(f, b)
    BY <1>1, DepthKept
<1>3. Directives(g, word, d) =
        Directives(f, word, d)
          \cup (IF t[1] = word /\ Depth(f, L + 1) = d THEN {L + 1} ELSE {})
    BY DirectivesJoined
<1>4. ASSUME NEW k \in 1..(L + 1), t[1] = word
      PROVE  k = L + 1 => ~Ends(g, b, k)
    <2>1. RBrace # word /\ g[L + 1] = t[1]
        BY <1>1 DEF Delimiters, Extends
    <2> QED
        BY <1>4, <2>1 DEF Ends
<1>5. ASSUME NEW k \in 1..L
      PROVE  Ends(g, b, k) <=> Ends(f, b, k)
    <2>1. g[k] = f[k] /\ Depth(g, k) = Depth(f, k)
        <3>1. k \in 1..(L + 1)
            BY <1>1
        <3> QED
            BY <3>1, DepthKept DEF Extends
    <2> QED
        BY <1>2, <2>1 DEF Ends
<1>6. ASSUME NEW n \in 1..L
      PROVE  (\A k \in b..n : ~Ends(g, b, k)) <=> (\A k \in b..n : ~Ends(f, b, k))
    BY <1>1, <1>5
<1>7. ASSUME t[1] = word
      PROVE  (\A k \in b..(L + 1) : ~Ends(g, b, k)) <=> ~Complete(f, b)
    <2>1. b..(L + 1) = b..L \cup {L + 1}
        BY <1>1
    <2>2. L + 1 \in 1..(L + 1) /\ \A k \in b..L : k \in 1..L
        BY <1>1
    <2>3. ~Ends(g, b, L + 1)
        BY <1>4, <1>7, <2>2
    <2> HIDE DEF L
    <2>4. (\A k \in b..(L + 1) : ~Ends(g, b, k)) <=> \A k \in b..L : ~Ends(f, b, k)
        BY <1>5, <2>1, <2>2, <2>3
    <2> QED
        BY <2>4 DEF Complete, L
<1>8. Directives(f, word, d) \subseteq 1..L /\ L + 1 > b
    BY <1>1 DEF Directives
<1>9. /\ \A n : n \in In(f, b, word) <=>
                  n \in Directives(f, word, d) /\ n > b /\ \A k \in b..n : ~Ends(f, b, k)
      /\ \A n : n \in In(g, b, word) <=>
                  n \in Directives(g, word, d) /\ n > b /\ \A k \in b..n : ~Ends(g, b, k)
    BY <1>2 DEF In
<1> HIDE DEF L, d
<1>10. \A n : n \in In(g, b, word) <=>
                \/ n \in In(f, b, word)
                \/ n = L + 1 /\ t[1] = word /\ ~Complete(f, b) /\ Depth(f, L + 1) = d
    <2>1. ASSUME NEW n, n \in Directives(f, word, d)
          PROVE  n \in In(g, b, word) <=> n \in In(f, b, word)
        BY <1>3, <1>6, <1>8, <1>9, <2>1
    <2>2. L + 1 \notin 1..L
        BY <1>1
    <2>3. L + 1 \in In(g, b, word)
            <=> t[1] = word /\ ~Complete(f, b) /\ Depth(f, L + 1) = d
        BY <1>3, <1>7, <1>8, <1>9, <2>2
    <2> QED
        BY <1>3, <1>8, <1>9, <2>1, <2>2, <2>3
<1> QED
    BY <1>10 DEF L, d

(* A block begins with nothing in it.                                          *)
LEMMA BlockOpened ==
    ASSUME NEW f, NEW t, NEW g, Extends(f, t, g), Sentence(t), t[1] # RBrace
    PROVE  /\ ~Complete(g, Len(f) + 1)
           /\ \A word : In(g, Len(f) + 1, word) = {}
<1> DEFINE L == Len(f)
<1>1. L \in Nat /\ Len(t) \in Nat \ {0} /\ Len(g) = L + Len(t)
    BY DEF Extends
<1>2. ASSUME NEW k \in (L + 1)..Len(g)
      PROVE  Depth(g, k) # Depth(g, L + 1) + 1
    <2>1. PICK j \in 1..Len(t) : k = L + j
        <3>1. k - L \in 1..Len(t) /\ k = L + (k - L)
            BY <1>1
        <3> QED
            BY <3>1
    <2>2. 1 \in 1..Len(t)
        BY <1>1
    <2>3. Depth(g, k) = Depth(f, L + 1) /\ Depth(g, L + 1) = Depth(f, L + 1)
        BY <2>1, <2>2, DepthWithin
    <2>4. Depth(f, L + 1) \in Int
        BY <1>1, DepthType
    <2> QED
        BY <2>3, <2>4
<1>3. ~Complete(g, L + 1)
    BY <1>2 DEF Complete, Ends
<1>4. ASSUME NEW word, NEW n \in In(g, L + 1, word)
      PROVE  FALSE
    <2>1. n \in 1..Len(g) /\ n > L + 1 /\ Depth(g, n) = Depth(g, L + 1) + 1
        BY <1>4 DEF In, Directives
    <2> QED
        BY <1>1, <1>2, <2>1
<1> QED
    BY <1>3, <1>4

-----------------------------------------------------------------------------
(* The arguments of directives.                                                *)

(* A non-empty set of positions has a last one.                                *)
LEMMA LastPosition ==
    ASSUME NEW n \in Nat, NEW S, S \subseteq 1..n, S # {}
    PROVE  Max(S) \in S /\ \A m \in S : m <= Max(S)
<1> DEFINE D == {n - m : m \in S}
<1>1. D \subseteq Nat /\ D # {}
    <2>1. \A m \in S : n - m \in Nat
        OBVIOUS
    <2> QED
        BY <2>1
<1>2. PICK d \in D : \A e \in D : ~(<<e, d>> \in OpToRel(<, Nat))
    BY <1>1, NatLessThanWellFounded, WFMin, Zenon
<1>3. PICK m \in S : d = n - m
    OBVIOUS
<1>4. ASSUME NEW k \in S PROVE m >= k
    <2>1. n - k \in D /\ n - k \in Nat /\ d \in Nat
        BY <1>1
    <2>2. ~(n - k < d)
        BY <1>2, <2>1, Zenon DEF OpToRel
    <2> QED
        BY <1>3, <2>1, <2>2
<1>5. Max(S) \in S /\ \A k \in S : Max(S) >= k
    <2>1. \E x \in S : \A y \in S : x >= y
        BY <1>4
    <2> QED
        BY <2>1 DEF Max
<1> QED
    BY <1>5

(* It is the one that was added, if that is behind the others.                 *)
LEMMA LastAdded ==
    ASSUME NEW n \in Nat, NEW S, S \subseteq 1..n
    PROVE  Max(S \cup {n + 1}) = n + 1
<1> DEFINE T == S \cup {n + 1}
<1>1. n + 1 \in T /\ T \subseteq 1..(n + 1) /\ T # {} /\ n + 1 \in Nat
    OBVIOUS
<1> HIDE DEF T
<1>2. Max(T) \in T /\ \A m \in T : m <= Max(T)
    BY <1>1, LastPosition
<1>3. Max(T) \in 1..(n + 1) /\ n + 1 <= Max(T)
    BY <1>1, <1>2
<1>4. Max(T) = n + 1
    BY <1>3
<1> QED
    BY <1>4 DEF T

(* Directives with two arguments have both.                                    *)
TwoArguments == {"error_page", "return", "cgi_interpreter"}

Whole(f) ==
    \A n \in 1..Len(f) :
        /\ f[n] \notin Delimiters
        /\ n = 1 \/ f[n - 1] \in Delimiters
        => n + 1 <= Len(f) /\ (f[n] \in TwoArguments => n + 2 <= Len(f))

LEMMA WholeJoined ==
    ASSUME NEW f, NEW t, NEW g, Extends(f, t, g), Sentence(t), AtStart(f), Whole(f),
           t[1] \in TwoArguments => Len(t) > 2
    PROVE  Whole(g) /\ AtStart(g)
<1> DEFINE L == Len(f)
<1>1. L \in Nat /\ Len(t) \in Nat \ {0} /\ Len(g) = L + Len(t)
    BY DEF Extends
<1>2. AtStart(g)
    <2>1. g[L + Len(t)] = t[Len(t)]
        BY <1>1 DEF Extends
    <2> QED
        BY <1>1, <2>1 DEF AtStart, Sentence
<1>3. ASSUME NEW n \in 1..Len(g), g[n] \notin Delimiters, n = 1 \/ g[n - 1] \in Delimiters
      PROVE  n + 1 <= Len(g) /\ (g[n] \in TwoArguments => n + 2 <= Len(g))
    <2>1. CASE n \in 1..L
        <3>1. g[n] = f[n] /\ (n # 1 => g[n - 1] = f[n - 1])
            BY <1>1, <2>1 DEF Extends
        <3>2. n + 1 <= L /\ (f[n] \in TwoArguments => n + 2 <= L)
            BY <1>3, <2>1, <3>1 DEF Whole
        <3> QED
            BY <1>1, <3>1, <3>2
    <2>2. CASE n \notin 1..L
        <3>1. PICK j \in 1..Len(t) : n = L + j
            <4>1. n - L \in 1..Len(t) /\ n = L + (n - L)
                BY <1>1, <2>2
            <4> QED
                BY <4>1
        <3>2. j = 1
            <4> SUFFICES ASSUME j # 1 PROVE FALSE
                OBVIOUS
            <4>1. n # 1 /\ n - 1 = L + (j - 1) /\ j - 1 \in 1..Len(t) /\ j - 1 \in 1..(Len(t) - 1)
                BY <1>1, <3>1
            <4>2. g[L + (j - 1)] = t[j - 1]
                BY <4>1 DEF Extends
            <4> QED
                BY <1>3, <4>1, <4>2 DEF Sentence
        <3>3. g[n] = t[1]
            BY <1>1, <3>1, <3>2 DEF Extends
        <3>4. Len(t) # 1
            BY <1>3, <3>3 DEF Sentence
        <3>5. n + 1 <= Len(g) /\ (Len(t) > 2 => n + 2 <= Len(g))
            BY <1>1, <3>1, <3>2, <3>4
        <3> QED
            BY <3>3, <3>5
    <2> QED
        BY <2>1, <2>2
<1> QED
    BY <1>2, <1>3 DEF Whole

(* What a directive in a block takes is in the file.                           *)
LEMMA ArgumentsRead ==
    ASSUME NEW f, Len(f) \in Nat, Whole(f), NEW b, NEW word, word \notin Delimiters,
           NEW n \in In(f, b, word), NEW k \in 1..2, k = 2 => word \in TwoArguments
    PROVE  n \in 1..Len(f) /\ n + k \in 1..Len(f)
<1>1. n \in 1..Len(f) /\ f[n] = word /\ (n = 1 \/ f[n - 1] \in Delimiters)
    BY DEF In, Directives
<1>2. n + 1 <= Len(f) /\ (word \in TwoArguments => n + 2 <= Len(f))
    BY <1>1 DEF Whole
<1> QED
    BY <1>1, <1>2

(* What a block says stays as it is when no directive is added to it.          *)
LEMMA SaysKept ==
    ASSUME NEW f, NEW t, NEW g, Extends(f, t, g), Whole(f), AtStart(f), Sentence(t), NEW b,
           NEW word, word \notin Delimiters, In(g, b, word) = In(f, b, word)
    PROVE  /\ \A k \in 1..2 : \A default : (k = 2 => word \in TwoArguments)
                => Says(g, b, word, k, default) = Says(f, b, word, k, default)
           /\ word \in TwoArguments => \A k \in 1..2, v \in 1..2 :
                SaysFor(g, b, word, k, v) = SaysFor(f, b, word, k, v)
           /\ SaysAll(g, b, word) = SaysAll(f, b, word)
<1> DEFINE I == In(f, b, word)
           L == Len(f)
<1>1. L \in Nat /\ Len(t) \in Nat \ {0} /\ Len(g) = L + Len(t)
    BY DEF Extends
<1>2. I \subseteq 1..L
    BY DEF In, Directives
<1>3. ASSUME NEW n \in I, NEW k \in 1..2, k = 2 => word \in TwoArguments
      PROVE  g[n + k] = f[n + k]
    BY <1>1, <1>3, ArgumentsRead DEF Extends
<1>4. ASSUME NEW k \in 1..2, NEW default, k = 2 => word \in TwoArguments
      PROVE  Says(g, b, word, k, default) = Says(f, b, word, k, default)
    <2>1. CASE I = {}
        BY <2>1 DEF Says
    <2>2. CASE I # {}
        <3> HIDE DEF I
        <3>1. Max(I) \in I
            BY <1>1, <1>2, <2>2, LastPosition
        <3>2. g[Max(I) + k] = f[Max(I) + k]
            BY <1>3, <1>4, <3>1
        <3> QED
            BY <2>2, <3>2 DEF Says, I
    <2> QED
        BY <2>1, <2>2
<1>5. ASSUME NEW k \in 1..2, NEW v \in 1..2, word \in TwoArguments
      PROVE  SaysFor(g, b, word, k, v) = SaysFor(f, b, word, k, v)
    <2> DEFINE Keyed(x) == {n \in I : f[n + k] = x}
               Keys == {f[n + k] : n \in I}
    <2>1. \A n \in I : g[n + k] = f[n + k]
        BY <1>3, <1>5
    <2>2. {g[n + k] : n \in I} = Keys
        BY <2>1
    <2>3. \A x : {n \in I : g[n + k] = x} = Keyed(x)
        BY <2>1
    <2>4. ASSUME NEW x \in Keys
          PROVE  g[Max(Keyed(x)) + v] = f[Max(Keyed(x)) + v]
        <3>1. Keyed(x) # {} /\ Keyed(x) \subseteq I
            OBVIOUS
        <3> HIDE DEF Keyed, I
        <3>2. Max(Keyed(x)) \in I
            BY <1>1, <1>2, <3>1, LastPosition
        <3> QED
            BY <1>3, <1>5, <3>2
    <2>5. SaysFor(g, b, word, k, v) = [x \in Keys |-> g[Max(Keyed(x)) + v]]
        BY <2>2, <2>3 DEF SaysFor
    <2>6. SaysFor(f, b, word, k, v) = [x \in Keys |-> f[Max(Keyed(x)) + v]]
        BY DEF SaysFor
    <2> HIDE DEF Keyed, Keys
    <2> QED
        BY <2>4, <2>5, <2>6
<1>6. SaysAll(g, b, word) = SaysAll(f, b, word)
    <2> DEFINE Listed(h, m) == \E n \in I : n < m /\ \A k \in n..m : h[k] \notin Delimiters
    <2>1. ASSUME NEW m \in 1..L
          PROVE  Listed(g, m) <=> Listed(f, m)
        <3>1. \A n \in I : \A k \in n..m : g[k] = f[k]
            BY <1>1, <1>2 DEF Extends
        <3> HIDE DEF I
        <3> QED
            BY <3>1
    <2>2. ASSUME NEW m \in 1..Len(g), m \notin 1..L
          PROVE  ~Listed(g, m)
        <3> SUFFICES ASSUME NEW n \in I, n < m, \A k \in n..m : g[k] \notin Delimiters
                     PROVE  FALSE
            OBVIOUS
        <3>1. n \in 1..L /\ L \in n..m
            BY <1>1, <1>2, <2>2
        <3>2. L # 0 /\ g[L] = f[L]
            BY <1>1, <3>1 DEF Extends
        <3> QED
            BY <3>1, <3>2 DEF AtStart
    <2>3. 1..L \subseteq 1..Len(g)
        BY <1>1
    <2>4. {m \in 1..Len(g) : Listed(g, m)} = {m \in 1..L : Listed(f, m)}
        <3> HIDE DEF Listed
        <3> QED
            BY <2>1, <2>2, <2>3
    <2>5. \A m \in 1..L : g[m] = f[m]
        BY DEF Extends
    <2>6. {g[m] : m \in {m \in 1..Len(g) : Listed(g, m)}}
            = {f[m] : m \in {m \in 1..L : Listed(f, m)}}
        <3> HIDE DEF Listed
        <3> QED
            BY <2>4, <2>5
    <2> QED
        BY <2>6 DEF SaysAll
<1> QED
    BY <1>4, <1>5, <1>6

(* What a sentence says after its first word.                                  *)
Arguments(t) == {t[j] : j \in 2..(Len(t) - 1)}

(* A directive that is added says the last word, or a word of its own.         *)
LEMMA SaysMore ==
    ASSUME NEW f, NEW t, NEW g, Extends(f, t, g), Whole(f), AtStart(f), Sentence(t), NEW b,
           NEW word, word \notin Delimiters,
           In(g, b, word) = In(f, b, word) \cup {Len(f) + 1}
    PROVE  /\ \A k \in 1..2 : \A default : (k = 2 => word \in TwoArguments) /\ k < Len(t)
                => Says(g, b, word, k, default) = t[k + 1]
           /\ word \in TwoArguments /\ Len(t) > 2 => \A k \in 1..2, v \in 1..2 :
                SaysFor(g, b, word, k, v)
                  = Assigned(SaysFor(f, b, word, k, v), t[k + 1], t[v + 1])
           /\ SaysAll(g, b, word) = SaysAll(f, b, word) \cup Arguments(t)
<1> DEFINE I == In(f, b, word)
           L == Len(f)
<1>1. L \in Nat /\ Len(t) \in Nat \ {0} /\ Len(g) = L + Len(t)
    BY DEF Extends
<1>2. I \subseteq 1..L
    BY DEF In, Directives
<1>3. \A k \in 1..2 : k < Len(t) => g[L + 1 + k] = t[k + 1]
    <2> SUFFICES ASSUME NEW k \in 1..2, k < Len(t) PROVE g[L + 1 + k] = t[k + 1]
        OBVIOUS
    <2>1. L + 1 + k = L + (k + 1) /\ k + 1 \in 1..Len(t)
        BY <1>1
    <2> QED
        BY <2>1 DEF Extends
<1>4. Max(I \cup {L + 1}) = L + 1
    <2> HIDE DEF I, L
    <2> QED
        BY <1>1, <1>2, LastAdded
<1>5. ASSUME NEW k \in 1..2, NEW default, k < Len(t)
      PROVE  Says(g, b, word, k, default) = t[k + 1]
    BY <1>3, <1>4, <1>5 DEF Says
<1>6. ASSUME NEW k \in 1..2, NEW v \in 1..2, word \in TwoArguments, Len(t) > 2
      PROVE  SaysFor(g, b, word, k, v)
               = Assigned(SaysFor(f, b, word, k, v), t[k + 1], t[v + 1])
    <2> DEFINE Keyed(x) == {n \in I : f[n + k] = x}
               More(x)  == {n \in I \cup {L + 1} : g[n + k] = x}
               Keys == {f[n + k] : n \in I}
               key == t[k + 1]
    <2>1. ASSUME NEW n \in I
          PROVE  g[n + k] = f[n + k] /\ g[n + v] = f[n + v]
        BY <1>1, <1>6, ArgumentsRead DEF Extends
    <2>2. g[L + 1 + k] = key /\ g[L + 1 + v] = t[v + 1]
        BY <1>1, <1>3, <1>6
    <2>3. {g[n + k] : n \in I \cup {L + 1}} = Keys \cup {key}
        <3> HIDE DEF I, key
        <3>1. {g[n + k] : n \in I \cup {L + 1}} = {g[n + k] : n \in I} \cup {g[L + 1 + k]}
            OBVIOUS
        <3>2. {g[n + k] : n \in I} = Keys
            BY <2>1
        <3> QED
            BY <2>2, <3>1, <3>2
    <2>4. \A x : More(x) = IF x = key THEN Keyed(x) \cup {L + 1} ELSE Keyed(x)
        <3> HIDE DEF I, key
        <3> QED
            BY <2>1, <2>2
    <2>5. ASSUME NEW x \in Keys \cup {key}, x # key
          PROVE  g[Max(More(x)) + v] = f[Max(Keyed(x)) + v]
        <3>1. Keyed(x) # {} /\ Keyed(x) \subseteq I /\ More(x) = Keyed(x)
            BY <2>4, <2>5
        <3> HIDE DEF Keyed, I, More
        <3>2. Max(Keyed(x)) \in I
            BY <1>1, <1>2, <3>1, LastPosition
        <3> QED
            BY <2>1, <3>1, <3>2
    <2>6. g[Max(More(key)) + v] = t[v + 1]
        <3>1. Keyed(key) \subseteq 1..L /\ More(key) = Keyed(key) \cup {L + 1}
            BY <1>2, <2>4
        <3> HIDE DEF Keyed, More, L, key
        <3>2. Max(Keyed(key) \cup {L + 1}) = L + 1
            BY <1>1, <3>1, LastAdded
        <3> QED
            BY <2>2, <3>1, <3>2
    <2>7. SaysFor(g, b, word, k, v) = [x \in Keys \cup {key} |-> g[Max(More(x)) + v]]
        BY <2>3 DEF SaysFor
    <2>8. SaysFor(f, b, word, k, v) = [x \in Keys |-> f[Max(Keyed(x)) + v]]
        BY DEF SaysFor
    <2> HIDE DEF Keyed, More, Keys, key
    <2>9. Assigned(SaysFor(f, b, word, k, v), key, t[v + 1])
            = [x \in Keys \cup {key} |->
                 IF x = key THEN t[v + 1] ELSE f[Max(Keyed(x)) + v]]
        BY <2>8 DEF Assigned
    <2> QED
        BY <2>5, <2>6, <2>7, <2>9 DEF key
<1>7. SaysAll(g, b, word) = SaysAll(f, b, word) \cup Arguments(t)
    <2> DEFINE Listed(h, m) == \E n \in I : n < m /\ \A k \in n..m : h[k] \notin Delimiters
               ListedMore(m) ==
                   \E n \in I \cup {L + 1} : n < m /\ \A k \in n..m : g[k] \notin Delimiters
    <2>1. ASSUME NEW m \in 1..L
          PROVE  ListedMore(m) <=> Listed(f, m)
        <3>1. \A n \in I : \A k \in n..m : g[k] = f[k]
            BY <1>1, <1>2 DEF Extends
        <3>2. ~(L + 1 < m)
            BY <1>1
        <3> HIDE DEF I
        <3> QED
            BY <3>1, <3>2
    <2>2. ASSUME NEW j \in 1..Len(t)
          PROVE  ListedMore(L + j) <=> j \in 2..(Len(t) - 1)
        <3>1. ASSUME NEW n \in I, \A k \in n..(L + j) : g[k] \notin Delimiters PROVE FALSE
            <4>1. n \in 1..L /\ L \in n..(L + j) /\ L # 0
                BY <1>1, <1>2
            <4>2. g[L] = f[L]
                BY <1>1, <4>1 DEF Extends
            <4> QED
                BY <3>1, <4>1, <4>2 DEF AtStart
        <3>2. ASSUME j \in 2..(Len(t) - 1) PROVE ListedMore(L + j)
            <4>1. ASSUME NEW k \in (L + 1)..(L + j) PROVE g[k] \notin Delimiters
                <5>1. k - L \in 1..Len(t) /\ k - L \in 1..(Len(t) - 1) /\ L + (k - L) = k
                    BY <1>1, <3>2
                <5>2. g[k] = t[k - L]
                    BY <5>1 DEF Extends
                <5> QED
                    BY <5>1, <5>2 DEF Sentence
            <4>2. L + 1 < L + j
                BY <1>1, <3>2
            <4> QED
                BY <4>1, <4>2
        <3>3. ASSUME L + 1 < L + j, \A k \in (L + 1)..(L + j) : g[k] \notin Delimiters
              PROVE  j \in 2..(Len(t) - 1)
            <4>1. L + j \in (L + 1)..(L + j) /\ g[L + j] = t[j] /\ j # 1
                BY <1>1, <3>3 DEF Extends
            <4>2. t[j] \notin Delimiters
                BY <3>3, <4>1
            <4>3. j # Len(t)
                BY <4>2 DEF Sentence
            <4> QED
                BY <1>1, <4>1, <4>3
        <3> HIDE DEF I
        <3> QED
            BY <3>1, <3>2, <3>3
    <2>3. \A m : m \in 1..Len(g) <=> m \in 1..L \/ \E j \in 1..Len(t) : m = L + j
        <3>1. ASSUME NEW m \in 1..Len(g), m \notin 1..L
              PROVE  \E j \in 1..Len(t) : m = L + j
            <4>1. m - L \in 1..Len(t) /\ m = L + (m - L)
                BY <1>1, <3>1
            <4> QED
                BY <4>1
        <3>2. 1..L \subseteq 1..Len(g) /\ \A j \in 1..Len(t) : L + j \in 1..Len(g)
            BY <1>1
        <3> QED
            BY <3>1, <3>2
    <2>4. /\ \A m \in 1..L : g[m] = f[m]
          /\ \A j \in 1..Len(t) : g[L + j] = t[j]
          /\ 2..(Len(t) - 1) \subseteq 1..Len(t)
        BY <1>1 DEF Extends
    <2> HIDE DEF Listed, ListedMore, L
    <2>5. ASSUME NEW x
          PROVE  (\E m \in 1..Len(g) : ListedMore(m) /\ x = g[m])
             <=> \/ \E m \in 1..L : Listed(f, m) /\ x = f[m]
                 \/ \E j \in 2..(Len(t) - 1) : x = t[j]
        <3>1. ASSUME NEW m \in 1..Len(g), ListedMore(m), x = g[m]
              PROVE  \/ \E i \in 1..L : Listed(f, i) /\ x = f[i]
                     \/ \E j \in 2..(Len(t) - 1) : x = t[j]
            <4>1. CASE m \in 1..L
                BY <2>1, <2>4, <3>1, <4>1
            <4>2. ASSUME NEW j \in 1..Len(t), m = L + j
                  PROVE  \E i \in 2..(Len(t) - 1) : x = t[i]
                BY <2>2, <2>4, <3>1, <4>2
            <4> QED
                BY <2>3, <4>1, <4>2
        <3>2. ASSUME NEW m \in 1..L, Listed(f, m), x = f[m]
              PROVE  \E i \in 1..Len(g) : ListedMore(i) /\ x = g[i]
            <4>1. m \in 1..Len(g) /\ ListedMore(m) /\ x = g[m]
                BY <2>1, <2>3, <2>4, <3>2
            <4> QED
                BY <4>1
        <3>3. ASSUME NEW j \in 2..(Len(t) - 1), x = t[j]
              PROVE  \E i \in 1..Len(g) : ListedMore(i) /\ x = g[i]
            <4>1. j \in 1..Len(t)
                BY <2>4
            <4>2. L + j \in 1..Len(g) /\ ListedMore(L + j) /\ x = g[L + j]
                BY <2>2, <2>3, <2>4, <3>3, <4>1
            <4> QED
                BY <4>2
        <3> QED
            BY <3>1, <3>2, <3>3
    <2>6. /\ SaysAll(g, b, word) = {g[m] : m \in {m \in 1..Len(g) : ListedMore(m)}}
          /\ SaysAll(f, b, word) = {f[m] : m \in {m \in 1..L : Listed(f, m)}}
        BY DEF SaysAll, Listed, ListedMore, L
    <2>7. \A x : x \in SaysAll(g, b, word)
             <=> x \in SaysAll(f, b, word) \/ x \in Arguments(t)
        BY <2>5, <2>6 DEF Arguments
    <2> QED
        BY <2>7
<1> QED
    BY <1>5, <1>6, <1>7

-----------------------------------------------------------------------------
(* Positions in their order.                                                   *)

(* o lists the n positions of S.                                               *)
Enumerates(o, n, S) ==
    /\ n \in Nat /\ o \in [1..n -> Nat] /\ S = {o[i] : i \in 1..n}
    /\ \A i, j \in 1..n : i < j => o[i] < o[j]

Ordered(S) == \E n \in Nat : \E o \in [1..n -> Nat] : Enumerates(o, n, S)

LEMMA CountPositions ==
    ASSUME NEW n \in Nat, NEW o \in [1..n -> Nat],
           \A i, j \in 1..n : i < j => o[i] < o[j], NEW k \in 0..n
    PROVE  Cardinality({o[i] : i \in 1..k}) = k
<1> DEFINE T == {o[i] : i \in 1..k}
           b == [i \in 1..k |-> o[i]]
<1>1. b \in [1..k -> T]
    OBVIOUS
<1>2. \A i, j \in 1..k : b[i] = b[j] => i = j
    <2> SUFFICES ASSUME NEW i \in 1..k, NEW j \in 1..k, i # j PROVE b[i] # b[j]
        OBVIOUS
    <2>1. i \in 1..n /\ j \in 1..n /\ o[i] \in Nat /\ o[j] \in Nat
        OBVIOUS
    <2>2. i < j \/ j < i
        OBVIOUS
    <2>3. o[i] < o[j] \/ o[j] < o[i]
        BY <2>1, <2>2
    <2> QED
        BY <2>1, <2>3
<1>3. \A x \in T : \E i \in 1..k : b[i] = x
    OBVIOUS
<1> HIDE DEF T, b
<1>4. b \in Bijection(1..k, T)
    BY <1>1, <1>2, <1>3, Zenon DEF Bijection, Injection, IsInjective, Surjection
<1>5. ExistsBijection(1..k, T)
    BY <1>4 DEF ExistsBijection
<1>6. k \in Nat
    OBVIOUS
<1> QED
    BY <1>5, <1>6, FS_CountingElements DEF T

(* InOrder finds the order there is.                                           *)
LEMMA InOrderIs ==
    ASSUME NEW n \in Nat, NEW o, NEW S, Enumerates(o, n, S)
    PROVE  DOMAIN InOrder(S) = 1..n /\ \A i \in 1..n : InOrder(S)[i] = o[i]
<1>1. n \in Nat /\ o \in [1..n -> Nat] /\ S = {o[i] : i \in 1..n}
    BY DEF Enumerates
<1>2. \A i, j \in 1..n : i < j => o[i] < o[j]
    BY DEF Enumerates
<1>3. \A k \in 0..n : Cardinality({o[i] : i \in 1..k}) = k
    BY <1>1, <1>2, CountPositions
<1> DEFINE Rank(m) == Cardinality({x \in S : x <= m})
<1>4. ASSUME NEW i \in 1..n
      PROVE  Rank(o[i]) = i
    <2>1. ASSUME NEW j \in 1..n
          PROVE  o[j] <= o[i] <=> j \in 1..i
        <3>1. o[i] \in Nat /\ o[j] \in Nat
            BY <1>1
        <3>2. /\ i < j => o[i] < o[j]
              /\ j < i => o[j] < o[i]
            BY <1>2
        <3>3. CASE i < j
            <4>1. ~(o[j] <= o[i])
                BY <3>1, <3>2, <3>3
            <4> QED
                BY <3>3, <4>1
        <3>4. CASE j < i
            <4>1. o[j] <= o[i]
                BY <3>1, <3>2, <3>4
            <4> QED
                BY <3>4, <4>1
        <3>5. CASE i = j
            BY <3>1, <3>5
        <3> QED
            BY <1>1, <3>3, <3>4, <3>5
    <2>2. {x \in S : x <= o[i]} = {o[j] : j \in 1..i}
        <3>1. 1..i \subseteq 1..n
            BY <1>1
        <3> QED
            BY <1>1, <2>1, <3>1
    <2>3. i \in 0..n
        BY <1>1
    <2> QED
        BY <1>3, <2>2, <2>3
<1>5. Cardinality(S) = n
    <2>1. n \in 0..n
        BY <1>1
    <2> QED
        BY <1>1, <1>3, <2>1
<1>6. ASSUME NEW i \in 1..n
      PROVE  Min({m \in S : Rank(m) = i}) = o[i]
    <2> HIDE DEF Rank
    <2>1. {m \in S : Rank(m) = i} = {o[i]}
        BY <1>1, <1>4
    <2>2. o[i] \in Nat
        BY <1>1
    <2>3. Min({o[i]}) = o[i]
        BY <2>2 DEF Min
    <2> QED
        BY <2>1, <2>3
<1>7. InOrder(S) = [i \in 1..n |-> Min({m \in S : Rank(m) = i})]
    BY <1>5 DEF InOrder
<1> HIDE DEF Rank
<1> QED
    BY <1>6, <1>7

LEMMA OrderedElements ==
    ASSUME NEW S, Ordered(S)
    PROVE  \A i \in DOMAIN InOrder(S) : InOrder(S)[i] \in S
<1>1. PICK n \in Nat : \E o \in [1..n -> Nat] : Enumerates(o, n, S)
    BY DEF Ordered
<1>2. PICK o \in [1..n -> Nat] : Enumerates(o, n, S)
    BY <1>1
<1>3. DOMAIN InOrder(S) = 1..n /\ \A i \in 1..n : InOrder(S)[i] = o[i]
    BY <1>2, InOrderIs
<1> QED
    BY <1>2, <1>3 DEF Enumerates

(* A position behind the others comes last.                                    *)
LEMMA OrderedMore ==
    ASSUME NEW S, Ordered(S), NEW x \in Nat, \A m \in S : m < x
    PROVE  /\ Ordered(S \cup {x})
           /\ \E n \in Nat :
                /\ DOMAIN InOrder(S) = 1..n /\ DOMAIN InOrder(S \cup {x}) = 1..(n + 1)
                /\ \A i \in 1..n : InOrder(S \cup {x})[i] = InOrder(S)[i]
                /\ InOrder(S \cup {x})[n + 1] = x
<1>1. PICK n \in Nat : \E o \in [1..n -> Nat] : Enumerates(o, n, S)
    BY DEF Ordered
<1>2. PICK o \in [1..n -> Nat] : Enumerates(o, n, S)
    BY <1>1
<1> DEFINE p == [i \in 1..(n + 1) |-> IF i = n + 1 THEN x ELSE o[i]]
<1>3. /\ \A i \in 1..(n + 1) : i = n + 1 \/ i \in 1..n
      /\ 1..n \subseteq 1..(n + 1) /\ n + 1 \in 1..(n + 1) /\ n + 1 \notin 1..n
      /\ n + 1 \in Nat
    OBVIOUS
<1>4. p \in [1..(n + 1) -> Nat] /\ p[n + 1] = x /\ \A i \in 1..n : p[i] = o[i]
    BY <1>3
<1>5. S = {o[i] : i \in 1..n} /\ \A i, j \in 1..n : i < j => o[i] < o[j]
    BY <1>2 DEF Enumerates
<1> HIDE DEF p
<1>6. S \cup {x} = {p[i] : i \in 1..(n + 1)}
    BY <1>3, <1>4, <1>5
<1>7. ASSUME NEW i \in 1..(n + 1), NEW j \in 1..(n + 1), i < j
      PROVE  p[i] < p[j]
    <2>1. i \in 1..n
        BY <1>7
    <2>2. CASE j = n + 1
        BY <1>4, <1>5, <2>1, <2>2
    <2>3. CASE j \in 1..n
        BY <1>4, <1>5, <1>7, <2>1, <2>3
    <2> QED
        BY <1>3, <2>2, <2>3
<1>8. Enumerates(p, n + 1, S \cup {x})
    BY <1>3, <1>4, <1>6, <1>7 DEF Enumerates
<1>9. Ordered(S \cup {x})
    BY <1>3, <1>4, <1>8 DEF Ordered
<1>10. /\ DOMAIN InOrder(S \cup {x}) = 1..(n + 1)
       /\ \A i \in 1..(n + 1) : InOrder(S \cup {x})[i] = p[i]
    BY <1>3, <1>8, InOrderIs
<1>11. DOMAIN InOrder(S) = 1..n /\ \A i \in 1..n : InOrder(S)[i] = o[i]
    BY <1>2, InOrderIs
<1> QED
    BY <1>3, <1>4, <1>9, <1>10, <1>11

LEMMA NothingOrdered == Ordered({}) /\ DOMAIN InOrder({}) = {}
<1> DEFINE o == [i \in 1..0 |-> 0]
<1>1. 1..0 = {} /\ o \in [1..0 -> Nat]
    OBVIOUS
<1>2. Enumerates(o, 0, {})
    BY <1>1 DEF Enumerates
<1>3. DOMAIN InOrder({}) = 1..0
    BY <1>2, InOrderIs
<1> QED
    BY <1>1, <1>2, <1>3 DEF Ordered

-----------------------------------------------------------------------------
(* What the blocks of a file say.                                              *)

(* What has been read between two actions.                                     *)
Reads(f, t, g) == Extends(f, t, g) /\ Sentence(t) /\ AtStart(f) /\ Whole(f)

(* No directive with one of these words is added to the block at b.            *)
Same(f, g, b, words) == \A word \in words : In(g, b, word) = In(f, b, word)

LEMMA SameSays ==
    ASSUME NEW f, NEW t, NEW g, Reads(f, t, g), NEW b, NEW words \in SUBSET Words,
           Same(f, g, b, words), NEW word \in words
    PROVE  /\ \A default : Says(g, b, word, 1, default) = Says(f, b, word, 1, default)
           /\ word \in TwoArguments =>
                /\ \A default : Says(g, b, word, 2, default) = Says(f, b, word, 2, default)
                /\ SaysFor(g, b, word, 1, 2) = SaysFor(f, b, word, 1, 2)
                /\ SaysFor(g, b, word, 2, 1) = SaysFor(f, b, word, 2, 1)
           /\ SaysAll(g, b, word) = SaysAll(f, b, word)
<1>1. word \notin Delimiters /\ 1 \in 1..2 /\ 2 \in 1..2 /\ 1 # 2
    BY Distinct
<1>2. In(g, b, word) = In(f, b, word)
    BY DEF Same
<1>3. /\ \A k \in 1..2 : \A default : (k = 2 => word \in TwoArguments)
           => Says(g, b, word, k, default) = Says(f, b, word, k, default)
      /\ word \in TwoArguments => \A k \in 1..2, v \in 1..2 :
           SaysFor(g, b, word, k, v) = SaysFor(f, b, word, k, v)
      /\ SaysAll(g, b, word) = SaysAll(f, b, word)
    BY <1>1, <1>2, SaysKept DEF Reads
<1> QED
    BY <1>1, <1>3

LocationWords ==
    {"root", "methods", "return", "autoindex", "index", "upload_store", "cgi_interpreter"}

(* A location to which nothing is added says the same.                         *)
LEMMA LocationKept ==
    ASSUME NEW f, NEW t, NEW g, Reads(f, t, g), NEW b \in 1..Len(f), b + 1 <= Len(f),
           Same(f, g, b, LocationWords)
    PROVE  LocationMeant(g, b) = LocationMeant(f, b)
<1>1. LocationWords \in SUBSET Words
    BY DEF LocationWords, Words
<1>2. g[b + 1] = f[b + 1]
    BY DEF Reads, Extends
<1>3. \A w \in LocationWords : \A default :
        Says(g, b, w, 1, default) = Says(f, b, w, 1, default)
    BY <1>1, SameSays
<1>4. \A default : Says(g, b, "return", 2, default) = Says(f, b, "return", 2, default)
    BY <1>1, SameSays DEF LocationWords, TwoArguments
<1>5. SaysFor(g, b, "cgi_interpreter", 2, 1) = SaysFor(f, b, "cgi_interpreter", 2, 1)
    BY <1>1, SameSays DEF LocationWords, TwoArguments
<1>6. SaysAll(g, b, "methods") = SaysAll(f, b, "methods")
    BY <1>1, SameSays DEF LocationWords
<1>7. /\ Says(g, b, "root", 1, "") = Says(f, b, "root", 1, "")
      /\ Says(g, b, "return", 1, "") = Says(f, b, "return", 1, "")
      /\ Says(g, b, "autoindex", 1, "off") = Says(f, b, "autoindex", 1, "off")
      /\ Says(g, b, "index", 1, "") = Says(f, b, "index", 1, "")
      /\ Says(g, b, "upload_store", 1, "") = Says(f, b, "upload_store", 1, "")
    BY <1>3 DEF LocationWords
<1> QED
    BY <1>2, <1>4, <1>5, <1>6, <1>7 DEF LocationMeant

(* One more directive with this word in the block at b.                        *)
Adds(f, g, b, word) == In(g, b, word) = In(f, b, word) \cup {Len(f) + 1}

LEMMA AddedSays ==
    ASSUME NEW f, NEW t, NEW g, Reads(f, t, g), NEW b, NEW word \in Words,
           Adds(f, g, b, word), Len(t) > 1
    PROVE  /\ \A default : Says(g, b, word, 1, default) = t[2]
           /\ word \in TwoArguments /\ Len(t) > 2 =>
                /\ \A default : Says(g, b, word, 2, default) = t[3]
                /\ SaysFor(g, b, word, 1, 2) = Assigned(SaysFor(f, b, word, 1, 2), t[2], t[3])
                /\ SaysFor(g, b, word, 2, 1) = Assigned(SaysFor(f, b, word, 2, 1), t[3], t[2])
           /\ SaysAll(g, b, word) = SaysAll(f, b, word) \cup Arguments(t)
<1>1. /\ word \notin Delimiters /\ 1 \in 1..2 /\ 2 \in 1..2 /\ 1 # 2
      /\ 1 + 1 = 2 /\ 2 + 1 = 3 /\ 1 < Len(t)
    BY Distinct
<1>2. In(g, b, word) = In(f, b, word) \cup {Len(f) + 1}
    BY DEF Adds
<1>3. /\ \A k \in 1..2 : \A default : (k = 2 => word \in TwoArguments) /\ k < Len(t)
           => Says(g, b, word, k, default) = t[k + 1]
      /\ word \in TwoArguments /\ Len(t) > 2 => \A k \in 1..2, v \in 1..2 :
           SaysFor(g, b, word, k, v)
             = Assigned(SaysFor(f, b, word, k, v), t[k + 1], t[v + 1])
      /\ SaysAll(g, b, word) = SaysAll(f, b, word) \cup Arguments(t)
    BY <1>1, <1>2, SaysMore DEF Reads
<1>4. Len(t) \in Nat /\ (Len(t) > 2 => 2 < Len(t))
    BY DEF Reads, Extends
<1> QED
    BY <1>1, <1>3, <1>4

(* A location by its fields.                                                   *)
Location(path, root, methods, code, url, auto, page, storage, cgi) ==
    [path |-> path, root |-> root, methods |-> methods, returnCode |-> code,
     returnURL |-> url, autoIndex |-> auto, defaultPage |-> page, storage |-> storage,
     cgi |-> cgi]

(* What the location at b says, field by field.                                *)
LEMMA LocationIs ==
    ASSUME NEW f, NEW b
    PROVE  LocationMeant(f, b) =
             Location(f[b + 1], Says(f, b, "root", 1, ""), SaysAll(f, b, "methods"),
                      Says(f, b, "return", 1, ""), Says(f, b, "return", 2, ""),
                      Says(f, b, "autoindex", 1, "off") = "on", Says(f, b, "index", 1, ""),
                      Says(f, b, "upload_store", 1, ""),
                      SaysFor(f, b, "cgi_interpreter", 2, 1))
    BY Zenon DEF LocationMeant, Location

(* A directive changes what it is about, in a location and in a server.        *)
LocationChange(t, old, new) ==
    /\ t[1] = "root" => new = [old EXCEPT !.root = t[2]]
    /\ t[1] = "methods" => new = [old EXCEPT !.methods = old.methods \cup Arguments(t)]
    /\ t[1] = "return" => new = [old EXCEPT !.returnCode = t[2], !.returnURL = t[3]]
    /\ t[1] = "autoindex" => new = [old EXCEPT !.autoIndex = t[2] = "on"]
    /\ t[1] = "index" => new = [old EXCEPT !.defaultPage = t[2]]
    /\ t[1] = "upload_store" => new = [old EXCEPT !.storage = t[2]]
    /\ t[1] = "cgi_interpreter" =>
          new = [old EXCEPT !.cgi = Assigned(old.cgi, t[3], t[2])]

ServerChange(t, old, new) ==
    /\ t[1] = "server_name" => new = [old EXCEPT !.name = t[2]]
    /\ t[1] = "listen" => new = [old EXCEPT !.listen = AddressMeant(t[2])]
    /\ t[1] = "client_max_body_size" => new = [old EXCEPT !.maxBodySize = NumberMeant(t[2])]
    /\ t[1] = "error_page" =>
          new = [old EXCEPT !.errorPages = Assigned(old.errorPages, t[2], t[3])]

(* The directive t has the arguments it needs.                                 *)
Directive(t, words) ==
    /\ t[1] \in words /\ t[Len(t)] = Semicolon
    /\ Len(t) > 1 /\ (t[1] \in TwoArguments => Len(t) > 2)

LEMMA LocationGrows ==
    ASSUME NEW f, NEW t, NEW g, Reads(f, t, g), NEW b, g[b + 1] = f[b + 1],
           Directive(t, LocationWords), Adds(f, g, b, t[1]),
           Same(f, g, b, LocationWords \ {t[1]})
    PROVE  LocationChange(t, LocationMeant(f, b), LocationMeant(g, b))
<1> DEFINE Root(h)  == Says(h, b, "root", 1, "")
           All(h)   == SaysAll(h, b, "methods")
           Code(h)  == Says(h, b, "return", 1, "")
           Url(h)   == Says(h, b, "return", 2, "")
           Switch(h) == Says(h, b, "autoindex", 1, "off")
           On(h)    == Switch(h) = "on"
           Page(h)  == Says(h, b, "index", 1, "")
           Store(h) == Says(h, b, "upload_store", 1, "")
           Cgi(h)   == SaysFor(h, b, "cgi_interpreter", 2, 1)
           L(h)     == Location(h[b + 1], Root(h), All(h), Code(h), Url(h), On(h),
                                Page(h), Store(h), Cgi(h))
           word     == t[1]
<1>1. /\ LocationWords \ {word} \in SUBSET Words /\ word \in Words /\ Len(t) > 1
      /\ word \in TwoArguments => Len(t) > 2
    BY DEF Directive, LocationWords, Words
<1>2. Adds(f, g, b, word) /\ Same(f, g, b, LocationWords \ {word})
    OBVIOUS
<1> HIDE DEF word
<1>3. /\ word # "root" => Root(g) = Root(f)
      /\ word # "return" => Code(g) = Code(f)
      /\ word # "autoindex" => Switch(g) = Switch(f)
      /\ word # "index" => Page(g) = Page(f)
      /\ word # "upload_store" => Store(g) = Store(f)
    <2>1. \A w \in LocationWords \ {word} : \A default :
            Says(g, b, w, 1, default) = Says(f, b, w, 1, default)
        BY <1>1, <1>2, SameSays
    <2> QED
        BY <2>1 DEF LocationWords
<1>4. /\ word # "return" => Url(g) = Url(f)
      /\ word # "cgi_interpreter" => Cgi(g) = Cgi(f)
      /\ word # "methods" => All(g) = All(f)
    <2>1. ASSUME word # "return" PROVE Url(g) = Url(f)
        <3>1. "return" \in LocationWords \ {word} /\ "return" \in TwoArguments
            BY <2>1 DEF LocationWords, TwoArguments
        <3>2. \A default : Says(g, b, "return", 2, default) = Says(f, b, "return", 2, default)
            BY <1>1, <1>2, <3>1, SameSays
        <3> QED
            BY <3>2
    <2>2. ASSUME word # "cgi_interpreter" PROVE Cgi(g) = Cgi(f)
        BY <1>1, <1>2, <2>2, SameSays DEF LocationWords, TwoArguments
    <2>3. ASSUME word # "methods" PROVE All(g) = All(f)
        BY <1>1, <1>2, <2>3, SameSays DEF LocationWords
    <2> QED
        BY <2>1, <2>2, <2>3
<1>5. /\ \A default : Says(g, b, word, 1, default) = t[2]
      /\ word \in TwoArguments =>
           /\ \A default : Says(g, b, word, 2, default) = t[3]
           /\ SaysFor(g, b, word, 2, 1) = Assigned(SaysFor(f, b, word, 2, 1), t[3], t[2])
      /\ SaysAll(g, b, word) = SaysAll(f, b, word) \cup Arguments(t)
    BY <1>1, <1>2, AddedSays
<1>6. /\ word = "root" => Root(g) = t[2]
      /\ word = "methods" => All(g) = All(f) \cup Arguments(t)
      /\ word = "return" => Code(g) = t[2] /\ Url(g) = t[3]
      /\ word = "autoindex" => Switch(g) = t[2]
      /\ word = "index" => Page(g) = t[2]
      /\ word = "upload_store" => Store(g) = t[2]
      /\ word = "cgi_interpreter" => Cgi(g) = Assigned(Cgi(f), t[3], t[2])
    BY <1>1, <1>5 DEF TwoArguments
<1>7. LocationMeant(f, b) = L(f) /\ LocationMeant(g, b) = L(g)
    BY LocationIs
<1>8. /\ word # "autoindex" => On(g) = On(f)
      /\ word = "autoindex" => On(g) = (t[2] = "on")
    BY <1>3, <1>6
<1> HIDE DEF Root, All, Code, Url, Switch, On, Page, Store, Cgi
<1>9. ASSUME word = "root"
      PROVE  L(g) = [L(f) EXCEPT !.root = t[2]]
    <2>1. [L(f) EXCEPT !.root = t[2]]
            = Location(f[b + 1], t[2], All(f), Code(f), Url(f), On(f), Page(f), Store(f),
                       Cgi(f))
        BY DEF Location
    <2> QED
        BY <1>3, <1>4, <1>6, <1>8, <1>9, <2>1
<1>10. ASSUME word = "methods"
       PROVE  L(g) = [L(f) EXCEPT !.methods = L(f).methods \cup Arguments(t)]
    <2> DEFINE both == All(f) \cup Arguments(t)
    <2>1. L(f).methods \cup Arguments(t) = both
        BY DEF Location
    <2>2. L(g) = Location(f[b + 1], Root(f), both, Code(f), Url(f), On(f), Page(f),
                          Store(f), Cgi(f))
        BY <1>3, <1>4, <1>6, <1>8, <1>10
    <2> HIDE DEF both
    <2>3. [L(f) EXCEPT !.methods = both]
            = Location(f[b + 1], Root(f), both, Code(f), Url(f), On(f), Page(f), Store(f),
                       Cgi(f))
        BY DEF Location
    <2> HIDE DEF L
    <2> QED
        BY <2>1, <2>2, <2>3
<1>11. ASSUME word = "return"
       PROVE  L(g) = [L(f) EXCEPT !.returnCode = t[2], !.returnURL = t[3]]
    <2> DEFINE L1 == Location(f[b + 1], Root(f), All(f), t[2], Url(f), On(f), Page(f),
                              Store(f), Cgi(f))
    <2>1. [L(f) EXCEPT !.returnCode = t[2]] = L1
        BY DEF Location
    <2>2. [L1 EXCEPT !.returnURL = t[3]]
            = Location(f[b + 1], Root(f), All(f), t[2], t[3], On(f), Page(f), Store(f),
                       Cgi(f))
        BY DEF Location
    <2>3. L(g) = Location(f[b + 1], Root(f), All(f), t[2], t[3], On(f), Page(f), Store(f),
                          Cgi(f))
        BY <1>3, <1>4, <1>6, <1>8, <1>11
    <2> HIDE DEF L, L1
    <2> QED
        BY <2>1, <2>2, <2>3
<1>12. ASSUME word = "autoindex"
       PROVE  L(g) = [L(f) EXCEPT !.autoIndex = t[2] = "on"]
    <2>1. [L(f) EXCEPT !.autoIndex = t[2] = "on"]
            = Location(f[b + 1], Root(f), All(f), Code(f), Url(f), t[2] = "on", Page(f),
                       Store(f), Cgi(f))
        BY DEF Location
    <2> QED
        BY <1>3, <1>4, <1>6, <1>8, <1>12, <2>1
<1>13. ASSUME word = "index"
       PROVE  L(g) = [L(f) EXCEPT !.defaultPage = t[2]]
    <2>1. [L(f) EXCEPT !.defaultPage = t[2]]
            = Location(f[b + 1], Root(f), All(f), Code(f), Url(f), On(f), t[2], Store(f),
                       Cgi(f))
        BY DEF Location
    <2> QED
        BY <1>3, <1>4, <1>6, <1>8, <1>13, <2>1
<1>14. ASSUME word = "upload_store"
       PROVE  L(g) = [L(f) EXCEPT !.storage = t[2]]
    <2>1. [L(f) EXCEPT !.storage = t[2]]
            = Location(f[b + 1], Root(f), All(f), Code(f), Url(f), On(f), Page(f), t[2],
                       Cgi(f))
        BY DEF Location
    <2> QED
        BY <1>3, <1>4, <1>6, <1>8, <1>14, <2>1
<1>15. ASSUME word = "cgi_interpreter"
       PROVE  L(g) = [L(f) EXCEPT !.cgi = Assigned(L(f).cgi, t[3], t[2])]
    <2>1. [L(f) EXCEPT !.cgi = Assigned(L(f).cgi, t[3], t[2])]
            = Location(f[b + 1], Root(f), All(f), Code(f), Url(f), On(f), Page(f), Store(f),
                       Assigned(Cgi(f), t[3], t[2]))
        BY DEF Location
    <2> QED
        BY <1>3, <1>4, <1>6, <1>8, <1>15, <2>1
<1> HIDE DEF L
<1> QED
    BY <1>7, <1>9, <1>10, <1>11, <1>12, <1>13, <1>14, <1>15 DEF LocationChange, word

(* What a list of blocks says.                                                 *)
LEMMA LocationsKept ==
    ASSUME NEW f, NEW g, NEW S, Ordered(S),
           \A o \in S : LocationMeant(g, o) = LocationMeant(f, o)
    PROVE  LocationsMeant(g, S) = LocationsMeant(f, S)
<1>1. \A i \in DOMAIN InOrder(S) : InOrder(S)[i] \in S
    BY OrderedElements
<1>2. \A i \in DOMAIN InOrder(S) :
        LocationMeant(g, InOrder(S)[i]) = LocationMeant(f, InOrder(S)[i])
    BY <1>1
<1> QED
    BY <1>2 DEF LocationsMeant

LEMMA ServersKept ==
    ASSUME NEW f, NEW g, NEW S, Ordered(S), \A s \in S : ServerMeant(g, s) = ServerMeant(f, s)
    PROVE  ServersMeant(g, S) = ServersMeant(f, S)
<1>1. \A i \in DOMAIN InOrder(S) : InOrder(S)[i] \in S
    BY OrderedElements
<1>2. \A i \in DOMAIN InOrder(S) :
        ServerMeant(g, InOrder(S)[i]) = ServerMeant(f, InOrder(S)[i])
    BY <1>1
<1> QED
    BY <1>2 DEF ServersMeant

(* A sequence with one more element.                                           *)
LEMMA AppendIs ==
    ASSUME NEW n \in Nat, NEW V, NEW old \in [1..n -> V], NEW new \in [1..(n + 1) -> V],
           \A i \in 1..n : new[i] = old[i]
    PROVE  new = Append(old, new[n + 1])
<1>1. old \in Seq(V) /\ Len(old) = n /\ new \in Seq(V) /\ Len(new) = n + 1
    OBVIOUS
<1>2. new[n + 1] \in V /\ \A i \in 1..(n + 1) : i \in 1..n \/ i = n + 1
    OBVIOUS
<1>3. /\ Append(old, new[n + 1]) \in Seq(V) /\ Len(Append(old, new[n + 1])) = n + 1
      /\ \A i \in 1..n : Append(old, new[n + 1])[i] = old[i]
      /\ Append(old, new[n + 1])[n + 1] = new[n + 1]
    BY <1>1, <1>2, AppendProperties
<1>4. \A i \in 1..Len(new) : new[i] = Append(old, new[n + 1])[i]
    BY <1>1, <1>2, <1>3
<1> QED
    BY <1>1, <1>3, <1>4, SeqEqual

LEMMA LocationsMore ==
    ASSUME NEW f, NEW S, Ordered(S), NEW x \in Nat, \A m \in S : m < x
    PROVE  LocationsMeant(f, S \cup {x}) = Append(LocationsMeant(f, S), LocationMeant(f, x))
<1>1. PICK n \in Nat :
        /\ DOMAIN InOrder(S) = 1..n /\ DOMAIN InOrder(S \cup {x}) = 1..(n + 1)
        /\ \A i \in 1..n : InOrder(S \cup {x})[i] = InOrder(S)[i]
        /\ InOrder(S \cup {x})[n + 1] = x
    BY OrderedMore
<1> DEFINE V   == {LocationMeant(f, InOrder(S \cup {x})[i]) : i \in 1..(n + 1)}
           old == LocationsMeant(f, S)
           new == LocationsMeant(f, S \cup {x})
<1>2. /\ old = [i \in 1..n |-> LocationMeant(f, InOrder(S \cup {x})[i])]
      /\ new = [i \in 1..(n + 1) |-> LocationMeant(f, InOrder(S \cup {x})[i])]
    BY <1>1 DEF LocationsMeant
<1>3. 1..n \subseteq 1..(n + 1) /\ n + 1 \in 1..(n + 1)
    OBVIOUS
<1>4. /\ old \in [1..n -> V] /\ new \in [1..(n + 1) -> V]
      /\ \A i \in 1..n : new[i] = old[i]
      /\ new[n + 1] = LocationMeant(f, x)
    BY <1>1, <1>2, <1>3
<1> HIDE DEF V, old, new
<1>5. new = Append(old, new[n + 1])
    BY <1>4, AppendIs
<1> QED
    BY <1>4, <1>5 DEF old, new

LEMMA ServersMore ==
    ASSUME NEW f, NEW S, Ordered(S), NEW x \in Nat, \A m \in S : m < x
    PROVE  ServersMeant(f, S \cup {x}) = Append(ServersMeant(f, S), ServerMeant(f, x))
<1>1. PICK n \in Nat :
        /\ DOMAIN InOrder(S) = 1..n /\ DOMAIN InOrder(S \cup {x}) = 1..(n + 1)
        /\ \A i \in 1..n : InOrder(S \cup {x})[i] = InOrder(S)[i]
        /\ InOrder(S \cup {x})[n + 1] = x
    BY OrderedMore
<1> DEFINE V   == {ServerMeant(f, InOrder(S \cup {x})[i]) : i \in 1..(n + 1)}
           old == ServersMeant(f, S)
           new == ServersMeant(f, S \cup {x})
<1>2. /\ old = [i \in 1..n |-> ServerMeant(f, InOrder(S \cup {x})[i])]
      /\ new = [i \in 1..(n + 1) |-> ServerMeant(f, InOrder(S \cup {x})[i])]
    BY <1>1 DEF ServersMeant
<1>3. 1..n \subseteq 1..(n + 1) /\ n + 1 \in 1..(n + 1)
    OBVIOUS
<1>4. /\ old \in [1..n -> V] /\ new \in [1..(n + 1) -> V]
      /\ \A i \in 1..n : new[i] = old[i]
      /\ new[n + 1] = ServerMeant(f, x)
    BY <1>1, <1>2, <1>3
<1> HIDE DEF V, old, new
<1>5. new = Append(old, new[n + 1])
    BY <1>4, AppendIs
<1> QED
    BY <1>4, <1>5 DEF old, new

(* A server by its fields, with the locations of S only.                       *)
Server(name, listen, size, locations, pages) ==
    [name |-> name, listen |-> listen, maxBodySize |-> size, locations |-> locations,
     errorPages |-> pages]

Listened(f, b) == IF In(f, b, "listen") = {} THEN NoServer.listen
                  ELSE AddressMeant(Says(f, b, "listen", 1, ""))

Sized(f, b) == IF In(f, b, "client_max_body_size") = {} THEN 0
               ELSE NumberMeant(Says(f, b, "client_max_body_size", 1, ""))

ServerPart(f, b, S) ==
    Server(Says(f, b, "server_name", 1, ""), Listened(f, b), Sized(f, b),
           LocationsMeant(f, S), SaysFor(f, b, "error_page", 1, 2))

LEMMA ServerIs ==
    ASSUME NEW f, NEW b
    PROVE  ServerMeant(f, b) = ServerPart(f, b, In(f, b, "location"))
    BY Zenon DEF ServerMeant, ServerPart, Server, Listened, Sized

ServerWords == {"listen", "server_name", "client_max_body_size", "error_page"}

LEMMA ServerKept ==
    ASSUME NEW f, NEW t, NEW g, Reads(f, t, g), NEW b, Same(f, g, b, ServerWords), NEW S,
           LocationsMeant(g, S) = LocationsMeant(f, S)
    PROVE  ServerPart(g, b, S) = ServerPart(f, b, S)
<1>1. ServerWords \in SUBSET Words
    BY DEF ServerWords, Words
<1>2. \A w \in ServerWords : \A default :
        Says(g, b, w, 1, default) = Says(f, b, w, 1, default)
    BY <1>1, SameSays
<1>3. SaysFor(g, b, "error_page", 1, 2) = SaysFor(f, b, "error_page", 1, 2)
    <2>1. "error_page" \in ServerWords /\ "error_page" \in TwoArguments
        BY DEF ServerWords, TwoArguments
    <2> QED
        BY <1>1, <2>1, SameSays
<1>4. /\ Says(g, b, "server_name", 1, "") = Says(f, b, "server_name", 1, "")
      /\ Listened(g, b) = Listened(f, b) /\ Sized(g, b) = Sized(f, b)
    BY <1>2 DEF ServerWords, Same, Listened, Sized
<1> QED
    BY <1>3, <1>4 DEF ServerPart

LEMMA ServerGrows ==
    ASSUME NEW f, NEW t, NEW g, Reads(f, t, g), NEW b, Directive(t, ServerWords),
           Adds(f, g, b, t[1]), Same(f, g, b, ServerWords \ {t[1]}), NEW S,
           LocationsMeant(g, S) = LocationsMeant(f, S)
    PROVE  ServerChange(t, ServerPart(f, b, S), ServerPart(g, b, S))
<1> DEFINE Name(h)   == Says(h, b, "server_name", 1, "")
           Errors(h) == SaysFor(h, b, "error_page", 1, 2)
           P(h)      == Server(Name(h), Listened(h, b), Sized(h, b), LocationsMeant(f, S),
                               Errors(h))
           word      == t[1]
<1>1. /\ ServerWords \ {word} \in SUBSET Words /\ word \in Words /\ Len(t) > 1
      /\ word \in TwoArguments => Len(t) > 2
      /\ Adds(f, g, b, word) /\ Same(f, g, b, ServerWords \ {word})
    BY DEF Directive, ServerWords, Words
<1> HIDE DEF word
<1>2. \A w \in ServerWords \ {word} : \A default :
        Says(g, b, w, 1, default) = Says(f, b, w, 1, default)
    BY <1>1, SameSays
<1>3. /\ word # "server_name" => Name(g) = Name(f)
      /\ word # "listen" => Listened(g, b) = Listened(f, b)
      /\ word # "client_max_body_size" => Sized(g, b) = Sized(f, b)
    BY <1>1, <1>2 DEF ServerWords, Same, Listened, Sized
<1>4. ASSUME word # "error_page" PROVE Errors(g) = Errors(f)
    <2>1. "error_page" \in ServerWords \ {word} /\ "error_page" \in TwoArguments
        BY <1>4 DEF ServerWords, TwoArguments
    <2> QED
        BY <1>1, <2>1, SameSays
<1>5. /\ \A default : Says(g, b, word, 1, default) = t[2]
      /\ word \in TwoArguments =>
           SaysFor(g, b, word, 1, 2) = Assigned(SaysFor(f, b, word, 1, 2), t[2], t[3])
    BY <1>1, AddedSays
<1>6. In(g, b, word) # {}
    BY <1>1 DEF Adds
<1>7. /\ word = "server_name" => Name(g) = t[2]
      /\ word = "listen" => Listened(g, b) = AddressMeant(t[2])
      /\ word = "client_max_body_size" => Sized(g, b) = NumberMeant(t[2])
      /\ word = "error_page" => Errors(g) = Assigned(Errors(f), t[2], t[3])
    BY <1>1, <1>5, <1>6 DEF TwoArguments, Listened, Sized
<1>8. ServerPart(f, b, S) = P(f) /\ ServerPart(g, b, S) = P(g)
    BY DEF ServerPart
<1> HIDE DEF Name, Errors
<1>9. ASSUME word = "server_name" PROVE P(g) = [P(f) EXCEPT !.name = t[2]]
    <2>1. [P(f) EXCEPT !.name = t[2]]
            = Server(t[2], Listened(f, b), Sized(f, b), LocationsMeant(f, S), Errors(f))
        BY DEF Server
    <2> QED
        BY <1>3, <1>4, <1>7, <1>9, <2>1
<1>10. ASSUME word = "listen" PROVE P(g) = [P(f) EXCEPT !.listen = AddressMeant(t[2])]
    <2>1. [P(f) EXCEPT !.listen = AddressMeant(t[2])]
            = Server(Name(f), AddressMeant(t[2]), Sized(f, b), LocationsMeant(f, S), Errors(f))
        BY DEF Server
    <2> QED
        BY <1>3, <1>4, <1>7, <1>10, <2>1
<1>11. ASSUME word = "client_max_body_size"
       PROVE  P(g) = [P(f) EXCEPT !.maxBodySize = NumberMeant(t[2])]
    <2>1. [P(f) EXCEPT !.maxBodySize = NumberMeant(t[2])]
            = Server(Name(f), Listened(f, b), NumberMeant(t[2]), LocationsMeant(f, S),
                     Errors(f))
        BY DEF Server
    <2> QED
        BY <1>3, <1>4, <1>7, <1>11, <2>1
<1>12. ASSUME word = "error_page"
       PROVE  P(g) = [P(f) EXCEPT !.errorPages = Assigned(P(f).errorPages, t[2], t[3])]
    <2> DEFINE assigned == Assigned(Errors(f), t[2], t[3])
    <2>1. P(f).errorPages = Errors(f)
        BY DEF Server
    <2>2. P(g) = Server(Name(f), Listened(f, b), Sized(f, b), LocationsMeant(f, S), assigned)
        BY <1>3, <1>7, <1>12
    <2> HIDE DEF assigned
    <2>3. [P(f) EXCEPT !.errorPages = assigned]
            = Server(Name(f), Listened(f, b), Sized(f, b), LocationsMeant(f, S), assigned)
        BY DEF Server
    <2>4. P(g) = [P(f) EXCEPT !.errorPages = assigned]
        BY <2>2, <2>3
    <2>5. assigned = Assigned(P(f).errorPages, t[2], t[3])
        BY <2>1 DEF assigned
    <2> QED
        BY <2>4, <2>5, Zenon
<1> HIDE DEF P
<1> QED
    BY <1>8, <1>9, <1>10, <1>11, <1>12 DEF ServerChange, word

(* A server with one more location.                                            *)
WithLocation(server, location) ==
    [server EXCEPT !.locations = Append(server.locations, location)]

LEMMA ServerWider ==
    ASSUME NEW f, NEW b, NEW S, Ordered(S), NEW x \in Nat, \A m \in S : m < x
    PROVE  ServerPart(f, b, S \cup {x}) = WithLocation(ServerPart(f, b, S), LocationMeant(f, x))
<1> DEFINE a == Says(f, b, "server_name", 1, "")
           l == Listened(f, b)
           z == Sized(f, b)
           e == SaysFor(f, b, "error_page", 1, 2)
           o == LocationsMeant(f, S)
           n == Append(o, LocationMeant(f, x))
<1>1. LocationsMeant(f, S \cup {x}) = n
    BY LocationsMore
<1>2. ServerPart(f, b, S) = Server(a, l, z, o, e)
    BY DEF ServerPart
<1>3. ServerPart(f, b, S \cup {x}) = Server(a, l, z, n, e)
    BY <1>1 DEF ServerPart
<1> HIDE DEF a, l, z, e, o
<1>4. Server(a, l, z, o, e).locations = o
    BY DEF Server
<1> HIDE DEF n
<1>5. [Server(a, l, z, o, e) EXCEPT !.locations = n] = Server(a, l, z, n, e)
    BY DEF Server
<1> QED
    BY <1>2, <1>3, <1>4, <1>5 DEF n, WithLocation

-----------------------------------------------------------------------------
(* What has been read so far.                                                  *)

Finished(f, b) ==
    /\ Complete(f, b) /\ Ordered(In(f, b, "location"))
    /\ \A o \in In(f, b, "location") : Complete(f, o)

(* The blocks in S are closed, and list is what they say.                      *)
ServersRead(f, S, list) ==
    /\ Ordered(S) /\ \A b \in S : Finished(f, b)
    /\ list = ServersMeant(f, S)

LocationsRead(f, S) == Ordered(S) /\ \A o \in S : Complete(f, o)

(* x is the last of S, and open.                                               *)
Open(f, S, x) == x \in S /\ ~Complete(f, x) /\ \A m \in S \ {x} : m < x

Level(f) == Depth(f, Len(f) + 1)

Top(f, list) == Level(f) = 0 /\ ServersRead(f, Blocks(f), list)

(* In a server block, and in a location block of one.                          *)
InServer(f, list, server) ==
    /\ Level(f) = 1
    /\ \E s \in Blocks(f) :
          /\ Open(f, Blocks(f), s) /\ ServersRead(f, Blocks(f) \ {s}, list)
          /\ LocationsRead(f, In(f, s, "location"))
          /\ server = ServerPart(f, s, In(f, s, "location"))

InLocation(f, list, server, location) ==
    /\ Level(f) = 2
    /\ \E s \in Blocks(f) : \E o \in In(f, s, "location") :
          /\ Open(f, Blocks(f), s) /\ ServersRead(f, Blocks(f) \ {s}, list)
          /\ Open(f, In(f, s, "location"), o)
          /\ LocationsRead(f, In(f, s, "location") \ {o})
          /\ server = ServerPart(f, s, In(f, s, "location") \ {o})
          /\ location = LocationMeant(f, o)

LEMMA BlockIs ==
    ASSUME NEW f, NEW b \in Blocks(f)
    PROVE  b \in 1..Len(f) /\ Depth(f, b) = 0
    BY DEF Blocks, Directives

LEMMA LocationPlace ==
    ASSUME NEW f, Len(f) \in Nat, Whole(f), NEW b, NEW o \in In(f, b, "location")
    PROVE  o \in 1..Len(f) /\ o + 1 <= Len(f) /\ Depth(f, o) = Depth(f, b) + 1
<1>1. o \in 1..Len(f) /\ f[o] = "location" /\ Depth(f, o) = Depth(f, b) + 1
    BY DEF In, Directives
<1>2. "location" \notin Delimiters /\ (o = 1 \/ f[o - 1] \in Delimiters)
    BY Distinct DEF Words, In, Directives
<1> QED
    BY <1>1, <1>2 DEF Whole

(* A block gets nothing that is not at its level, or when it is closed.        *)
LEMMA BlockKept ==
    ASSUME NEW f, NEW t, NEW g, Reads(f, t, g), NEW b \in 1..Len(f), NEW words \in SUBSET Words,
           Complete(f, b) \/ t[1] \notin words \/ Level(f) # Depth(f, b) + 1
    PROVE  Same(f, g, b, words) /\ (Complete(f, b) => Complete(g, b))
<1>1. ASSUME NEW word \in words PROVE In(g, b, word) = In(f, b, word)
    <2>1. word \notin Delimiters
        BY <1>1, Distinct
    <2>2. In(g, b, word) =
            In(f, b, word)
              \cup (IF /\ t[1] = word /\ ~Complete(f, b)
                       /\ Depth(f, Len(f) + 1) = Depth(f, b) + 1
                    THEN {Len(f) + 1} ELSE {})
        BY <2>1, InJoined DEF Reads
    <2> QED
        BY <1>1, <2>2 DEF Level
<1>2. Complete(f, b) => Complete(g, b)
    BY CompleteJoined DEF Reads
<1> QED
    BY <1>1, <1>2 DEF Same

LEMMA LocationsReadKept ==
    ASSUME NEW f, NEW t, NEW g, Reads(f, t, g), NEW b, NEW S \in SUBSET In(f, b, "location"),
           LocationsRead(f, S)
    PROVE  LocationsRead(g, S) /\ LocationsMeant(g, S) = LocationsMeant(f, S)
<1>1. LocationWords \in SUBSET Words /\ Len(f) \in Nat
    BY DEF LocationWords, Words, Reads, Extends
<1>2. ASSUME NEW o \in S
      PROVE  Complete(g, o) /\ LocationMeant(g, o) = LocationMeant(f, o)
    <2>1. o \in 1..Len(f) /\ o + 1 <= Len(f)
        BY <1>1, LocationPlace DEF Reads
    <2>2. Same(f, g, o, LocationWords) /\ Complete(g, o)
        BY <1>1, <2>1, BlockKept DEF LocationsRead
    <2> QED
        BY <2>1, <2>2, LocationKept
<1> QED
    BY <1>2, LocationsKept DEF LocationsRead

LEMMA ServersReadKept ==
    ASSUME NEW f, NEW t, NEW g, Reads(f, t, g), NEW S \in SUBSET Blocks(f), NEW list,
           ServersRead(f, S, list)
    PROVE  ServersRead(g, S, list)
<1>1. /\ ServerWords \in SUBSET Words /\ {"location"} \in SUBSET Words
    BY DEF ServerWords, Words
<1>2. ASSUME NEW b \in S
      PROVE  Finished(g, b) /\ ServerMeant(g, b) = ServerMeant(f, b)
    <2>1. b \in 1..Len(f)
        BY BlockIs
    <2>2. /\ Complete(f, b) /\ Ordered(In(f, b, "location"))
          /\ \A o \in In(f, b, "location") : Complete(f, o)
        BY DEF ServersRead, Finished
    <2>3. Complete(g, b) /\ Same(f, g, b, ServerWords) /\ Same(f, g, b, {"location"})
        BY <1>1, <2>1, <2>2, BlockKept
    <2>4. In(g, b, "location") = In(f, b, "location")
        BY <2>3 DEF Same
    <2> DEFINE I == In(f, b, "location")
    <2>5. LocationsRead(g, I) /\ LocationsMeant(g, I) = LocationsMeant(f, I)
        BY <2>2, LocationsReadKept DEF LocationsRead
    <2>6. ServerPart(g, b, I) = ServerPart(f, b, I)
        BY <2>3, <2>5, ServerKept
    <2>7. ServerMeant(g, b) = ServerPart(g, b, I) /\ ServerMeant(f, b) = ServerPart(f, b, I)
        BY <2>4, ServerIs
    <2> QED
        BY <2>3, <2>4, <2>5, <2>6, <2>7 DEF Finished, LocationsRead
<1> QED
    BY <1>2, ServersKept DEF ServersRead

LEMMA BlocksKept ==
    ASSUME NEW f, NEW t, NEW g, Reads(f, t, g), t[1] # "server" \/ Level(f) # 0
    PROVE  Blocks(g) = Blocks(f)
<1>1. "server" \notin Delimiters
    BY Distinct DEF Words
<1>2. Directives(g, "server", 0) =
        Directives(f, "server", 0)
          \cup (IF t[1] = "server" /\ Depth(f, Len(f) + 1) = 0 THEN {Len(f) + 1} ELSE {})
    BY <1>1, DirectivesJoined DEF Reads
<1> QED
    BY <1>2 DEF Blocks, Level

(* An open block gets what is at its level.                                    *)
LEMMA BlockGrows ==
    ASSUME NEW f, NEW t, NEW g, Reads(f, t, g), NEW b \in 1..Len(f), ~Complete(f, b),
           Level(f) = Depth(f, b) + 1, t[1] \in Words
    PROVE  /\ Adds(f, g, b, t[1]) /\ ~Complete(g, b)
           /\ \A words \in SUBSET Words : t[1] \notin words => Same(f, g, b, words)
<1>1. t[1] \notin Delimiters /\ t[1] # RBrace
    BY Distinct DEF Delimiters
<1>2. In(g, b, t[1]) =
        In(f, b, t[1])
          \cup (IF /\ t[1] = t[1] /\ ~Complete(f, b)
                   /\ Depth(f, Len(f) + 1) = Depth(f, b) + 1
                THEN {Len(f) + 1} ELSE {})
    BY <1>1, InJoined DEF Reads
<1>3. ~Complete(g, b)
    BY <1>1, CompleteJoined DEF Reads
<1>4. \A words \in SUBSET Words : t[1] \notin words => Same(f, g, b, words)
    BY BlockKept
<1> QED
    BY <1>2, <1>3, <1>4 DEF Adds, Level

LEMMA StaysOpen ==
    ASSUME NEW f, NEW t, NEW g, Reads(f, t, g), NEW b \in 1..Len(f), ~Complete(f, b),
           t[1] # RBrace \/ Level(f) # Depth(f, b) + 1
    PROVE  ~Complete(g, b)
    BY CompleteJoined DEF Reads, Level

LEMMA LevelAfter ==
    ASSUME NEW f, NEW t, NEW g, Reads(f, t, g)
    PROVE  /\ t[Len(t)] = LBrace => Level(g) = Level(f) + 1
           /\ t[Len(t)] = RBrace => Level(g) = Level(f) - 1
           /\ t[Len(t)] = Semicolon => Level(g) = Level(f)
<1>1. Level(g) = Level(f)
        + (IF t[Len(t)] = LBrace THEN 1 ELSE IF t[Len(t)] = RBrace THEN -1 ELSE 0)
    BY DepthAfter DEF Reads, Level
<1>2. Level(f) \in Int
    <2>1. Len(f) + 1 \in Nat
        BY DEF Reads, Extends
    <2> QED
        BY <2>1, DepthType DEF Level
<1> QED
    BY <1>1, <1>2, Distinct

(* A block that begins says nothing yet.                                       *)
LEMMA ServerEmpty ==
    ASSUME NEW f, NEW b, \A word : In(f, b, word) = {}
    PROVE  ServerPart(f, b, {}) = NoServer
<1>1. LocationsMeant(f, {}) = <<>>
    BY NothingOrdered DEF LocationsMeant
<1>2. SaysFor(f, b, "error_page", 1, 2) = <<>>
    BY DEF SaysFor
<1>3. Listened(f, b) = NoServer.listen /\ Sized(f, b) = 0 /\ Says(f, b, "server_name", 1, "") = ""
    BY DEF Listened, Sized, Says
<1>4. ServerPart(f, b, {}) = Server("", NoServer.listen, 0, <<>>, <<>>)
    BY <1>1, <1>2, <1>3 DEF ServerPart
<1> QED
    BY <1>4 DEF Server, NoServer

LEMMA LocationEmpty ==
    ASSUME NEW f, NEW b, \A word : In(f, b, word) = {}
    PROVE  LocationMeant(f, b) = [NoLocation EXCEPT !.path = f[b + 1]]
<1>1. /\ Says(f, b, "root", 1, "") = "" /\ Says(f, b, "return", 1, "") = ""
      /\ Says(f, b, "return", 2, "") = "" /\ Says(f, b, "autoindex", 1, "off") = "off"
      /\ Says(f, b, "index", 1, "") = "" /\ Says(f, b, "upload_store", 1, "") = ""
    BY DEF Says
<1>2. SaysFor(f, b, "cgi_interpreter", 2, 1) = <<>> /\ SaysAll(f, b, "methods") = {}
    BY DEF SaysFor, SaysAll
<1>3. ("off" = "on") = FALSE
    OBVIOUS
<1>4. LocationMeant(f, b) = Location(f[b + 1], "", {}, "", "", FALSE, "", "", <<>>)
    BY <1>1, <1>2, <1>3, LocationIs
<1>5. [NoLocation EXCEPT !.path = f[b + 1]]
        = Location(f[b + 1], "", {}, "", "", FALSE, "", "", <<>>)
    <2> DEFINE empty == ""
               off   == FALSE
               none  == {}
               no    == <<>>
    <2>1. NoLocation = Location(empty, empty, none, empty, empty, off, empty, empty, no)
        BY Zenon DEF NoLocation, Location
    <2> HIDE DEF empty, off, none, no
    <2>2. [Location(empty, empty, none, empty, empty, off, empty, empty, no)
              EXCEPT !.path = f[b + 1]]
            = Location(f[b + 1], empty, none, empty, empty, off, empty, empty, no)
        BY DEF Location
    <2> QED
        BY <2>1, <2>2, Zenon DEF empty, off, none, no
<1> QED
    BY <1>4, <1>5

(* The steps of the parser.                                                    *)
LEMMA ServerOpened ==
    ASSUME NEW f, NEW t, NEW g, Reads(f, t, g), NEW list, Top(f, list),
           t[1] = "server", t[Len(t)] = LBrace
    PROVE  InServer(g, list, NoServer)
<1> DEFINE s == Len(f) + 1
<1>1. Len(f) \in Nat /\ Level(f) = 0 /\ ServersRead(f, Blocks(f), list)
    BY DEF Reads, Extends, Top
<1>2. t[1] # RBrace /\ "server" \notin Delimiters
    BY Distinct DEF Words, Delimiters
<1>3. Blocks(g) = Blocks(f) \cup {s}
    <2>1. Directives(g, "server", 0) =
            Directives(f, "server", 0)
              \cup (IF t[1] = "server" /\ Depth(f, Len(f) + 1) = 0 THEN {Len(f) + 1} ELSE {})
        BY <1>2, DirectivesJoined DEF Reads
    <2> QED
        BY <1>1, <2>1 DEF Blocks, Level
<1>4. \A m \in Blocks(f) : m < s
    BY <1>1, BlockIs
<1>5. Blocks(g) \ {s} = Blocks(f)
    BY <1>1, <1>3, <1>4
<1>6. ~Complete(g, s) /\ \A word : In(g, s, word) = {}
    BY <1>2, BlockOpened DEF Reads
<1>7. ServersRead(g, Blocks(f), list)
    BY <1>1, ServersReadKept
<1>8. Open(g, Blocks(g), s)
    BY <1>3, <1>4, <1>5, <1>6 DEF Open
<1>9. LocationsRead(g, {})
    BY NothingOrdered DEF LocationsRead
<1>10. NoServer = ServerPart(g, s, {})
    BY <1>6, ServerEmpty
<1>11. Level(g) = 1
    BY <1>1, LevelAfter
<1>12. s \in Blocks(g) /\ In(g, s, "location") = {}
    BY <1>3, <1>6
<1> HIDE DEF s
<1> QED
    BY <1>5, <1>7, <1>8, <1>9, <1>10, <1>11, <1>12 DEF InServer

LEMMA ServerClosed ==
    ASSUME NEW f, NEW t, NEW g, Reads(f, t, g), NEW list, NEW server,
           InServer(f, list, server), t[1] = RBrace, t[Len(t)] = RBrace
    PROVE  Top(g, Append(list, server))
<1>1. PICK s \in Blocks(f) :
        /\ Open(f, Blocks(f), s) /\ ServersRead(f, Blocks(f) \ {s}, list)
        /\ LocationsRead(f, In(f, s, "location"))
        /\ server = ServerPart(f, s, In(f, s, "location"))
    BY DEF InServer
<1> DEFINE I == In(f, s, "location")
           B == Blocks(f) \ {s}
<1>2. Level(f) = 1 /\ Level(g) = 0 /\ s \in 1..Len(f) /\ Depth(f, s) = 0
    BY LevelAfter, BlockIs DEF InServer
<1>3. \A words \in SUBSET Words : t[1] \notin words
    BY Distinct DEF Delimiters
<1>4. Blocks(g) = B \cup {s} /\ \A m \in B : m < s
    <2>1. t[1] # "server"
        BY <1>3 DEF Words
    <2> QED
        BY <1>1, <2>1, BlocksKept DEF Open
<1>5. Complete(g, s)
    BY <1>2, CompleteJoined DEF Reads, Level
<1>6. /\ ServerWords \in SUBSET Words /\ {"location"} \in SUBSET Words
    BY DEF ServerWords, Words
<1>7. Same(f, g, s, ServerWords) /\ Same(f, g, s, {"location"})
    BY <1>2, <1>3, <1>6, BlockKept
<1>8. In(g, s, "location") = I
    BY <1>7 DEF Same
<1>9. LocationsRead(g, I) /\ LocationsMeant(g, I) = LocationsMeant(f, I)
    BY <1>1, LocationsReadKept
<1>10. ServerMeant(g, s) = server
    BY <1>1, <1>7, <1>8, <1>9, ServerKept, ServerIs
<1>11. ServersRead(g, B, list)
    BY <1>1, ServersReadKept
<1>12. Finished(g, s)
    BY <1>5, <1>8, <1>9 DEF Finished, LocationsRead
<1>13. Ordered(B) /\ s \in Nat /\ list = ServersMeant(g, B)
    BY <1>2, <1>11 DEF ServersRead
<1> HIDE DEF B
<1>14. Ordered(B \cup {s}) /\ ServersMeant(g, B \cup {s}) = Append(list, server)
    BY <1>4, <1>10, <1>13, OrderedMore, ServersMore
<1>15. ServersRead(g, B \cup {s}, Append(list, server))
    BY <1>11, <1>12, <1>14 DEF ServersRead
<1> QED
    BY <1>2, <1>4, <1>15 DEF Top

LEMMA ServerDirective ==
    ASSUME NEW f, NEW t, NEW g, Reads(f, t, g), NEW list, NEW server,
           InServer(f, list, server), Directive(t, ServerWords)
    PROVE  \E new : ServerChange(t, server, new) /\ InServer(g, list, new)
<1>1. PICK s \in Blocks(f) :
        /\ Open(f, Blocks(f), s) /\ ServersRead(f, Blocks(f) \ {s}, list)
        /\ LocationsRead(f, In(f, s, "location"))
        /\ server = ServerPart(f, s, In(f, s, "location"))
    BY DEF InServer
<1> DEFINE I == In(f, s, "location")
<1>2. Level(f) = 1 /\ Level(g) = 1 /\ s \in 1..Len(f) /\ Depth(f, s) = 0
    BY LevelAfter, BlockIs DEF InServer, Directive
<1>3. /\ t[1] \in Words /\ ServerWords \in SUBSET Words /\ {"location"} \in SUBSET Words
      /\ ServerWords \ {t[1]} \in SUBSET Words
      /\ t[1] \notin {"location"} /\ t[1] # "server" /\ t[1] \notin ServerWords \ {t[1]}
    BY DEF Directive, ServerWords, Words
<1>4. Blocks(g) = Blocks(f)
    BY <1>3, BlocksKept
<1>5. ~Complete(f, s) /\ \A m \in Blocks(f) \ {s} : m < s
    BY <1>1 DEF Open
<1>6. /\ Adds(f, g, s, t[1]) /\ ~Complete(g, s)
      /\ Same(f, g, s, ServerWords \ {t[1]}) /\ Same(f, g, s, {"location"})
    BY <1>2, <1>3, <1>5, BlockGrows
<1>7. In(g, s, "location") = I
    BY <1>6 DEF Same
<1>8. LocationsRead(g, I) /\ LocationsMeant(g, I) = LocationsMeant(f, I)
    BY <1>1, LocationsReadKept
<1>9. ServersRead(g, Blocks(g) \ {s}, list)
    BY <1>1, <1>4, ServersReadKept
<1>10. Open(g, Blocks(g), s)
    BY <1>4, <1>5, <1>6 DEF Open
<1>11. InServer(g, list, ServerPart(g, s, I))
    BY <1>2, <1>4, <1>7, <1>8, <1>9, <1>10 DEF InServer
<1> HIDE DEF I
<1>12. ServerChange(t, server, ServerPart(g, s, I))
    <2>1. server = ServerPart(f, s, I)
        BY <1>1 DEF I
    <2> QED
        BY <1>6, <1>8, <2>1, ServerGrows
<1> QED
    BY <1>11, <1>12

NewLocation(path) == [NoLocation EXCEPT !.path = path]

LEMMA LocationOpened ==
    ASSUME NEW f, NEW t, NEW g, Reads(f, t, g), NEW list, NEW server,
           InServer(f, list, server), t[1] = "location", Len(t) > 1, t[Len(t)] = LBrace
    PROVE  InLocation(g, list, server, NewLocation(t[2]))
<1>1. PICK s \in Blocks(f) :
        /\ Open(f, Blocks(f), s) /\ ServersRead(f, Blocks(f) \ {s}, list)
        /\ LocationsRead(f, In(f, s, "location"))
        /\ server = ServerPart(f, s, In(f, s, "location"))
    BY DEF InServer
<1> DEFINE I == In(f, s, "location")
           o == Len(f) + 1
<1>2. Level(f) = 1 /\ Level(g) = 2 /\ s \in 1..Len(f) /\ Depth(f, s) = 0
    BY LevelAfter, BlockIs DEF InServer
<1>3. /\ t[1] \in Words /\ ServerWords \in SUBSET Words
      /\ t[1] # "server" /\ t[1] \notin ServerWords
    BY DEF ServerWords, Words
<1>4. Blocks(g) = Blocks(f)
    BY <1>3, BlocksKept
<1>5. ~Complete(f, s) /\ \A m \in Blocks(f) \ {s} : m < s
    BY <1>1 DEF Open
<1>6. /\ Adds(f, g, s, "location") /\ ~Complete(g, s) /\ Same(f, g, s, ServerWords)
    BY <1>2, <1>3, <1>5, BlockGrows
<1>7. In(g, s, "location") = I \cup {o}
    BY <1>6 DEF Adds
<1>8. /\ Len(f) \in Nat /\ \A m \in I : m < o
    <2>1. Len(f) \in Nat
        BY DEF Reads, Extends
    <2> QED
        BY <2>1, LocationPlace DEF Reads
<1>9. In(g, s, "location") \ {o} = I /\ o \in In(g, s, "location")
    BY <1>7, <1>8
<1>10. LocationsRead(g, I) /\ LocationsMeant(g, I) = LocationsMeant(f, I)
    BY <1>1, LocationsReadKept
<1>11. server = ServerPart(g, s, I)
    BY <1>1, <1>6, <1>10, ServerKept
<1>12. ServersRead(g, Blocks(g) \ {s}, list)
    BY <1>1, <1>4, ServersReadKept
<1>13. Open(g, Blocks(g), s)
    BY <1>4, <1>5, <1>6 DEF Open
<1>14. ~Complete(g, o) /\ \A word : In(g, o, word) = {}
    <2>1. t[1] # RBrace
        BY <1>3, Distinct DEF Delimiters
    <2> QED
        BY <2>1, BlockOpened DEF Reads
<1>15. Open(g, In(g, s, "location"), o)
    BY <1>8, <1>9, <1>14 DEF Open
<1>16. g[o + 1] = t[2]
    <2>1. o + 1 = Len(f) + 2 /\ 2 \in 1..Len(t)
        BY <1>8 DEF Reads, Extends
    <2> QED
        BY <2>1 DEF Reads, Extends
<1> HIDE DEF I, o
<1>17. NewLocation(t[2]) = LocationMeant(g, o)
    BY <1>14, <1>16, LocationEmpty DEF NewLocation
<1> QED
    BY <1>1, <1>2, <1>4, <1>9, <1>10, <1>11, <1>12, <1>13, <1>15, <1>17 DEF InLocation

LEMMA LocationClosed ==
    ASSUME NEW f, NEW t, NEW g, Reads(f, t, g), NEW list, NEW server, NEW location,
           InLocation(f, list, server, location), t[1] = RBrace, t[Len(t)] = RBrace
    PROVE  InServer(g, list, [server EXCEPT !.locations = Append(@, location)])
<1>1. PICK s \in Blocks(f) : \E o \in In(f, s, "location") :
        /\ Open(f, Blocks(f), s) /\ ServersRead(f, Blocks(f) \ {s}, list)
        /\ Open(f, In(f, s, "location"), o)
        /\ LocationsRead(f, In(f, s, "location") \ {o})
        /\ server = ServerPart(f, s, In(f, s, "location") \ {o})
        /\ location = LocationMeant(f, o)
    BY DEF InLocation
<1>2. PICK o \in In(f, s, "location") :
        /\ Open(f, Blocks(f), s) /\ ServersRead(f, Blocks(f) \ {s}, list)
        /\ Open(f, In(f, s, "location"), o)
        /\ LocationsRead(f, In(f, s, "location") \ {o})
        /\ server = ServerPart(f, s, In(f, s, "location") \ {o})
        /\ location = LocationMeant(f, o)
    BY <1>1
<1> DEFINE I == In(f, s, "location") \ {o}
<1>3. Level(f) = 2 /\ Level(g) = 1 /\ s \in 1..Len(f) /\ Depth(f, s) = 0
    BY LevelAfter, BlockIs DEF InLocation
<1>4. o \in 1..Len(f) /\ o + 1 <= Len(f) /\ Depth(f, o) = 1
    <2>1. Len(f) \in Nat /\ Whole(f)
        BY DEF Reads, Extends
    <2> QED
        BY <1>3, <2>1, LocationPlace
<1>5. \A words \in SUBSET Words : t[1] \notin words
    BY Distinct DEF Delimiters
<1>6. /\ ServerWords \in SUBSET Words /\ {"location"} \in SUBSET Words
      /\ LocationWords \in SUBSET Words /\ "server" \in Words
    BY DEF ServerWords, LocationWords, Words
<1>7. Blocks(g) = Blocks(f)
    BY <1>3, BlocksKept
<1>8. /\ Same(f, g, s, ServerWords) /\ Same(f, g, s, {"location"})
      /\ Same(f, g, o, LocationWords)
    BY <1>3, <1>4, <1>5, <1>6, BlockKept
<1>9. Complete(g, o) /\ ~Complete(g, s)
    <2>1. Complete(g, o)
        BY <1>3, <1>4, CompleteJoined DEF Reads, Level
    <2>2. Level(f) # Depth(f, s) + 1 /\ ~Complete(f, s)
        BY <1>2, <1>3 DEF Open
    <2> QED
        BY <1>3, <2>1, <2>2, StaysOpen
<1>10. In(g, s, "location") = I \cup {o} /\ \A m \in I : m < o
    BY <1>2, <1>8 DEF Same, Open
<1>11. LocationsRead(g, I) /\ LocationsMeant(g, I) = LocationsMeant(f, I)
    BY <1>2, LocationsReadKept
<1>12. LocationMeant(g, o) = location
    BY <1>2, <1>4, <1>8, LocationKept
<1>13. ServerPart(g, s, I) = server
    BY <1>2, <1>8, <1>11, ServerKept
<1>14. ServersRead(g, Blocks(g) \ {s}, list)
    BY <1>2, <1>7, ServersReadKept
<1>15. Open(g, Blocks(g), s)
    BY <1>2, <1>7, <1>9 DEF Open
<1> HIDE DEF I
<1>16. o \in Nat /\ Ordered(I) /\ \A i \in I : Complete(g, i)
    BY <1>4, <1>11 DEF LocationsRead
<1>17. LocationsRead(g, I \cup {o})
    BY <1>9, <1>10, <1>16, OrderedMore DEF LocationsRead
<1>18. ServerPart(g, s, I \cup {o})
         = WithLocation(ServerPart(g, s, I), LocationMeant(g, o))
    BY <1>10, <1>16, ServerWider
<1>19. ServerPart(g, s, I \cup {o}) = WithLocation(server, location)
    BY <1>12, <1>13, <1>18
<1>20. InServer(g, list, ServerPart(g, s, I \cup {o}))
    BY <1>3, <1>7, <1>10, <1>14, <1>15, <1>17 DEF InServer
<1> QED
    BY <1>19, <1>20 DEF WithLocation

LEMMA LocationDirective ==
    ASSUME NEW f, NEW t, NEW g, Reads(f, t, g), NEW list, NEW server, NEW location,
           InLocation(f, list, server, location), Directive(t, LocationWords)
    PROVE  \E new : LocationChange(t, location, new) /\ InLocation(g, list, server, new)
<1>1. PICK s \in Blocks(f) : \E o \in In(f, s, "location") :
        /\ Open(f, Blocks(f), s) /\ ServersRead(f, Blocks(f) \ {s}, list)
        /\ Open(f, In(f, s, "location"), o)
        /\ LocationsRead(f, In(f, s, "location") \ {o})
        /\ server = ServerPart(f, s, In(f, s, "location") \ {o})
        /\ location = LocationMeant(f, o)
    BY DEF InLocation
<1>2. PICK o \in In(f, s, "location") :
        /\ Open(f, Blocks(f), s) /\ ServersRead(f, Blocks(f) \ {s}, list)
        /\ Open(f, In(f, s, "location"), o)
        /\ LocationsRead(f, In(f, s, "location") \ {o})
        /\ server = ServerPart(f, s, In(f, s, "location") \ {o})
        /\ location = LocationMeant(f, o)
    BY <1>1
<1> DEFINE I == In(f, s, "location") \ {o}
<1>3. Level(f) = 2 /\ Level(g) = 2 /\ s \in 1..Len(f) /\ Depth(f, s) = 0
    BY LevelAfter, BlockIs DEF InLocation, Directive
<1>4. o \in 1..Len(f) /\ o + 1 <= Len(f) /\ Depth(f, o) = 1
    <2>1. Len(f) \in Nat /\ Whole(f)
        BY DEF Reads, Extends
    <2> QED
        BY <1>3, <2>1, LocationPlace
<1>5. /\ t[1] \in Words /\ t[1] \notin ServerWords /\ t[1] \notin {"location"}
      /\ ServerWords \in SUBSET Words /\ {"location"} \in SUBSET Words
      /\ LocationWords \ {t[1]} \in SUBSET Words /\ t[1] \notin LocationWords \ {t[1]}
    BY DEF Directive, ServerWords, LocationWords, Words
<1>6. t[1] # RBrace
    BY <1>5, Distinct DEF Delimiters
<1>7. Blocks(g) = Blocks(f)
    BY <1>3, BlocksKept
<1>8. Same(f, g, s, ServerWords) /\ Same(f, g, s, {"location"})
    BY <1>3, <1>5, BlockKept
<1>9. In(g, s, "location") = In(f, s, "location")
    BY <1>8 DEF Same
<1>10. ~Complete(f, o) /\ ~Complete(f, s) /\ Level(f) = Depth(f, o) + 1
    BY <1>2, <1>3, <1>4 DEF Open
<1>11. /\ Adds(f, g, o, t[1]) /\ ~Complete(g, o) /\ ~Complete(g, s)
       /\ Same(f, g, o, LocationWords \ {t[1]})
    BY <1>3, <1>4, <1>5, <1>6, <1>10, BlockGrows, StaysOpen
<1>12. LocationsRead(g, I) /\ LocationsMeant(g, I) = LocationsMeant(f, I)
    BY <1>2, LocationsReadKept
<1>13. server = ServerPart(g, s, I)
    BY <1>2, <1>8, <1>12, ServerKept
<1>14. ServersRead(g, Blocks(g) \ {s}, list)
    BY <1>2, <1>7, ServersReadKept
<1>15. Open(g, Blocks(g), s) /\ Open(g, In(g, s, "location"), o)
    BY <1>2, <1>7, <1>9, <1>11 DEF Open
<1>16. InLocation(g, list, server, LocationMeant(g, o))
    BY <1>3, <1>7, <1>9, <1>12, <1>13, <1>14, <1>15 DEF InLocation
<1>17. LocationChange(t, location, LocationMeant(g, o))
    <2>1. g[o + 1] = f[o + 1]
        BY <1>4 DEF Reads, Extends
    <2> QED
        BY <1>2, <1>11, <2>1, LocationGrows
<1> QED
    BY <1>16, <1>17

-----------------------------------------------------------------------------
(* What the parser makes of the tokens.                                        *)

Token == Text \cup DOMAIN Number \cup DOMAIN Suffixed \cup DOMAIN Addresses
           \cup Methods \cup {"on", "off"} \cup Words \cup Delimiters

(* The tokens that one action takes.                                           *)
Phrase(t) ==
    \/ Len(t) = 1 /\ t[1] = RBrace
    \/ /\ Len(t) > 1 /\ t[1] \in Words /\ t[Len(t)] \in {LBrace, Semicolon}
       /\ t[1] \in TwoArguments => Len(t) > 2
       /\ \/ \A j \in 2..(Len(t) - 1) : t[j] \notin Delimiters
          \/ Len(t) = 3
          \/ Len(t) = 4 /\ t[4] = Semicolon

LEMMA FileGrows ==
    ASSUME NEW f \in Seq(Token), NEW t \in Seq(Token), Len(t) > 0
    PROVE  f \o t \in Seq(Token) /\ Extends(f, t, f \o t)
<1>1. /\ f \o t \in Seq(Token) /\ Len(f \o t) = Len(f) + Len(t)
      /\ \A i \in 1..(Len(f) + Len(t)) :
           (f \o t)[i] = IF i <= Len(f) THEN f[i] ELSE t[i - Len(f)]
    BY ConcatProperties
<1>2. Len(f) \in Nat /\ Len(t) \in Nat \ {0}
    OBVIOUS
<1>3. \A n \in 1..Len(f) : (f \o t)[n] = f[n]
    BY <1>1, <1>2
<1>4. ASSUME NEW j \in 1..Len(t) PROVE (f \o t)[Len(f) + j] = t[j]
    <2>1. /\ Len(f) + j \in 1..(Len(f) + Len(t)) /\ ~(Len(f) + j <= Len(f))
          /\ Len(f) + j - Len(f) = j
        BY <1>2
    <2> QED
        BY <1>1, <2>1
<1> QED
    BY <1>1, <1>2, <1>3, <1>4 DEF Extends

(* What is asked of a file holds of its beginning.                             *)
LEMMA Beginning ==
    ASSUME NEW f, NEW t, NEW g, Extends(f, t, g), Plain(g), NumbersFit(g)
    PROVE  Plain(f) /\ NumbersFit(f)
<1>1. Len(f) \in Nat /\ Len(t) \in Nat \ {0} /\ Len(g) = Len(f) + Len(t)
    BY DEF Extends
<1>2. \A n \in 1..Len(f) : g[n] = f[n]
    BY DEF Extends
<1>3. ASSUME NEW n \in 2..Len(f)
      PROVE  /\ f[n] \in Delimiters => (f[n - 1] \in Delimiters <=> f[n] = RBrace)
             /\ f[n] = Semicolon => n > 2 /\ f[n - 2] \notin Delimiters
    <2>1. n \in 2..Len(g) /\ g[n] = f[n] /\ g[n - 1] = f[n - 1] /\ (n > 2 => g[n - 2] = f[n - 2])
        BY <1>1, <1>2
    <2> QED
        BY <2>1 DEF Plain
<1>4. ASSUME NEW n \in 1..(Len(f) - 1)
      PROVE  /\ f[n] = "listen" /\ ListenAllowed(f[n + 1])
                  => AddressMeant(f[n + 1]).port < IntRange \div 2
             /\ f[n] = "client_max_body_size" /\ f[n + 1] \in DOMAIN Number \cup DOMAIN Suffixed
                  => NumberMeant(f[n + 1]) <= LongMax
    <2>1. n \in 1..(Len(g) - 1) /\ g[n] = f[n] /\ g[n + 1] = f[n + 1]
        BY <1>1, <1>2
    <2> QED
        BY <2>1 DEF NumbersFit
<1> QED
    BY <1>3, <1>4 DEF Plain, NumbersFit

LEMMA PhraseRead ==
    ASSUME NEW f, NEW t, NEW g, Extends(f, t, g), Plain(g), Phrase(t), AtStart(f), Whole(f)
    PROVE  Reads(f, t, g) /\ AtStart(g) /\ Whole(g)
<1>1. Len(f) \in Nat /\ Len(t) \in Nat \ {0} /\ Len(g) = Len(f) + Len(t)
    BY DEF Extends
<1>2. Sentence(t)
    <2>1. CASE Len(t) = 1 /\ t[1] = RBrace
        BY <2>1 DEF Sentence, Delimiters
    <2>2. CASE /\ Len(t) > 1 /\ t[1] \in Words /\ t[Len(t)] \in {LBrace, Semicolon}
               /\ \/ \A j \in 2..(Len(t) - 1) : t[j] \notin Delimiters
                  \/ Len(t) = 3
                  \/ Len(t) = 4 /\ t[4] = Semicolon
        <3> DEFINE N == Len(f) + Len(t)
        <3>1. N \in 2..Len(g) /\ N \in Nat
            BY <1>1, <2>2
        <3>2. t[1] \notin Delimiters /\ t[Len(t)] \in Delimiters /\ t[Len(t)] # RBrace
            BY <2>2, Distinct DEF Delimiters
        <3>3. g[N] = t[Len(t)]
            BY <1>1 DEF Extends
        <3>4. g[N - 1] \notin Delimiters
            BY <3>1, <3>2, <3>3 DEF Plain
        <3>5. CASE \A j \in 2..(Len(t) - 1) : t[j] \notin Delimiters
            <4>1. \A j \in 1..(Len(t) - 1) : j = 1 \/ j \in 2..(Len(t) - 1)
                BY <1>1
            <4> QED
                BY <3>2, <3>5, <4>1 DEF Sentence
        <3>6. CASE Len(t) = 3
            <4>1. N - 1 = Len(f) + 2 /\ 2 \in 1..Len(t)
                BY <1>1, <3>6
            <4>2. t[2] \notin Delimiters
                BY <3>4, <4>1 DEF Extends
            <4>3. \A j \in 1..(Len(t) - 1) : j = 1 \/ j = 2
                BY <3>6
            <4> QED
                BY <3>2, <4>2, <4>3 DEF Sentence
        <3>7. CASE Len(t) = 4 /\ t[4] = Semicolon
            <4>1. N - 1 = Len(f) + 3 /\ N - 2 = Len(f) + 2 /\ 2 \in 1..Len(t) /\ 3 \in 1..Len(t)
                BY <1>1, <3>7
            <4>2. t[3] \notin Delimiters
                BY <3>4, <4>1 DEF Extends
            <4>3. g[N - 2] \notin Delimiters
                BY <3>1, <3>3, <3>7 DEF Plain
            <4>4. t[2] \notin Delimiters
                BY <4>1, <4>3 DEF Extends
            <4>5. \A j \in 1..(Len(t) - 1) : j = 1 \/ j = 2 \/ j = 3
                BY <3>7
            <4> QED
                BY <3>2, <4>2, <4>4, <4>5 DEF Sentence
        <3> QED
            BY <2>2, <3>5, <3>6, <3>7
    <2> QED
        BY <2>1, <2>2 DEF Phrase
<1>3. t[1] \in TwoArguments => Len(t) > 2
    <2>1. RBrace \notin Words /\ TwoArguments \subseteq Words
        BY Distinct DEF Delimiters, TwoArguments, Words
    <2> QED
        BY <2>1 DEF Phrase
<1>4. Whole(g) /\ AtStart(g)
    BY <1>2, <1>3, WholeJoined
<1> QED
    BY <1>2, <1>4 DEF Reads

(* Numbers that fit are what the parser makes of their digits.                 *)
LEMMA Product == ASSUME NEW a \in Nat, NEW b \in Nat \ {0} PROVE a * b \in Nat /\ a <= a * b
    OBVIOUS

LEMMA StrtolIs ==
    ASSUME NEW digits \in DOMAIN Number, Number[digits] <= LongMax
    PROVE  Strtol(digits) = Number[digits] /\ Number[digits] \in Nat
<1>1. Number[digits] \in Nat /\ LongMax \in Nat
    BY NumbersAssumption DEF LongMax
<1>2. Min({Number[digits], LongMax}) = Number[digits]
    BY <1>1 DEF Min
<1> QED
    BY <1>1, <1>2 DEF Strtol

LEMMA SizeIs ==
    ASSUME NEW v \in DOMAIN Number \cup DOMAIN Suffixed, NumberMeant(v) <= LongMax,
           v \in DOMAIN Suffixed => Suffixed[v].digits \in DOMAIN Number
    PROVE  BodySize(v) = NumberMeant(v)
<1>1. LongRange \in Nat /\ LongMax \in Nat /\ LongMax < LongRange
    BY NumbersAssumption DEF LongMax
<1>2. CASE v \in DOMAIN Suffixed
    <2> DEFINE d == Suffixed[v].digits
               n == Number[d]
               k == Suffixed[v].factor
    <2>1. d \in DOMAIN Number /\ n \in Nat /\ k \in Nat \ {0}
        BY <1>2, NumbersAssumption
    <2>2. NumberMeant(v) = n * k /\ BodySize(v) = (Strtol(d) * k) % LongRange
        BY <1>2 DEF NumberMeant, BodySize
    <2> HIDE DEF k
    <2>3. n * k \in Nat /\ n <= n * k
        BY <2>1, Product
    <2> DEFINE p == n * k
    <2>4. n <= LongMax /\ p \in Nat /\ p <= LongMax
        BY <1>1, <2>1, <2>2, <2>3
    <2>5. Strtol(d) = n
        BY <2>1, <2>4, StrtolIs
    <2> HIDE DEF p, n
    <2>6. p % LongRange = p
        BY <1>1, <2>4
    <2> QED
        BY <2>2, <2>5, <2>6 DEF p
<1>3. CASE v \notin DOMAIN Suffixed
    <2>1. v \in DOMAIN Number /\ Number[v] <= LongMax
        BY <1>3 DEF NumberMeant
    <2> QED
        BY <1>3, <2>1, StrtolIs DEF NumberMeant, BodySize
<1> QED
    BY <1>2, <1>3

LEMMA AtoiIs ==
    ASSUME NEW digits \in DOMAIN Number, Number[digits] < IntRange \div 2
    PROVE  Atoi(digits) = Number[digits]
<1>1. /\ Number[digits] \in Nat /\ IntRange \in Nat /\ LongRange \in Nat /\ 0 < IntRange
      /\ IntRange < LongRange
    BY NumbersAssumption
<1>2. Number[digits] <= LongMax
    BY <1>1 DEF LongMax
<1>3. Strtol(digits) = Number[digits]
    BY <1>2, StrtolIs
<1> DEFINE n == Number[digits]
<1>4. n % IntRange = n
    BY <1>1
<1> QED
    BY <1>3, <1>4 DEF Atoi

LEMMA AddressIs ==
    ASSUME NEW v, ListenAllowed(v), AddressMeant(v).port < IntRange \div 2
    PROVE  SockAddr(v) = AddressMeant(v)
<1>1. CASE v \in DOMAIN Addresses
    <2> DEFINE d == Addresses[v].port
    <2>1. d \in DOMAIN Number /\ AddressMeant(v).port = Number[d]
        BY <1>1 DEF ListenAllowed, PortAllowed, AddressMeant
    <2>2. Atoi(d) = Number[d]
        BY <2>1, AtoiIs
    <2> QED
        BY <1>1, <2>2 DEF SockAddr, AddressMeant
<1>2. CASE v \notin DOMAIN Addresses
    <2>1. v \in DOMAIN Number /\ AddressMeant(v).port = Number[v]
        BY <1>2 DEF ListenAllowed, PortAllowed, AddressMeant
    <2>2. Atoi(v) = Number[v]
        BY <2>1, AtoiIs
    <2> QED
        BY <1>2, <2>2 DEF SockAddr, AddressMeant
<1> QED
    BY <1>1, <1>2

-----------------------------------------------------------------------------
(* The invariant.                                                              *)

(* What has been read is what the file says so far.                            *)
ReadInv ==
    /\ AtStart(file) /\ Whole(file)
    /\ pc = "top" => Top(file, servers)
    /\ pc = "server" => InServer(file, servers, conf)
    /\ pc = "location" => InLocation(file, servers, conf, loc)

UnderstoodInv ==
    /\ file \in Seq(Token)
    /\ pc \in {"top", "server", "location"} /\ Plain(file) /\ NumbersFit(file) => ReadInv
    /\ Understood

LEMMA UnderstoodInit == Init => UnderstoodInv
<1> SUFFICES ASSUME Init PROVE UnderstoodInv
    OBVIOUS
<1>1. file = <<>> /\ file \in Seq(Token) /\ Len(file) = 0 /\ Understood
    BY DEF Init, Understood, Loaded
<1>2. AtStart(file) /\ Whole(file)
    BY <1>1 DEF AtStart, Whole
<1>3. Blocks(file) = {}
    BY <1>1 DEF Blocks, Directives
<1>4. Level(file) = 0
    <2>1. Braces(file, 1, LBrace) = {} /\ Braces(file, 1, RBrace) = {}
        BY DEF Braces
    <2>2. Depth(file, 1)
            = Cardinality(Braces(file, 1, LBrace)) - Cardinality(Braces(file, 1, RBrace))
        BY DepthIs
    <2>3. Len(file) + 1 = 1 /\ Cardinality({}) = 0
        BY <1>1, FS_EmptySet
    <2>4. /\ Cardinality(Braces(file, 1, LBrace)) = 0
          /\ Cardinality(Braces(file, 1, RBrace)) = 0
        BY <2>1, <2>3
    <2>5. Depth(file, 1) = 0
        BY <2>2, <2>4
    <2> QED
        BY <2>3, <2>5 DEF Level
<1>5. ServersMeant(file, {}) = <<>>
    BY NothingOrdered DEF ServersMeant
<1>6. pc = "top" => Top(file, servers)
    BY <1>3, <1>4, <1>5, NothingOrdered DEF Init, Top, ServersRead
<1>7. pc # "server" /\ pc # "location"
    BY DEF Init
<1> QED
    BY <1>1, <1>2, <1>6, <1>7 DEF UnderstoodInv, ReadInv

(* What an action of the parser has to show.                                   *)
LEMMA PhraseStep ==
    ASSUME UnderstoodInv, NEW block \in {"top", "server", "location"}, NEW t \in Seq(Token),
           Consume(block, t), Phrase(t), pc' \in {"top", "server", "location"}
    PROVE  /\ (Plain(file') /\ NumbersFit(file') => ReadInv') => UnderstoodInv'
           /\ Plain(file') /\ NumbersFit(file') =>
                /\ ReadInv /\ pc = block /\ Reads(file, t, file')
                /\ AtStart(file') /\ Whole(file')
<1>1. Len(t) > 0
    BY DEF Phrase
<1>2. file' = file \o t /\ pc = block
    BY DEF Consume
<1>3. file' \in Seq(Token) /\ Extends(file, t, file')
    BY <1>1, <1>2, FileGrows DEF UnderstoodInv
<1>4. Understood'
    BY DEF Understood, Loaded
<1>5. ASSUME Plain(file'), NumbersFit(file')
      PROVE  Plain(file) /\ NumbersFit(file) /\ ReadInv /\ Reads(file, t, file')
               /\ AtStart(file') /\ Whole(file')
    <2>1. Plain(file) /\ NumbersFit(file)
        BY <1>3, <1>5, Beginning
    <2>2. ReadInv
        BY <1>2, <2>1 DEF UnderstoodInv
    <2>3. AtStart(file) /\ Whole(file)
        BY <2>2 DEF ReadInv
    <2> QED
        BY <1>3, <1>5, <2>1, <2>2, <2>3, PhraseRead
<1> QED
    BY <1>2, <1>3, <1>4, <1>5 DEF UnderstoodInv

LEMMA OpenServerStep == ASSUME UnderstoodInv, OpenServer PROVE UnderstoodInv'
<1> DEFINE t == <<"server", LBrace>>
<1>1. t \in Seq(Token) /\ Len(t) = 2 /\ t[1] = "server" /\ t[2] = LBrace
    BY DEF Token, Words, Delimiters
<1>2. Phrase(t)
    BY <1>1, Distinct DEF Phrase, Words, TwoArguments, Delimiters
<1>3. Consume("top", t) /\ pc' = "server" /\ conf' = NoServer /\ servers' = servers
    BY DEF OpenServer
<1> HIDE DEF t
<1>4. ASSUME Plain(file'), NumbersFit(file') PROVE ReadInv'
    <2>1. /\ ReadInv /\ pc = "top" /\ Reads(file, t, file')
          /\ AtStart(file') /\ Whole(file')
        BY <1>1, <1>2, <1>3, <1>4, PhraseStep
    <2>2. InServer(file', servers, NoServer)
        BY <1>1, <2>1, ServerOpened DEF ReadInv
    <2> QED
        BY <1>3, <2>1, <2>2 DEF ReadInv
<1> QED
    BY <1>1, <1>2, <1>3, <1>4, PhraseStep

LEMMA ClosingBrace == <<RBrace>> \in Seq(Token) /\ Phrase(<<RBrace>>)
    BY DEF Token, Delimiters, Phrase

LEMMA CloseServerStep == ASSUME UnderstoodInv, CloseServer PROVE UnderstoodInv'
<1> DEFINE t == <<RBrace>>
<1>1. t \in Seq(Token) /\ Len(t) = 1 /\ t[1] = RBrace /\ Phrase(t)
    BY ClosingBrace
<1>2. Consume("server", t) /\ pc' = "top" /\ servers' = Append(servers, conf)
    BY DEF CloseServer
<1> HIDE DEF t
<1>3. ASSUME Plain(file'), NumbersFit(file') PROVE ReadInv'
    <2>1. /\ ReadInv /\ pc = "server" /\ Reads(file, t, file')
          /\ AtStart(file') /\ Whole(file')
        BY <1>1, <1>2, <1>3, PhraseStep
    <2>2. Top(file', Append(servers, conf))
        BY <1>1, <2>1, ServerClosed DEF ReadInv
    <2> QED
        BY <1>2, <2>1, <2>2 DEF ReadInv
<1> QED
    BY <1>1, <1>2, <1>3, PhraseStep

LEMMA OpenLocationStep == ASSUME UnderstoodInv, OpenLocation PROVE UnderstoodInv'
<1>1. PICK path \in Text :
        /\ Consume("server", <<"location", path, LBrace>>)
        /\ pc' = "location" /\ loc' = [NoLocation EXCEPT !.path = path]
        /\ UNCHANGED <<servers, conf>>
    BY DEF OpenLocation
<1> DEFINE t == <<"location", path, LBrace>>
<1>2. t \in Seq(Token) /\ Len(t) = 3 /\ t[1] = "location" /\ t[2] = path /\ t[3] = LBrace
    BY DEF Token, Words, Delimiters
<1>3. Phrase(t)
    BY <1>2 DEF Phrase, Words
<1>4. Consume("server", t)
    BY <1>1
<1> HIDE DEF t
<1>5. ASSUME Plain(file'), NumbersFit(file') PROVE ReadInv'
    <2>1. /\ ReadInv /\ pc = "server" /\ Reads(file, t, file')
          /\ AtStart(file') /\ Whole(file')
        BY <1>1, <1>2, <1>3, <1>4, <1>5, PhraseStep
    <2>2. InServer(file, servers, conf) /\ Len(t) > 1 /\ t[Len(t)] = LBrace
        BY <1>2, <2>1 DEF ReadInv
    <2>3. InLocation(file', servers, conf, NewLocation(t[2]))
        BY <1>2, <2>1, <2>2, LocationOpened
    <2> QED
        BY <1>1, <1>2, <2>1, <2>3 DEF ReadInv, NewLocation
<1> QED
    BY <1>1, <1>2, <1>3, <1>4, <1>5, PhraseStep

LEMMA CloseLocationStep == ASSUME UnderstoodInv, CloseLocation PROVE UnderstoodInv'
<1> DEFINE t == <<RBrace>>
<1>1. t \in Seq(Token) /\ Len(t) = 1 /\ t[1] = RBrace /\ Phrase(t)
    BY ClosingBrace
<1>2. /\ Consume("location", t) /\ pc' = "server" /\ servers' = servers
      /\ conf' = [conf EXCEPT !.locations = Append(@, loc)]
    BY DEF CloseLocation
<1> HIDE DEF t
<1>3. ASSUME Plain(file'), NumbersFit(file') PROVE ReadInv'
    <2>1. /\ ReadInv /\ pc = "location" /\ Reads(file, t, file')
          /\ AtStart(file') /\ Whole(file')
        BY <1>1, <1>2, <1>3, PhraseStep
    <2>2. InServer(file', servers, [conf EXCEPT !.locations = Append(@, loc)])
        BY <1>1, <2>1, LocationClosed DEF ReadInv
    <2> QED
        BY <1>2, <2>1, <2>2 DEF ReadInv
<1> QED
    BY <1>1, <1>2, <1>3, PhraseStep

(* A directive in a server, and one in a location.                             *)
LEMMA InServerStep ==
    ASSUME UnderstoodInv, NEW t \in Seq(Token), Phrase(t), Directive(t, ServerWords), NEW c,
           SetInServer(t, c),
           Plain(file') /\ NumbersFit(file') =>
             \A new : ServerChange(t, conf, new) => new = c
    PROVE  UnderstoodInv'
<1>1. Consume("server", t) /\ conf' = c /\ pc' = pc /\ servers' = servers /\ pc = "server"
    BY DEF SetInServer, Consume
<1>2. ASSUME Plain(file'), NumbersFit(file') PROVE ReadInv'
    <2>1. /\ ReadInv /\ Reads(file, t, file') /\ AtStart(file') /\ Whole(file')
        BY <1>1, <1>2, PhraseStep
    <2>2. \E new : ServerChange(t, conf, new) /\ InServer(file', servers, new)
        BY <1>1, <2>1, ServerDirective DEF ReadInv
    <2>3. InServer(file', servers, c)
        BY <1>2, <2>2
    <2> QED
        BY <1>1, <2>1, <2>3 DEF ReadInv
<1> QED
    BY <1>1, <1>2, PhraseStep

LEMMA InLocationStep ==
    ASSUME UnderstoodInv, NEW t \in Seq(Token), Phrase(t), Directive(t, LocationWords), NEW l,
           SetInLocation(t, l), \A new : LocationChange(t, loc, new) => new = l
    PROVE  UnderstoodInv'
<1>1. /\ Consume("location", t) /\ loc' = l /\ pc' = pc /\ pc = "location"
      /\ servers' = servers /\ conf' = conf
    BY DEF SetInLocation, Consume
<1>2. ASSUME Plain(file'), NumbersFit(file') PROVE ReadInv'
    <2>1. /\ ReadInv /\ Reads(file, t, file') /\ AtStart(file') /\ Whole(file')
        BY <1>1, <1>2, PhraseStep
    <2>2. \E new : LocationChange(t, loc, new) /\ InLocation(file', servers, conf, new)
        BY <1>1, <2>1, LocationDirective DEF ReadInv
    <2>3. InLocation(file', servers, conf, l)
        BY <2>2
    <2> QED
        BY <1>1, <2>1, <2>3 DEF ReadInv
<1> QED
    BY <1>1, <1>2, PhraseStep

(* A directive with one argument, and one with two.                            *)
LEMMA OneArgument ==
    ASSUME NEW word \in Words, word \notin TwoArguments, NEW v \in Token, NEW words,
           word \in words
    PROVE  LET t == <<word, v, Semicolon>>
           IN  /\ t \in Seq(Token) /\ Phrase(t) /\ Directive(t, words)
               /\ t[1] = word /\ t[2] = v
<1> DEFINE t == <<word, v, Semicolon>>
<1>1. t \in Seq(Token) /\ Len(t) = 3 /\ t[1] = word /\ t[2] = v /\ t[3] = Semicolon
    BY DEF Token, Delimiters
<1> HIDE DEF t
<1>2. Phrase(t)
    BY <1>1 DEF Phrase
<1>3. Directive(t, words)
    BY <1>1 DEF Directive
<1> QED
    BY <1>1, <1>2, <1>3 DEF t

LEMMA HasTwoArguments ==
    ASSUME NEW word \in TwoArguments, NEW v \in Token, NEW w \in Token, NEW words,
           word \in words
    PROVE  LET t == <<word, v, w, Semicolon>>
           IN  /\ t \in Seq(Token) /\ Phrase(t) /\ Directive(t, words)
               /\ t[1] = word /\ t[2] = v /\ t[3] = w
<1> DEFINE t == <<word, v, w, Semicolon>>
<1>1. word \in Words
    BY DEF TwoArguments, Words
<1>2. /\ t \in Seq(Token) /\ Len(t) = 4 /\ t[1] = word /\ t[2] = v /\ t[3] = w
      /\ t[4] = Semicolon
    BY <1>1 DEF Token, Delimiters
<1> HIDE DEF t
<1>3. Phrase(t)
    BY <1>1, <1>2 DEF Phrase
<1>4. Directive(t, words)
    BY <1>2 DEF Directive
<1> QED
    BY <1>2, <1>3, <1>4 DEF t

LEMMA ParseServerNameStep == ASSUME UnderstoodInv, ParseServerName PROVE UnderstoodInv'
<1>1. PICK name \in Text :
        SetInServer(<<"server_name", name, Semicolon>>, [conf EXCEPT !.name = name])
    BY DEF ParseServerName
<1> DEFINE t == <<"server_name", name, Semicolon>>
           c == [conf EXCEPT !.name = name]
<1>2. /\ t \in Seq(Token) /\ Phrase(t) /\ Directive(t, ServerWords)
      /\ t[1] = "server_name" /\ t[2] = name
    BY OneArgument DEF Words, TwoArguments, ServerWords, Token
<1>3. SetInServer(t, c)
    BY <1>1
<1> HIDE DEF t
<1>4. \A new : ServerChange(t, conf, new) => new = c
    BY <1>2 DEF ServerChange
<1> HIDE DEF c
<1> QED
    BY <1>2, <1>3, <1>4, InServerStep

LEMMA ParseErrorPageStep == ASSUME UnderstoodInv, ParseErrorPage PROVE UnderstoodInv'
<1>1. PICK code \in Codes, path \in Text :
        SetInServer(<<"error_page", code, path, Semicolon>>,
                    [conf EXCEPT !.errorPages = Assigned(@, code, path)])
    BY DEF ParseErrorPage
<1> DEFINE t == <<"error_page", code, path, Semicolon>>
           c == [conf EXCEPT !.errorPages = Assigned(@, code, path)]
<1>2. code \in Token /\ path \in Token
    BY NumbersAssumption DEF Token
<1>3. /\ t \in Seq(Token) /\ Phrase(t) /\ Directive(t, ServerWords)
      /\ t[1] = "error_page" /\ t[2] = code /\ t[3] = path
    BY <1>2, HasTwoArguments DEF TwoArguments, ServerWords
<1>4. SetInServer(t, c)
    BY <1>1
<1> HIDE DEF t
<1>5. \A new : ServerChange(t, conf, new) => new = c
    BY <1>3 DEF ServerChange
<1> HIDE DEF c
<1> QED
    BY <1>3, <1>4, <1>5, InServerStep

(* A value that has been read is one of those NumbersFit speaks of.            *)
LEMMA ValueFits ==
    ASSUME UnderstoodInv, NEW t \in Seq(Token), Len(t) > 1, file' = file \o t, NumbersFit(file')
    PROVE  /\ t[1] = "listen" /\ ListenAllowed(t[2])
                => AddressMeant(t[2]).port < IntRange \div 2
           /\ t[1] = "client_max_body_size" /\ t[2] \in DOMAIN Number \cup DOMAIN Suffixed
                => NumberMeant(t[2]) <= LongMax
<1>1. Extends(file, t, file')
    BY FileGrows DEF UnderstoodInv
<1> DEFINE n == Len(file) + 1
<1>2. n \in 1..(Len(file') - 1) /\ n + 1 = Len(file) + 2
    BY <1>1 DEF Extends
<1>3. file'[n] = t[1] /\ file'[n + 1] = t[2]
    BY <1>1, <1>2 DEF Extends
<1> HIDE DEF n
<1> QED
    BY <1>2, <1>3 DEF NumbersFit

LEMMA ParseListenStep == ASSUME UnderstoodInv, ParseListen PROVE UnderstoodInv'
<1>1. PICK v \in DOMAIN Number \cup DOMAIN Addresses :
        /\ ListenAllowed(v)
        /\ SetInServer(<<"listen", v, Semicolon>>, [conf EXCEPT !.listen = SockAddr(v)])
    BY DEF ParseListen
<1> DEFINE t == <<"listen", v, Semicolon>>
           c == [conf EXCEPT !.listen = SockAddr(v)]
<1>2. /\ t \in Seq(Token) /\ Phrase(t) /\ Directive(t, ServerWords)
      /\ t[1] = "listen" /\ t[2] = v
    BY OneArgument DEF Words, TwoArguments, ServerWords, Token
<1>3. SetInServer(t, c)
    BY <1>1
<1> HIDE DEF t
<1>4. ASSUME NumbersFit(file') PROVE SockAddr(v) = AddressMeant(v)
    <2>1. file' = file \o t /\ Len(t) > 1
        BY <1>2, <1>3 DEF SetInServer, Consume, Directive
    <2>2. AddressMeant(v).port < IntRange \div 2
        BY <1>1, <1>2, <1>4, <2>1, ValueFits
    <2> QED
        BY <1>1, <2>2, AddressIs
<1>5. NumbersFit(file') => \A new : ServerChange(t, conf, new) => new = c
    BY <1>2, <1>4 DEF ServerChange
<1> HIDE DEF c
<1> QED
    BY <1>2, <1>3, <1>5, InServerStep

LEMMA ParseMaxBodySizeStep == ASSUME UnderstoodInv, ParseMaxBodySize PROVE UnderstoodInv'
<1>1. PICK v \in DOMAIN Number \cup DOMAIN Suffixed :
        /\ v \in DOMAIN Suffixed => Suffixed[v].digits \in DOMAIN Number
        /\ SetInServer(<<"client_max_body_size", v, Semicolon>>,
                       [conf EXCEPT !.maxBodySize = BodySize(v)])
    BY DEF ParseMaxBodySize
<1> DEFINE t == <<"client_max_body_size", v, Semicolon>>
           c == [conf EXCEPT !.maxBodySize = BodySize(v)]
<1>2. /\ t \in Seq(Token) /\ Phrase(t) /\ Directive(t, ServerWords)
      /\ t[1] = "client_max_body_size" /\ t[2] = v
    BY OneArgument DEF Words, TwoArguments, ServerWords, Token
<1>3. SetInServer(t, c)
    BY <1>1
<1> HIDE DEF t
<1>4. ASSUME NumbersFit(file') PROVE BodySize(v) = NumberMeant(v)
    <2>1. file' = file \o t /\ Len(t) > 1
        BY <1>2, <1>3 DEF SetInServer, Consume, Directive
    <2>2. NumberMeant(v) <= LongMax
        BY <1>2, <1>4, <2>1, ValueFits
    <2> QED
        BY <1>1, <2>2, SizeIs
<1>5. NumbersFit(file') => \A new : ServerChange(t, conf, new) => new = c
    BY <1>2, <1>4 DEF ServerChange
<1> HIDE DEF c
<1> QED
    BY <1>2, <1>3, <1>5, InServerStep

LEMMA ParseRootStep == ASSUME UnderstoodInv, ParseRoot PROVE UnderstoodInv'
<1>1. PICK root \in Text :
        SetInLocation(<<"root", root, Semicolon>>, [loc EXCEPT !.root = root])
    BY DEF ParseRoot
<1> DEFINE t == <<"root", root, Semicolon>>
           l == [loc EXCEPT !.root = root]
<1>2. /\ t \in Seq(Token) /\ Phrase(t) /\ Directive(t, LocationWords)
      /\ t[1] = "root" /\ t[2] = root
    BY OneArgument DEF Words, TwoArguments, LocationWords, Token
<1>3. SetInLocation(t, l)
    BY <1>1
<1> HIDE DEF t
<1>4. \A new : LocationChange(t, loc, new) => new = l
    BY <1>2 DEF LocationChange
<1> HIDE DEF l
<1> QED
    BY <1>2, <1>3, <1>4, InLocationStep

LEMMA ParseAutoIndexStep == ASSUME UnderstoodInv, ParseAutoIndex PROVE UnderstoodInv'
<1>1. PICK value \in {"on", "off"} :
        SetInLocation(<<"autoindex", value, Semicolon>>, [loc EXCEPT !.autoIndex = value = "on"])
    BY DEF ParseAutoIndex
<1> DEFINE t == <<"autoindex", value, Semicolon>>
           l == [loc EXCEPT !.autoIndex = value = "on"]
<1>2. /\ t \in Seq(Token) /\ Phrase(t) /\ Directive(t, LocationWords)
      /\ t[1] = "autoindex" /\ t[2] = value
    BY OneArgument DEF Words, TwoArguments, LocationWords, Token
<1>3. SetInLocation(t, l)
    BY <1>1
<1> HIDE DEF t
<1>4. \A new : LocationChange(t, loc, new) => new = l
    BY <1>2 DEF LocationChange
<1> HIDE DEF l
<1> QED
    BY <1>2, <1>3, <1>4, InLocationStep

LEMMA ParseIndexStep == ASSUME UnderstoodInv, ParseIndex PROVE UnderstoodInv'
<1>1. PICK page \in Text :
        SetInLocation(<<"index", page, Semicolon>>, [loc EXCEPT !.defaultPage = page])
    BY DEF ParseIndex
<1> DEFINE t == <<"index", page, Semicolon>>
           l == [loc EXCEPT !.defaultPage = page]
<1>2. /\ t \in Seq(Token) /\ Phrase(t) /\ Directive(t, LocationWords)
      /\ t[1] = "index" /\ t[2] = page
    BY OneArgument DEF Words, TwoArguments, LocationWords, Token
<1>3. SetInLocation(t, l)
    BY <1>1
<1> HIDE DEF t
<1>4. \A new : LocationChange(t, loc, new) => new = l
    BY <1>2 DEF LocationChange
<1> HIDE DEF l
<1> QED
    BY <1>2, <1>3, <1>4, InLocationStep

LEMMA ParseUploadStoreStep == ASSUME UnderstoodInv, ParseUploadStore PROVE UnderstoodInv'
<1>1. PICK dir \in Text :
        SetInLocation(<<"upload_store", dir, Semicolon>>, [loc EXCEPT !.storage = dir])
    BY DEF ParseUploadStore
<1> DEFINE t == <<"upload_store", dir, Semicolon>>
           l == [loc EXCEPT !.storage = dir]
<1>2. /\ t \in Seq(Token) /\ Phrase(t) /\ Directive(t, LocationWords)
      /\ t[1] = "upload_store" /\ t[2] = dir
    BY OneArgument DEF Words, TwoArguments, LocationWords, Token
<1>3. SetInLocation(t, l)
    BY <1>1
<1> HIDE DEF t
<1>4. \A new : LocationChange(t, loc, new) => new = l
    BY <1>2 DEF LocationChange
<1> HIDE DEF l
<1> QED
    BY <1>2, <1>3, <1>4, InLocationStep

LEMMA ParseReturnStep == ASSUME UnderstoodInv, ParseReturn PROVE UnderstoodInv'
<1>1. PICK code \in DOMAIN Number, url \in Text :
        SetInLocation(<<"return", code, url, Semicolon>>,
                      [loc EXCEPT !.returnCode = code, !.returnURL = url])
    BY DEF ParseReturn
<1> DEFINE t == <<"return", code, url, Semicolon>>
           l == [loc EXCEPT !.returnCode = code, !.returnURL = url]
<1>2. /\ t \in Seq(Token) /\ Phrase(t) /\ Directive(t, LocationWords)
      /\ t[1] = "return" /\ t[2] = code /\ t[3] = url
    BY HasTwoArguments DEF TwoArguments, LocationWords, Token
<1>3. SetInLocation(t, l)
    BY <1>1
<1> HIDE DEF t
<1>4. \A new : LocationChange(t, loc, new) => new = l
    BY <1>2 DEF LocationChange
<1> HIDE DEF l
<1> QED
    BY <1>2, <1>3, <1>4, InLocationStep

LEMMA ParseCgiInterpreterStep == ASSUME UnderstoodInv, ParseCgiInterpreter PROVE UnderstoodInv'
<1>1. PICK path \in Text, ext \in Text :
        SetInLocation(<<"cgi_interpreter", path, ext, Semicolon>>,
                      [loc EXCEPT !.cgi = Assigned(@, ext, path)])
    BY DEF ParseCgiInterpreter
<1> DEFINE t == <<"cgi_interpreter", path, ext, Semicolon>>
           l == [loc EXCEPT !.cgi = Assigned(@, ext, path)]
<1>2. /\ t \in Seq(Token) /\ Phrase(t) /\ Directive(t, LocationWords)
      /\ t[1] = "cgi_interpreter" /\ t[2] = path /\ t[3] = ext
    BY HasTwoArguments DEF TwoArguments, LocationWords, Token
<1>3. SetInLocation(t, l)
    BY <1>1
<1> HIDE DEF t
<1>4. \A new : LocationChange(t, loc, new) => new = l
    BY <1>2 DEF LocationChange
<1> HIDE DEF l
<1> QED
    BY <1>2, <1>3, <1>4, InLocationStep

LEMMA ParseMethodsStep == ASSUME UnderstoodInv, ParseMethods PROVE UnderstoodInv'
<1>1. PICK n \in 1..MaxMethods : \E methods \in [1..n -> Methods] :
        SetInLocation(<<"methods">> \o methods \o <<Semicolon>>,
                      [loc EXCEPT !.methods = @ \cup ToSet(methods)])
    BY DEF ParseMethods
<1>2. PICK methods \in [1..n -> Methods] :
        SetInLocation(<<"methods">> \o methods \o <<Semicolon>>,
                      [loc EXCEPT !.methods = @ \cup ToSet(methods)])
    BY <1>1
<1> DEFINE t == <<"methods">> \o methods \o <<Semicolon>>
           l == [loc EXCEPT !.methods = @ \cup ToSet(methods)]
<1>3. n \in Nat /\ n > 0
    BY BoundsAssumption
<1>4. methods \in Seq(Methods) /\ Len(methods) = n
    BY <1>3
<1>5. /\ methods \in Seq(Token) /\ <<"methods">> \in Seq(Token)
      /\ <<Semicolon>> \in Seq(Token)
    <2>1. Methods \subseteq Token /\ "methods" \in Token /\ Semicolon \in Token
        BY DEF Token, Words, Delimiters
    <2> QED
        BY <1>4, <2>1
<1>6. /\ t \in Seq(Token) /\ Len(t) = n + 2 /\ t[1] = "methods" /\ t[n + 2] = Semicolon
      /\ \A j \in 2..(n + 1) : t[j] = methods[j - 1]
    <2> HIDE DEF Token
    <2>1. /\ <<"methods">> \o methods \in Seq(Token)
          /\ Len(<<"methods">> \o methods) = n + 1
          /\ (<<"methods">> \o methods)[1] = "methods"
          /\ \A j \in 2..(n + 1) : (<<"methods">> \o methods)[j] = methods[j - 1]
        BY <1>3, <1>4, <1>5
    <2> DEFINE u == <<"methods">> \o methods
    <2> HIDE DEF u
    <2>2. u \in Seq(Token) /\ Len(u) = n + 1
        BY <2>1 DEF u
    <2>3. /\ u \o <<Semicolon>> \in Seq(Token) /\ Len(u \o <<Semicolon>>) = n + 2
          /\ \A j \in 1..(n + 1) : (u \o <<Semicolon>>)[j] = u[j]
          /\ (u \o <<Semicolon>>)[n + 2] = Semicolon
        BY <1>3, <1>5, <2>2
    <2>4. 1 \in 1..(n + 1) /\ 2..(n + 1) \subseteq 1..(n + 1)
        BY <1>3
    <2> QED
        BY <2>1, <2>3, <2>4 DEF u
<1>7. SetInLocation(t, l)
    BY <1>2
<1> HIDE DEF t
<1>8. Arguments(t) = ToSet(methods)
    <2>1. Arguments(t) = {methods[j - 1] : j \in 2..(n + 1)}
        <3>1. Len(t) - 1 = n + 1
            BY <1>3, <1>6
        <3>2. Arguments(t) = {t[j] : j \in 2..(n + 1)}
            BY <3>1 DEF Arguments
        <3>3. \A j \in 2..(n + 1) : t[j] = methods[j - 1]
            BY <1>6
        <3> QED
            BY <3>2, <3>3
    <2>2. ToSet(methods) = {methods[i] : i \in 1..n}
        BY <1>4 DEF ToSet
    <2>3. /\ \A j \in 2..(n + 1) : j - 1 \in 1..n
          /\ \A i \in 1..n : i + 1 \in 2..(n + 1) /\ i + 1 - 1 = i
        BY <1>3
    <2> QED
        BY <2>1, <2>2, <2>3
<1>9. Phrase(t) /\ Directive(t, LocationWords)
    <2>1. ASSUME NEW j \in 2..(Len(t) - 1) PROVE t[j] \notin Delimiters
        <3>1. j \in 2..(n + 1) /\ j - 1 \in 1..n
            BY <1>3, <1>6, <2>1
        <3>2. t[j] \in Methods
            BY <1>6, <3>1
        <3> QED
            BY <3>2, Distinct
    <2>2. Len(t) > 1 /\ t[Len(t)] = Semicolon
        BY <1>3, <1>6
    <2>3. "methods" \in Words /\ "methods" \notin TwoArguments /\ "methods" \in LocationWords
        BY DEF Words, TwoArguments, LocationWords
    <2> QED
        BY <1>6, <2>1, <2>2, <2>3 DEF Phrase, Directive
<1>10. \A new : LocationChange(t, loc, new) => new = l
    BY <1>6, <1>8 DEF LocationChange
<1> HIDE DEF l
<1> QED
    BY <1>6, <1>7, <1>9, <1>10, InLocationStep

(* The other steps read nothing.                                               *)
LEMMA OtherSteps ==
    ASSUME UnderstoodInv, EndOfFile \/ ParseFails \/ AddServer \/ AddServerFails
    PROVE  UnderstoodInv'
<1>1. file' = file /\ servers' = servers /\ pc' \notin {"top", "server", "location"}
    BY DEF EndOfFile, ParseFails, AddServer, AddServerFails, reading
<1>2. file' \in Seq(Token)
    BY <1>1 DEF UnderstoodInv
<1>3. ASSUME Loaded', Plain(file'), NumbersFit(file')
      PROVE  servers = ServersMeant(file, Blocks(file))
    <2>1. CASE EndOfFile
        <3>1. pc = "top" /\ Plain(file) /\ NumbersFit(file)
            BY <1>1, <1>3, <2>1 DEF EndOfFile
        <3>2. Top(file, servers)
            BY <3>1 DEF UnderstoodInv, ReadInv
        <3> QED
            BY <3>2 DEF Top, ServersRead
    <2>2. CASE AddServer
        <3>1. Loaded /\ Plain(file) /\ NumbersFit(file)
            BY <1>1, <1>3, <2>2 DEF AddServer, Loaded
        <3> QED
            BY <3>1 DEF UnderstoodInv, Understood
    <2>3. CASE ParseFails \/ AddServerFails
        BY <1>3, <2>3 DEF ParseFails, AddServerFails, Loaded
    <2> QED
        BY <2>1, <2>2, <2>3
<1>4. Understood'
    BY <1>1, <1>3 DEF Understood
<1> QED
    BY <1>1, <1>2, <1>4 DEF UnderstoodInv

THEOREM UnderstoodInvariant == Spec => []UnderstoodInv
<1>1. ASSUME UnderstoodInv, [Next]_vars PROVE UnderstoodInv'
    <2>1. CASE Parse
        BY <1>1, <2>1, OpenServerStep, CloseServerStep, OpenLocationStep, CloseLocationStep,
           ParseListenStep, ParseServerNameStep, ParseMaxBodySizeStep, ParseErrorPageStep,
           ParseRootStep, ParseMethodsStep, ParseAutoIndexStep, ParseIndexStep,
           ParseUploadStoreStep, ParseReturnStep, ParseCgiInterpreterStep, OtherSteps
           DEF Parse
    <2>2. CASE AddServer \/ AddServerFails
        BY <1>1, <2>2, OtherSteps
    <2>3. CASE UNCHANGED vars
        BY <1>1, <2>3
           DEF UnderstoodInv, ReadInv, Understood, Loaded, vars, reading
    <2> QED
        BY <1>1, <2>1, <2>2, <2>3 DEF Next
<1> QED
    BY <1>1, UnderstoodInit, PTL DEF Spec

(* The configuration the server gets is what the file says (parse and the      *)
(* handlers below it).                                                         *)
THEOREM UnderstoodHolds == Spec => []Understood
<1>1. UnderstoodInv => Understood
    BY DEF UnderstoodInv
<1> QED
    BY <1>1, UnderstoodInvariant, PTL
=============================================================================
