------------------------ MODULE TopicSelectorProofs -------------------------
(***************************************************************************)
(* Proofs about TopicSelector for any words, letters, keys, groups and     *)
(* lists of subscribers: a lookup answers from lists that are current,     *)
(* finds a subscriber for what the broker routes, and none that is not     *)
(* bound. The last two are about texts and regular expressions of any      *)
(* length. Induction is by sets of numbers: the least number at which      *)
(* something fails has no predecessor.                                     *)
(***************************************************************************)
EXTENDS TopicSelector, FiniteSetTheorems, SequenceTheorems, TLAPS

-----------------------------------------------------------------------------
(* Induction, by the least element of a set; what recursive functions are. *)

(* A set of natural numbers that is not empty has a least: First finds an  *)
(* executor whenever one passes.                                           *)
LEMMA Least ==
  ASSUME NEW K \in SUBSET Nat, K # {}
  PROVE \E x \in K : \A y \in K : x <= y
<1> DEFINE T == {0 .. k : k \in K}
<1>1. T \subseteq FiniteSubsetsOf(Nat) /\ T # {}
  <2>1. \A k \in Nat : IsFiniteSet(0 .. k) /\ 0 .. k \subseteq Nat
    BY FS_Interval
  <2>2. QED BY <2>1 DEF FiniteSubsetsOf
<1>2. PICK t \in T : \A u \in T : ~ (<<u, t>> \in StrictSubsetOrdering(Nat))
  BY <1>1, FS_StrictSubsetOrderingWellFounded, WFMin
<1>3. PICK x \in K : t = 0 .. x
  BY <1>2
<1>4. ASSUME NEW y \in K PROVE x <= y
  <2>1. SUFFICES ASSUME y < x PROVE FALSE
    BY <1>3
  <2>2. 0 .. y \subseteq 0 .. x /\ x \notin 0 .. y /\ x \in 0 .. x
    BY <2>1
  <2>3. <<0 .. y, t>> \in StrictSubsetOrdering(Nat)
    BY <2>2, <1>3 DEF StrictSubsetOrdering
  <2>4. QED BY <2>3, <1>2
<1>5. QED BY <1>4

(* Induction up to a bound: a set that has 1, and with a number the next,  *)
(* has all of them.                                                        *)
LEMMA UpTo ==
  ASSUME NEW n \in Nat, NEW S, 1 \in S, \A i \in 1 .. n - 1 : i \in S => i + 1 \in S
  PROVE  \A i \in 1 .. n : i \in S
<1>1. SUFFICES ASSUME (1 .. n) \ S # {} PROVE FALSE
  OBVIOUS
<1>a. (1 .. n) \ S \in SUBSET Nat
  OBVIOUS
<1>2. PICK x \in (1 .. n) \ S : \A y \in (1 .. n) \ S : x <= y
  BY <1>1, <1>a, Least
<1>3. x - 1 \in S /\ x - 1 \in 1 .. n - 1
  BY <1>2
<1>4. QED BY <1>2, <1>3

(* The same for all natural numbers.                                       *)
LEMMA SetInduction ==
  ASSUME NEW S, 0 \in S, \A i \in Nat : i \in S => i + 1 \in S
  PROVE  \A i \in Nat : i \in S
<1>1. SUFFICES ASSUME Nat \ S # {} PROVE FALSE
  OBVIOUS
<1>2. PICK x \in Nat \ S : \A y \in Nat \ S : x <= y
  BY <1>1, Least
<1>3. QED BY <1>2

(* FlattenSeq joins one sequence after the other, each time the next.      *)
LEMMA Flattening ==
  ASSUME NEW X, NEW s \in Seq(Seq(X)), s # <<>>
  PROVE  \E f \in [1 .. Len(s) -> Seq(X)] :
             /\ f[1] = s[1]
             /\ \A i \in 1 .. Len(s) - 1 : f[i + 1] = f[i] \o s[i + 1]
             /\ FlattenSeq(s) = f[Len(s)]
<1> DEFINE n == Len(s)
           Good(m) == {f \in [1 .. m -> Seq(X)] :
                          \A i \in 1 .. m : f[i] = IF i = 1 THEN s[i] ELSE f[i - 1] \o s[i]}
           Ms == {m \in 1 .. n : Good(m) # {}}
<1>1. n \in Nat /\ n >= 1 /\ \A i \in 1 .. n : s[i] \in Seq(X)
  OBVIOUS
<1> HIDE DEF n
<1>2. 1 \in Ms
  <2>1. [i \in 1 .. 1 |-> s[1]] \in Good(1)
    BY <1>1
  <2>2. QED BY <2>1, <1>1, SMTT(40)
<1>3. ASSUME NEW m \in 1 .. n - 1, m \in Ms PROVE m + 1 \in Ms
  <2>1. PICK f \in Good(m) : TRUE
    BY <1>3
  <2> DEFINE g == [i \in 1 .. m + 1 |-> IF i = m + 1 THEN f[m] \o s[m + 1] ELSE f[i]]
  <2>2. m \in Nat /\ m >= 1 /\ m + 1 \in 1 .. n
    BY <1>1
  <2>3. g \in [1 .. m + 1 -> Seq(X)]
    <3>1. f[m] \o s[m + 1] \in Seq(X)
      BY <2>1, <2>2, <1>1
    <3>2. QED BY <3>1, <2>1, <2>2
  <2>4. ASSUME NEW i \in 1 .. m + 1 PROVE g[i] = IF i = 1 THEN s[i] ELSE g[i - 1] \o s[i]
    <3>1. CASE i = m + 1
      <4>1. g[i] = f[m] \o s[m + 1] /\ g[i - 1] = f[m]
        BY <3>1, <2>2, SMTT(40)
      <4>2. i # 1
        BY <3>1, <2>2
      <4> HIDE DEF g
      <4>3. QED BY <4>1, <4>2, <3>1
    <3>2. CASE i \in 1 .. m
      <4>1. g[i] = f[i] /\ (i # 1 => g[i - 1] = f[i - 1])
        BY <3>2, <2>2
      <4> HIDE DEF g
      <4>2. QED BY <4>1, <3>2, <2>1
    <3>3. QED BY <3>1, <3>2, <2>2
  <2>5. m + 1 \in 1 .. n /\ g \in Good(m + 1)
    BY <2>2, <2>3, <2>4
  <2>6. QED BY <2>5
<1>4. n \in Ms
  <2> HIDE DEF Ms
  <2>1. \A i \in 1 .. n - 1 : i \in Ms => i + 1 \in Ms
    BY <1>3
  <2>2. \A i \in 1 .. n : i \in Ms
    BY <1>1, <1>2, <2>1, UpTo
  <2>3. QED BY <1>1, <2>2
<1> DEFINE flatten[i \in 1 .. Len(s)] == IF i = 1 THEN s[i] ELSE flatten[i-1] \o s[i]
<1>5. PICK f \in Good(n) : TRUE
  BY <1>4
<1>6. f = [i \in 1 .. Len(s) |-> IF i = 1 THEN s[i] ELSE f[i-1] \o s[i]]
  BY <1>5, <1>1 DEF n
<1>7. flatten = [i \in 1 .. Len(s) |-> IF i = 1 THEN s[i] ELSE flatten[i-1] \o s[i]]
  BY <1>6 DEF flatten
<1>8. FlattenSeq(s) = flatten[Len(s)]
  BY <1>1 DEF FlattenSeq, n
<1> HIDE DEF flatten
<1>9. \A i \in 1 .. n : flatten[i] = IF i = 1 THEN s[i] ELSE flatten[i-1] \o s[i]
  BY <1>7, <1>1 DEF n
<1>a. flatten[1] = s[1]
  BY <1>1, <1>9
<1>b. ASSUME NEW i \in 1 .. n - 1 PROVE flatten[i + 1] = flatten[i] \o s[i + 1]
  <2>1. i + 1 \in 1 .. n /\ i + 1 # 1 /\ (i + 1) - 1 = i
    BY <1>1
  <2>2. flatten[i + 1] = flatten[(i + 1) - 1] \o s[i + 1]
    BY <2>1, <1>9
  <2>3. QED BY <2>1, <2>2
<1> DEFINE S == {i \in 1 .. n : flatten[i] \in Seq(X)}
<1>10. \A i \in 1 .. n : i \in S
  <2>1. 1 \in S
    BY <1>1, <1>a
  <2>2. ASSUME NEW i \in 1 .. n - 1, i \in S PROVE i + 1 \in S
    <3>1. flatten[i] \in Seq(X) /\ s[i + 1] \in Seq(X) /\ i + 1 \in 1 .. n
      BY <2>2, <1>1
    <3>2. flatten[i] \o s[i + 1] \in Seq(X)
      BY <3>1
    <3>3. QED BY <3>1, <3>2, <1>b
  <2> HIDE DEF S
  <2>3. \A i \in 1 .. n - 1 : i \in S => i + 1 \in S
    BY <2>2
  <2>4. QED BY <1>1, <2>1, <2>3, UpTo
<1>11. flatten \in [1 .. n -> Seq(X)]
  BY <1>10, <1>7 DEF n
<1>12. QED
  BY <1>8, <1>a, <1>b, <1>11, <1>1 DEF n

(* Where IsMatch may be in an expression after each character of a text.   *)
LEMMA Matching ==
  ASSUME NEW text, Len(text) \in Nat, NEW regex, Len(regex) \in Nat
  PROVE  \E next \in [0 .. Len(text) -> SUBSET (1 .. Len(regex) + 1)] :
             /\ next[0] = Skipping(regex, {1})
             /\ \A j \in 1 .. Len(text) :
                   next[j] = Skipping(regex, Taking(regex, next[j - 1], text[j]))
             /\ IsMatch(text, regex) <=> Len(regex) + 1 \in next[Len(text)]
<1> DEFINE n == Len(text)
           V == SUBSET (1 .. Len(regex) + 1)
           Good(m) == {f \in [0 .. m -> V] : \A j \in 0 .. m :
                          f[j] = Skipping(regex, IF j = 0 THEN {1} ELSE Taking(regex, f[j - 1], text[j]))}
           Ms == {m \in 0 .. n : Good(m) # {}}
<1>1. \A S : Skipping(regex, S) \in V
  BY DEF Skipping
<1>2. n \in Nat
  OBVIOUS
<1> HIDE DEF n, V
<1>3. 0 \in Ms
  <2>1. [j \in 0 .. 0 |-> Skipping(regex, {1})] \in Good(0)
    BY <1>1
  <2>2. QED BY <2>1, <1>2
<1>4. ASSUME NEW m \in 0 .. n - 1, m \in Ms PROVE m + 1 \in Ms
  <2>1. PICK f \in Good(m) : TRUE
    BY <1>4
  <2> DEFINE new == Skipping(regex, Taking(regex, f[m], text[m + 1]))
             g == [j \in 0 .. m + 1 |-> IF j = m + 1 THEN new ELSE f[j]]
  <2>2. m \in Nat /\ m + 1 \in 1 .. n /\ m + 1 # 0 /\ (m + 1) - 1 = m
    BY <1>2
  <2>3. g \in [0 .. m + 1 -> V]
    BY <2>1, <2>2, <1>1
  <2>4. ASSUME NEW j \in 0 .. m + 1
        PROVE  g[j] = Skipping(regex, IF j = 0 THEN {1} ELSE Taking(regex, g[j - 1], text[j]))
    <3>1. CASE j = m + 1
      <4>1. g[j] = new /\ g[j - 1] = f[m]
        BY <3>1, <2>2
      <4> HIDE DEF g
      <4>2. QED BY <4>1, <2>2, <3>1
    <3>2. CASE j \in 0 .. m
      <4>1. g[j] = f[j] /\ (j # 0 => g[j - 1] = f[j - 1])
        BY <3>2, <2>2
      <4> HIDE DEF g
      <4>2. QED BY <4>1, <3>2, <2>1
    <3>3. QED BY <3>1, <3>2, <2>2
  <2>5. m + 1 \in 0 .. n /\ g \in Good(m + 1)
    BY <2>2, <2>3, <2>4
  <2>6. QED BY <2>5
<1>5. Good(n) # {}
  <2> HIDE DEF Ms
  <2> DEFINE T == {i \in Nat : i \in Ms \/ i > n}
  <2>1. 0 \in T /\ \A i \in Nat : i \in T => i + 1 \in T
    BY <1>2, <1>3, <1>4
  <2> HIDE DEF T
  <2>2. n \in T
    BY <2>1, <1>2, SetInduction
  <2>3. QED BY <2>2, <1>2 DEF T, Ms
<1>6. PICK f \in Good(n) : TRUE
  BY <1>5
<1> DEFINE next[j \in 0 .. Len(text)] ==
             Skipping(regex, IF j = 0 THEN {1} ELSE Taking(regex, next[j - 1], text[j]))
<1>7. f = [j \in 0 .. Len(text) |-> Skipping(regex, IF j = 0 THEN {1} ELSE Taking(regex, f[j - 1], text[j]))]
  BY <1>6 DEF n
<1>8. next = [j \in 0 .. Len(text) |-> Skipping(regex, IF j = 0 THEN {1} ELSE Taking(regex, next[j - 1], text[j]))]
  BY <1>7 DEF next
<1>9. IsMatch(text, regex) <=> Len(regex) + 1 \in next[Len(text)]
  BY DEF IsMatch
<1> HIDE DEF next
<1>10. next \in [0 .. n -> V]
  BY <1>8, <1>1 DEF n
<1>11. next[0] = Skipping(regex, {1})
  BY <1>8, <1>2 DEF n
<1>12. ASSUME NEW j \in 1 .. n PROVE next[j] = Skipping(regex, Taking(regex, next[j - 1], text[j]))
  BY <1>8, <1>2 DEF n
<1>13. QED
  BY <1>9, <1>10, <1>11, <1>12 DEF n, V

-----------------------------------------------------------------------------
(* Words and the texts they make.                                          *)

(* What a word is spelled with; its length.                                *)
Char == Letters \union {"-", "*", "#"}
Size(w) == Len(Spelling[w])

(* A word has at least one character, and none of them is a dot: the dots  *)
(* of a text are where its words meet.                                     *)
LEMMA Words ==
  /\ "." \notin Char
  /\ \A w \in DOMAIN Spelling : Spelling[w] \in Seq(Char) /\ Size(w) \in Nat /\ Size(w) >= 1
<1>1. "." \notin Char
  BY SpellingAssumption DEF Char
<1>2. ASSUME NEW w \in DOMAIN Spelling
      PROVE  Spelling[w] \in Seq(Char) /\ Size(w) \in Nat /\ Size(w) >= 1
  <2>1. CASE w \in {"*", "#"}
    <3>1. Spelling[w] = <<w>> /\ w \in Char
      BY <2>1, SpellingAssumption DEF Char
    <3>2. QED BY <3>1 DEF Size
  <2>2. CASE w \notin {"*", "#"}
    <3>1. Spelling[w] \in Seq(Letters \union {"-"}) /\ Spelling[w] # <<>>
      BY <2>2, SpellingAssumption
    <3>2. \A i \in 1 .. Len(Spelling[w]) : Spelling[w][i] \in Char
      BY <3>1 DEF Char
    <3>3. Spelling[w] \in Seq(Char)
      BY <3>1, <3>2, IsASeq DEF Char
    <3>4. QED BY <3>1, <3>3 DEF Size
  <2>3. QED BY <2>1, <2>2
<1>3. QED BY <1>1, <1>2

(* A text t that the first m of some words make: where each word starts,   *)
(* and of which word each character is, a dot being of the word before it. *)
Shaped(words, t, m, start, word) ==
    /\ start \in [1 .. m -> Nat \ {0}] /\ word \in [1 .. Len(t) -> 1 .. m]
    /\ start[1] = 1
    /\ Len(t) = start[m] + Size(words[m]) - 1
    /\ \A p \in 1 .. m - 1 : start[p + 1] = start[p] + Size(words[p]) + 1
    /\ \A p \in 1 .. m - 1 : LET j == start[p + 1] - 1 IN j \in 1 .. Len(t) /\ t[j] = "." /\ word[j] = p
    /\ \A p \in 1 .. m, c \in Nat \ {0} : c <= Size(words[p]) =>
          LET j == start[p] + c - 1 IN j \in 1 .. Len(t) /\ t[j] = Spelling[words[p]][c] /\ word[j] = p
    /\ \A j \in 1 .. Len(t) : /\ start[word[j]] <= j /\ j <= start[word[j]] + Size(words[word[j]])
                              /\ word[j] = m => j < start[m] + Size(words[m])

(* A word more, behind a dot, keeps the shape of a text.                   *)
LEMMA Extending ==
  ASSUME NEW words \in Seq(DOMAIN Spelling), NEW m \in 1 .. Len(words) - 1,
         NEW t \in Seq(Char \union {"."}),
         NEW start, NEW word, Shaped(words, t, m, start, word)
  PROVE  \E start2, word2 :
             Shaped(words, t \o (<<".">> \o Spelling[words[m + 1]]), m + 1, start2, word2)
<1> DEFINE s == Spelling[words[m + 1]]
           t2 == t \o (<<".">> \o s)
           start2 == [p \in 1 .. m + 1 |-> IF p = m + 1 THEN Len(t) + 2 ELSE start[p]]
           word2 == [j \in 1 .. Len(t2) |->
                        IF j <= Len(t) THEN word[j] ELSE IF j = Len(t) + 1 THEN m ELSE m + 1]
<1>1. /\ m \in Nat /\ m >= 1 /\ m + 1 \in 1 .. Len(words) /\ Len(t) \in Nat
      /\ \A p \in 1 .. m + 1 : words[p] \in DOMAIN Spelling /\ Size(words[p]) \in Nat /\ Size(words[p]) >= 1
      /\ s \in Seq(Char) /\ Len(s) = Size(words[m + 1])
  BY Words DEF Size
<1>2. /\ t2 \in Seq(Char \union {"."})
      /\ Len(t2) = Len(t) + 1 + Len(s)
      /\ \A j \in 1 .. Len(t) : t2[j] = t[j]
      /\ t2[Len(t) + 1] = "."
      /\ \A c \in 1 .. Len(s) : t2[Len(t) + 1 + c] = s[c]
  <2>1. s \in Seq(Char \union {"."})
    BY <1>1
  <2> DEFINE u == <<".">> \o s
  <2>2. /\ u \in Seq(Char \union {"."}) /\ Len(u) = 1 + Len(s) /\ u[1] = "."
        /\ \A c \in 1 .. Len(s) : u[1 + c] = s[c]
    BY <2>1
  <2> HIDE DEF u, s
  <2>3. /\ t \o u \in Seq(Char \union {"."}) /\ Len(t \o u) = Len(t) + Len(u)
        /\ \A j \in 1 .. Len(t) : (t \o u)[j] = t[j]
        /\ \A c \in 1 .. Len(u) : (t \o u)[Len(t) + c] = u[c]
    <3>1. u \in Seq(Char \union {"."}) /\ Len(u) \in Nat /\ Len(t) \in Nat
      BY <2>2
    <3>2. \A c \in 1 .. Len(u) : /\ ~ (Len(t) + c <= Len(t)) /\ (Len(t) + c) - Len(t) = c
                                /\ Len(t) + c \in 1 .. Len(t) + Len(u)
      BY <3>1
    <3>3. \A j \in 1 .. Len(t) : j \in 1 .. Len(t) + Len(u)
      BY <3>1
    <3>4. QED BY <3>1, <3>2, <3>3, ConcatProperties
  <2>4. \A c \in 1 .. Len(s) : 1 + c \in 1 .. Len(u) /\ Len(t) + (1 + c) = Len(t) + 1 + c
    BY <2>2, <2>1
  <2>5. t2 = t \o u
    BY DEF u
  <2>6. Len(u) = 1 + Len(s) /\ Len(t) \in Nat /\ Len(s) \in Nat
    BY <2>2, <1>1
  <2>7. t2[Len(t) + 1] = "."
    <3>1. 1 \in 1 .. Len(u)
      BY <2>6
    <3>2. QED BY <3>1, <2>2, <2>3, <2>5
  <2>8. \A c \in 1 .. Len(s) : t2[Len(t) + 1 + c] = s[c]
    BY <2>2, <2>3, <2>4, <2>5
  <2> HIDE DEF t2
  <2>9. QED BY <2>3, <2>5, <2>6, <2>7, <2>8
<1> HIDE DEF t2, s
<1>a. /\ start \in [1 .. m -> Nat \ {0}] /\ word \in [1 .. Len(t) -> 1 .. m]
      /\ start[1] = 1 /\ Len(t) = start[m] + Size(words[m]) - 1
  BY DEF Shaped
<1>b. ASSUME NEW p \in 1 .. m - 1
      PROVE  /\ start[p + 1] = start[p] + Size(words[p]) + 1 /\ start[p + 1] - 1 \in 1 .. Len(t)
             /\ t[start[p + 1] - 1] = "." /\ word[start[p + 1] - 1] = p
  BY DEF Shaped
<1>c. ASSUME NEW p \in 1 .. m, NEW c \in Nat \ {0}, c <= Size(words[p])
      PROVE  /\ start[p] + c - 1 \in 1 .. Len(t)
             /\ t[start[p] + c - 1] = Spelling[words[p]][c] /\ word[start[p] + c - 1] = p
  BY <1>c DEF Shaped
<1>d. ASSUME NEW j \in 1 .. Len(t)
      PROVE  start[word[j]] <= j /\ j <= start[word[j]] + Size(words[word[j]])
  BY DEF Shaped
<1>3. /\ start2 \in [1 .. m + 1 -> Nat \ {0}] /\ start2[m + 1] = Len(t) + 2
      /\ \A p \in 1 .. m : start2[p] = start[p] /\ p # m + 1
  BY <1>1, <1>a, SMTT(40)
<1>4. /\ word2 \in [1 .. Len(t2) -> 1 .. m + 1]
      /\ \A j \in 1 .. Len(t) : word2[j] = word[j]
      /\ word2[Len(t) + 1] = m
      /\ \A j \in Len(t) + 2 .. Len(t2) : word2[j] = m + 1
  <2>1. /\ Len(t2) \in Nat /\ Len(t) + 1 \in 1 .. Len(t2) /\ ~ (Len(t) + 1 <= Len(t))
        /\ \A j \in 1 .. Len(t) : j \in 1 .. Len(t2) /\ j <= Len(t)
        /\ \A j \in Len(t) + 2 .. Len(t2) : j \in 1 .. Len(t2) /\ ~ (j <= Len(t)) /\ j # Len(t) + 1
    BY <1>1, <1>2
  <2>2. \A j \in 1 .. Len(t2) : j <= Len(t) => j \in 1 .. Len(t)
    BY <1>1, <2>1
  <2>3. m \in 1 .. m + 1 /\ m + 1 \in 1 .. m + 1 /\ 1 .. m \subseteq 1 .. m + 1
    BY <1>1
  <2>4. QED BY <2>1, <2>2, <2>3, <1>a
<1> HIDE DEF start2, word2
<1>5. start2[1] = 1
  BY <1>1, <1>3, <1>a
<1>6. Len(t2) = start2[m + 1] + Size(words[m + 1]) - 1
  BY <1>1, <1>2, <1>3
<1>7. ASSUME NEW p \in 1 .. m
      PROVE  start2[p + 1] = start2[p] + Size(words[p]) + 1
  <2>1. CASE p = m
    BY <2>1, <1>1, <1>3, <1>a, SMTT(40)
  <2>2. CASE p \in 1 .. m - 1
    <3>1. p + 1 \in 1 .. m /\ p \in 1 .. m
      BY <2>2, <1>1
    <3>2. QED BY <3>1, <2>2, <1>3, <1>b
  <2>3. QED BY <2>1, <2>2
<1>8. ASSUME NEW p \in 1 .. m
      PROVE  /\ start2[p + 1] - 1 \in 1 .. Len(t2)
             /\ t2[start2[p + 1] - 1] = "." /\ word2[start2[p + 1] - 1] = p
  <2>1. CASE p = m
    <3>1. start2[p + 1] - 1 = Len(t) + 1
      BY <2>1, <1>1, <1>3
    <3>2. QED BY <3>1, <2>1, <1>1, <1>2, <1>4
  <2>2. CASE p \in 1 .. m - 1
    <3>1. start2[p + 1] = start[p + 1] /\ start[p + 1] - 1 \in 1 .. Len(t)
      <4>1. p + 1 \in 1 .. m
        BY <2>2, <1>1
      <4>2. QED BY <4>1, <2>2, <1>3, <1>b
    <3>2. t[start[p + 1] - 1] = "." /\ word[start[p + 1] - 1] = p
      BY <2>2, <1>b
    <3>3. PICK j \in 1 .. Len(t) : j = start[p + 1] - 1
      BY <3>1
    <3>4. j \in 1 .. Len(t2) /\ t2[j] = t[j] /\ word2[j] = word[j]
      BY <1>1, <1>2, <1>4
    <3>5. start2[p + 1] - 1 = j
      BY <3>1, <3>3
    <3>6. QED BY <3>2, <3>3, <3>4, <3>5
  <2>3. QED BY <2>1, <2>2
<1>9. ASSUME NEW p \in 1 .. m + 1, NEW c \in Nat \ {0}, c <= Size(words[p])
      PROVE  /\ start2[p] + c - 1 \in 1 .. Len(t2)
             /\ t2[start2[p] + c - 1] = Spelling[words[p]][c] /\ word2[start2[p] + c - 1] = p
  <2>1. CASE p = m + 1
    <3>1. start2[p] + c - 1 = Len(t) + 1 + c /\ c \in 1 .. Len(s)
      BY <2>1, <1>1, <1>3, <1>9
    <3>2. Len(t) + 1 + c \in Len(t) + 2 .. Len(t2)
      BY <3>1, <1>1, <1>2, SMTT(40)
    <3>3. QED BY <3>1, <3>2, <2>1, <1>1, <1>2, <1>4, SMTT(40) DEF s
  <2>2. CASE p \in 1 .. m
    <3>1. start2[p] = start[p] /\ start[p] + c - 1 \in 1 .. Len(t)
      BY <2>2, <1>9, <1>3, <1>c
    <3>2. t[start[p] + c - 1] = Spelling[words[p]][c] /\ word[start[p] + c - 1] = p
      BY <2>2, <1>9, <1>c
    <3>3. PICK j \in 1 .. Len(t) : j = start[p] + c - 1
      BY <3>1
    <3>4. j \in 1 .. Len(t2) /\ t2[j] = t[j] /\ word2[j] = word[j] /\ start2[p] + c - 1 = j
      BY <3>1, <3>3, <1>1, <1>2, <1>4, SMTT(40)
    <3>5. QED BY <3>2, <3>3, <3>4
  <2>3. QED BY <2>1, <2>2
<1>10. ASSUME NEW j \in 1 .. Len(t2)
       PROVE  /\ start2[word2[j]] <= j /\ j <= start2[word2[j]] + Size(words[word2[j]])
              /\ word2[j] = m + 1 => j < start2[m + 1] + Size(words[m + 1])
  <2>1. CASE j \in 1 .. Len(t)
    <3>1. word2[j] = word[j] /\ word[j] \in 1 .. m
      BY <2>1, <1>4, <1>a
    <3>2. start2[word[j]] = start[word[j]] /\ word[j] # m + 1
      BY <3>1, <1>1, <1>3
    <3>3. start[word[j]] <= j /\ j <= start[word[j]] + Size(words[word[j]])
      BY <2>1, <1>d
    <3>4. QED BY <3>1, <3>2, <3>3
  <2>2. CASE j = Len(t) + 1
    <3>1. word2[j] = m /\ start2[m] = start[m] /\ Len(t) = start[m] + Size(words[m]) - 1 /\ start[m] \in Nat
      BY <2>2, <1>1, <1>3, <1>4, <1>a
    <3>2. m # m + 1 /\ m \in 1 .. m + 1 /\ Size(words[m]) \in Nat
      BY <1>1
    <3>3. QED BY <3>1, <3>2, <2>2
  <2>3. CASE j \in Len(t) + 2 .. Len(t2)
    <3>1. word2[j] = m + 1
      BY <2>3, <1>4
    <3>2. QED BY <3>1, <2>3, <1>1, <1>2, <1>3, SMTT(40)
  <2>4. QED BY <2>1, <2>2, <2>3, <1>1, <1>2
<1>11. Shaped(words, t2, m + 1, start2, word2)
  <2>1. (m + 1) - 1 = m
    BY <1>1
  <2>2. \A p \in 1 .. m : /\ start2[p + 1] = start2[p] + Size(words[p]) + 1
                          /\ LET j == start2[p + 1] - 1 IN j \in 1 .. Len(t2) /\ t2[j] = "." /\ word2[j] = p
    BY <1>7, <1>8
  <2>3. \A p \in 1 .. m + 1, c \in Nat \ {0} : c <= Size(words[p]) =>
            LET j == start2[p] + c - 1 IN j \in 1 .. Len(t2) /\ t2[j] = Spelling[words[p]][c] /\ word2[j] = p
    BY <1>9
  <2>4. \A j \in 1 .. Len(t2) :
            /\ start2[word2[j]] <= j /\ j <= start2[word2[j]] + Size(words[word2[j]])
            /\ word2[j] = m + 1 => j < start2[m + 1] + Size(words[m + 1])
    BY <1>10
  <2>5. start2 \in [1 .. m + 1 -> Nat \ {0}] /\ word2 \in [1 .. Len(t2) -> 1 .. m + 1]
    BY <1>3, <1>4
  <2>6. QED BY <2>1, <2>2, <2>3, <2>4, <2>5, <1>5, <1>6 DEF Shaped
<1>12. QED BY <1>11 DEF t2, s

(* The text of some words has the shape of them all: each word in its      *)
(* place, dots in between.                                                 *)
LEMMA TextShape ==
  ASSUME NEW words \in Seq(DOMAIN Spelling), words # <<>>
  PROVE  /\ Text(words) \in Seq(Char \union {"."})
         /\ \E start, word : Shaped(words, Text(words), Len(words), start, word)
<1> DEFINE X == Char \union {"."}
           n == Len(words)
           chunk(i) == IF i = 1 THEN Spelling[words[i]] ELSE <<".">> \o Spelling[words[i]]
           chunks == [i \in DOMAIN words |-> chunk(i)]
<1>1. n \in Nat /\ n >= 1 /\ DOMAIN words = 1 .. n /\ \A i \in 1 .. n : words[i] \in DOMAIN Spelling
  OBVIOUS
<1>2. \A i \in 1 .. n : Spelling[words[i]] \in Seq(X)
  <2>1. \A i \in 1 .. n : Spelling[words[i]] \in Seq(Char)
    BY <1>1, Words
  <2>2. QED BY <2>1
<1>3. chunks \in Seq(Seq(X)) /\ Len(chunks) = n /\ chunks # <<>>
  <2>1. \A i \in 1 .. n : chunk(i) \in Seq(X)
    <3>1. <<".">> \in Seq(X)
      OBVIOUS
    <3>2. \A i \in 1 .. n : <<".">> \o Spelling[words[i]] \in Seq(X)
      BY <3>1, <1>2, ConcatProperties
    <3>3. QED BY <3>2, <1>2
  <2> HIDE DEF chunk
  <2>2. QED BY <2>1, <1>1, IsASeq
<1>4. /\ chunks[1] = Spelling[words[1]]
      /\ \A i \in 1 .. n - 1 : chunks[i + 1] = <<".">> \o Spelling[words[i + 1]]
  BY <1>1
<1>5. Text(words) = FlattenSeq(chunks)
  BY DEF Text
<1> HIDE DEF chunks, n, X
<1>6. PICK f \in [1 .. n -> Seq(X)] :
          /\ f[1] = chunks[1]
          /\ \A i \in 1 .. n - 1 : f[i + 1] = f[i] \o chunks[i + 1]
          /\ FlattenSeq(chunks) = f[n]
  BY <1>3, Flattening
<1> DEFINE Ms == {m \in 1 .. n : \E start, word : Shaped(words, f[m], m, start, word)}
<1>7. 1 \in Ms
  <2> DEFINE s == Spelling[words[1]]
             start == [p \in 1 .. 1 |-> 1]
             word == [j \in 1 .. Len(s) |-> 1]
  <2>1. words[1] \in DOMAIN Spelling /\ s \in Seq(Char) /\ Len(s) = Size(words[1]) /\ Len(s) \in Nat /\ Len(s) >= 1
    BY <1>1, Words DEF Size
  <2>2. f[1] = s
    BY <1>4, <1>6
  <2>3. Shaped(words, s, 1, start, word)
    BY <2>1 DEF Shaped
  <2>4. QED BY <2>2, <2>3, <1>1
<1>8. ASSUME NEW m \in 1 .. n - 1, m \in Ms PROVE m + 1 \in Ms
  <2>1. PICK start, word : Shaped(words, f[m], m, start, word)
    BY <1>8
  <2>2. m \in 1 .. Len(words) - 1 /\ f[m] \in Seq(Char \union {"."}) /\ m + 1 \in 1 .. n
    BY <1>1, <1>6 DEF n, X
  <2>3. f[m + 1] = f[m] \o (<<".">> \o Spelling[words[m + 1]])
    BY <1>4, <1>6
  <2>4. \E start2, word2 : Shaped(words, f[m + 1], m + 1, start2, word2)
    BY <2>1, <2>2, <2>3, Extending
  <2>5. QED BY <2>2, <2>4
<1> HIDE DEF Ms
<1>9. n \in Ms
  <2>1. \A i \in 1 .. n - 1 : i \in Ms => i + 1 \in Ms
    BY <1>8
  <2>2. \A i \in 1 .. n : i \in Ms
    BY <1>1, <1>7, <2>1, UpTo
  <2>3. QED BY <1>1, <2>2
<1>10. QED
  BY <1>1, <1>5, <1>6, <1>9 DEF Ms, n, X

-----------------------------------------------------------------------------
(* What an expression without optional items matches.                      *)

(* An expression each item of which must take a character.                 *)
Strict(regex) == DOMAIN regex = 1 .. Len(regex) /\ \A i \in 1 .. Len(regex) : ~ regex[i].optional

(* The items f take the first k characters of a text.                      *)
Takes(f, text, k, regex) ==
    /\ f \in [1 .. k -> 1 .. Len(regex)]
    /\ f[1] = 1
    /\ \A j \in 1 .. k : text[j] \in regex[f[j]].of
    /\ \A j \in 1 .. k - 1 : f[j + 1] = f[j] + 1 \/ (f[j + 1] = f[j] /\ regex[f[j]].many)

(* In an expression that has no optional item none is skipped.             *)
LEMMA NoneSkipped ==
  ASSUME NEW regex, Len(regex) \in Nat, Strict(regex), NEW S \in SUBSET (1 .. Len(regex) + 1)
  PROVE  Skipping(regex, S) = S
<1>1. ASSUME NEW i \in S PROVE i \in Skipping(regex, S)
  <2>1. i <= i /\ i .. i - 1 = {}
    OBVIOUS
  <2>2. QED BY <2>1 DEF Skipping
<1>2. ASSUME NEW i \in Skipping(regex, S) PROVE i \in S
  <2>1. PICK m \in S : m <= i /\ \A k \in m .. i - 1 : regex[k].optional
    BY <1>2 DEF Skipping
  <2>2. i \in 1 .. Len(regex) + 1
    BY <1>2 DEF Skipping
  <2>3. ASSUME m < i PROVE FALSE
    <3>1. m \in m .. i - 1 /\ m \in 1 .. Len(regex)
      BY <2>2, <2>3
    <3>2. QED BY <2>1, <3>1 DEF Strict
  <2>4. m = i
    BY <2>1, <2>2, <2>3
  <2>5. QED BY <2>4
<1>3. QED BY <1>1, <1>2

(* One step of the match in such an expression: a character is taken, and  *)
(* the item repeated or left.                                              *)
LEMMA TakingAsked ==
  ASSUME NEW regex, Len(regex) \in Nat, Strict(regex), NEW S \in SUBSET (1 .. Len(regex) + 1), NEW char, NEW n
  PROVE  n \in Skipping(regex, Taking(regex, S, char)) <=>
            /\ n \in 1 .. Len(regex) + 1
            /\ \E i \in S : /\ i \in 1 .. Len(regex) /\ char \in regex[i].of
                            /\ n = i + 1 \/ (n = i /\ regex[i].many)
<1>1. Taking(regex, S, char) \in SUBSET (1 .. Len(regex) + 1)
  BY DEF Taking
<1>2. Skipping(regex, Taking(regex, S, char)) = Taking(regex, S, char)
  BY <1>1, NoneSkipped
<1>3. n \in Taking(regex, S, char) <=>
            /\ n \in 1 .. Len(regex) + 1
            /\ \E i \in S : /\ i \in 1 .. Len(regex) /\ char \in regex[i].of
                            /\ n = i + 1 \/ (n = i /\ regex[i].many)
  <2>1. DOMAIN regex = 1 .. Len(regex)
    BY DEF Strict
  <2>2. QED BY <2>1 DEF Taking
<1>4. QED BY <1>2, <1>3

(* A text that matches such an expression is taken by the items, all of    *)
(* them and in order.                                                      *)
LEMMA MatchTakes ==
  ASSUME NEW text, Len(text) \in Nat \ {0}, NEW regex, Len(regex) \in Nat, Strict(regex),
         IsMatch(text, regex)
  PROVE  \E f : Takes(f, text, Len(text), regex) /\ f[Len(text)] = Len(regex)
<1> DEFINE N == Len(regex)
           K == Len(text)
<1>1. PICK next \in [0 .. K -> SUBSET (1 .. N + 1)] :
          /\ next[0] = Skipping(regex, {1})
          /\ \A j \in 1 .. K : next[j] = Skipping(regex, Taking(regex, next[j - 1], text[j]))
          /\ N + 1 \in next[K]
  BY Matching
<1>2. N \in Nat /\ K \in Nat /\ K >= 1
  OBVIOUS
<1> HIDE DEF N, K
<1>3. next[0] = {1}
  <2>1. {1} \in SUBSET (1 .. N + 1)
    BY <1>2
  <2>2. QED BY <1>1, <2>1, NoneSkipped DEF N
<1>4. ASSUME NEW j \in 0 .. K - 1, NEW n \in next[j + 1]
      PROVE  \E i \in next[j] : /\ i \in 1 .. N /\ text[j + 1] \in regex[i].of
                                /\ n = i + 1 \/ (n = i /\ regex[i].many)
  <2>1. j + 1 \in 1 .. K /\ (j + 1) - 1 = j
    BY <1>2
  <2>2. next[j + 1] = Skipping(regex, Taking(regex, next[j], text[j + 1]))
    BY <1>1, <2>1
  <2>3. next[j] \in SUBSET (1 .. N + 1)
    BY <1>1, <1>2
  <2>4. n \in Skipping(regex, Taking(regex, next[j], text[j + 1]))
    BY <2>2
  <2> HIDE DEF N
  <2>5. QED BY <2>3, <2>4, TakingAsked DEF N
<1> DEFINE Come(j, n) == \E f : Takes(f, text, j, regex) /\ (n = f[j] + 1 \/ (n = f[j] /\ regex[f[j]].many))
           Js == {j \in 1 .. K : \A n \in next[j] : Come(j, n)}
<1>5. 1 \in Js
  <2>1. ASSUME NEW n \in next[1] PROVE Come(1, n)
    <3>1. 0 \in 0 .. K - 1 /\ 0 + 1 = 1
      BY <1>2
    <3>2. PICK i \in next[0] : /\ i \in 1 .. N /\ text[0 + 1] \in regex[i].of
                               /\ n = i + 1 \/ (n = i /\ regex[i].many)
      BY <1>4, <3>1
    <3>3. i = 1 /\ text[1] \in regex[1].of /\ (n = 1 + 1 \/ (n = 1 /\ regex[1].many))
      BY <3>2, <1>3
    <3> DEFINE f == [q \in 1 .. 1 |-> 1]
    <3>4. Takes(f, text, 1, regex)
      BY <3>2, <3>3, <1>2 DEF Takes, N
    <3>5. QED BY <3>3, <3>4
  <2>2. QED BY <2>1, <1>2
<1>6. ASSUME NEW j \in 1 .. K - 1, j \in Js PROVE j + 1 \in Js
  <2>1. ASSUME NEW n \in next[j + 1] PROVE Come(j + 1, n)
    <3>1. j \in 0 .. K - 1 /\ j \in 1 .. K /\ j \in Nat /\ j >= 1
      BY <1>2
    <3>2. PICK i \in next[j] : /\ i \in 1 .. N /\ text[j + 1] \in regex[i].of
                               /\ n = i + 1 \/ (n = i /\ regex[i].many)
      BY <1>4, <3>1
    <3>3. PICK f : Takes(f, text, j, regex) /\ (i = f[j] + 1 \/ (i = f[j] /\ regex[f[j]].many))
      BY <1>6, <3>1
    <3> DEFINE g == [q \in 1 .. j + 1 |-> IF q = j + 1 THEN i ELSE f[q]]
    <3>4. /\ g \in [1 .. j + 1 -> 1 .. Len(regex)] /\ g[j + 1] = i
          /\ \A q \in 1 .. j : g[q] = f[q]
      BY <3>1, <3>2, <3>3 DEF Takes, N
    <3> HIDE DEF g
    <3>5. g[1] = 1
      BY <3>1, <3>3, <3>4 DEF Takes
    <3>6. ASSUME NEW q \in 1 .. j + 1 PROVE text[q] \in regex[g[q]].of
      <4>1. CASE q = j + 1
        BY <4>1, <3>2, <3>4
      <4>2. CASE q \in 1 .. j
        BY <4>2, <3>3, <3>4 DEF Takes
      <4>3. QED BY <4>1, <4>2, <3>1
    <3>7. ASSUME NEW q \in 1 .. (j + 1) - 1 PROVE g[q + 1] = g[q] + 1 \/ (g[q + 1] = g[q] /\ regex[g[q]].many)
      <4>1. CASE q = j
        BY <4>1, <3>1, <3>3, <3>4
      <4>2. CASE q \in 1 .. j - 1
        <5>1. q \in 1 .. j /\ q + 1 \in 1 .. j
          BY <4>2, <3>1
        <5>2. f[q + 1] = f[q] + 1 \/ (f[q + 1] = f[q] /\ regex[f[q]].many)
          BY <4>2, <3>3 DEF Takes
        <5>3. QED BY <5>1, <5>2, <3>4
      <4>3. QED BY <4>1, <4>2, <3>1
    <3>8. Takes(g, text, j + 1, regex)
      BY <3>4, <3>5, <3>6, <3>7 DEF Takes
    <3>9. QED BY <3>2, <3>4, <3>8
  <2>2. j + 1 \in 1 .. K
    BY <1>2
  <2> HIDE DEF Come
  <2>3. QED BY <2>1, <2>2
<1>7. K \in Js
  <2> HIDE DEF Js
  <2>1. \A j \in 1 .. K - 1 : j \in Js => j + 1 \in Js
    BY <1>6
  <2>2. \A j \in 1 .. K : j \in Js
    BY <1>2, <1>5, <2>1, UpTo
  <2>3. QED BY <1>2, <2>2
<1>8. PICK f : Takes(f, text, K, regex) /\ (N + 1 = f[K] + 1 \/ (N + 1 = f[K] /\ regex[f[K]].many))
  BY <1>1, <1>7
<1>9. f[K] \in 1 .. N
  BY <1>2, <1>8 DEF Takes, N
<1>10. f[K] = N
  BY <1>2, <1>8, <1>9
<1>11. QED BY <1>8, <1>10 DEF K, N

(* A text that is taken by all of the items in order matches.              *)
LEMMA TakesMatch ==
  ASSUME NEW text, Len(text) \in Nat \ {0}, NEW regex, Len(regex) \in Nat, Strict(regex),
         NEW f, Takes(f, text, Len(text), regex), f[Len(text)] = Len(regex)
  PROVE  IsMatch(text, regex)
<1> DEFINE N == Len(regex)
           K == Len(text)
<1>1. PICK next \in [0 .. K -> SUBSET (1 .. N + 1)] :
          /\ next[0] = Skipping(regex, {1})
          /\ \A j \in 1 .. K : next[j] = Skipping(regex, Taking(regex, next[j - 1], text[j]))
          /\ IsMatch(text, regex) <=> N + 1 \in next[K]
  BY Matching
<1>2. N \in Nat /\ K \in Nat /\ K >= 1
  OBVIOUS
<1>3. next[0] = {1}
  <2>1. {1} \in SUBSET (1 .. N + 1)
    BY <1>2
  <2>2. QED BY <1>1, <2>1, NoneSkipped DEF N
<1>a. /\ f \in [1 .. K -> 1 .. N] /\ f[1] = 1 /\ f[K] = N
      /\ \A j \in 1 .. K : text[j] \in regex[f[j]].of
      /\ \A j \in 1 .. K - 1 : f[j + 1] = f[j] + 1 \/ (f[j + 1] = f[j] /\ regex[f[j]].many)
  BY DEF Takes
<1> HIDE DEF N, K
<1>4. ASSUME NEW j \in 1 .. K, f[j] \in next[j - 1]
      PROVE  f[j] + 1 \in next[j] /\ (regex[f[j]].many => f[j] \in next[j])
  <2>1. next[j] = Skipping(regex, Taking(regex, next[j - 1], text[j]))
    BY <1>1
  <2>2. next[j - 1] \in SUBSET (1 .. N + 1)
    BY <1>1, <1>2
  <2>3. f[j] \in 1 .. N /\ f[j] + 1 \in 1 .. N + 1 /\ f[j] \in 1 .. N + 1 /\ text[j] \in regex[f[j]].of
    BY <1>a, <1>2
  <2>4. QED BY <2>1, <2>2, <2>3, <1>4, TakingAsked, SMTT(40) DEF N
<1> DEFINE Js == {j \in 1 .. K : f[j] \in next[j - 1]}
<1>5. 1 \in Js
  BY <1>2, <1>3, <1>a
<1>6. ASSUME NEW j \in 1 .. K - 1, j \in Js PROVE j + 1 \in Js
  <2>1. j \in 1 .. K /\ j + 1 \in 1 .. K /\ (j + 1) - 1 = j
    BY <1>2
  <2>2. f[j + 1] \in next[j]
    BY <2>1, <1>4, <1>6, <1>a
  <2>3. QED BY <2>1, <2>2
<1>7. K \in Js
  <2> HIDE DEF Js
  <2>1. \A j \in 1 .. K - 1 : j \in Js => j + 1 \in Js
    BY <1>6
  <2>2. \A j \in 1 .. K : j \in Js
    BY <1>2, <1>5, <2>1, UpTo
  <2>3. QED BY <1>2, <2>2
<1>8. K \in 1 .. K
  BY <1>2
<1>9. N + 1 \in next[K]
  BY <1>4, <1>7, <1>8, <1>a
<1>10. QED BY <1>1, <1>9

(* The place of a character in its word; that of a dot is behind the last. *)
Col(start, word, j) == j - start[word[j]] + 1

(* From character j of a text, which is character c of word p or the dot   *)
(* behind it, to the next.                                                 *)
Walk(words, t, n, start, word, j, p, c) ==
    /\ p \in 1 .. n /\ c \in 1 .. Size(words[p]) + 1 /\ words[p] \in DOMAIN Spelling
    /\ c <= Size(words[p]) =>
         /\ t[j] = Spelling[words[p]][c] /\ t[j] # "." /\ t[j] \in Char
         /\ j < Len(t) => word[j + 1] = p /\ Col(start, word, j + 1) = c + 1
         /\ j = Len(t) <=> p = n /\ c = Size(words[p])
    /\ c > Size(words[p]) =>
         /\ p < n /\ t[j] = "." /\ j < Len(t) /\ word[j + 1] = p + 1
         /\ Col(start, word, j + 1) = 1 /\ c = Size(words[p]) + 1 /\ start[p + 1] = j + 1

(* On in the word, or to the dot behind it, or from the dot to the next    *)
(* word: so one walks along a text.                                        *)
LEMMA Walking ==
  ASSUME NEW words \in Seq(DOMAIN Spelling), NEW t \in Seq(Char \union {"."}),
         NEW n \in Nat, n = Len(words), n >= 1,
         NEW start, NEW word, Shaped(words, t, n, start, word)
  PROVE  \A j \in 1 .. Len(t) :
            Walk(words, t, n, start, word, j, word[j], Col(start, word, j))
<1> SUFFICES ASSUME NEW j \in 1 .. Len(t), NEW p, p = word[j], NEW c, c = Col(start, word, j)
             PROVE  Walk(words, t, n, start, word, j, p, c)
  OBVIOUS
<1>1. /\ start \in [1 .. n -> Nat \ {0}] /\ word \in [1 .. Len(t) -> 1 .. n]
      /\ start[1] = 1 /\ Len(t) = start[n] + Size(words[n]) - 1
  BY DEF Shaped
<1>2. ASSUME NEW q \in 1 .. n - 1
      PROVE  /\ start[q + 1] = start[q] + Size(words[q]) + 1 /\ start[q + 1] - 1 \in 1 .. Len(t)
             /\ t[start[q + 1] - 1] = "." /\ word[start[q + 1] - 1] = q
  BY DEF Shaped
<1>3. ASSUME NEW q \in 1 .. n, NEW d \in Nat \ {0}, d <= Size(words[q])
      PROVE  /\ start[q] + d - 1 \in 1 .. Len(t)
             /\ t[start[q] + d - 1] = Spelling[words[q]][d] /\ word[start[q] + d - 1] = q
  BY <1>3 DEF Shaped
<1>4. start[p] <= j /\ j <= start[p] + Size(words[p]) /\ (p = n => j < start[n] + Size(words[n]))
  BY DEF Shaped
<1>5. /\ \A q \in 1 .. n : /\ words[q] \in DOMAIN Spelling /\ Size(words[q]) \in Nat /\ Size(words[q]) >= 1
                           /\ Spelling[words[q]] \in Seq(Char) /\ Len(Spelling[words[q]]) = Size(words[q])
      /\ Len(t) \in Nat
  BY Words DEF Size
<1>6. p \in 1 .. n /\ start[p] \in Nat \ {0} /\ c = j - start[p] + 1 /\ j = start[p] + c - 1
  BY <1>1 DEF Col
<1>n. n \in Nat /\ n >= 1 /\ p \in 1 .. n
  BY <1>6
<1>z. PICK z \in Nat : z = Size(words[p]) /\ z >= 1
  BY <1>5, <1>6
<1>b. PICK b \in Nat \ {0} : b = start[p]
  BY <1>6
<1>l. PICK l \in Nat : l = Len(t)
  BY <1>5
<1>7. /\ j \in Nat /\ j <= l /\ c = j - b + 1 /\ c \in Int /\ b <= j /\ j <= b + z /\ (p = n => j < b + z)
      /\ c \in 1 .. z + 1 /\ j = b + c - 1 /\ p \in Nat /\ p >= 1 /\ p <= n
      /\ p = n => l = b + z - 1
  <2>1. /\ j \in Nat /\ j <= l /\ c = j - b + 1 /\ b <= j /\ j <= b + z /\ (p = n => j < b + z)
        /\ p \in Nat /\ p >= 1 /\ p <= n
    <3>1. j \in Nat /\ j <= l
      BY <1>l
    <3>2. c = j - b + 1 /\ b <= j
      BY <1>4, <1>6, <1>b
    <3>3. j <= b + z /\ (p = n => j < b + z)
      BY <1>4, <1>6, <1>b, <1>z
    <3>4. p \in Nat /\ p >= 1 /\ p <= n
      BY ONLY <1>n
    <3>5. QED BY <3>1, <3>2, <3>3, <3>4
  <2>2. p = n => l = b + z - 1
    BY <1>1, <1>z, <1>b, <1>l
  <2>3. QED BY <2>1, <2>2
<1>8. ASSUME c <= z
      PROVE  /\ t[j] = Spelling[words[p]][c] /\ t[j] # "." /\ t[j] \in Char
             /\ j < l => word[j + 1] = p /\ Col(start, word, j + 1) = c + 1
             /\ j = l <=> p = n /\ c = z
  <2>1. t[j] = Spelling[words[p]][c]
    <3>1. c \in Nat \ {0} /\ c <= Size(words[p]) /\ start[p] + c - 1 = j
      <4>1. c \in Nat \ {0}
        BY <1>7
      <4>2. c <= Size(words[p])
        BY <1>8, <1>z
      <4>3. start[p] + c - 1 = j
        BY <1>7, <1>b
      <4>4. QED BY <4>1, <4>2, <4>3
    <3>2. t[start[p] + c - 1] = Spelling[words[p]][c]
      BY ONLY <3>1, <1>3, <1>n
    <3>3. QED BY <3>1, <3>2
  <2>2. t[j] \in Char /\ t[j] # "."
    <3>1. c \in 1 .. Len(Spelling[words[p]]) /\ Spelling[words[p]] \in Seq(Char)
      <4>1. Len(Spelling[words[p]]) = z /\ Spelling[words[p]] \in Seq(Char)
        BY <1>5, <1>6, <1>z
      <4>2. c \in 1 .. z
        BY <1>7, <1>8
      <4>3. QED BY <4>1, <4>2
    <3>2. Spelling[words[p]][c] \in Char
      BY <3>1
    <3>3. QED BY <2>1, <3>2, Words
  <2>a. ASSUME p < n
        PROVE  /\ p \in 1 .. n - 1 /\ start[p + 1] = b + z + 1 /\ b + z <= l
               /\ t[b + z] = "." /\ word[b + z] = p
    <3>1. p \in 1 .. n - 1
      BY <1>7, <2>a
    <3>2. start[p + 1] = b + z + 1
      BY ONLY <3>1, <1>2, <1>z, <1>b
    <3>3. start[p + 1] - 1 = b + z
      BY <3>2
    <3>4. start[p + 1] - 1 <= l
      BY <3>1, <1>2, <1>l
    <3>5. t[start[p + 1] - 1] = "." /\ word[start[p + 1] - 1] = p
      BY <3>1, <1>2
    <3>6. QED BY <3>1, <3>2, <3>3, <3>4, <3>5
  <2>3. j = l <=> p = n /\ c = z
    <3>1. CASE p < n
      BY <3>1, <2>a, <1>7, <1>8
    <3>2. CASE p = n
      BY <3>2, <1>7, <1>8
    <3>3. QED BY <3>1, <3>2, <1>7
  <2>4. ASSUME j < l PROVE word[j + 1] = p
    <3>1. CASE c < z
      <4>1. c + 1 \in Nat \ {0} /\ c + 1 <= Size(words[p]) /\ start[p] + (c + 1) - 1 = j + 1
        <5>1. c + 1 \in Nat \ {0} /\ c + 1 <= z /\ b + (c + 1) - 1 = j + 1
          BY <3>1, <1>7
        <5>2. QED BY <5>1, <1>z, <1>b
      <4>2. word[start[p] + (c + 1) - 1] = p
        BY ONLY <4>1, <1>3, <1>n
      <4>3. QED BY <4>1, <4>2
    <3>2. CASE c = z
      <4>1. p < n
        BY <3>2, <2>3, <2>4, <1>7
      <4>2. b + z = j + 1
        BY <3>2, <1>7
      <4>3. QED BY <4>1, <4>2, <2>a
    <3>3. QED BY <3>1, <3>2, <1>7, <1>8
  <2>5. ASSUME j < l PROVE Col(start, word, j + 1) = c + 1
    <3>1. Col(start, word, j + 1) = (j + 1) - b + 1
      BY <2>4, <2>5, <1>b DEF Col
    <3>2. QED BY <3>1, <1>7
  <2>6. QED BY <2>1, <2>2, <2>3, <2>4, <2>5
<1>9. ASSUME c > z
      PROVE  /\ p < n /\ t[j] = "." /\ j < l /\ word[j + 1] = p + 1
             /\ Col(start, word, j + 1) = 1 /\ c = z + 1 /\ start[p + 1] = j + 1
  <2>1. c = z + 1 /\ j = b + z /\ p < n /\ p \in 1 .. n - 1
    BY <1>7, <1>9
  <2>2. start[p + 1] = j + 1 /\ start[p + 1] - 1 = j
    <3>1. start[p + 1] = b + z + 1
      BY ONLY <2>1, <1>2, <1>z, <1>b
    <3>2. QED BY <3>1, <2>1, <1>7
  <2>3. t[j] = "."
    <3>1. t[start[p + 1] - 1] = "."
      BY <2>1, <1>2
    <3>2. QED BY <3>1, <2>2
  <2>4. p + 1 \in 1 .. n /\ Size(words[p + 1]) \in Nat /\ 1 <= Size(words[p + 1])
    BY <2>1, <1>5, <1>7
  <2>5. start[p + 1] + 1 - 1 \in 1 .. Len(t) /\ word[start[p + 1] + 1 - 1] = p + 1
    <3>1. 1 \in Nat \ {0}
      OBVIOUS
    <3>2. QED BY <3>1, <2>4, <1>3
  <2>6. start[p + 1] + 1 - 1 = j + 1
    BY <2>2, <1>7
  <2>7. j + 1 \in 1 .. Len(t) /\ word[j + 1] = p + 1
    BY <2>5, <2>6
  <2>8. j < l
    BY <2>7, <1>7, <1>l
  <2>9. Col(start, word, j + 1) = 1
    <3>1. Col(start, word, j + 1) = (j + 1) - (j + 1) + 1
      BY <2>2, <2>7 DEF Col
    <3>2. QED BY <3>1, <1>7
  <2>10. QED BY <2>1, <2>2, <2>3, <2>7, <2>8, <2>9
<1>10. QED BY <1>5, <1>6, <1>7, <1>8, <1>9, <1>z, <1>l DEF Walk

-----------------------------------------------------------------------------
(* The selector lets through no more than the broker.                      *)

(* Only the word of a sign has the sign in it, so that Replace in the      *)
(* topic's text hits exactly these words.                                  *)
LEMMA SignIsWord ==
  ASSUME NEW w \in DOMAIN Spelling, NEW c \in 1 .. Size(w), NEW sign \in {"*", "#"}, Spelling[w][c] = sign
  PROVE  w = sign /\ Size(w) = 1
<1>1. Spelling["*"] = <<"*">> /\ Spelling["#"] = <<"#">>
  BY SpellingAssumption
<1>2. ASSUME w \notin {"*", "#"} PROVE FALSE
  <2>1. Spelling[w] \in Seq(Letters \union {"-"})
    BY <1>2, SpellingAssumption
  <2>2. Spelling[w][c] \in Letters \union {"-"}
    BY <2>1 DEF Size
  <2>3. QED BY <2>2, SpellingAssumption
<1>3. w \in {"*", "#"} /\ Spelling[w] = <<w>>
  BY <1>1, <1>2
<1>4. Size(w) = 1
  BY <1>3 DEF Size
<1>5. Spelling[w][c] = w
  BY <1>3, <1>4
<1>6. QED BY <1>4, <1>5

(* What the expression of a topic with asterisks takes: letters for an     *)
(* asterisk, and each other character itself.                              *)
LEMMA AsteriskItems ==
  ASSUME NEW topic, Len(Text(topic)) \in Nat, Text(topic) \in Seq(Char \union {"."})
  PROVE  LET r == AsteriskRegex(topic)
             t == Text(topic)
         IN  /\ Len(r) = Len(t) /\ Strict(r)
             /\ \A i \in 1 .. Len(t) :
                   /\ t[i] = "*" => r[i].of = Letters /\ r[i].many
                   /\ t[i] # "*" => r[i].of = {t[i]} /\ ~ r[i].many
<1> DEFINE r == AsteriskRegex(topic)
           t == Text(topic)
<1>1. DOMAIN t = 1 .. Len(t)
  OBVIOUS
<1>2. r = [i \in 1 .. Len(t) |-> IF t[i] = "*" THEN OneOrMore(Letters) ELSE Once({t[i]})]
  BY <1>1 DEF AsteriskRegex
<1> HIDE DEF r, t
<1>3. DOMAIN r = 1 .. Len(t) /\ Len(t) \in Nat
  BY <1>2 DEF t
<1>4. Len(r) = Len(t)
  BY <1>2, <1>3, LenProperties
<1>5. ASSUME NEW i \in 1 .. Len(t)
      PROVE  /\ ~ r[i].optional
             /\ t[i] = "*" => r[i].of = Letters /\ r[i].many
             /\ t[i] # "*" => r[i].of = {t[i]} /\ ~ r[i].many
  <2>1. CASE t[i] = "*"
    <3>1. r[i] = [of |-> Letters, optional |-> FALSE, many |-> TRUE]
      BY <2>1, <1>2 DEF OneOrMore, Item
    <3>2. QED BY <2>1, <3>1
  <2>2. CASE t[i] # "*"
    <3>1. r[i] = [of |-> {t[i]}, optional |-> FALSE, many |-> FALSE]
      BY <2>2, <1>2 DEF Once, Item
    <3>2. QED BY <2>2, <3>1
  <2>3. QED BY <2>1, <2>2
<1>6. QED BY <1>3, <1>4, <1>5 DEF Strict, r, t

(* A key that the expression of a topic with asterisks matches has a word  *)
(* for each word of the topic, the same one or, for an asterisk, any. The  *)
(* match of the two texts, character by character, keeps to the words.     *)
LEMMA AsteriskWords ==
  ASSUME NEW topic \in Seq(DOMAIN Spelling), topic # <<>>,
         NEW key \in Keys, key # <<>>,
         IsMatch(Text(key), AsteriskRegex(topic))
  PROVE  Len(key) = Len(topic) /\ \A p \in 1 .. Len(topic) : topic[p] \in {"*", key[p]}
<1> DEFINE nT == Len(topic)
           nK == Len(key)
           tT == Text(topic)
           tK == Text(key)
           r == AsteriskRegex(topic)
<1>1. /\ key \in Seq(DOMAIN Spelling) /\ nT \in Nat /\ nT >= 1 /\ nK \in Nat /\ nK >= 1
      /\ \A p \in 1 .. nK : key[p] \in DOMAIN Spelling \ {"*", "#"}
      /\ \A p \in 1 .. nT : topic[p] \in DOMAIN Spelling
  <2>1. key \in Seq(DOMAIN Spelling \ {"*", "#"})
    BY KeyAssumption
  <2>2. QED BY <2>1
<1>2. tT \in Seq(Char \union {"."}) /\ tK \in Seq(Char \union {"."}) /\ Len(tT) \in Nat /\ Len(tK) \in Nat
  BY <1>1, TextShape
<1>3. PICK sT, wT : Shaped(topic, tT, nT, sT, wT)
  BY TextShape
<1>4. PICK sK, wK : Shaped(key, tK, nK, sK, wK)
  BY <1>1, TextShape
<1>5. /\ Len(r) = Len(tT) /\ Strict(r)
      /\ \A i \in 1 .. Len(tT) : /\ tT[i] = "*" => r[i].of = Letters /\ r[i].many
                                 /\ tT[i] # "*" => r[i].of = {tT[i]} /\ ~ r[i].many
  BY <1>2, AsteriskItems
<1>m. IsMatch(tK, r)
  OBVIOUS
<1> HIDE DEF tT, tK, r, nT, nK
<1>6. /\ Len(tT) >= 1 /\ Len(tK) >= 1 /\ sT[1] = 1 /\ sK[1] = 1 /\ wT[1] = 1 /\ wK[1] = 1
      /\ wK \in [1 .. Len(tK) -> 1 .. nK] /\ wT \in [1 .. Len(tT) -> 1 .. nT]
  <2>1. 1 \in 1 .. nT /\ 1 \in 1 .. nK /\ 1 \in Nat \ {0} /\ 1 <= Size(topic[1]) /\ 1 <= Size(key[1])
    BY <1>1, Words
  <2>2. sT[1] = 1 /\ sT[1] + 1 - 1 \in 1 .. Len(tT) /\ wT[sT[1] + 1 - 1] = 1
    BY <1>3, <2>1 DEF Shaped
  <2>3. sK[1] = 1 /\ sK[1] + 1 - 1 \in 1 .. Len(tK) /\ wK[sK[1] + 1 - 1] = 1
    BY <1>4, <2>1 DEF Shaped
  <2>4. wK \in [1 .. Len(tK) -> 1 .. nK] /\ wT \in [1 .. Len(tT) -> 1 .. nT]
    BY <1>3, <1>4 DEF Shaped
  <2>5. QED BY <2>2, <2>3, <2>4, <1>2
<1>7. PICK f : Takes(f, tK, Len(tK), r) /\ f[Len(tK)] = Len(r)
  <2>1. Len(tK) \in Nat \ {0}
    BY <1>2, <1>6
  <2>2. QED BY <2>1, <1>2, <1>5, <1>m, MatchTakes
<1>8. /\ f \in [1 .. Len(tK) -> 1 .. Len(tT)] /\ f[1] = 1 /\ f[Len(tK)] = Len(tT)
      /\ \A j \in 1 .. Len(tK) : tK[j] \in r[f[j]].of
      /\ \A j \in 1 .. Len(tK) - 1 : f[j + 1] = f[j] + 1 \/ (f[j + 1] = f[j] /\ r[f[j]].many)
  BY <1>5, <1>7 DEF Takes
<1> DEFINE cT(i) == Col(sT, wT, i)
           cK(j) == Col(sK, wK, j)
<1>9. ASSUME NEW i \in 1 .. Len(tT), NEW p, p = wT[i], NEW c, c = cT(i)
      PROVE  /\ p \in 1 .. nT /\ c \in 1 .. Size(topic[p]) + 1 /\ topic[p] \in DOMAIN Spelling
             /\ c <= Size(topic[p]) =>
                  /\ tT[i] = Spelling[topic[p]][c] /\ tT[i] # "." /\ tT[i] \in Char
                  /\ i < Len(tT) => wT[i + 1] = p /\ cT(i + 1) = c + 1
                  /\ i = Len(tT) <=> p = nT /\ c = Size(topic[p])
             /\ c > Size(topic[p]) =>
                  /\ p < nT /\ tT[i] = "." /\ i < Len(tT) /\ wT[i + 1] = p + 1
                  /\ cT(i + 1) = 1 /\ c = Size(topic[p]) + 1
  <2>1. topic \in Seq(DOMAIN Spelling) /\ nT \in Nat /\ nT = Len(topic) /\ nT >= 1
    BY <1>1 DEF nT
  <2>2. c = Col(sT, wT, i) /\ i \in 1 .. Len(tT)
    BY <1>9
  <2>3. Walk(topic, tT, nT, sT, wT, i, p, c)
    BY ONLY <2>1, <2>2, <1>2, <1>3, <1>9, Walking
  <2>4. QED BY ONLY <2>3 DEF Walk
<1>10. ASSUME NEW j \in 1 .. Len(tK), NEW p, p = wK[j], NEW c, c = cK(j)
       PROVE  /\ p \in 1 .. nK /\ c \in 1 .. Size(key[p]) + 1 /\ key[p] \in DOMAIN Spelling
              /\ c <= Size(key[p]) =>
                   /\ tK[j] = Spelling[key[p]][c] /\ tK[j] # "." /\ tK[j] \in Char
                   /\ j < Len(tK) => wK[j + 1] = p /\ cK(j + 1) = c + 1
                   /\ j = Len(tK) <=> p = nK /\ c = Size(key[p])
              /\ c > Size(key[p]) =>
                   /\ p < nK /\ tK[j] = "." /\ j < Len(tK) /\ wK[j + 1] = p + 1
                   /\ cK(j + 1) = 1 /\ c = Size(key[p]) + 1
  <2>1. key \in Seq(DOMAIN Spelling) /\ nK \in Nat /\ nK = Len(key) /\ nK >= 1
    BY <1>1 DEF nK
  <2>2. c = Col(sK, wK, j) /\ j \in 1 .. Len(tK)
    BY <1>10
  <2>3. Walk(key, tK, nK, sK, wK, j, p, c)
    BY ONLY <2>1, <2>2, <1>2, <1>4, <1>10, Walking
  <2>4. QED BY ONLY <2>3 DEF Walk
<1> HIDE DEF cT, cK
(* A character of the key is that of the topic, or any under an asterisk.  *)
<1>11. ASSUME NEW j \in 1 .. Len(tK), NEW i, i = f[j], NEW p, p = wT[i]
       PROVE  /\ i \in 1 .. Len(tT)
              /\ tT[i] = "*" => topic[p] = "*" /\ tK[j] # "."
              /\ tT[i] # "*" => tK[j] = tT[i] /\ (j < Len(tK) => f[j + 1] = i + 1)
              /\ tK[j] = "." <=> tT[i] = "."
  <2>1. i \in 1 .. Len(tT) /\ tK[j] \in r[i].of
    BY <1>8, <1>11
  <2>2. ASSUME tT[i] = "*" PROVE topic[p] = "*" /\ tK[j] # "."
    <3>1. PICK c : c = cT(i)
      OBVIOUS
    <3>2. /\ p \in 1 .. nT /\ c \in 1 .. Size(topic[p]) + 1 /\ topic[p] \in DOMAIN Spelling
          /\ c <= Size(topic[p]) => tT[i] = Spelling[topic[p]][c]
          /\ c > Size(topic[p]) => tT[i] = "."
      BY <2>1, <3>1, <1>9, <1>11, SMTT(40)
    <3>3. Size(topic[p]) \in Nat
      BY <3>2, Words
    <3>4. c \in 1 .. Size(topic[p]) /\ Spelling[topic[p]][c] = "*"
      BY <2>2, <3>2, <3>3
    <3>5. topic[p] = "*"
      BY <3>2, <3>4, SignIsWord
    <3>6. tK[j] \in Letters
      BY <2>1, <2>2, <1>5
    <3>7. QED BY <3>5, <3>6, SpellingAssumption
  <2>3. ASSUME tT[i] # "*" PROVE tK[j] = tT[i] /\ (j < Len(tK) => f[j + 1] = i + 1)
    <3>1. r[i].of = {tT[i]} /\ ~ r[i].many
      BY <2>1, <2>3, <1>5
    <3>2. j < Len(tK) => j \in 1 .. Len(tK) - 1
      BY <1>2
    <3>3. QED BY <2>1, <3>1, <3>2, <1>8, <1>11
  <2>4. QED BY <2>1, <2>2, <2>3
<1> DEFINE Agree(p, m) == \A c \in 1 .. m : c <= Size(key[p]) =>
                              c <= Size(topic[p]) /\ Spelling[topic[p]][c] = Spelling[key[p]][c]
           Aligned(j) == /\ wT[f[j]] = wK[j]
                         /\ \A q \in 1 .. wK[j] - 1 : topic[q] \in {"*", key[q]}
                         /\ topic[wK[j]] # "*" => cT(f[j]) = cK(j) /\ Agree(wK[j], cK(j))
(* What Agree needs at the character itself.                               *)
<1>12. ASSUME NEW j \in 1 .. Len(tK), NEW p, p = wK[j], wT[f[j]] = p, topic[p] # "*",
              NEW c, c = cK(j), cT(f[j]) = c, Agree(p, c - 1)
       PROVE  Agree(p, c)
  <2>1. /\ p \in 1 .. nK /\ c \in 1 .. Size(key[p]) + 1 /\ key[p] \in DOMAIN Spelling
        /\ c <= Size(key[p]) => tK[j] = Spelling[key[p]][c] /\ tK[j] # "."
    BY <1>10, <1>12
  <2>2. f[j] \in 1 .. Len(tT) /\ tT[f[j]] # "*" /\ tK[j] = tT[f[j]]
    BY <1>11, <1>12
  <2>3. /\ p \in 1 .. nT /\ c \in 1 .. Size(topic[p]) + 1 /\ topic[p] \in DOMAIN Spelling
        /\ c <= Size(topic[p]) => tT[f[j]] = Spelling[topic[p]][c]
        /\ c > Size(topic[p]) => tT[f[j]] = "."
    BY <2>2, <1>9, <1>12
  <2>4. Size(topic[p]) \in Nat /\ Size(key[p]) \in Nat
    BY <2>1, <2>3, Words
  <2>5. c <= Size(key[p]) => c <= Size(topic[p]) /\ Spelling[topic[p]][c] = Spelling[key[p]][c]
    BY <2>1, <2>2, <2>3, <2>4
  <2>6. ASSUME NEW d \in 1 .. c, d <= Size(key[p])
        PROVE  d <= Size(topic[p]) /\ Spelling[topic[p]][d] = Spelling[key[p]][d]
    <3>1. CASE d = c
      BY <2>5, <2>6, <3>1
    <3>2. CASE d # c
      <4>1. d \in 1 .. c - 1
        BY <2>1, <2>4, <3>2
      <4>2. QED BY <4>1, <2>6, <1>12
    <3>3. QED BY <3>1, <3>2
  <2>7. QED BY <2>6
(* A word that agrees to its end is the same word.                         *)
<1>13. ASSUME NEW p \in 1 .. nK, p \in 1 .. nT, Size(topic[p]) = Size(key[p]),
              NEW m \in Nat, m >= Size(key[p]), Agree(p, m)
       PROVE  topic[p] = key[p]
  <2>1. topic[p] \in DOMAIN Spelling /\ key[p] \in DOMAIN Spelling
    BY <1>1, <1>13
  <2>2. /\ Spelling[topic[p]] \in Seq(Char) /\ Spelling[key[p]] \in Seq(Char)
        /\ Len(Spelling[topic[p]]) = Len(Spelling[key[p]]) /\ Size(key[p]) \in Nat
        /\ Size(key[p]) = Len(Spelling[key[p]])
    BY <2>1, <1>13, Words DEF Size
  <2>3. \A c \in 1 .. Len(Spelling[key[p]]) : Spelling[topic[p]][c] = Spelling[key[p]][c]
    BY <2>2, <1>13
  <2>4. Spelling[topic[p]] = Spelling[key[p]]
    BY <2>2, <2>3, SeqEqual
  <2>5. QED BY <2>1, <2>4, SpellingAssumption
<1> HIDE DEF Agree
<1> DEFINE Js == {j \in 1 .. Len(tK) : Aligned(j)}
<1>14. 1 \in Js
  <2>1. 1 \in 1 .. Len(tK) /\ 1 \in 1 .. Len(tT) /\ wT[f[1]] = 1 /\ wK[1] = 1 /\ f[1] = 1
    BY <1>2, <1>6, <1>8
  <2>2. cT(1) = 1 /\ cK(1) = 1
    BY <1>6 DEF cT, cK, Col
  <2>3. ASSUME topic[1] # "*" PROVE Agree(1, 1)
    <3>1. Agree(1, 1 - 1)
      BY DEF Agree
    <3>2. QED BY <2>1, <2>2, <2>3, <3>1, <1>12
  <2>4. \A q \in 1 .. 1 - 1 : topic[q] \in {"*", key[q]}
    OBVIOUS
  <2>5. QED BY <2>1, <2>2, <2>3, <2>4
<1>15. ASSUME NEW j \in 1 .. Len(tK) - 1, j \in Js PROVE j + 1 \in Js
  <2>1. j \in 1 .. Len(tK) /\ j + 1 \in 1 .. Len(tK) /\ j < Len(tK) /\ Aligned(j)
    BY <1>2, <1>15
  <2>2. PICK i : i = f[j]
    OBVIOUS
  <2>3. PICK p : p = wK[j] /\ p = wT[i]
    BY <2>1, <2>2
  <2>4. PICK c : c = cK(j)
    OBVIOUS
  <2>5. PICK d : d = cT(i)
    OBVIOUS
  <2>6. /\ p \in 1 .. nK /\ c \in 1 .. Size(key[p]) + 1 /\ key[p] \in DOMAIN Spelling
        /\ c <= Size(key[p]) => tK[j] # "." /\ wK[j + 1] = p /\ cK(j + 1) = c + 1
        /\ c > Size(key[p]) => /\ p < nK /\ tK[j] = "." /\ wK[j + 1] = p + 1
                               /\ cK(j + 1) = 1 /\ c = Size(key[p]) + 1
    <3>1. j \in 1 .. Len(tK) /\ j < Len(tK) /\ p = wK[j]
      BY <2>1, <2>3
    <3> HIDE DEF Js, Aligned
    <3>2. QED BY ONLY <3>1, <2>4, <1>10, SMTT(30)
  <2>7. /\ i \in 1 .. Len(tT)
        /\ tT[i] = "*" => topic[p] = "*" /\ tK[j] # "."
        /\ tT[i] # "*" => tK[j] = tT[i] /\ f[j + 1] = i + 1
        /\ tK[j] = "." <=> tT[i] = "."
    BY <2>1, <2>2, <2>3, <1>11
  <2>8. f[j + 1] = i + 1 \/ (f[j + 1] = i /\ tT[i] = "*")
    <3>1. f[j + 1] = i + 1 \/ (f[j + 1] = i /\ r[i].many)
      BY <2>2, <1>8
    <3>2. QED BY <3>1, <2>7, <1>5
  <2>9. f[j + 1] \in 1 .. Len(tT) /\ Len(tT) \in Nat
    BY <2>1, <1>2, <1>8
  <2>10. /\ p \in 1 .. nT /\ d \in 1 .. Size(topic[p]) + 1 /\ topic[p] \in DOMAIN Spelling
         /\ d <= Size(topic[p]) => tT[i] # "." /\ (i < Len(tT) => wT[i + 1] = p /\ cT(i + 1) = d + 1)
         /\ d > Size(topic[p]) => /\ p < nT /\ tT[i] = "." /\ wT[i + 1] = p + 1
                                  /\ cT(i + 1) = 1 /\ d = Size(topic[p]) + 1
    BY <2>3, <2>5, <2>7, <1>9
  <2>11. Size(topic[p]) \in Nat /\ Size(key[p]) \in Nat /\ p \in Nat /\ c \in Nat /\ d \in Nat /\ c >= 1
    BY <2>6, <2>10, Words
  <2>12. /\ \A q \in 1 .. p - 1 : topic[q] \in {"*", key[q]}
         /\ topic[p] # "*" => d = c /\ Agree(p, c)
    BY <2>1, <2>2, <2>3, <2>4, <2>5
  <2> HIDE DEF Js, Aligned
  (* In a word. *)
  <2>13. CASE tK[j] # "."
    <3>1. c <= Size(key[p]) /\ d <= Size(topic[p])
      BY <2>13, <2>6, <2>7, <2>10, <2>11
    <3>2. wK[j + 1] = p /\ cK(j + 1) = c + 1
      BY <3>1, <2>6
    <3>3. wT[f[j + 1]] = p /\ (f[j + 1] = i + 1 => cT(f[j + 1]) = d + 1)
      <4>1. CASE f[j + 1] = i + 1
        <5>1. i < Len(tT)
          BY <4>1, <2>7, <2>9
        <5>2. QED BY <4>1, <5>1, <3>1, <2>10
      <4>2. CASE f[j + 1] = i
        <5>1. i # i + 1
          BY <2>7
        <5>2. QED BY <4>2, <5>1, <2>3
      <4>3. QED BY <4>1, <4>2, <2>8
    <3>4. ASSUME topic[p] # "*" PROVE cT(f[j + 1]) = c + 1 /\ Agree(p, c + 1)
      <4>1. f[j + 1] = i + 1
        BY <3>4, <2>7, <2>8
      <4>2. cT(f[j + 1]) = c + 1
        BY <4>1, <3>3, <3>4, <2>12
      <4>3. (c + 1) - 1 = c
        BY <2>11
      <4>4. QED BY <4>2, <4>3, <3>2, <3>3, <3>4, <2>1, <2>12, <1>12
    <3>5. QED BY <3>2, <3>3, <3>4, <2>1, <2>12 DEF Js, Aligned
  (* At its end. *)
  <2>14. CASE tK[j] = "."
    <3>1. c > Size(key[p]) /\ d > Size(topic[p])
      BY <2>14, <2>6, <2>7, <2>10, <2>11, SMTT(40)
    <3>2. wK[j + 1] = p + 1 /\ cK(j + 1) = 1 /\ p < nK /\ c = Size(key[p]) + 1
      BY <3>1, <2>6
    <3>3. f[j + 1] = i + 1 /\ wT[i + 1] = p + 1 /\ cT(i + 1) = 1 /\ p < nT /\ d = Size(topic[p]) + 1
      BY <3>1, <2>7, <2>10, <2>14
    <3>4. ASSUME topic[p] # "*" PROVE topic[p] = key[p]
      <4>1. Size(topic[p]) = Size(key[p])
        BY <3>2, <3>3, <3>4, <2>11, <2>12
      <4>2. c >= Size(key[p])
        BY <3>2, <2>11
      <4>3. QED BY <4>1, <4>2, <3>4, <2>6, <2>10, <2>11, <2>12, <1>13
    <3>5. ASSUME NEW q \in 1 .. (p + 1) - 1 PROVE topic[q] \in {"*", key[q]}
      <4>1. CASE q = p
        BY <4>1, <3>4
      <4>2. CASE q \in 1 .. p - 1
        BY <4>2, <2>12
      <4>3. QED BY <4>1, <4>2, <2>11
    <3>6. ASSUME topic[p + 1] # "*" PROVE Agree(p + 1, 1)
      <4>1. Agree(p + 1, 1 - 1)
        BY DEF Agree
      <4>2. QED BY <4>1, <3>2, <3>3, <3>6, <2>1, <1>12
    <3>7. QED BY <3>2, <3>3, <3>5, <3>6, <2>1 DEF Js, Aligned
  <2>15. QED BY <2>13, <2>14
<1>16. Aligned(Len(tK))
  <2> HIDE DEF Js, Aligned
  <2>1. \A j \in 1 .. Len(tK) - 1 : j \in Js => j + 1 \in Js
    BY <1>15
  <2>2. \A j \in 1 .. Len(tK) : j \in Js
    BY <1>2, <1>14, <2>1, UpTo
  <2>3. Len(tK) \in 1 .. Len(tK)
    BY <1>2, <1>6
  <2>4. QED BY <2>2, <2>3 DEF Js
<1>17. PICK L, p : L = Len(tK) /\ p = wK[L] /\ p = wT[Len(tT)] /\ L \in 1 .. L /\ Len(tT) \in 1 .. Len(tT)
  BY <1>2, <1>6, <1>8, <1>16
<1>18. /\ \A q \in 1 .. p - 1 : topic[q] \in {"*", key[q]}
       /\ topic[p] # "*" => cT(Len(tT)) = cK(L) /\ Agree(p, cK(L))
  BY <1>8, <1>16, <1>17
<1>19. p = nK /\ cK(L) = Size(key[p]) /\ key[p] \in DOMAIN Spelling
  <2>1. PICK c : c = cK(L)
    OBVIOUS
  <2>2. /\ p \in 1 .. nK /\ c \in 1 .. Size(key[p]) + 1 /\ key[p] \in DOMAIN Spelling
        /\ c <= Size(key[p]) => p = nK /\ c = Size(key[p])
        /\ c > Size(key[p]) => L < Len(tK)
    <3>1. L \in 1 .. Len(tK) /\ p = wK[L] /\ L = Len(tK)
      BY <1>17
    <3>2. QED BY ONLY <2>1, <3>1, <1>10
  <2>3. Size(key[p]) \in Nat /\ L \in Nat /\ L = Len(tK)
    BY <2>2, <1>2, <1>17, Words
  <2>4. QED BY <2>1, <2>2, <2>3
<1>20. p = nT /\ cT(Len(tT)) = Size(topic[p]) /\ topic[p] \in DOMAIN Spelling
  <2>1. PICK c : c = cT(Len(tT))
    OBVIOUS
  <2>2. /\ p \in 1 .. nT /\ c \in 1 .. Size(topic[p]) + 1 /\ topic[p] \in DOMAIN Spelling
        /\ c <= Size(topic[p]) => p = nT /\ c = Size(topic[p])
        /\ c > Size(topic[p]) => Len(tT) < Len(tT)
    BY ONLY <2>1, <1>9, <1>17
  <2>3. Size(topic[p]) \in Nat /\ Len(tT) \in Nat
    BY <2>2, <1>2, Words
  <2>4. QED BY <2>1, <2>2, <2>3
<1>21. topic[p] # "*" => topic[p] = key[p]
  <2>1. SUFFICES ASSUME topic[p] # "*" PROVE topic[p] = key[p]
    OBVIOUS
  <2>2. /\ Size(topic[p]) = Size(key[p]) /\ Agree(p, Size(key[p]))
        /\ Size(key[p]) \in Nat /\ Size(key[p]) >= Size(key[p])
    BY <2>1, <1>18, <1>19, <1>20, Words
  <2>3. p \in 1 .. nK /\ p \in 1 .. nT
    BY <1>1, <1>19, <1>20
  <2>4. QED BY <2>2, <2>3, <1>13
<1>22. ASSUME NEW q \in 1 .. nT PROVE topic[q] \in {"*", key[q]}
  <2>1. CASE q = p
    BY <2>1, <1>21
  <2>2. CASE q \in 1 .. p - 1
    BY <2>2, <1>18
  <2>3. QED BY <2>1, <2>2, <1>1, <1>20
<1>23. QED BY <1>19, <1>20, <1>22 DEF nT, nK

(* Such a key is routed by the topic: the broker gives word for word.      *)
LEMMA WordForWord ==
  ASSUME NEW topic \in Seq(DOMAIN Spelling), NEW key \in Seq(DOMAIN Spelling),
         Len(key) = Len(topic), ~ Contains(topic, "#"),
         \A p \in 1 .. Len(topic) : topic[p] \in {"*", key[p]}
  PROVE  Routes(topic, key, 0)
<1> DEFINE at == [i \in DOMAIN key |-> i]
<1>1. DOMAIN key = 1 .. Len(topic) /\ DOMAIN topic = 1 .. Len(topic)
  OBVIOUS
<1>2. at \in [DOMAIN key -> DOMAIN topic] /\ \A i \in DOMAIN key : at[i] = i
  BY <1>1
<1>3. ASSUME NEW p \in DOMAIN topic
      PROVE  LET taken == {i \in DOMAIN key : at[i] = p} IN
             IF topic[p] = "#" THEN 0 = 0 \/ taken # {}
             ELSE \E i \in taken : taken = {i} /\ topic[p] \in {"*", key[i]}
  <2>1. {i \in DOMAIN key : at[i] = p} = {p}
    BY <1>1, <1>2
  <2>2. topic[p] # "#" /\ topic[p] \in {"*", key[p]}
    BY <1>1 DEF Contains
  <2>3. QED BY <2>1, <2>2
<1> HIDE DEF at
<1>4. \A i, j \in DOMAIN key : i <= j => at[i] <= at[j]
  BY <1>2
<1>5. QED BY <1>2, <1>3, <1>4 DEF Routes

(* No words, no text.                                                      *)
LEMMA EmptyText == Len(Text(<<>>)) = 0
<1>1. [i \in DOMAIN <<>> |-> IF i = 1 THEN Spelling[<<>>[i]] ELSE <<".">> \o Spelling[<<>>[i]]] = <<>>
  OBVIOUS
<1>2. Text(<<>>) = FlattenSeq(<<>>)
  BY <1>1 DEF Text
<1>3. QED BY <1>2 DEF FlattenSeq

(* An empty key matches the expression of no topic that has a word.        *)
LEMMA EmptyMatchesNone ==
  ASSUME NEW topic \in Seq(DOMAIN Spelling), topic # <<>>
  PROVE  ~ IsMatch(Text(<<>>), AsteriskRegex(topic))
<1> DEFINE r == AsteriskRegex(topic)
           t == Text(topic)
<1>1. t \in Seq(Char \union {"."}) /\ Len(t) \in Nat
  BY TextShape
<1>2. Len(r) = Len(t) /\ Strict(r)
  BY <1>1, AsteriskItems
<1>3. Len(t) >= 1
  <2>1. PICK start, word : Shaped(topic, t, Len(topic), start, word)
    BY TextShape
  <2>2. 1 \in 1 .. Len(topic) /\ 1 \in Nat \ {0} /\ topic[1] \in DOMAIN Spelling
    OBVIOUS
  <2>3. 1 <= Size(topic[1])
    BY <2>2, Words
  <2>4. start[1] + 1 - 1 \in 1 .. Len(t)
    BY <2>1, <2>2, <2>3 DEF Shaped
  <2>5. QED BY <2>4, <1>1
<1>4. Len(Text(<<>>)) \in Nat /\ Len(Text(<<>>)) = 0 /\ Len(r) \in Nat
  BY <1>1, <1>2, EmptyText
<1> HIDE DEF r, t
<1>5. PICK next \in [0 .. 0 -> SUBSET (1 .. Len(r) + 1)] :
          next[0] = Skipping(r, {1}) /\ (IsMatch(Text(<<>>), r) <=> Len(r) + 1 \in next[0])
  BY <1>4, Matching
<1>6. {1} \in SUBSET (1 .. Len(r) + 1)
  BY <1>4
<1>7. next[0] = {1}
  BY <1>2, <1>4, <1>5, <1>6, NoneSkipped
<1>8. Len(r) + 1 # 1
  BY <1>1, <1>2, <1>3
<1>9. QED BY <1>5, <1>7, <1>8 DEF r

-----------------------------------------------------------------------------
(* The selector lets through what the broker does.                         *)

(* Words that are dealt out in order, to each place some.                  *)
Dealt(at, K, N) ==
    /\ K \in Nat /\ K >= 1 /\ N \in Nat /\ N >= 1 /\ at \in [1 .. K -> 1 .. N]
    /\ \A i, j \in 1 .. K : i <= j => at[i] <= at[j]
    /\ \A p \in 1 .. N : \E i \in 1 .. K : at[i] = p

(* They go from each place to the next.                                    *)
LEMMA Dealing ==
  ASSUME NEW K, NEW N, NEW at, Dealt(at, K, N)
  PROVE  /\ at[1] = 1 /\ at[K] = N
         /\ \A j \in 1 .. K - 1 : at[j + 1] = at[j] \/ at[j + 1] = at[j] + 1
<1> USE DEF Dealt
<1>1. at[1] = 1
  <2>1. PICK i \in 1 .. K : at[i] = 1
    OBVIOUS
  <2>2. 1 \in 1 .. K /\ at[1] <= at[i] /\ at[1] \in 1 .. N
    OBVIOUS
  <2>3. QED BY <2>1, <2>2
<1>2. at[K] = N
  <2>1. PICK i \in 1 .. K : at[i] = N
    OBVIOUS
  <2>2. K \in 1 .. K /\ at[i] <= at[K] /\ at[K] \in 1 .. N
    OBVIOUS
  <2>3. QED BY <2>1, <2>2
<1>3. ASSUME NEW j \in 1 .. K - 1 PROVE at[j + 1] = at[j] \/ at[j + 1] = at[j] + 1
  <2>1. j \in 1 .. K /\ j + 1 \in 1 .. K /\ j <= j + 1 /\ at[j] \in 1 .. N /\ at[j + 1] \in 1 .. N
    OBVIOUS
  <2>2. at[j] <= at[j + 1]
    BY <2>1
  <2>3. ASSUME at[j + 1] > at[j] + 1 PROVE FALSE
    <3>1. at[j] + 1 \in 1 .. N
      BY <2>1, <2>3
    <3>2. PICK i \in 1 .. K : at[i] = at[j] + 1
      BY <3>1
    <3>3. i <= j \/ j + 1 <= i
      OBVIOUS
    <3>4. at[i] <= at[j] \/ at[j + 1] <= at[i]
      BY <2>1, <3>3
    <3>5. QED BY <3>2, <3>4, <2>1, <2>3
  <2>4. QED BY <2>1, <2>2, <2>3, SMTT(40)
<1>4. QED BY <1>1, <1>2, <1>3

(* An expression that lets through at each character of a topic what that  *)
(* character stands for.                                                   *)
Lenient(r, t) ==
    \A i \in 1 .. Len(t) :
        /\ t[i] \in {"*", "#"} => r[i].many /\ Letters \subseteq r[i].of
        /\ t[i] = "#" => "." \in r[i].of
        /\ t[i] \notin {"*", "#"} => t[i] \in r[i].of

(* Such an expression matches the text of a key of letters that the topic  *)
(* routes: each character is taken by the item at the character of the     *)
(* word it was dealt to, or at the sign.                                   *)
LEMMA RoutedMatches ==
  ASSUME NEW topic \in Seq(DOMAIN Spelling), topic # <<>>,
         NEW key \in Keys, key # <<>>, Plain(key), Routes(topic, key, 1),
         NEW r, Len(r) = Len(Text(topic)), Strict(r), Lenient(r, Text(topic))
  PROVE  IsMatch(Text(key), r)
<1> DEFINE nT == Len(topic)
           nK == Len(key)
           tT == Text(topic)
           tK == Text(key)
<1>1. /\ key \in Seq(DOMAIN Spelling) /\ nT \in Nat /\ nT >= 1 /\ nK \in Nat /\ nK >= 1
      /\ DOMAIN key = 1 .. nK /\ DOMAIN topic = 1 .. nT
      /\ \A p \in 1 .. nK : key[p] \in DOMAIN Spelling \ {"*", "#"}
      /\ \A p \in 1 .. nT : topic[p] \in DOMAIN Spelling
  <2>1. key \in Seq(DOMAIN Spelling \ {"*", "#"})
    BY KeyAssumption
  <2>2. QED BY <2>1
<1>2. tT \in Seq(Char \union {"."}) /\ tK \in Seq(Char \union {"."}) /\ Len(tT) \in Nat /\ Len(tK) \in Nat
  BY <1>1, TextShape
<1>3. PICK sT, wT : Shaped(topic, tT, nT, sT, wT)
  BY TextShape
<1>4. PICK sK, wK : Shaped(key, tK, nK, sK, wK)
  BY <1>1, TextShape
<1>5. PICK at \in [DOMAIN key -> DOMAIN topic] :
          /\ \A i, j \in DOMAIN key : i <= j => at[i] <= at[j]
          /\ \A p \in DOMAIN topic :
                LET taken == {i \in DOMAIN key : at[i] = p} IN
                IF topic[p] = "#" THEN 1 = 0 \/ taken # {}
                ELSE \E i \in taken : taken = {i} /\ topic[p] \in {"*", key[i]}
  BY DEF Routes
<1>a. at \in [1 .. nK -> 1 .. nT] /\ \A i, j \in 1 .. nK : i <= j => at[i] <= at[j]
  BY <1>1, <1>5
<1>b. ASSUME NEW p \in 1 .. nT
      PROVE  \E i \in 1 .. nK : /\ at[i] = p
                                /\ topic[p] # "#" => /\ topic[p] \in {"*", key[i]}
                                                     /\ \A k \in 1 .. nK : at[k] = p => k = i
  <2> DEFINE taken == {i \in DOMAIN key : at[i] = p}
  <2>1. IF topic[p] = "#" THEN taken # {} ELSE \E i \in taken : taken = {i} /\ topic[p] \in {"*", key[i]}
    <3>1. p \in DOMAIN topic
      BY <1>1
    <3>2. IF topic[p] = "#" THEN 1 = 0 \/ taken # {} ELSE \E i \in taken : taken = {i} /\ topic[p] \in {"*", key[i]}
      BY <3>1, <1>5
    <3> HIDE DEF taken
    <3>3. QED BY <3>2
  <2>2. DOMAIN key = 1 .. nK
    BY <1>1
  <2>3. CASE topic[p] = "#"
    BY <2>1, <2>2, <2>3
  <2>4. CASE topic[p] # "#"
    <3>1. PICK i \in taken : taken = {i} /\ topic[p] \in {"*", key[i]}
      BY <2>1, <2>4
    <3>2. i \in 1 .. nK /\ at[i] = p
      BY <2>2, <3>1
    <3>3. ASSUME NEW k \in 1 .. nK, at[k] = p PROVE k = i
      <4>1. k \in taken
        BY <2>2, <3>3
      <4>2. QED BY <3>1, <4>1
    <3>4. QED BY <3>1, <3>2, <3>3
  <2>5. QED BY <2>3, <2>4
<1>c. ASSUME NEW p \in 1 .. nK
      PROVE  /\ at[p] \in 1 .. nT /\ at[p] \in Nat /\ key[p] \in DOMAIN Spelling
             /\ Size(key[p]) \in Nat /\ Size(key[p]) >= 1
             /\ p < nK => p + 1 \in 1 .. nK
  <2>1. key[p] \in DOMAIN Spelling
    BY <1>1
  <2>2. at[p] \in 1 .. nT
    BY <1>a
  <2>3. at[p] \in Nat /\ (p < nK => p + 1 \in 1 .. nK)
    BY <1>1, <2>2
  <2>4. QED BY <2>1, <2>2, <2>3, Words
<1>r. Len(r) = Len(tT) /\ Strict(r) /\ Lenient(r, tT)
  OBVIOUS
<1>p. \A p \in 1 .. nK : \A c \in 1 .. Size(key[p]) : Spelling[key[p]][c] \in Letters
  <2>1. ASSUME NEW p \in 1 .. nK, NEW c \in 1 .. Size(key[p]) PROVE Spelling[key[p]][c] \in ToSet(Spelling[key[p]])
    <3>1. c \in DOMAIN Spelling[key[p]]
      BY <1>1, Words DEF Size
    <3>2. QED BY <3>1 DEF ToSet
  <2>2. \A p \in 1 .. nK : ToSet(Spelling[key[p]]) \subseteq Letters
    BY <1>1 DEF Plain
  <2>3. QED BY <2>1, <2>2
<1>q. topic \in Seq(DOMAIN Spelling) /\ nT = Len(topic) /\ nK = Len(key)
  OBVIOUS
<1> HIDE DEF tT, tK, nT, nK
<1>6. /\ at[1] = 1 /\ at[nK] = nT
      /\ \A j \in 1 .. nK - 1 : at[j + 1] = at[j] \/ at[j + 1] = at[j] + 1
  <2>1. \A p \in 1 .. nT : \E i \in 1 .. nK : at[i] = p
    BY <1>b
  <2>2. nK \in Nat /\ nK >= 1 /\ nT \in Nat /\ nT >= 1
    BY <1>1
  <2>3. at \in [1 .. nK -> 1 .. nT]
    BY <1>a
  <2>4. \A i, j \in 1 .. nK : i <= j => at[i] <= at[j]
    BY <1>a
  <2>5. Dealt(at, nK, nT)
    BY <2>1, <2>2, <2>3, <2>4 DEF Dealt
  <2>6. QED BY ONLY <2>5, Dealing
<1>7. ASSUME NEW p \in 1 .. nK
      PROVE  /\ topic[at[p]] \notin {"*", "#"} => topic[at[p]] = key[p]
             /\ p < nK /\ at[p + 1] = at[p] => topic[at[p]] = "#"
  <2>1. ASSUME topic[at[p]] # "#"
        PROVE  topic[at[p]] \in {"*", key[p]} /\ \A i \in 1 .. nK : at[i] = at[p] => i = p
    BY <1>a, <1>b, <2>1
  <2>2. ASSUME p < nK, at[p + 1] = at[p] PROVE topic[at[p]] = "#"
    <3>1. p + 1 \in 1 .. nK /\ p + 1 # p
      BY <1>1, <2>2
    <3>2. QED BY <2>1, <2>2, <3>1
  <2>3. QED BY <2>1, <2>2
<1> DEFINE Sign(a) == topic[a] \in {"*", "#"}
(* The places of the topic's text. *)
<1>8. ASSUME NEW a \in 1 .. nT
      PROVE  /\ sT[a] \in Nat \ {0} /\ sT[a] <= Len(tT) /\ Size(topic[a]) \in Nat /\ Size(topic[a]) >= 1
             /\ Sign(a) => tT[sT[a]] = topic[a] /\ Size(topic[a]) = 1
             /\ \A c \in 1 .. Size(topic[a]) :
                   sT[a] + c - 1 \in 1 .. Len(tT) /\ tT[sT[a] + c - 1] = Spelling[topic[a]][c]
             /\ a < nT => /\ sT[a + 1] = sT[a] + Size(topic[a]) + 1
                          /\ sT[a + 1] - 1 \in 1 .. Len(tT) /\ tT[sT[a + 1] - 1] = "."
             /\ a = nT => Len(tT) = sT[a] + Size(topic[a]) - 1
  <2>1. sT[a] \in Nat \ {0} /\ topic[a] \in DOMAIN Spelling /\ Size(topic[a]) \in Nat /\ Size(topic[a]) >= 1
    BY <1>1, <1>3, Words DEF Shaped
  <2>2. ASSUME NEW c \in 1 .. Size(topic[a])
        PROVE  sT[a] + c - 1 \in 1 .. Len(tT) /\ tT[sT[a] + c - 1] = Spelling[topic[a]][c]
    <3>1. c \in Nat \ {0} /\ c <= Size(topic[a])
      BY <2>1
    <3>2. QED BY <3>1, <1>3 DEF Shaped
  <2>3. 1 \in 1 .. Size(topic[a]) /\ sT[a] + 1 - 1 = sT[a]
    BY <2>1
  <2>4. sT[a] \in 1 .. Len(tT) /\ tT[sT[a]] = Spelling[topic[a]][1]
    BY <2>2, <2>3
  <2>5. ASSUME Sign(a) PROVE Spelling[topic[a]][1] = topic[a] /\ Size(topic[a]) = 1
    <3>1. Spelling[topic[a]] = <<topic[a]>>
      BY <2>5, SpellingAssumption
    <3>2. QED BY <3>1 DEF Size
  <2>6. ASSUME a < nT
        PROVE  /\ sT[a + 1] = sT[a] + Size(topic[a]) + 1
               /\ sT[a + 1] - 1 \in 1 .. Len(tT) /\ tT[sT[a + 1] - 1] = "."
    <3>1. a \in 1 .. nT - 1
      BY <2>6, <1>1
    <3>2. QED BY <3>1, <1>3 DEF Shaped
  <2>7. a = nT => Len(tT) = sT[a] + Size(topic[a]) - 1
    BY <1>3 DEF Shaped
  <2> HIDE DEF Sign
  <2>8. QED BY <2>1, <2>2, <2>4, <2>5, <2>6, <2>7, <1>2
<1> DEFINE cK(j) == Col(sK, wK, j)
<1>9. ASSUME NEW j \in 1 .. Len(tK), NEW p, p = wK[j], NEW c, c = cK(j)
      PROVE  /\ p \in 1 .. nK /\ c \in 1 .. Size(key[p]) + 1 /\ key[p] \in DOMAIN Spelling
             /\ c <= Size(key[p]) =>
                  /\ tK[j] = Spelling[key[p]][c] /\ tK[j] # "." /\ tK[j] \in Char
                  /\ j < Len(tK) => wK[j + 1] = p /\ cK(j + 1) = c + 1
                  /\ j = Len(tK) <=> p = nK /\ c = Size(key[p])
             /\ c > Size(key[p]) =>
                  /\ p < nK /\ tK[j] = "." /\ j < Len(tK) /\ wK[j + 1] = p + 1
                  /\ cK(j + 1) = 1 /\ c = Size(key[p]) + 1
  <2>1. key \in Seq(DOMAIN Spelling) /\ nK \in Nat /\ nK = Len(key) /\ nK >= 1
    BY <1>1, <1>q
  <2>2. c = Col(sK, wK, j) /\ j \in 1 .. Len(tK)
    BY <1>9
  <2>3. tK \in Seq(Char \union {"."})
    BY <1>2
  <2>4. Walk(key, tK, nK, sK, wK, j, p, c)
    BY ONLY <2>1, <2>2, <2>3, <1>4, <1>9, Walking
  <2>5. QED BY ONLY <2>4 DEF Walk
<1> HIDE DEF cK
(* The place of the topic's text that takes character c of word p, or the  *)
(* dot behind it.                                                          *)
<1> DEFINE Place(p, c) == IF c <= Size(key[p])
                          THEN IF Sign(at[p]) THEN sT[at[p]] ELSE sT[at[p]] + c - 1
                          ELSE IF at[p + 1] = at[p] THEN sT[at[p]] ELSE sT[at[p + 1]] - 1
           f == [j \in 1 .. Len(tK) |-> Place(wK[j], cK(j))]
<1>10. ASSUME NEW p \in 1 .. nK, NEW c \in 1 .. Size(key[p])
       PROVE  /\ Place(p, c) \in 1 .. Len(tT)
              /\ Spelling[key[p]][c] \in r[Place(p, c)].of
              /\ Sign(at[p]) => r[Place(p, c)].many
  <2>1. at[p] \in 1 .. nT /\ Size(key[p]) \in Nat /\ c \in Nat /\ c >= 1 /\ c <= Size(key[p])
    BY <1>c
  <2>2. CASE Sign(at[p])
    <3>1. Place(p, c) = sT[at[p]]
      BY <2>1, <2>2
    <3>2. sT[at[p]] \in 1 .. Len(tT) /\ tT[sT[at[p]]] \in {"*", "#"}
      BY ONLY <2>1, <2>2, <1>2, <1>8
    <3>3. Spelling[key[p]][c] \in Letters
      BY <1>p
    <3> HIDE DEF Place
    <3>4. QED BY <3>1, <3>2, <3>3, <1>r DEF Lenient
  <2>3. CASE ~ Sign(at[p])
    <3>1. Place(p, c) = sT[at[p]] + c - 1
      BY <2>1, <2>3
    <3>2. topic[at[p]] = key[p]
      BY <2>3, <1>7
    <3>3. Place(p, c) \in 1 .. Len(tT) /\ tT[Place(p, c)] = Spelling[key[p]][c]
      <4> HIDE DEF Place
      <4>1. c \in 1 .. Size(topic[at[p]])
        BY <3>2
      <4>2. sT[at[p]] + c - 1 \in 1 .. Len(tT) /\ tT[sT[at[p]] + c - 1] = Spelling[topic[at[p]]][c]
        BY <4>1, <2>1, <1>8
      <4>3. QED BY <3>1, <3>2, <4>2
    <3>4. Spelling[key[p]][c] \in Letters /\ Spelling[key[p]][c] \notin {"*", "#"}
      BY <1>p, SpellingAssumption
    <3> HIDE DEF Place
    <3>5. QED BY <3>3, <3>4, <2>3, <1>r DEF Lenient
  <2>4. QED BY <2>2, <2>3
<1>11. ASSUME NEW p \in 1 .. nK, p < nK, NEW c, c = Size(key[p]) + 1
       PROVE  /\ Place(p, c) \in 1 .. Len(tT)
              /\ "." \in r[Place(p, c)].of
              /\ at[p + 1] = at[p] => r[Place(p, c)].many /\ Sign(at[p])
  <2>1. /\ at[p] \in 1 .. nT /\ p + 1 \in 1 .. nK /\ at[p + 1] \in 1 .. nT /\ Size(key[p]) \in Nat
        /\ ~ (c <= Size(key[p])) /\ at[p] \in Nat
    BY <1>c, <1>11
  <2>2. CASE at[p + 1] = at[p]
    <3>1. topic[at[p]] = "#" /\ Sign(at[p])
      BY <2>2, <1>7, <1>11
    <3>2. Place(p, c) = sT[at[p]]
      BY <2>1, <2>2
    <3>3. sT[at[p]] \in 1 .. Len(tT) /\ tT[sT[at[p]]] = "#"
      BY <2>1, <3>1, <1>2, <1>8, SMTT(40)
    <3> HIDE DEF Place, Sign
    <3>4. QED BY <3>1, <3>2, <3>3, <1>r DEF Lenient
  <2>3. CASE at[p + 1] # at[p]
    <3>1. at[p + 1] = at[p] + 1 /\ at[p] < nT
      <4>1. p \in 1 .. nK - 1
        BY <1>1, <1>11
      <4>2. at[p + 1] = at[p] + 1
        BY <4>1, <2>3, <1>6
      <4>3. QED BY <4>2, <2>1, <1>1
    <3>2. Place(p, c) = sT[at[p] + 1] - 1
      BY <2>1, <2>3, <3>1
    <3>3. sT[at[p] + 1] - 1 \in 1 .. Len(tT) /\ tT[sT[at[p] + 1] - 1] = "."
      BY <2>1, <3>1, <1>8
    <3> HIDE DEF Place, Sign
    <3>4. QED BY <3>2, <3>3, <2>3, <1>r DEF Lenient
  <2>4. QED BY <2>2, <2>3
(* From a character to the next of its word, to the dot, and on.           *)
<1>12. ASSUME NEW p \in 1 .. nK, NEW c \in 1 .. Size(key[p]), c < Size(key[p])
       PROVE  Place(p, c + 1) = Place(p, c) + 1 \/ (Place(p, c + 1) = Place(p, c) /\ Sign(at[p]))
  <2>1. /\ at[p] \in 1 .. nT /\ Size(key[p]) \in Nat /\ c \in Nat /\ c <= Size(key[p]) /\ c + 1 <= Size(key[p])
        /\ sT[at[p]] \in Nat
    BY <1>c, <1>8, <1>12
  <2>2. QED BY <2>1
<1>13. ASSUME NEW p \in 1 .. nK, p < nK, NEW c, c = Size(key[p])
       PROVE  Place(p, c + 1) = Place(p, c) + 1 \/ (Place(p, c + 1) = Place(p, c) /\ Sign(at[p]))
  <2>1. /\ at[p] \in 1 .. nT /\ Size(key[p]) \in Nat /\ c \in Nat /\ c <= Size(key[p])
        /\ ~ (c + 1 <= Size(key[p])) /\ sT[at[p]] \in Nat /\ c \in 1 .. Size(key[p]) /\ c + 1 = Size(key[p]) + 1
    BY <1>c, <1>8, <1>13
  <2>2. CASE at[p + 1] = at[p]
    <3>1. Sign(at[p])
      BY <2>1, <2>2, <1>13, <1>11
    <3>2. Place(p, c + 1) = sT[at[p]] /\ Place(p, c) = sT[at[p]]
      BY <2>1, <2>2, <3>1
    <3> HIDE DEF Place, Sign
    <3>3. QED BY <3>1, <3>2
  <2>3. CASE at[p + 1] # at[p]
    <3>1. at[p + 1] = at[p] + 1 /\ at[p] < nT
      <4>1. p \in 1 .. nK - 1 /\ p + 1 \in 1 .. nK /\ at[p + 1] \in 1 .. nT
        BY <1>1, <1>c, <1>13
      <4>2. at[p + 1] = at[p] + 1
        BY <4>1, <2>3, <1>6
      <4>3. QED BY <4>1, <4>2, <2>1, <1>1
    <3>2. Place(p, c + 1) = sT[at[p] + 1] - 1
      BY <2>1, <2>3, <3>1
    <3>3. sT[at[p] + 1] = sT[at[p]] + Size(topic[at[p]]) + 1 /\ Size(topic[at[p]]) \in Nat
      BY <2>1, <3>1, <1>8
    <3>4. CASE Sign(at[p])
      <4>1. Place(p, c) = sT[at[p]] /\ Size(topic[at[p]]) = 1
        BY <2>1, <3>4, <1>8
      <4> HIDE DEF Place, Sign
      <4>2. QED BY <4>1, <3>2, <3>3, <2>1
    <3>5. CASE ~ Sign(at[p])
      <4>1. Place(p, c) = sT[at[p]] + c - 1
        BY <2>1, <3>5
      <4>2. topic[at[p]] = key[p]
        BY <3>5, <1>7
      <4> HIDE DEF Place, Sign
      <4>3. QED BY <4>1, <4>2, <3>2, <3>3, <2>1, <1>13
    <3>6. QED BY <3>4, <3>5
  <2>4. QED BY <2>2, <2>3
<1>14. ASSUME NEW p \in 1 .. nK, p < nK, NEW c, c = Size(key[p]) + 1
       PROVE  Place(p + 1, 1) = Place(p, c) + 1 \/ (Place(p + 1, 1) = Place(p, c) /\ at[p + 1] = at[p])
  <2>1. /\ at[p] \in 1 .. nT /\ p + 1 \in 1 .. nK /\ at[p + 1] \in 1 .. nT /\ Size(key[p]) \in Nat
        /\ ~ (c <= Size(key[p])) /\ sT[at[p + 1]] \in Nat /\ 1 <= Size(key[p + 1])
    BY <1>c, <1>8, <1>14
  <2>2. Place(p + 1, 1) = sT[at[p + 1]]
    BY <2>1
  <2>3. CASE at[p + 1] = at[p]
    BY <2>1, <2>2, <2>3
  <2>4. CASE at[p + 1] # at[p]
    <3>1. Place(p, c) = sT[at[p + 1]] - 1
      BY <2>1, <2>4
    <3> HIDE DEF Place
    <3>2. QED BY <3>1, <2>1, <2>2
  <2>5. QED BY <2>3, <2>4
<1>15. ASSUME NEW j \in 1 .. Len(tK)
       PROVE  f[j] \in 1 .. Len(tT) /\ tK[j] \in r[f[j]].of
  <2>1. PICK p, c : p = wK[j] /\ c = cK(j)
    OBVIOUS
  <2>2. /\ p \in 1 .. nK /\ c \in 1 .. Size(key[p]) + 1 /\ key[p] \in DOMAIN Spelling
        /\ c <= Size(key[p]) => tK[j] = Spelling[key[p]][c]
        /\ c > Size(key[p]) => p < nK /\ tK[j] = "." /\ c = Size(key[p]) + 1
    BY <2>1, <1>9
  <2>3. Size(key[p]) \in Nat
    BY <2>2, Words
  <2>4. f[j] = Place(p, c)
    BY <2>1
  <2> HIDE DEF Place, f
  <2>5. CASE c <= Size(key[p])
    <3>1. c \in 1 .. Size(key[p])
      BY <2>2, <2>3, <2>5
    <3>2. QED BY <3>1, <2>2, <2>4, <2>5, <1>10
  <2>6. CASE c > Size(key[p])
    BY <2>2, <2>4, <2>6, <1>11
  <2>7. QED BY <2>2, <2>3, <2>5, <2>6
<1>16. ASSUME NEW j \in 1 .. Len(tK) - 1
       PROVE  f[j + 1] = f[j] + 1 \/ (f[j + 1] = f[j] /\ r[f[j]].many)
  <2>1. PICK p, c : p = wK[j] /\ c = cK(j)
    OBVIOUS
  <2>2. j \in 1 .. Len(tK) /\ j + 1 \in 1 .. Len(tK) /\ j < Len(tK) /\ j # Len(tK)
    BY <1>2
  <2>3. /\ p \in 1 .. nK /\ c \in 1 .. Size(key[p]) + 1 /\ key[p] \in DOMAIN Spelling
        /\ c <= Size(key[p]) => /\ wK[j + 1] = p /\ cK(j + 1) = c + 1
                                /\ ~ (p = nK /\ c = Size(key[p]))
        /\ c > Size(key[p]) => p < nK /\ wK[j + 1] = p + 1 /\ cK(j + 1) = 1 /\ c = Size(key[p]) + 1
    <3>1. QED BY ONLY <2>1, <2>2, <1>9, SMTT(30)
  <2>4. Size(key[p]) \in Nat /\ p \in Nat /\ p <= nK
    BY <2>3, <1>1, Words
  <2>5. f[j] = Place(p, c) /\ f[j + 1] = Place(wK[j + 1], cK(j + 1))
    BY <2>1, <2>2
  <2> HIDE DEF Place, f, Sign
  <2>6. CASE c < Size(key[p])
    <3>1. c \in 1 .. Size(key[p])
      BY <2>3, <2>4, <2>6
    <3>2. f[j + 1] = Place(p, c + 1)
      BY <2>3, <2>4, <2>5, <3>1
    <3>3. QED BY <3>1, <3>2, <2>3, <2>5, <2>6, <1>10, <1>12
  <2>7. CASE c = Size(key[p])
    <3>1. p < nK /\ c \in 1 .. Size(key[p])
      BY <2>3, <2>4, <2>7, <1>1
    <3>2. f[j + 1] = Place(p, c + 1)
      BY <2>3, <2>4, <2>5, <2>7
    <3>3. QED BY <3>1, <3>2, <2>3, <2>5, <2>7, <1>10, <1>13
  <2>8. CASE c > Size(key[p])
    <3>1. p < nK /\ c = Size(key[p]) + 1 /\ f[j + 1] = Place(p + 1, 1)
      BY <2>3, <2>5, <2>8
    <3>2. QED BY <3>1, <2>3, <2>5, <1>11, <1>14
  <2>9. QED BY <2>3, <2>4, <2>6, <2>7, <2>8
<1>17. Len(tK) \in Nat \ {0} /\ 1 \in 1 .. Len(tK) /\ Len(tK) \in 1 .. Len(tK) /\ wK[1] = 1 /\ cK(1) = 1
  <2>1. 1 \in 1 .. nK /\ 1 \in Nat \ {0} /\ 1 <= Size(key[1])
    BY <1>1, Words
  <2>2. sK[1] = 1 /\ sK[1] + 1 - 1 \in 1 .. Len(tK) /\ wK[sK[1] + 1 - 1] = 1
    BY <1>4, <2>1 DEF Shaped
  <2>3. 1 \in 1 .. Len(tK) /\ wK[1] = 1
    BY <2>2
  <2>4. cK(1) = 1
    BY <2>2, <2>3 DEF cK, Col
  <2>5. QED BY <2>3, <2>4, <1>2
<1>18. f[1] = 1
  <2>1. 1 \in 1 .. nT /\ 1 \in 1 .. nK /\ 1 <= Size(key[1]) /\ sT[1] = 1
    BY <1>1, <1>3, Words DEF Shaped
  <2>2. f[1] = Place(1, 1)
    BY <1>17
  <2>3. at[1] = 1
    BY <1>6
  <2>4. Place(1, 1) = 1
    BY <2>1, <2>3
  <2>5. QED BY <2>2, <2>4
<1>19. f[Len(tK)] = Len(r)
  <2>1. PICK L, p, c : L = Len(tK) /\ p = wK[L] /\ c = cK(L) /\ L \in 1 .. Len(tK)
    BY <1>17
  <2>2. /\ p \in 1 .. nK /\ c \in 1 .. Size(key[p]) + 1 /\ key[p] \in DOMAIN Spelling
        /\ c <= Size(key[p]) => p = nK /\ c = Size(key[p])
        /\ c > Size(key[p]) => L < Len(tK)
    BY <2>1, <1>9
  <2>3. p = nK /\ c = Size(key[p]) /\ c \in Nat /\ key[p] \in DOMAIN Spelling /\ p \in 1 .. nK
    <3>1. Size(key[p]) \in Nat
      BY <2>2, <1>c
    <3>2. ~ (L < Len(tK))
      BY <2>1, <1>2
    <3>3. QED BY <2>2, <3>1, <3>2
  <2>4. at[p] = nT /\ nT \in 1 .. nT
    BY <2>3, <1>1, <1>6
  <2>5. Len(tT) = sT[nT] + Size(topic[nT]) - 1 /\ (Sign(nT) => Size(topic[nT]) = 1) /\ sT[nT] \in Nat
    BY <2>4, <1>8
  <2>6. ~ Sign(nT) => topic[nT] = key[p]
    BY <2>3, <2>4, <1>7
  <2>7. f[Len(tK)] = IF Sign(nT) THEN sT[nT] ELSE sT[nT] + c - 1
    <3>1. c <= Size(key[p])
      BY <2>3
    <3>2. f[Len(tK)] = Place(p, c)
      BY <2>1
    <3>3. QED BY <3>1, <3>2, <2>4
  <2> HIDE DEF f, Sign
  <2>8. f[Len(tK)] = Len(tT)
    <3>1. CASE Sign(nT)
      BY <3>1, <2>5, <2>7
    <3>2. CASE ~ Sign(nT)
      BY <3>2, <2>3, <2>5, <2>6, <2>7
    <3>3. QED BY <3>1, <3>2
  <2>9. QED BY <2>8, <1>r
<1>20. f \in [1 .. Len(tK) -> 1 .. Len(tT)]
  <2>1. f = [j \in 1 .. Len(tK) |-> f[j]]
    OBVIOUS
  <2> HIDE DEF f
  <2>2. QED BY <2>1, <1>15
<1> HIDE DEF f
<1>21. Takes(f, tK, Len(tK), r)
  BY <1>15, <1>16, <1>18, <1>20, <1>r DEF Takes
<1>22. IsMatch(tK, r)
  BY <1>2, <1>17, <1>19, <1>21, <1>r, TakesMatch
<1>23. QED BY <1>22 DEF tK

(* A topic that does not have a sign among its words does not have it in   *)
(* its text.                                                               *)
LEMMA NoSignInText ==
  ASSUME NEW topic \in Seq(DOMAIN Spelling), topic # <<>>,
         NEW sign \in {"*", "#"}, ~ Contains(topic, sign)
  PROVE  \A i \in 1 .. Len(Text(topic)) : Text(topic)[i] # sign
<1> DEFINE t == Text(topic)
           n == Len(topic)
<1>1. t \in Seq(Char \union {"."}) /\ n \in Nat /\ n >= 1 /\ \A p \in 1 .. n : topic[p] # sign
  BY TextShape DEF Contains
<1>2. PICK start, word : Shaped(topic, t, n, start, word)
  BY TextShape
<1> SUFFICES ASSUME NEW i \in 1 .. Len(t), t[i] = sign PROVE FALSE
  OBVIOUS
<1>3. PICK p, c : p = word[i] /\ c = Col(start, word, i)
  OBVIOUS
<1>q. n = Len(topic) /\ topic \in Seq(DOMAIN Spelling) /\ i \in 1 .. Len(t)
  OBVIOUS
<1> HIDE DEF t, n
<1>4. /\ p \in 1 .. n /\ c \in 1 .. Size(topic[p]) + 1 /\ topic[p] \in DOMAIN Spelling
      /\ c <= Size(topic[p]) => t[i] = Spelling[topic[p]][c]
      /\ c > Size(topic[p]) => t[i] = "."
  <2>1. Walk(topic, t, n, start, word, i, p, c)
    BY ONLY <1>q, <1>1, <1>2, <1>3, Walking
  <2>2. QED BY ONLY <2>1 DEF Walk
<1>5. Size(topic[p]) \in Nat
  BY <1>4, Words
<1>6. c \in 1 .. Size(topic[p])
  BY <1>4, <1>5
<1>7. topic[p] = sign
  BY <1>4, <1>6, SignIsWord
<1>8. QED BY <1>1, <1>4, <1>7

(* The expression MatchAsteriskUsingRegex makes of a topic without # lets  *)
(* through what the topic stands for.                                      *)
LEMMA AsteriskIsLenient ==
  ASSUME NEW topic \in Seq(DOMAIN Spelling), topic # <<>>, ~ Contains(topic, "#")
  PROVE  LET r == AsteriskRegex(topic) IN
         Len(r) = Len(Text(topic)) /\ Strict(r) /\ Lenient(r, Text(topic))
<1>1. Text(topic) \in Seq(Char \union {"."}) /\ Len(Text(topic)) \in Nat
  BY TextShape
<1>2. \A i \in 1 .. Len(Text(topic)) : Text(topic)[i] # "#"
  BY NoSignInText
<1>3. QED BY <1>1, <1>2, AsteriskItems DEF Lenient

(* So does the one MatchPoundUsingRegex makes of a topic without *: with   *)
(* no * behind it a dot is any one character, a dot among them.            *)
LEMMA PoundIsLenient ==
  ASSUME NEW topic \in Seq(DOMAIN Spelling), topic # <<>>, ~ Contains(topic, "*")
  PROVE  LET r == PoundRegex(topic) IN
         Len(r) = Len(Text(topic)) /\ Strict(r) /\ Lenient(r, Text(topic))
<1> DEFINE t == Text(topic)
           r == PoundRegex(topic)
<1>1. t \in Seq(Char \union {"."}) /\ Len(t) \in Nat /\ DOMAIN t = 1 .. Len(t)
  BY TextShape
<1>2. \A i \in 1 .. Len(t) : t[i] # "*"
  BY NoSignInText
<1>3. DOMAIN r = 1 .. Len(t)
  BY <1>1 DEF PoundRegex
<1>4. ASSUME NEW i \in 1 .. Len(t)
      PROVE  r[i] = CASE t[i] = "." -> Once(Characters)
                      [] t[i] = "#" -> OneOrMore(Letters \union {"."})
                      [] OTHER      -> Once({t[i]})
  <2>1. t[i] # "*" /\ (i < Len(t) => i + 1 \in 1 .. Len(t) /\ t[i + 1] # "*")
    BY <1>1, <1>2
  <2>2. r[i] = CASE t[i] = "*" -> Star(IF i = 1 THEN Characters ELSE {})
                 [] t[i] = "." -> IF i < Len(t) /\ t[i + 1] = "*" THEN Star(Characters) ELSE Once(Characters)
                 [] t[i] = "#" -> OneOrMore(Letters \union {"."})
                 [] OTHER      -> Once({t[i]})
    BY <1>1 DEF PoundRegex
  <2> HIDE DEF t, r
  <2>3. CASE t[i] = "."
    BY <2>1, <2>2, <2>3
  <2>4. CASE t[i] = "#"
    BY <2>1, <2>2, <2>4
  <2>5. CASE t[i] \notin {".", "#"}
    BY <2>1, <2>2, <2>5
  <2>6. QED BY <2>3, <2>4, <2>5
<1> HIDE DEF t, r
<1>5. ASSUME NEW i \in 1 .. Len(t)
      PROVE  /\ ~ r[i].optional
             /\ t[i] = "#" => r[i].many /\ Letters \subseteq r[i].of /\ "." \in r[i].of
             /\ t[i] # "#" => t[i] \in r[i].of
  <2>1. CASE t[i] = "."
    <3>1. r[i] = Once(Characters)
      BY <2>1, <1>4
    <3>2. QED BY <2>1, <3>1 DEF Once, Item, Characters
  <2>2. CASE t[i] = "#"
    <3>1. r[i] = OneOrMore(Letters \union {"."})
      BY <2>2, <1>4
    <3>2. QED BY <2>2, <3>1 DEF OneOrMore, Item
  <2>3. CASE t[i] \notin {".", "#"}
    <3>1. r[i] = Once({t[i]})
      BY <2>3, <1>4
    <3>2. QED BY <2>3, <3>1 DEF Once, Item
  <2>4. QED BY <2>1, <2>2, <2>3
<1>6. Len(r) = Len(t)
  BY <1>1, <1>3
<1>7. QED BY <1>2, <1>3, <1>5, <1>6 DEF Strict, Lenient, t, r

(* A topic without signs routes no key but itself; none but the empty one  *)
(* routes the empty key.                                                   *)
LEMMA NoSign ==
  ASSUME NEW topic \in Seq(DOMAIN Spelling), NEW key \in Seq(DOMAIN Spelling), Routes(topic, key, 1)
  PROVE  /\ topic = <<>> <=> key = <<>>
         /\ ~ Contains(topic, "*") /\ ~ Contains(topic, "#") => topic = key
<1> DEFINE N == Len(topic)
           K == Len(key)
<1>1. N \in Nat /\ K \in Nat /\ DOMAIN topic = 1 .. N /\ DOMAIN key = 1 .. K
  OBVIOUS
<1>2. PICK at \in [DOMAIN key -> DOMAIN topic] :
          /\ \A i, j \in DOMAIN key : i <= j => at[i] <= at[j]
          /\ \A p \in DOMAIN topic :
                LET taken == {i \in DOMAIN key : at[i] = p} IN
                IF topic[p] = "#" THEN 1 = 0 \/ taken # {}
                ELSE \E i \in taken : taken = {i} /\ topic[p] \in {"*", key[i]}
  BY DEF Routes
<1>3. ASSUME NEW p \in 1 .. N
      PROVE  \E i \in 1 .. K : at[i] = p
  <2> DEFINE taken == {i \in DOMAIN key : at[i] = p}
  <2>1. IF topic[p] = "#" THEN taken # {} ELSE \E i \in taken : taken = {i} /\ topic[p] \in {"*", key[i]}
    <3>1. p \in DOMAIN topic
      BY <1>1
    <3>2. IF topic[p] = "#" THEN 1 = 0 \/ taken # {} ELSE \E i \in taken : taken = {i} /\ topic[p] \in {"*", key[i]}
      BY <3>1, <1>2
    <3> HIDE DEF taken
    <3>3. QED BY <3>2
  <2>2. taken # {}
    BY <2>1
  <2>3. QED BY <2>2, <1>1
<1>4. N = 0 <=> K = 0
  <2>1. ASSUME K = 0, N # 0 PROVE FALSE
    <3>1. 1 \in 1 .. N
      BY <1>1, <2>1
    <3>2. QED BY <1>3, <2>1, <3>1
  <2>2. ASSUME N = 0, K # 0 PROVE FALSE
    <3>1. 1 \in DOMAIN key /\ DOMAIN topic = {}
      BY <1>1, <2>2
    <3>2. QED BY <1>2, <3>1
  <2>3. QED BY <2>1, <2>2
<1>5. (topic = <<>> <=> N = 0) /\ (key = <<>> <=> K = 0)
  OBVIOUS
<1>6. ASSUME ~ Contains(topic, "*"), ~ Contains(topic, "#"), N # 0 PROVE topic = key
  <2>1. N >= 1 /\ K >= 1
    BY <1>1, <1>4, <1>6
  <2>2. Dealt(at, K, N)
    BY <1>1, <1>2, <1>3, <2>1 DEF Dealt
  <2>3. /\ at[1] = 1 /\ at[K] = N
        /\ \A j \in 1 .. K - 1 : at[j + 1] = at[j] \/ at[j + 1] = at[j] + 1
    BY <2>2, Dealing
  <2>4. ASSUME NEW p \in 1 .. N
        PROVE  \E i \in 1 .. K : topic[p] = key[i] /\ at[i] = p /\ \A k \in 1 .. K : at[k] = p => k = i
    <3> DEFINE taken == {i \in DOMAIN key : at[i] = p}
    <3>1. topic[p] # "#" /\ topic[p] # "*"
      BY <1>6 DEF Contains
    <3>2. IF topic[p] = "#" THEN 1 = 0 \/ taken # {} ELSE \E i \in taken : taken = {i} /\ topic[p] \in {"*", key[i]}
      BY <1>1, <1>2
    <3>3. PICK i \in taken : taken = {i} /\ topic[p] = key[i]
      BY <3>1, <3>2
    <3>4. \A k \in 1 .. K : at[k] = p => k = i
      <4>1. ASSUME NEW k \in 1 .. K, at[k] = p PROVE k = i
        <5>1. k \in taken
          BY <1>1, <4>1
        <5>2. QED BY <3>3, <5>1
      <4>2. QED BY <4>1
    <3>5. QED BY <1>1, <3>3, <3>4
  <2> DEFINE S == {j \in 1 .. K : at[j] = j}
  <2>5. \A j \in 1 .. K - 1 : j \in S => j + 1 \in S
    <3>1. ASSUME NEW j \in 1 .. K - 1, at[j] = j PROVE at[j + 1] = j + 1 /\ j + 1 \in 1 .. K
      <4>1. j \in 1 .. K /\ j + 1 \in 1 .. K /\ j # j + 1
        BY <1>1
      <4>2. at[j] \in 1 .. N
        BY <4>1, <1>1, <1>2
      <4>3. at[j + 1] # at[j]
        BY <4>1, <4>2, <2>4
      <4>4. QED BY <3>1, <4>1, <4>3, <2>3
    <3>2. QED BY <3>1
  <2>6. 1 \in S
    BY <1>1, <2>1, <2>3
  <2>7. \A j \in 1 .. K : j \in S
    <3> HIDE DEF S, K
    <3>1. QED BY <1>1, <2>5, <2>6, UpTo
  <2>8. \A j \in 1 .. K : at[j] = j
    BY <2>7
  <2>9. N = K
    <3>1. K \in 1 .. K
      BY <1>1, <2>1
    <3>2. QED BY <2>3, <2>8, <3>1
  <2>10. \A p \in 1 .. N : topic[p] = key[p]
    BY <2>4, <2>8, <2>9
  <2>11. QED BY <2>9, <2>10, SeqEqual
<1>7. QED BY <1>4, <1>5, <1>6

-----------------------------------------------------------------------------
(* The invariant of the lists, and the theorems.                           *)

(* FirstOrDefault is none of the executors exactly if none passes, and     *)
(* else one that passes.                                                   *)
LEMMA FirstPasses ==
  ASSUME NEW passing \in SUBSET Nat
  PROVE  /\ First(passing) = NoExecutor <=> passing = {}
         /\ passing # {} => First(passing) \in passing
<1>1. ASSUME passing # {} PROVE First(passing) \in passing
  <2>1. \E x \in passing : \A y \in passing : x <= y
    BY <1>1, Least
  <2>2. QED BY <1>1, <2>1 DEF First
<1>2. NoExecutor \notin Nat
  BY ListAssumption
<1>3. passing = {} => First(passing) = NoExecutor
  BY DEF First
<1>4. QED BY <1>1, <1>2, <1>3

(* The lists that are kept are those that would be made now.               *)
ListsAreCurrent ==
    /\ candidates \in Subscribers
    /\ \A g \in DOMAIN asteriskList : asteriskList[g] = WithSign("*", g)
    /\ \A g \in DOMAIN poundList : poundList[g] = WithSign("#", g)

(* The last lookup, of a group and a key there are, was answered by the    *)
(* best.                                                                   *)
AnswerIsBest ==
    Asked => /\ last.group \in Groups /\ last.key \in Keys
             /\ last.found = Best(last.group, last.key)

(* The inductive invariant.                                                *)
IInv == ListsAreCurrent /\ AnswerIsBest

(* An executor of a group is a place in the list of candidates and has a   *)
(* topic.                                                                  *)
LEMMA CandidateTypes ==
  ASSUME candidates \in Subscribers, NEW g, NEW x \in Executors(g)
  PROVE  x \in Nat /\ Topic(x) \in Seq(DOMAIN Spelling) /\ candidates[x].group = g
<1>1. candidates \in Seq([group : Groups, topic : Seq(DOMAIN Spelling)])
  BY ListAssumption
<1>2. x \in DOMAIN candidates /\ candidates[x].group = g
  BY DEF Executors
<1> DEFINE R == [group : Groups, topic : Seq(DOMAIN Spelling)]
<1>3. x \in Nat /\ candidates[x] \in R
  <2>1. candidates \in Seq(R)
    BY <1>1
  <2> HIDE DEF R
  <2>2. QED BY <2>1, <1>2
<1>4. QED BY <1>2, <1>3 DEF Topic

(* Taking a list out of a dictionary of current lists, or putting it in.   *)
LEMMA Kept ==
  ASSUME NEW dictionary, NEW sign, NEW g, \A h \in DOMAIN dictionary : dictionary[h] = WithSign(sign, h)
  PROVE  /\ ListOf(dictionary, sign, g) = WithSign(sign, g)
         /\ \A h \in DOMAIN Keep(dictionary, sign, g) : Keep(dictionary, sign, g)[h] = WithSign(sign, h)
<1>1. \A h : ListOf(dictionary, sign, h) = WithSign(sign, h)
  BY DEF ListOf
<1>2. QED BY <1>1 DEF Keep

(* No step changes the candidates; a lookup takes the lists of its group,  *)
(* which are current, and keeps them.                                      *)
LEMMA Inductive == IInv /\ [Next]_vars => IInv'
<1> SUFFICES ASSUME IInv, [Next]_vars PROVE IInv'
  OBVIOUS
<1>1. /\ ListsAreCurrent
      /\ Asked => /\ last.group \in Groups /\ last.key \in Keys
                  /\ last.found = Best(last.group, last.key)
  BY DEF IInv, AnswerIsBest
(* With the same candidates the lists and the best answers are the same. *)
<1>2. ASSUME candidates' = candidates
      PROVE  /\ \A sign, g : WithSign(sign, g)' = WithSign(sign, g)
             /\ \A g, key : Best(g, key)' = Best(g, key)
  <2>1. \A g : Executors(g)' = Executors(g)
    BY <1>2 DEF Executors
  <2>2. \A x : Topic(x)' = Topic(x)
    BY <1>2 DEF Topic
  <2>3. \A sign, g : WithSign(sign, g)' = WithSign(sign, g)
    BY <2>1, <2>2 DEF WithSign
  <2>4. \A g, key : MatchUsingName(key, g)' = MatchUsingName(key, g)
    BY <2>1, <2>2 DEF MatchUsingName
  <2>5. \A list, key : /\ MatchAsteriskUsingRegex(key, list)' = MatchAsteriskUsingRegex(key, list)
                       /\ MatchPoundUsingRegex(key, list)' = MatchPoundUsingRegex(key, list)
    BY <2>2 DEF MatchAsteriskUsingRegex, MatchPoundUsingRegex
  <2>6. QED BY <2>3, <2>4, <2>5 DEF Best
(* A lookup. *)
<1>3. ASSUME NEW g \in Groups, NEW key \in Keys, NEW x, Answer(g, key, x),
             candidates' = candidates, x = Best(g, key)
      PROVE  AnswerIsBest'
  <2>1. last'.group = g /\ last'.key = key /\ last'.found = x
    BY <1>3 DEF Answer
  <2>2. (last.found = Best(last.group, last.key))'
    BY <2>1, <1>2, <1>3
  <2>3. QED BY <2>1, <2>2, <1>3 DEF AnswerIsBest
<1>4. ASSUME candidates' = candidates, last' = last PROVE AnswerIsBest'
  <2>1. Asked' <=> Asked
    BY <1>4 DEF Asked, NoLookup
  <2>2. QED BY <2>1, <1>1, <1>2, <1>4 DEF AnswerIsBest
(* The lists that a lookup takes are those of the group. *)
<1>5. ASSUME NEW g
      PROVE  ListOf(asteriskList, "*", g) = WithSign("*", g) /\ ListOf(poundList, "#", g) = WithSign("#", g)
  BY <1>1, Kept DEF ListsAreCurrent
<1>6. ASSUME candidates' = candidates, NEW g,
             asteriskList' = asteriskList \/ asteriskList' = Keep(asteriskList, "*", g),
             poundList' = poundList \/ poundList' = Keep(poundList, "#", g)
      PROVE  ListsAreCurrent'
  <2>1. \A h \in DOMAIN asteriskList' : asteriskList'[h] = WithSign("*", h)
    BY <1>1, <1>6, Kept DEF ListsAreCurrent
  <2>2. \A h \in DOMAIN poundList' : poundList'[h] = WithSign("#", h)
    BY <1>1, <1>6, Kept DEF ListsAreCurrent
  <2>3. QED BY <2>1, <2>2, <1>1, <1>2, <1>6 DEF ListsAreCurrent
<1>7. ASSUME NEW g \in Groups, TryAdd(g) PROVE IInv'
  BY <1>4, <1>6, <1>7 DEF TryAdd, IInv
<1>8. ASSUME NEW g \in Groups, NEW key \in Keys, FoundByName(g, key) PROVE IInv'
  <2>1. MatchUsingName(key, g) = Best(g, key)
    BY <1>8 DEF FoundByName, Best
  <2>2. QED BY <2>1, <1>3, <1>6, <1>8 DEF FoundByName, IInv
<1>9. ASSUME NEW g \in Groups, NEW key \in Keys, FoundByAsterisk(g, key) PROVE IInv'
  <2>1. MatchAsteriskUsingRegex(key, ListOf(asteriskList, "*", g)) = Best(g, key)
    BY <1>5, <1>9 DEF FoundByAsterisk, Best
  <2>2. QED BY <2>1, <1>3, <1>6, <1>9 DEF FoundByAsterisk, IInv
<1>10. ASSUME NEW g \in Groups, NEW key \in Keys, FoundByPoundOrNot(g, key) PROVE IInv'
  <2>1. MatchPoundUsingRegex(key, ListOf(poundList, "#", g)) = Best(g, key)
    BY <1>5, <1>10 DEF FoundByPoundOrNot, Best
  <2>2. QED BY <2>1, <1>3, <1>6, <1>10 DEF FoundByPoundOrNot, IInv
<1>11. ASSUME UNCHANGED vars PROVE IInv'
  BY <1>4, <1>6, <1>11 DEF vars, IInv
<1>12. QED BY <1>7, <1>8, <1>9, <1>10, <1>11 DEF Next, Lookup

(* The kept lists stay current and the last answer is the best one.        *)
THEOREM Invariance == Spec => []IInv
<1>1. Init => IInv
  BY DEF Init, IInv, ListsAreCurrent, AnswerIsBest, Asked
<1>2. QED BY <1>1, Inductive, PTL DEF Spec

(* What a lookup answers does not depend on the lookups before it: the     *)
(* lists in _asteriskList and _poundList, made once per group, never       *)
(* answer otherwise than lists made anew.                                  *)
THEOREM LookupsAnswerAsAtFirst == Spec => []AnsweredAsAtFirst
<1>1. IInv => AnsweredAsAtFirst
  BY DEF IInv, AnswerIsBest, AnsweredAsAtFirst
<1>2. QED BY <1>1, Invariance, PTL

(* What the three tests of a lookup let pass are numbers, so that First    *)
(* finds the least.                                                        *)
LEMMA Tests ==
  ASSUME candidates \in Subscribers, NEW g, NEW key
  PROVE  /\ {x \in Executors(g) : Topic(x) = key} \in SUBSET Nat
         /\ {x \in WithSign("*", g) : IsMatch(Text(key), AsteriskRegex(Topic(x)))} \in SUBSET Nat
         /\ {x \in WithSign("#", g) : IsMatch(Text(key), PoundRegex(Topic(x)))} \in SUBSET Nat
  BY CandidateTypes DEF WithSign

(* TryGetTopicExecutor finds a subscriber for each key of letters that a   *)
(* topic of the group, with one kind of sign or none, is routed by: a      *)
(* topic without signs is met by name, one with * or # by its regular      *)
(* expression.                                                             *)
THEOREM RoutedMessagesAreFound == Spec => []RoutedIsFound
<1>1. ASSUME IInv PROVE RoutedIsFound
  <2> DEFINE g == last.group
             key == last.key
  <2>1. SUFFICES ASSUME Asked, Plain(key), NEW x \in Executors(g), OneSign(Topic(x)), Routes(Topic(x), key, 1)
                 PROVE  last.found # NoExecutor
    BY DEF RoutedIsFound
  <2>2. candidates \in Subscribers /\ key \in Keys /\ last.found = Best(g, key)
    BY <1>1, <2>1 DEF IInv, ListsAreCurrent, AnswerIsBest
  <2>3. Topic(x) \in Seq(DOMAIN Spelling)
    BY <2>2, CandidateTypes
  <2>4. key \in Seq(DOMAIN Spelling)
    <3>1. key \in Seq(DOMAIN Spelling \ {"*", "#"})
      BY <2>2, KeyAssumption
    <3> HIDE DEF key
    <3>2. QED BY <3>1
  <2> HIDE DEF g, key
  <2>5. SUFFICES Best(g, key) # NoExecutor
    BY <2>2
  <2>6. /\ Topic(x) = <<>> <=> key = <<>>
        /\ ~ Contains(Topic(x), "*") /\ ~ Contains(Topic(x), "#") => Topic(x) = key
    BY <2>1, <2>3, <2>4, NoSign
  <2>7. CASE Topic(x) = key
    <3>1. MatchUsingName(key, g) # NoExecutor
      BY <2>1, <2>2, <2>7, Tests, FirstPasses DEF MatchUsingName
    <3>2. QED BY <3>1 DEF Best
  <2>8. CASE Topic(x) # <<>> /\ key # <<>> /\ Contains(Topic(x), "*") /\ ~ Contains(Topic(x), "#")
    <3>1. IsMatch(Text(key), AsteriskRegex(Topic(x)))
      BY <2>1, <2>2, <2>3, <2>8, AsteriskIsLenient, RoutedMatches
    <3>2. x \in {y \in WithSign("*", g) : IsMatch(Text(key), AsteriskRegex(Topic(y)))}
      BY <3>1, <2>1, <2>8 DEF WithSign
    <3>3. MatchAsteriskUsingRegex(key, WithSign("*", g)) # NoExecutor
      BY <3>2, <2>2, Tests, FirstPasses DEF MatchAsteriskUsingRegex
    <3>4. QED BY <3>3 DEF Best
  <2>9. CASE Topic(x) # <<>> /\ key # <<>> /\ Contains(Topic(x), "#") /\ ~ Contains(Topic(x), "*")
    <3>1. IsMatch(Text(key), PoundRegex(Topic(x)))
      BY <2>1, <2>2, <2>3, <2>9, PoundIsLenient, RoutedMatches
    <3>2. x \in {y \in WithSign("#", g) : IsMatch(Text(key), PoundRegex(Topic(y)))}
      BY <3>1, <2>1, <2>9 DEF WithSign
    <3>3. MatchPoundUsingRegex(key, WithSign("#", g)) # NoExecutor
      BY <3>2, <2>2, Tests, FirstPasses DEF MatchPoundUsingRegex
    <3>4. QED BY <3>3 DEF Best
  <2>10. QED BY <2>1, <2>6, <2>7, <2>8, <2>9 DEF OneSign
<1>2. QED BY <1>1, Invariance, PTL

(* The subscriber found is one of the group, and its topic, if without #,  *)
(* is bound to the key: [0-9_a-zA-Z]+ takes one whole word and the escaped *)
(* dot a dot.                                                              *)
THEOREM FoundMessagesAreBound == Spec => []FoundIsBound
<1>1. ASSUME IInv PROVE FoundIsBound
  <2> DEFINE g == last.group
             key == last.key
             x == last.found
  <2>1. SUFFICES ASSUME Asked, x # NoExecutor
                 PROVE  /\ candidates[x].group = g
                        /\ ~ Contains(Topic(x), "#") => Routes(Topic(x), key, 0)
    BY DEF FoundIsBound
  <2>2. candidates \in Subscribers /\ key \in Keys /\ x = Best(g, key)
    BY <1>1, <2>1 DEF IInv, ListsAreCurrent, AnswerIsBest
  <2>3. key \in Seq(DOMAIN Spelling)
    <3>1. key \in Seq(DOMAIN Spelling \ {"*", "#"})
      BY <2>2, KeyAssumption
    <3> HIDE DEF key
    <3>2. QED BY <3>1
  <2> HIDE DEF g, key, x
  (* By name. *)
  <2>4. CASE x = MatchUsingName(key, g)
    <3>1. x \in Executors(g) /\ Topic(x) = key
      BY <2>1, <2>2, <2>4, Tests, FirstPasses DEF MatchUsingName
    <3>2. candidates[x].group = g
      BY <3>1 DEF Executors
    <3>3. ASSUME ~ Contains(key, "#") PROVE Routes(key, key, 0)
      BY <3>3, <2>3, WordForWord
    <3>4. QED BY <3>1, <3>2, <3>3
  (* By a topic with an asterisk. *)
  <2>5. CASE x = MatchAsteriskUsingRegex(key, WithSign("*", g))
    <3>1. x \in WithSign("*", g) /\ IsMatch(Text(key), AsteriskRegex(Topic(x)))
      BY <2>1, <2>2, <2>5, Tests, FirstPasses DEF MatchAsteriskUsingRegex
    <3>2. x \in Executors(g) /\ Contains(Topic(x), "*")
      BY <3>1 DEF WithSign
    <3>3. candidates[x].group = g /\ Topic(x) \in Seq(DOMAIN Spelling) /\ Topic(x) # <<>>
      BY <3>2, <2>2, CandidateTypes DEF Contains
    <3>4. key # <<>>
      BY <3>1, <3>3, EmptyMatchesNone
    <3>5. Len(key) = Len(Topic(x)) /\ \A p \in 1 .. Len(Topic(x)) : Topic(x)[p] \in {"*", key[p]}
      BY <3>1, <3>3, <3>4, <2>2, AsteriskWords
    <3>6. QED BY <3>3, <3>5, <2>3, WordForWord
  (* By a topic with a pound sign. *)
  <2>6. CASE x = MatchPoundUsingRegex(key, WithSign("#", g))
    <3>1. x \in WithSign("#", g)
      BY <2>1, <2>2, <2>6, Tests, FirstPasses DEF MatchPoundUsingRegex
    <3>2. QED BY <3>1 DEF WithSign, Executors
  <2>7. QED BY <2>2, <2>4, <2>5, <2>6 DEF Best
<1>2. QED BY <1>1, Invariance, PTL
=============================================================================
