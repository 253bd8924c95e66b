--------------------------- MODULE KeyIndexProofs ---------------------------
(***************************************************************************)
(* The tree that KeyManager::Add builds, splits and searches.              *)
(***************************************************************************)
EXTENDS KeyIndex, Recursion, FiniteSetTheorems, SequenceTheorems

-----------------------------------------------------------------------------
(* Prefixes, character by character *)

\* t begins with s.
Starts(s, t) == Len(s) <= Len(t) /\ \A i \in 1..Len(s) : t[i] = s[i]

LEMMA PrefixIsStart ==
    ASSUME NEW S, NEW s \in Seq(S), NEW t \in Seq(S)
    PROVE  IsPrefix(s, t) <=> Starts(s, t)
<1>1. CASE Len(s) <= Len(t)
  <2>1. /\ SubSeq(s, 1, Len(s)) \in Seq(S) /\ Len(SubSeq(s, 1, Len(s))) = Len(s)
        /\ \A i \in 1..Len(s) : SubSeq(s, 1, Len(s))[i] = s[i]
    OBVIOUS
  <2>2. /\ SubSeq(t, 1, Len(s)) \in Seq(S) /\ Len(SubSeq(t, 1, Len(s))) = Len(s)
        /\ \A i \in 1..Len(s) : SubSeq(t, 1, Len(s))[i] = t[i]
    BY <1>1
  <2>3. SubSeq(s, 1, Len(s)) = SubSeq(t, 1, Len(s)) <=> \A i \in 1..Len(s) : t[i] = s[i]
    BY <2>1, <2>2, SeqEqual
  <2> QED BY <1>1, <2>3 DEF IsPrefix, Starts
<1>2. CASE ~(Len(s) <= Len(t))
  BY <1>2 DEF IsPrefix, Starts
<1> QED BY <1>1, <1>2

\* What is left of a sequence.
LEMMA FromIs ==
    ASSUME NEW S, NEW s \in Seq(S), NEW k \in 0..Len(s)
    PROVE  /\ From(s, k) \in Seq(S) /\ Len(From(s, k)) = Len(s) - k
           /\ \A i \in 1..(Len(s) - k) : From(s, k)[i] = s[k + i]
BY DEF From

\* What is left after more has been taken.
LEMMA FromFrom ==
    ASSUME NEW S, NEW s \in Seq(S), NEW k \in 0..Len(s), NEW j \in 0..(Len(s) - k)
    PROVE  From(From(s, k), j) = From(s, k + j)
<1>1. /\ From(s, k) \in Seq(S) /\ Len(From(s, k)) = Len(s) - k
      /\ \A i \in 1..(Len(s) - k) : From(s, k)[i] = s[k + i]
  BY FromIs
<1>2. /\ From(From(s, k), j) \in Seq(S) /\ Len(From(From(s, k), j)) = Len(s) - k - j
      /\ \A i \in 1..(Len(s) - k - j) : From(From(s, k), j)[i] = From(s, k)[j + i]
  BY <1>1, FromIs
<1>3. k + j \in 0..Len(s)
  OBVIOUS
<1>4. /\ From(s, k + j) \in Seq(S) /\ Len(From(s, k + j)) = Len(s) - (k + j)
      /\ \A i \in 1..(Len(s) - (k + j)) : From(s, k + j)[i] = s[(k + j) + i]
  BY <1>3, FromIs
<1>5. \A i \in 1..(Len(s) - k - j) : From(From(s, k), j)[i] = From(s, k + j)[i]
  <2> TAKE i \in 1..(Len(s) - k - j)
  <2>1. j + i \in 1..(Len(s) - k) /\ i \in 1..(Len(s) - (k + j)) /\ k + (j + i) = (k + j) + i
    OBVIOUS
  <2>2. From(From(s, k), j)[i] = From(s, k)[j + i] /\ From(s, k)[j + i] = s[k + (j + i)]
    BY <1>1, <1>2, <2>1
  <2>3. From(s, k + j)[i] = s[(k + j) + i]
    BY <1>4, <2>1
  <2> QED BY <2>1, <2>2, <2>3
<1> QED BY <1>2, <1>4, <1>5, SeqEqual

\* Common is how many characters a label and a part have in common.
LEMMA CommonIs ==
    ASSUME NEW S, NEW label \in Seq(S), NEW part \in Seq(S)
    PROVE  \A k : k = Common(label, part) =>
              /\ k \in 0..Len(label) /\ k <= Len(part)
              /\ \A i \in 1..k : label[i] = part[i]
              /\ k = Len(label) \/ k = Len(part) \/ label[k + 1] # part[k + 1]
<1> DEFINE Same(k) == IsPrefix(SubSeq(label, 1, k), part)
           Last1(k) == Same(k) /\ (k = Len(label) \/ ~Same(k + 1))
           Ends == {k \in Nat : k <= Len(label) /\ (k = Len(label) \/ ~Same(k + 1))}
<1>1. ASSUME NEW k \in 0..Len(label)
      PROVE  Same(k) <=> k <= Len(part) /\ \A i \in 1..k : label[i] = part[i]
  <2>1. /\ SubSeq(label, 1, k) \in Seq(S) /\ Len(SubSeq(label, 1, k)) = k
        /\ \A i \in 1..k : SubSeq(label, 1, k)[i] = label[i]
    OBVIOUS
  <2>2. Same(k) <=> Starts(SubSeq(label, 1, k), part)
    BY <2>1, PrefixIsStart
  <2> QED BY <2>1, <2>2 DEF Starts
<1> HIDE DEF Same
<1>2. PICK k \in Ends : \A j \in Ends : k <= j
  <2>1. Len(label) \in Ends
    OBVIOUS
  <2>2. Ends \in SUBSET Nat /\ Ends # {}
    BY <2>1
  <2> HIDE DEF Ends
  <2> QED BY <2>2, LeastNatural
<1>3. Last1(k) /\ k \in 0..Len(label)
  <2>1. CASE k = 0
    BY <2>1, <1>1, <1>2
  <2>2. CASE k # 0
    <3>1. k - 1 \in Nat /\ k - 1 \notin Ends
      <4>1. k \in Nat
        OBVIOUS
      <4> HIDE DEF Ends
      <4> QED BY <4>1, <2>2, <1>2
    <3>2. Same(k - 1 + 1)
      BY <3>1, <1>2
    <3> QED BY <3>2, <1>2
  <2> QED BY <2>1, <2>2
<1>4. Common(label, part) = CHOOSE j \in 0..Len(label) : Last1(j)
  BY DEF Common, Same
<1>5. Common(label, part) \in 0..Len(label) /\ Last1(Common(label, part))
  <2> HIDE DEF Last1
  <2> QED BY <1>3, <1>4
<1>6. CASE Common(label, part) = Len(label)
  BY <1>1, <1>5, <1>6
<1>7. CASE Common(label, part) # Len(label)
  BY <1>1, <1>5, <1>7
<1> QED BY <1>6, <1>7
LEMMA StartsTransitive ==
    ASSUME NEW S, NEW a \in Seq(S), NEW b \in Seq(S), NEW c \in Seq(S), Starts(a, b), Starts(b, c)
    PROVE  Starts(a, c)
BY DEF Starts

LEMMA StartsComparable ==
    ASSUME NEW S, NEW a \in Seq(S), NEW b \in Seq(S), NEW c \in Seq(S),
           Starts(a, c), Starts(b, c), Len(a) <= Len(b)
    PROVE  Starts(a, b)
BY DEF Starts

LEMMA StartsWhole ==
    ASSUME NEW S, NEW a \in Seq(S), NEW b \in Seq(S), Starts(a, b), Len(b) <= Len(a)
    PROVE  a = b
<1>1. Len(a) = Len(b) /\ \A i \in 1..Len(a) : a[i] = b[i]
  BY DEF Starts
<1> QED BY <1>1, SeqEqual

LEMMA SameStart ==
    ASSUME NEW S, NEW a \in Seq(S), NEW b \in Seq(S), NEW c \in Seq(S),
           Starts(a, c), Starts(b, c), Len(a) = Len(b)
    PROVE  a = b
<1>1. \A i \in 1..Len(a) : a[i] = b[i]
  BY DEF Starts
<1> QED BY <1>1, SeqEqual

LEMMA StartsItself ==
    ASSUME NEW S, NEW a \in Seq(S)
    PROVE  Starts(a, a)
BY DEF Starts

-----------------------------------------------------------------------------
(* The tree: every node stands for a word, what the labels down to it spell *)

\* No element of a sequence comes again.
Once(s) == \A i, j \in 1..Len(s) : s[i] = s[j] => i = j

\* Lists of children and pointers to parents agree.
Linked(nodes, roots) ==
    /\ nodes \in Seq(Node) /\ roots \in Seq(DOMAIN nodes)
    /\ \A n \in DOMAIN nodes : /\ nodes[n].next \in Seq(DOMAIN nodes)
                               /\ nodes[n].prev \in 0..Len(nodes)
    /\ \A p \in 0..Len(nodes), c \in DOMAIN nodes :
          c \in Range(Kids(nodes, roots, p)) <=> nodes[c].prev = p
    /\ \A p \in 0..Len(nodes) : Once(Kids(nodes, roots, p))

\* A node adds its label to the word of its parent, and siblings differ in the
\* first character they add.
Worded(nodes, W) ==
    /\ W \in [0..Len(nodes) -> Seq(Char)] /\ W[NoNode] = <<>>
    /\ \A c \in DOMAIN nodes :
          LET p == nodes[c].prev IN
          /\ Len(W[p]) < Len(W[c]) /\ Starts(W[p], W[c])
          /\ nodes[c].uri = From(W[c], Len(W[p]))
    /\ \A c, d \in DOMAIN nodes :
          LET p == nodes[c].prev IN
          nodes[d].prev = p /\ W[c][Len(W[p]) + 1] = W[d][Len(W[p]) + 1] => c = d

\* Two nodes have two words, and a word below that of p is below a child of p.
Descends(nodes, W, p, q) ==
    /\ W[p] = W[q] => p = q
    /\ Len(W[p]) < Len(W[q]) /\ Starts(W[p], W[q])
       => \E c \in DOMAIN nodes : nodes[c].prev = p /\ Starts(W[c], W[q])

\* Siblings on the way to the same word are the same.
LEMMA SameWay ==
    ASSUME NEW nodes, NEW roots, NEW W, Linked(nodes, roots), Worded(nodes, W),
           NEW c \in DOMAIN nodes, NEW d \in DOMAIN nodes, nodes[c].prev = nodes[d].prev,
           NEW w \in Seq(Char), Starts(W[c], w), Starts(W[d], w)
    PROVE  c = d
<1> DEFINE p == nodes[c].prev
<1>1. p \in 0..Len(nodes) /\ c \in 0..Len(nodes) /\ d \in 0..Len(nodes) /\ Len(nodes) \in Nat
  BY DEF Linked
<1>2. W[p] \in Seq(Char) /\ W[c] \in Seq(Char) /\ W[d] \in Seq(Char)
  BY <1>1 DEF Worded
<1>3. Len(W[p]) < Len(W[c]) /\ Len(W[p]) < Len(W[d])
  BY DEF Worded
<1>4. Len(W[p]) + 1 \in 1..Len(W[c]) /\ Len(W[p]) + 1 \in 1..Len(W[d])
  BY <1>2, <1>3
<1>5. W[c][Len(W[p]) + 1] = W[d][Len(W[p]) + 1]
  BY <1>4 DEF Starts
<1> QED BY <1>5 DEF Worded

\* What the words of nodes and parents are.
LEMMA WordFacts ==
    ASSUME NEW nodes, NEW roots, NEW W, Linked(nodes, roots), Worded(nodes, W)
    PROVE  /\ Len(nodes) \in Nat /\ DOMAIN nodes = 1..Len(nodes)
           /\ \A p \in 0..Len(nodes) : W[p] \in Seq(Char) /\ Len(W[p]) \in Nat
           /\ \A p \in DOMAIN nodes : /\ p \in 0..Len(nodes) /\ nodes[p].prev \in 0..Len(nodes)
                                      /\ Len(W[nodes[p].prev]) < Len(W[p])
                                      /\ Starts(W[nodes[p].prev], W[p])
           /\ W[0] = <<>> /\ Len(W[0]) = 0
<1>1. Len(nodes) \in Nat /\ DOMAIN nodes = 1..Len(nodes)
  BY DEF Linked
<1>2. ASSUME NEW p \in 0..Len(nodes) PROVE W[p] \in Seq(Char) /\ Len(W[p]) \in Nat
  <2>1. W[p] \in Seq(Char)
    BY DEF Worded
  <2> QED BY <2>1
<1>3. W[0] = <<>> /\ Len(W[0]) = 0
  BY DEF Worded, NoNode
<1>4. ASSUME NEW p \in DOMAIN nodes
      PROVE  /\ p \in 0..Len(nodes) /\ nodes[p].prev \in 0..Len(nodes)
             /\ Len(W[nodes[p].prev]) < Len(W[p])
             /\ Starts(W[nodes[p].prev], W[p])
  BY <1>1 DEF Linked, Worded
<1> QED BY <1>1, <1>2, <1>3, <1>4

\* A word is what it starts with and what is left.
LEMMA SameWhole ==
    ASSUME NEW S, NEW v \in Seq(S), NEW w \in Seq(S), NEW a \in Seq(S), Starts(a, v), Starts(a, w),
           From(v, Len(a)) = From(w, Len(a))
    PROVE  v = w
<1>1. Len(a) \in Nat /\ Len(v) \in Nat /\ Len(w) \in Nat /\ Len(a) <= Len(v) /\ Len(a) <= Len(w)
  BY DEF Starts
<1> DEFINE x == From(v, Len(a))
           y == From(w, Len(a))
<1>2. Len(x) = Len(v) - Len(a) /\ \A i \in 1..(Len(v) - Len(a)) : x[i] = v[Len(a) + i]
  BY <1>1, FromIs
<1>3. Len(y) = Len(w) - Len(a) /\ \A i \in 1..(Len(w) - Len(a)) : y[i] = w[Len(a) + i]
  <2>1. Len(a) \in 0..Len(w)
    BY <1>1
  <2> HIDE DEF x
  <2> QED BY <2>1, FromIs
<1>4. x = y
  OBVIOUS
<1> HIDE DEF x, y
<1>5. Len(v) = Len(w)
  BY <1>1, <1>2, <1>3, <1>4
<1>6. ASSUME NEW i \in 1..Len(v) PROVE v[i] = w[i]
  <2>1. CASE i \in 1..Len(a)
    BY <2>1 DEF Starts
  <2>2. CASE i \notin 1..Len(a)
    <3>1. i - Len(a) \in 1..(Len(v) - Len(a)) /\ Len(a) + (i - Len(a)) = i
      BY <2>2, <1>1
    <3> QED BY <3>1, <1>2, <1>3, <1>4, <1>5
  <2> QED BY <2>1, <2>2
<1> QED BY <1>5, <1>6, SeqEqual

\* The nodes have no other words.
LEMMA WordsUnique ==
    ASSUME NEW nodes, NEW roots, NEW W, NEW V, Linked(nodes, roots), Worded(nodes, W),
           Worded(nodes, V)
    PROVE  \A n \in 0..Len(nodes) : V[n] = W[n]
<1>1. /\ Len(nodes) \in Nat /\ DOMAIN nodes = 1..Len(nodes)
      /\ \A p \in 0..Len(nodes) : W[p] \in Seq(Char) /\ Len(W[p]) \in Nat
      /\ \A p \in DOMAIN nodes : /\ p \in 0..Len(nodes) /\ nodes[p].prev \in 0..Len(nodes)
                                 /\ Len(W[nodes[p].prev]) < Len(W[p])
                                 /\ Starts(W[nodes[p].prev], W[p])
      /\ W[0] = <<>>
  BY WordFacts
<1>2. /\ \A p \in 0..Len(nodes) : V[p] \in Seq(Char) /\ Len(V[p]) \in Nat
      /\ \A p \in DOMAIN nodes : Starts(V[nodes[p].prev], V[p])
      /\ V[0] = <<>>
  BY WordFacts
<1> DEFINE Good == {k \in Nat : \A n \in 0..Len(nodes) : Len(W[n]) <= k => V[n] = W[n]}
<1>3. ASSUME NEW n \in 0..Len(nodes),
             n # 0 => V[nodes[n].prev] = W[nodes[n].prev]
      PROVE  V[n] = W[n]
  <2>1. CASE n = 0
    BY <2>1, <1>1, <1>2
  <2>2. CASE n # 0
    <3> DEFINE p == nodes[n].prev
    <3>1. n \in DOMAIN nodes
      BY <2>2, <1>1
    <3>2. /\ p \in 0..Len(nodes) /\ Starts(W[p], W[n]) /\ Starts(W[p], V[n]) /\ V[p] = W[p]
      BY <3>1, <2>2, <1>1, <1>2, <1>3
    <3>3. nodes[n].uri = From(W[n], Len(W[p])) /\ nodes[n].uri = From(V[n], Len(V[p]))
      BY <3>1 DEF Worded
    <3> HIDE DEF p
    <3> QED BY <3>2, <3>3, <1>1, <1>2, SameWhole
  <2> QED BY <2>1, <2>2
<1>4. \A n \in 0..Len(nodes) : n # 0 => n \in DOMAIN nodes
  BY <1>1
<1>5. 0 \in Good
  <2> SUFFICES ASSUME NEW n \in 0..Len(nodes), Len(W[n]) <= 0 PROVE V[n] = W[n]
    OBVIOUS
  <2>1. n = 0
    <3> SUFFICES ASSUME n # 0 PROVE FALSE
      OBVIOUS
    <3>1. Len(W[nodes[n].prev]) \in Nat /\ Len(W[nodes[n].prev]) < Len(W[n]) /\ Len(W[n]) \in Nat
      BY <1>1, <1>4
    <3> QED BY <3>1
  <2> QED BY <2>1, <1>3
<1>6. ASSUME NEW k \in Nat, k \in Good PROVE k + 1 \in Good
  <2> SUFFICES ASSUME NEW n \in 0..Len(nodes), Len(W[n]) <= k + 1 PROVE V[n] = W[n]
    OBVIOUS
  <2>1. CASE n = 0
    BY <2>1, <1>3
  <2>2. CASE n # 0
    <3> DEFINE p == nodes[n].prev
    <3>1. p \in 0..Len(nodes) /\ Len(W[p]) \in Nat /\ Len(W[p]) < Len(W[n]) /\ Len(W[n]) \in Nat
      BY <2>2, <1>1, <1>4
    <3>2. Len(W[p]) <= k
      BY <3>1
    <3>3. V[p] = W[p]
      BY <3>1, <3>2, <1>6
    <3> QED BY <3>3, <1>3
  <2> QED BY <2>1, <2>2
<1>7. Nat \subseteq Good
  <2> HIDE DEF Good
  <2> QED BY <1>5, <1>6, SetInduction
<1> QED
  <2> TAKE n \in 0..Len(nodes)
  <2>1. Len(W[n]) \in Good /\ Len(W[n]) <= Len(W[n])
    BY <1>1, <1>7
  <2> QED BY <2>1

\* No node is moved away from what it stood for: its word is cut at most.
WordsKept(nodes, nodes2) ==
    \A W, V : Worded(nodes, W) /\ Worded(nodes2, V) => \A n \in DOMAIN nodes : Starts(V[n], W[n])

LEMMA WordsAreKept ==
    ASSUME NEW nodes, NEW roots, NEW nodes2, NEW roots2, NEW W, NEW V,
           Linked(nodes, roots), Linked(nodes2, roots2), Worded(nodes, W), Worded(nodes2, V),
           DOMAIN nodes \subseteq DOMAIN nodes2, \A n \in DOMAIN nodes : Starts(V[n], W[n])
    PROVE  WordsKept(nodes, nodes2)
<1> SUFFICES ASSUME NEW W1, NEW V1, Worded(nodes, W1), Worded(nodes2, V1), NEW n \in DOMAIN nodes
             PROVE  Starts(V1[n], W1[n])
  BY DEF WordsKept
<1>1. n \in 0..Len(nodes) /\ n \in 0..Len(nodes2)
  BY WordFacts
<1>2. W1[n] = W[n] /\ V1[n] = V[n]
  BY <1>1, WordsUnique
<1> QED BY <1>2

LEMMA WordsKeptOn ==
    ASSUME NEW nodes, NEW nodes1, NEW roots1, NEW W1, NEW nodes2, NEW roots, NEW W,
           NEW roots2, NEW V,
           Linked(nodes, roots), Worded(nodes, W), Linked(nodes2, roots2), Worded(nodes2, V),
           Linked(nodes1, roots1), Worded(nodes1, W1),
           WordsKept(nodes, nodes1), WordsKept(nodes1, nodes2),
           DOMAIN nodes \subseteq DOMAIN nodes1, DOMAIN nodes1 \subseteq DOMAIN nodes2
    PROVE  WordsKept(nodes, nodes2)
<1>1. ASSUME NEW n \in DOMAIN nodes PROVE Starts(V[n], W[n])
  <2>1. n \in DOMAIN nodes1 /\ Starts(V[n], W1[n]) /\ Starts(W1[n], W[n])
    BY DEF WordsKept
  <2>2. V[n] \in Seq(Char) /\ W1[n] \in Seq(Char) /\ W[n] \in Seq(Char)
    BY <2>1, WordFacts
  <2> QED BY <2>1, <2>2, StartsTransitive
<1>2. DOMAIN nodes \subseteq DOMAIN nodes2
  OBVIOUS
<1> QED BY <1>1, <1>2, WordsAreKept

\* Below a no node b is on the way to a child of a.
LEMMA NothingBetween ==
    ASSUME NEW nodes, NEW roots, NEW W, Linked(nodes, roots), Worded(nodes, W),
           NEW b \in 0..Len(nodes), NEW x \in DOMAIN nodes,
           Descends(nodes, W, nodes[x].prev, b),
           Len(W[nodes[x].prev]) < Len(W[b]), Len(W[b]) < Len(W[x]), Starts(W[b], W[x])
    PROVE  FALSE
<1> DEFINE a == nodes[x].prev
<1>1. /\ a \in 0..Len(nodes) /\ x \in 0..Len(nodes)
      /\ W[a] \in Seq(Char) /\ W[b] \in Seq(Char) /\ W[x] \in Seq(Char)
      /\ Starts(W[a], W[x])
  BY WordFacts
<1>2. Len(W[a]) <= Len(W[b])
  BY <1>1
<1>3. Starts(W[a], W[b])
  BY <1>1, <1>2, StartsComparable
<1>4. PICK c \in DOMAIN nodes : nodes[c].prev = a /\ Starts(W[c], W[b])
  BY <1>3 DEF Descends
<1>5. W[c] \in Seq(Char)
  BY WordFacts
<1>6. Starts(W[c], W[x]) /\ Starts(W[x], W[x])
  BY <1>1, <1>4, <1>5, StartsTransitive, StartsItself
<1>7. c = x
  BY <1>1, <1>4, <1>6, SameWay
<1> QED BY <1>1, <1>4, <1>7 DEF Starts

LEMMA AllDescend ==
    ASSUME NEW nodes, NEW roots, NEW W, Linked(nodes, roots), Worded(nodes, W)
    PROVE  \A p, q \in 0..Len(nodes) : Descends(nodes, W, p, q)
<1> DEFINE Good == {n \in Nat : \A p, q \in 0..Len(nodes) :
                       Len(W[p]) <= n /\ Len(W[q]) <= n => Descends(nodes, W, p, q)}
<1>0. /\ Len(nodes) \in Nat /\ DOMAIN nodes = 1..Len(nodes)
      /\ \A p \in 0..Len(nodes) : W[p] \in Seq(Char) /\ Len(W[p]) \in Nat
      /\ \A p \in DOMAIN nodes : /\ p \in 0..Len(nodes) /\ nodes[p].prev \in 0..Len(nodes)
                                 /\ Len(W[nodes[p].prev]) < Len(W[p])
                                 /\ Starts(W[nodes[p].prev], W[p])
      /\ W[0] = <<>> /\ Len(W[0]) = 0
  BY WordFacts
<1>a. \A p \in 0..Len(nodes) : Len(W[p]) > 0 => p \in DOMAIN nodes
  BY <1>0
<1>b. \A p \in 0..Len(nodes) : Len(W[p]) = 0 => p = 0
  BY <1>0
<1>1. 0 \in Good
  <2> SUFFICES ASSUME NEW p \in 0..Len(nodes), NEW q \in 0..Len(nodes),
                      Len(W[p]) <= 0, Len(W[q]) <= 0
               PROVE  Descends(nodes, W, p, q)
    OBVIOUS
  <2>1. Len(W[p]) = 0 /\ Len(W[q]) = 0
    BY <1>0
  <2>2. p = 0 /\ q = 0
    BY <2>1, <1>b
  <2> QED BY <2>1, <2>2 DEF Descends
<1>2. ASSUME NEW n \in Nat, n \in Good PROVE n + 1 \in Good
  <2> SUFFICES ASSUME NEW p \in 0..Len(nodes), NEW q \in 0..Len(nodes),
                      Len(W[p]) <= n + 1, Len(W[q]) <= n + 1
               PROVE  Descends(nodes, W, p, q)
    OBVIOUS
  <2>0. ASSUME NEW r \in 0..Len(nodes), NEW s \in 0..Len(nodes), Len(W[r]) < n + 1, Len(W[s]) < n + 1
        PROVE  Descends(nodes, W, r, s)
    <3>1. Len(W[r]) <= n /\ Len(W[s]) <= n
      BY <1>0, <2>0
    <3> QED BY <3>1, <1>2
  <2> HIDE DEF Good
  <2>1. ASSUME W[p] = W[q], p # q PROVE FALSE
    <3> DEFINE r == nodes[p].prev
               s == nodes[q].prev
    <3>1. p \in DOMAIN nodes /\ q \in DOMAIN nodes
      BY <1>0, <1>a, <1>b, <2>1
    <3>2. /\ r \in 0..Len(nodes) /\ s \in 0..Len(nodes)
          /\ Len(W[r]) < Len(W[p]) /\ Len(W[s]) < Len(W[q])
          /\ Starts(W[r], W[p]) /\ Starts(W[s], W[q])
      BY <1>0, <3>1
    <3>3. /\ Starts(W[r], W[q]) /\ Starts(W[s], W[p]) /\ Starts(W[p], W[p]) /\ Starts(W[q], W[p])
          /\ Len(W[r]) < Len(W[q]) /\ Len(W[s]) < Len(W[p])
      BY <2>1, <3>2, <1>0, StartsItself
    <3>a. Len(W[r]) \in Nat /\ Len(W[s]) \in Nat /\ Len(W[p]) \in Nat /\ Len(W[q]) \in Nat
      BY <3>2, <1>0
    <3> HIDE DEF r, s
    <3>4. Len(W[r]) < n + 1 /\ Len(W[s]) < n + 1
      BY <3>2, <3>a
    <3> USE DEF r, s
    <3>5. Descends(nodes, W, r, s) /\ Descends(nodes, W, s, r)
      BY <3>2, <3>4, <2>0
    <3>6. r # s
      BY <3>1, <3>3, <2>1, <1>0, SameWay
    <3>7. CASE Len(W[r]) = Len(W[s])
      <4>1. W[r] = W[s]
        BY <3>2, <3>3, <3>7, <1>0, SameStart
      <4> QED BY <4>1, <3>5, <3>6 DEF Descends
    <3>8. CASE Len(W[r]) < Len(W[s])
      BY <3>8, <3>1, <3>2, <3>3, <3>5, NothingBetween
    <3>9. CASE Len(W[s]) < Len(W[r])
      BY <3>9, <3>1, <3>2, <3>3, <3>5, NothingBetween
    <3> HIDE DEF r, s
    <3> QED BY <3>7, <3>8, <3>9, <3>a
  <2>2. ASSUME Len(W[p]) < Len(W[q]), Starts(W[p], W[q])
        PROVE  \E c \in DOMAIN nodes : nodes[c].prev = p /\ Starts(W[c], W[q])
    <3> DEFINE r == nodes[q].prev
    <3>1. q \in DOMAIN nodes
      BY <1>0, <1>a, <2>2
    <3>2. /\ q \in DOMAIN nodes /\ r \in 0..Len(nodes)
          /\ Len(W[r]) < Len(W[q]) /\ Starts(W[r], W[q])
      BY <1>0, <3>1
    <3>3. Descends(nodes, W, p, r) /\ Descends(nodes, W, r, p)
      BY <3>2, <2>0, <2>2, <1>0
    <3>4. Starts(W[q], W[q])
      BY DEF Starts
    <3>5. CASE Len(W[p]) < Len(W[r])
      <4>1. Starts(W[p], W[r])
        BY <3>5, <3>2, <2>2, <1>0, StartsComparable
      <4>2. PICK c \in DOMAIN nodes : nodes[c].prev = p /\ Starts(W[c], W[r])
        BY <4>1, <3>5, <3>3 DEF Descends
      <4>3. Starts(W[c], W[q])
        BY <4>2, <3>2, <1>0, StartsTransitive
      <4> QED BY <4>2, <4>3
    <3>6. CASE Len(W[p]) = Len(W[r])
      <4>1. W[p] = W[r]
        BY <3>6, <3>2, <2>2, <1>0, SameStart
      <4>2. p = r
        BY <4>1, <3>3 DEF Descends
      <4> QED BY <4>2, <3>2, <3>4
    <3>7. CASE Len(W[r]) < Len(W[p])
      <4>1. Starts(W[r], W[p])
        BY <3>7, <3>2, <2>2, <1>0, StartsComparable
      <4>2. PICK c \in DOMAIN nodes : nodes[c].prev = r /\ Starts(W[c], W[p])
        BY <4>1, <3>7, <3>3 DEF Descends
      <4>3. Starts(W[c], W[q])
        BY <4>2, <2>2, <1>0, StartsTransitive
      <4>4. c = q
        BY <4>2, <4>3, <3>2, <3>4, <1>0, SameWay
      <4> QED BY <4>2, <4>4, <2>2, <1>0 DEF Starts
    <3> QED BY <3>5, <3>6, <3>7, <3>2, <1>0
  <2> QED BY <2>1, <2>2 DEF Descends
<1>3. Nat \subseteq Good
  <2> HIDE DEF Good
  <2> QED BY <1>1, <1>2, SetInduction
<1> SUFFICES ASSUME NEW p \in 0..Len(nodes), NEW q \in 0..Len(nodes)
             PROVE  Descends(nodes, W, p, q)
  OBVIOUS
<1>4. Len(W[p]) \in Nat /\ Len(W[q]) \in Nat
  BY <1>0
<1> HIDE DEF Good
<1>5. PICK n \in Nat : Len(W[p]) <= n /\ Len(W[q]) <= n
  <2>1. \A a, b \in Nat : a <= a + b /\ b <= a + b /\ a + b \in Nat
    OBVIOUS
  <2> QED BY <1>4, <2>1
<1>6. n \in Good
  BY <1>3
<1> QED BY <1>5, <1>6 DEF Good
\* A label that is found where d characters of a URI have been read.
LEMMA FitsIs ==
    ASSUME NEW label \in Seq(Char), NEW uri \in Seq(Char), NEW d \in 0..Len(uri)
    PROVE  /\ IsPrefix(label, From(uri, d)) <=>
                 d + Len(label) <= Len(uri) /\ \A i \in 1..Len(label) : uri[d + i] = label[i]
           /\ label # <<>> /\ IsPrefix(label, From(uri, d)) =>
                 d + Len(label) \in 0..Len(uri) /\ d < d + Len(label)
<1>1. /\ From(uri, d) \in Seq(Char) /\ Len(From(uri, d)) = Len(uri) - d
      /\ \A i \in 1..(Len(uri) - d) : From(uri, d)[i] = uri[d + i]
  BY FromIs
<1>2. IsPrefix(label, From(uri, d)) <=> Starts(label, From(uri, d))
  BY <1>1, PrefixIsStart
<1>3. Len(label) \in Nat /\ (label # <<>> => Len(label) > 0)
  OBVIOUS
<1>4. Starts(label, From(uri, d)) <=>
         d + Len(label) <= Len(uri) /\ \A i \in 1..Len(label) : uri[d + i] = label[i]
  BY <1>1, <1>3 DEF Starts
<1> QED BY <1>2, <1>3, <1>4

\* The label of a node is found where the word of its parent has been read if
\* the URI starts with the word of the node.
LEMMA FitsWord ==
    ASSUME NEW nodes, NEW roots, NEW W, Linked(nodes, roots), Worded(nodes, W),
           NEW n \in DOMAIN nodes, NEW uri \in Seq(Char), Starts(W[nodes[n].prev], uri)
    PROVE  /\ nodes[n].uri \in Seq(Char) /\ nodes[n].uri # <<>>
           /\ Len(W[nodes[n].prev]) \in 0..Len(uri)
           /\ Len(W[nodes[n].prev]) + Len(nodes[n].uri) = Len(W[n])
           /\ IsPrefix(nodes[n].uri, From(uri, Len(W[nodes[n].prev]))) <=> Starts(W[n], uri)
<1> DEFINE p == nodes[n].prev
           d == Len(W[p])
<1>1. /\ n \in 0..Len(nodes) /\ p \in 0..Len(nodes)
      /\ W[n] \in Seq(Char) /\ W[p] \in Seq(Char) /\ d < Len(W[n]) /\ Starts(W[p], W[n])
  BY WordFacts
<1>2. d \in Nat /\ Len(W[n]) \in Nat /\ d \in 0..Len(uri) /\ d \in 0..Len(W[n])
  BY <1>1 DEF Starts
<1>3. nodes[n].uri = From(W[n], d)
  BY DEF Worded
<1>4. /\ nodes[n].uri \in Seq(Char) /\ Len(nodes[n].uri) = Len(W[n]) - d
      /\ \A i \in 1..(Len(W[n]) - d) : nodes[n].uri[i] = W[n][d + i]
  BY <1>1, <1>2, <1>3, FromIs
<1>5. nodes[n].uri # <<>>
  <2>1. Len(nodes[n].uri) # 0
    BY <1>1, <1>2, <1>4
  <2> QED BY <2>1
<1>6. IsPrefix(nodes[n].uri, From(uri, d)) <=>
         /\ d + Len(nodes[n].uri) <= Len(uri)
         /\ \A i \in 1..Len(nodes[n].uri) : uri[d + i] = nodes[n].uri[i]
  BY <1>2, <1>4, FitsIs
<1>7. IsPrefix(nodes[n].uri, From(uri, d)) <=>
         Len(W[n]) <= Len(uri) /\ \A i \in 1..(Len(W[n]) - d) : uri[d + i] = W[n][d + i]
  <2>1. d + Len(nodes[n].uri) = Len(W[n]) /\ Len(nodes[n].uri) = Len(W[n]) - d
    BY <1>2, <1>4
  <2>2. (\A i \in 1..(Len(W[n]) - d) : uri[d + i] = nodes[n].uri[i])
        <=> \A i \in 1..(Len(W[n]) - d) : uri[d + i] = W[n][d + i]
    BY <1>4
  <2> QED BY <2>1, <2>2, <1>6
<1>8. ASSUME Len(W[n]) <= Len(uri), \A i \in 1..(Len(W[n]) - d) : uri[d + i] = W[n][d + i]
      PROVE  Starts(W[n], uri)
  <2> SUFFICES ASSUME NEW i \in 1..Len(W[n]) PROVE uri[i] = W[n][i]
    BY <1>8 DEF Starts
  <2>1. CASE i <= d
    BY <2>1, <1>1, <1>2 DEF Starts
  <2>2. CASE i > d
    <3>1. i - d \in 1..(Len(W[n]) - d) /\ d + (i - d) = i
      BY <2>2, <1>2
    <3> QED BY <3>1, <1>8
  <2> QED BY <2>1, <2>2, <1>2
<1>9. ASSUME Starts(W[n], uri)
      PROVE  Len(W[n]) <= Len(uri) /\ \A i \in 1..(Len(W[n]) - d) : uri[d + i] = W[n][d + i]
  <2>1. ASSUME NEW i \in 1..(Len(W[n]) - d) PROVE d + i \in 1..Len(W[n])
    BY <1>2
  <2> QED BY <2>1, <1>9 DEF Starts
<1> HIDE DEF p, d
<1>10. IsPrefix(nodes[n].uri, From(uri, d)) <=> Starts(W[n], uri)
  BY <1>7, <1>8, <1>9
<1>11. d + Len(nodes[n].uri) = Len(W[n])
  BY <1>2, <1>4
<1> QED BY <1>2, <1>4, <1>5, <1>10, <1>11 DEF p, d

-----------------------------------------------------------------------------
(* A search ends at the nodes of its word *)

\* The leaf or leaves a search finds at node n of nodes, and below.
LeavesHere(nodes, uri, found, n, d) ==
    LET node == nodes[n]
        at == d + Len(node.uri)
    IN  IF node.uri = <<>> \/ ~IsPrefix(node.uri, From(uri, d)) THEN {}
        ELSE IF at = Len(uri) THEN {node.leaf} \ {NoLeaf}
        ELSE found[<<node.next, at>>]

LEMMA LeavesHereFacts ==
    ASSUME NEW nodes, NEW roots, Linked(nodes, roots), NEW uri \in Seq(Char),
           NEW d \in 0..Len(uri), NEW n \in DOMAIN nodes,
           NEW g, NEW h,
           \A y \in Place(nodes, uri) : g[y] \in SUBSET Nat,
           \A y \in Place(nodes, uri) : Len(uri) - y[2] < Len(uri) - d => g[y] = h[y]
    PROVE  /\ LeavesHere(nodes, uri, g, n, d) \in SUBSET Nat
           /\ LeavesHere(nodes, uri, g, n, d) = LeavesHere(nodes, uri, h, n, d)
<1> DEFINE at == d + Len(nodes[n].uri)
<1>1. nodes[n].uri \in Seq(Char) /\ nodes[n].leaf \in Nat /\ nodes[n].next \in Seq(DOMAIN nodes)
  <2>1. nodes[n] \in Node
    BY DEF Linked
  <2> QED BY <2>1 DEF Linked, Node
<1>2. CASE nodes[n].uri = <<>> \/ ~IsPrefix(nodes[n].uri, From(uri, d))
  BY <1>2 DEF LeavesHere
<1>3. CASE ~(nodes[n].uri = <<>> \/ ~IsPrefix(nodes[n].uri, From(uri, d)))
  <2>1. at \in 0..Len(uri) /\ d < at
    BY <1>1, <1>3, FitsIs
  <2>2. <<nodes[n].next, at>> \in Place(nodes, uri)
    BY <1>1, <2>1 DEF Place
  <2>3. Len(uri) - at < Len(uri) - d
    <3>1. Len(uri) \in Nat /\ d \in Nat /\ at \in Nat
      BY <2>1
    <3> HIDE DEF at
    <3> QED BY <2>1, <3>1
  <2>4. g[<<nodes[n].next, at>>] \in SUBSET Nat /\ g[<<nodes[n].next, at>>] = h[<<nodes[n].next, at>>]
    BY <2>2, <2>3
  <2>5. ({nodes[n].leaf} \ {NoLeaf}) \in SUBSET Nat
    BY <1>1
  <2> QED BY <1>3, <2>4, <2>5 DEF LeavesHere
<1> QED BY <1>2, <1>3

\* LeavesFrom is what its definition says.
LEMMA LeavesFromIs ==
    ASSUME Linked(trie.nodes, trie.uri_id), NEW uri \in Seq(Char),
           NEW x \in Place(trie.nodes, uri)
    PROVE  LeavesFrom(uri)[x] =
               UNION {LeavesHere(trie.nodes, uri, LeavesFrom(uri), n, x[2]) : n \in Range(x[1])}
<1> DEFINE nodes == trie.nodes
           D == Place(nodes, uri)
           S == SUBSET Nat
           size == [y \in D |-> Len(uri) - y[2]]
           Body(g, y) == UNION {LeavesHere(nodes, uri, g, n, y[2]) : n \in Range(y[1])}
           step == [g \in [D -> S] |-> [y \in D |-> Body(g, y)]]
<1>1. ASSUME NEW y \in D
      PROVE  y[2] \in 0..Len(uri) /\ \A n \in Range(y[1]) : n \in DOMAIN nodes
  BY DEF Place, Range
<1>2. size \in [D -> Nat]
  BY <1>1
<1>3. ASSUME NEW g \in [D -> S], NEW y \in D PROVE Body(g, y) \in S
  <2>1. ASSUME NEW n \in Range(y[1]) PROVE LeavesHere(nodes, uri, g, n, y[2]) \in SUBSET Nat
    BY <1>1, LeavesHereFacts
  <2> QED BY <2>1
<1>4. step \in [[D -> S] -> [D -> S]]
  <2> HIDE DEF Body
  <2> QED BY <1>3
<1>5. ASSUME NEW g \in [D -> S], NEW h \in [D -> S], NEW y \in D,
             \A z \in D : size[z] < size[y] => g[z] = h[z]
      PROVE  step[g][y] = step[h][y]
  <2>1. \A z \in D : Len(uri) - z[2] < Len(uri) - y[2] => g[z] = h[z]
    BY <1>5
  <2>2. ASSUME NEW n \in Range(y[1])
        PROVE  LeavesHere(nodes, uri, g, n, y[2]) = LeavesHere(nodes, uri, h, n, y[2])
    <3>1. \A z \in D : g[z] \in SUBSET Nat
      OBVIOUS
    <3>2. y[2] \in 0..Len(uri) /\ n \in DOMAIN nodes
      BY <1>1
    <3> HIDE DEF S, size, step
    <3> QED BY <2>1, <3>1, <3>2, LeavesHereFacts
  <2>3. Body(g, y) = Body(h, y)
    BY <2>2
  <2> QED BY <2>3
<1>6. Fixed(D, S, step) # {}
  <2> HIDE DEF step, size, D, S
  <2>1. S # {}
    BY DEF S
  <2>2. Grounded(D, S, size, step)
    BY <2>1, <1>2, <1>4, <1>5 DEF Grounded
  <2> QED BY <2>2, SizeRecursion, Zenon
<1> DEFINE Solves(f) == f = [y \in D |-> Body(f, y)]
<1>7. \E f : Solves(f)
  <2>1. PICK f \in [D -> S] : f = step[f]
    <3> HIDE DEF step, D, S
    <3> QED BY <1>6 DEF Fixed
  <2>2. step[f] = [y \in D |-> Body(f, y)]
    <3> HIDE DEF Body
    <3> QED BY <2>1
  <2> QED BY <2>1, <2>2
<1>8. LeavesFrom(uri) = CHOOSE f : Solves(f)
  BY DEF LeavesFrom, LeavesHere
<1>9. Solves(LeavesFrom(uri))
  <2> HIDE DEF Solves
  <2> QED BY <1>7, <1>8
<1> HIDE DEF Body
<1>10. LeavesFrom(uri)[x] = Body(LeavesFrom(uri), x)
  BY <1>9
<1> QED BY <1>10 DEF Body
\* The leaves of the nodes of a word
LeavesWith(nodes, W, uri) == {nodes[n].leaf : n \in {m \in DOMAIN nodes : W[m] = uri}} \ {NoLeaf}

\* Whatever list of children a search is at, it finds the leaves of its word.
LEMMA LeavesBelow ==
    ASSUME Linked(trie.nodes, trie.uri_id), NEW W, Worded(trie.nodes, W),
           NEW uri \in Seq(Char)
    PROVE  \A p \in 0..Len(trie.nodes) :
               Starts(W[p], uri) /\ Len(W[p]) < Len(uri) =>
                   LeavesFrom(uri)[<<Kids(trie.nodes, trie.uri_id, p), Len(W[p])>>]
                       = LeavesWith(trie.nodes, W, uri)
<1> DEFINE nodes == trie.nodes
           kids(p) == Kids(nodes, trie.uri_id, p)
           leaves == LeavesWith(nodes, W, uri)
           At(p, n) == Starts(W[p], uri) /\ Len(W[p]) < Len(uri) /\ Len(uri) - Len(W[p]) <= n
                           => LeavesFrom(uri)[<<kids(p), Len(W[p])>>] = leaves
           Good == {n \in Nat : \A p \in 0..Len(nodes) : At(p, n)}
<1>1. 0 \in Good
  <2> SUFFICES ASSUME NEW p \in 0..Len(nodes), Len(W[p]) < Len(uri), Len(uri) - Len(W[p]) <= 0
               PROVE  FALSE
    OBVIOUS
  <2>1. Len(W[p]) \in Nat /\ Len(uri) \in Nat
    BY WordFacts
  <2> QED BY <2>1
<1>2. ASSUME NEW n \in Nat, n \in Good PROVE n + 1 \in Good
  <2> SUFFICES ASSUME NEW p \in 0..Len(nodes) PROVE At(p, n + 1)
    <3> HIDE DEF At
    <3> QED OBVIOUS
  <2> SUFFICES ASSUME Starts(W[p], uri), Len(W[p]) < Len(uri),
                      Len(uri) - Len(W[p]) <= n + 1
               PROVE  LeavesFrom(uri)[<<kids(p), Len(W[p])>>] = leaves
    <3> HIDE DEF kids, leaves
    <3> QED OBVIOUS
  <2> DEFINE d == Len(W[p])
             here(c) == LeavesHere(nodes, uri, LeavesFrom(uri), c, d)
  <2>0. Len(uri) - d <= n + 1
    OBVIOUS
  <2>1. W[p] \in Seq(Char) /\ d \in Nat /\ Len(uri) \in Nat /\ d \in 0..Len(uri)
    <3>1. W[p] \in Seq(Char) /\ d \in Nat
      BY WordFacts
    <3> QED BY <3>1
  <2>2. kids(p) \in Seq(DOMAIN nodes)
    BY DEF Kids, Linked, NoNode
  <2>3. \A c \in DOMAIN nodes : c \in Range(kids(p)) <=> nodes[c].prev = p
    BY DEF Linked
  <2>4. LeavesFrom(uri)[<<kids(p), d>>] = UNION {here(c) : c \in Range(kids(p))}
    <3>1. <<kids(p), d>> \in Place(nodes, uri)
      BY <2>1, <2>2 DEF Place
    <3> HIDE DEF kids, d
    <3>2. <<kids(p), d>>[1] = kids(p) /\ <<kids(p), d>>[2] = d
      OBVIOUS
    <3>3. LeavesFrom(uri)[<<kids(p), d>>]
             = UNION {LeavesHere(nodes, uri, LeavesFrom(uri), c, <<kids(p), d>>[2]) :
                         c \in Range(<<kids(p), d>>[1])}
      BY <3>1, LeavesFromIs
    <3> QED BY <3>2, <3>3
  <2>5. ASSUME NEW c \in DOMAIN nodes, nodes[c].prev = p
        PROVE  /\ W[c] \in Seq(Char)
               /\ here(c) = IF ~Starts(W[c], uri) THEN {}
                            ELSE IF W[c] = uri THEN {nodes[c].leaf} \ {NoLeaf}
                            ELSE leaves
    <3>1. /\ nodes[c].uri \in Seq(Char) /\ nodes[c].uri # <<>>
          /\ d + Len(nodes[c].uri) = Len(W[c])
          /\ IsPrefix(nodes[c].uri, From(uri, d)) <=> Starts(W[c], uri)
      BY <2>5, FitsWord
    <3>2. c \in 0..Len(nodes) /\ W[c] \in Seq(Char) /\ Len(W[c]) \in Nat /\ d < Len(W[c])
      BY <2>5, WordFacts
    <3>3. CASE ~Starts(W[c], uri)
      BY <3>1, <3>2, <3>3 DEF LeavesHere
    <3>4. CASE Starts(W[c], uri) /\ Len(W[c]) = Len(uri)
      <4>1. W[c] = uri
        BY <3>2, <3>4, StartsWhole
      <4>2. here(c) = {nodes[c].leaf} \ {NoLeaf}
        BY <3>1, <3>4 DEF LeavesHere
      <4> QED BY <4>1, <4>2, <3>2, <3>4
    <3>5. CASE Starts(W[c], uri) /\ Len(W[c]) # Len(uri)
      <4>1. Len(W[c]) < Len(uri)
        BY <3>2, <3>5, <2>1 DEF Starts
      <4>2. Len(uri) - Len(W[c]) <= n
        <5> HIDE DEF d
        <5> QED BY <2>1, <2>0, <3>2, <4>1
      <4>3. LeavesFrom(uri)[<<kids(c), Len(W[c])>>] = leaves
        <5> HIDE DEF kids, leaves
        <5> QED BY <1>2, <3>2, <3>5, <4>1, <4>2
      <4>4. kids(c) = nodes[c].next
        <5>1. c # 0
          BY WordFacts
        <5> QED BY <5>1 DEF Kids, NoNode
      <4>5. here(c) = LeavesFrom(uri)[<<nodes[c].next, Len(W[c])>>]
        BY <3>1, <3>5 DEF LeavesHere
      <4>6. W[c] # uri
        BY <3>5
      <4> HIDE DEF here, kids, leaves
      <4> QED BY <4>3, <4>4, <4>5, <4>6, <3>2, <3>5
    <3> QED BY <3>3, <3>4, <3>5
  <2>6. \A c \in Range(kids(p)) : c \in DOMAIN nodes /\ nodes[c].prev = p
    <3>1. \A c \in Range(kids(p)) : c \in DOMAIN nodes
      BY <2>2 DEF Range
    <3> QED BY <3>1, <2>3
  <2> HIDE DEF here
  <2>7. ASSUME NEW l \in LeavesFrom(uri)[<<kids(p), d>>] PROVE l \in leaves
    <3>1. PICK c \in Range(kids(p)) : l \in here(c)
      BY <2>4
    <3>2. c \in DOMAIN nodes /\ nodes[c].prev = p
      BY <2>6
    <3>3. CASE W[c] = uri
      <4>1. l \in {nodes[c].leaf} \ {NoLeaf}
        BY <3>1, <3>2, <3>3, <2>5
      <4> QED BY <4>1, <3>2, <3>3 DEF LeavesWith
    <3>4. CASE W[c] # uri
      <4> HIDE DEF leaves
      <4> QED BY <3>1, <3>2, <3>4, <2>5
    <3> QED BY <3>3, <3>4
  <2>8. ASSUME NEW l \in leaves PROVE l \in LeavesFrom(uri)[<<kids(p), d>>]
    <3>1. PICK m \in DOMAIN nodes : W[m] = uri /\ l = nodes[m].leaf /\ l # NoLeaf
      BY DEF LeavesWith
    <3>2. m \in 0..Len(nodes) /\ Descends(nodes, W, p, m)
      BY WordFacts, AllDescend
    <3>3. PICK c \in DOMAIN nodes : nodes[c].prev = p /\ Starts(W[c], uri)
      BY <3>1, <3>2 DEF Descends
    <3>4. c \in Range(kids(p))
      BY <3>3, <2>3
    <3>5. CASE W[c] = uri
      <4>1. c = m
        <5>1. c \in 0..Len(nodes) /\ Descends(nodes, W, c, m)
          BY <3>2, WordFacts, AllDescend
        <5> QED BY <5>1, <3>1, <3>5 DEF Descends
      <4>2. l \in here(c)
        BY <4>1, <3>1, <3>3, <3>5, <2>5
      <4> QED BY <4>2, <3>4, <2>4
    <3>6. CASE W[c] # uri
      <4>1. here(c) = leaves
        <5> HIDE DEF leaves
        <5> QED BY <3>3, <3>6, <2>5
      <4> QED BY <4>1, <3>4, <2>4
    <3> QED BY <3>5, <3>6
  <2> QED BY <2>7, <2>8
<1>3. Nat \subseteq Good
  <2> HIDE DEF Good
  <2> QED BY <1>1, <1>2, SetInduction
<1> SUFFICES ASSUME NEW p \in 0..Len(nodes), Starts(W[p], uri), Len(W[p]) < Len(uri)
             PROVE  LeavesFrom(uri)[<<kids(p), Len(W[p])>>] = leaves
  OBVIOUS
<1>4. Len(uri) - Len(W[p]) \in Nat
  <2>1. Len(W[p]) \in Nat /\ Len(uri) \in Nat
    BY WordFacts
  <2> QED BY <2>1
<1>5. Len(uri) - Len(W[p]) \in Good /\ Len(uri) - Len(W[p]) <= Len(uri) - Len(W[p])
  <2> HIDE DEF Good
  <2> QED BY <1>3, <1>4
<1> HIDE DEF kids, leaves
<1> QED BY <1>5

\* LeavesOf is the set of leaves of the nodes of the word.
LEMMA LeavesOfIs ==
    ASSUME Linked(trie.nodes, trie.uri_id), NEW W, Worded(trie.nodes, W),
           NEW uri \in Seq(Char), uri # <<>>
    PROVE  LeavesOf(uri) = LeavesWith(trie.nodes, W, uri)
<1>1. W[0] = <<>> /\ Len(W[0]) = 0 /\ 0 \in 0..Len(trie.nodes)
  BY WordFacts
<1>2. Starts(W[0], uri) /\ Len(W[0]) < Len(uri)
  BY <1>1 DEF Starts
<1>3. Kids(trie.nodes, trie.uri_id, 0) = trie.uri_id
  BY DEF Kids, NoNode
<1> QED BY <1>1, <1>2, <1>3, LeavesBelow DEF LeavesOf
-----------------------------------------------------------------------------
(* Where a URI that is added goes *)

\* Node n begins with the first character of what is left of a URI.
Meets(nodes, n, part) == nodes[n].uri # <<>> /\ Head(nodes[n].uri) = Head(part)

\* The index of the first such node of a list
First(nodes, list, part) ==
    SelectInSeq(list, LAMBDA n : nodes[n].uri # <<>> /\ Head(nodes[n].uri) = Head(part))

LEMMA FirstIs ==
    ASSUME NEW nodes, NEW part, NEW list \in Seq(DOMAIN nodes)
    PROVE  /\ First(nodes, list, part) \in 0..Len(list)
           /\ First(nodes, list, part) # 0 =>
                 LET n == list[First(nodes, list, part)]
                 IN  n \in DOMAIN nodes /\ n \in Range(list) /\ Meets(nodes, n, part)
           /\ First(nodes, list, part) = 0 => \A n \in Range(list) : ~Meets(nodes, n, part)
<1> DEFINE I == {j \in 1..Len(list) : Meets(nodes, list[j], part)}
           i == First(nodes, list, part)
<1>1. i = IF I # {} THEN Min(I) ELSE 0
  BY DEF First, SelectInSeq, Meets
<1>2. CASE I = {}
  <2>1. i = 0
    BY <1>1, <1>2
  <2>2. \A n \in Range(list) : ~Meets(nodes, n, part)
    BY <1>2 DEF Range
  <2> QED BY <2>1, <2>2
<1>3. CASE I # {}
  <2>1. I \in SUBSET Nat
    OBVIOUS
  <2>2. \E x \in I : \A y \in I : x <= y
    <3> HIDE DEF I
    <3> QED BY <1>3, <2>1, LeastNatural
  <2>3. Min(I) \in I
    BY <2>2 DEF Min
  <2>4. i \in I
    BY <1>1, <1>3, <2>3
  <2> QED BY <2>4 DEF Range
<1> QED BY <1>2, <1>3

\* What FindAdd finds at a place: FindAddFrom without the recursion.
FindHere(nodes, uri, find, x) ==
    LET part == From(uri, x[2])
        i == First(nodes, x[1], part)
        n == x[1][i]
        label == nodes[n].uri
        k == Common(label, part)
        below == find[<<nodes[n].next, x[2] + k>>]
    IN  IF i = 0 THEN [node |-> NoNode, at |-> 0, rest |-> part]
        ELSE IF k = Len(part) THEN [node |-> n, at |-> 0, rest |-> part]
        ELSE IF k = Len(label) /\ below.node # NoNode THEN below
        ELSE [node |-> n, at |-> k, rest |-> From(part, k)]

Finding(nodes) == [node: 0..Len(nodes), at: Nat, rest: Seq(Char)]

\* How many characters of a URI a node reads that meets it.
LEMMA MeetsReads ==
    ASSUME NEW label \in Seq(Char), label # <<>>, NEW part \in Seq(Char),
           Head(label) = Head(part), Common(label, part) # Len(part)
    PROVE  Common(label, part) \in 1..Len(label) /\ Common(label, part) < Len(part)
<1> DEFINE k == Common(label, part)
<1>1. /\ k \in 0..Len(label) /\ k <= Len(part)
      /\ k = Len(label) \/ k = Len(part) \/ label[k + 1] # part[k + 1]
  BY CommonIs
<1>2. Len(label) > 0 /\ Len(label) \in Nat /\ Len(part) \in Nat
  OBVIOUS
<1> HIDE DEF k
<1>3. k < Len(part)
  BY <1>1, <1>2 DEF k
<1>4. k # 0
  <2> SUFFICES ASSUME k = 0 PROVE FALSE
    OBVIOUS
  <2>1. label[1] # part[1]
    BY <1>1, <1>2, <1>3
  <2>2. Head(label) = label[1] /\ Head(part) = part[1]
    BY <1>2, <1>3
  <2> QED BY <2>1, <2>2
<1> QED BY <1>1, <1>3, <1>4 DEF k

LEMMA FindHereFacts ==
    ASSUME NEW nodes, NEW roots, Linked(nodes, roots), NEW uri \in Seq(Char),
           NEW x \in Place(nodes, uri), NEW g, NEW h,
           \A y \in Place(nodes, uri) : g[y] \in Finding(nodes),
           \A y \in Place(nodes, uri) : Len(uri) - y[2] < Len(uri) - x[2] => g[y] = h[y]
    PROVE  /\ FindHere(nodes, uri, g, x) \in Finding(nodes)
           /\ FindHere(nodes, uri, g, x) = FindHere(nodes, uri, h, x)
<1> DEFINE part == From(uri, x[2])
           i == First(nodes, x[1], part)
           n == x[1][i]
           label == nodes[n].uri
           k == Common(label, part)
           place == <<nodes[n].next, x[2] + k>>
<1>1. x[1] \in Seq(DOMAIN nodes) /\ x[2] \in 0..Len(uri) /\ Len(uri) \in Nat /\ x[2] \in Nat
  BY DEF Place
<1>2. part \in Seq(Char) /\ Len(part) = Len(uri) - x[2]
  BY <1>1, FromIs
<1>3. /\ i \in 0..Len(x[1])
      /\ i # 0 => n \in DOMAIN nodes /\ Meets(nodes, n, part)
  BY <1>1, FirstIs
<1>4. CASE i = 0
  <2>1. FindHere(nodes, uri, g, x) = [node |-> NoNode, at |-> 0, rest |-> part]
    BY <1>4 DEF FindHere
  <2>2. FindHere(nodes, uri, h, x) = [node |-> NoNode, at |-> 0, rest |-> part]
    BY <1>4 DEF FindHere
  <2>3. Len(nodes) \in Nat
    BY DEF Linked
  <2> HIDE DEF part
  <2> QED BY <2>1, <2>2, <2>3, <1>2 DEF Finding, NoNode
<1>5. CASE i # 0
  <2>1. /\ n \in DOMAIN nodes /\ n \in 0..Len(nodes) /\ label \in Seq(Char)
        /\ nodes[n].next \in Seq(DOMAIN nodes)
    <3>1. n \in DOMAIN nodes
      BY <1>3, <1>5
    <3> HIDE DEF n
    <3>2. nodes[n] \in Node /\ DOMAIN nodes = 1..Len(nodes)
      BY <3>1 DEF Linked
    <3> QED BY <3>1, <3>2 DEF Linked, Node
  <2>2. label # <<>> /\ Head(label) = Head(part)
    BY <1>3, <1>5 DEF Meets
  <2> HIDE DEF part, i, n, label
  <2>3. k \in 0..Len(label) /\ k <= Len(part)
    BY <1>2, <2>1, CommonIs
  <2>4. CASE k = Len(part)
    <3>1. FindHere(nodes, uri, g, x) = [node |-> n, at |-> 0, rest |-> part]
      BY <1>5, <2>4 DEF FindHere, part, i, n, label
    <3>2. FindHere(nodes, uri, h, x) = [node |-> n, at |-> 0, rest |-> part]
      BY <1>5, <2>4 DEF FindHere, part, i, n, label
    <3> QED BY <3>1, <3>2, <2>1, <1>2 DEF Finding
  <2>5. CASE k # Len(part)
    <3>1. k \in 1..Len(label) /\ k < Len(part)
      BY <1>2, <2>1, <2>2, <2>5, MeetsReads
    <3> HIDE DEF k
    <3>2. x[2] + k \in 0..Len(uri) /\ Len(uri) - (x[2] + k) < Len(uri) - x[2]
      BY <1>1, <1>2, <3>1
    <3>3. place \in Place(nodes, uri) /\ place[2] = x[2] + k
      BY <2>1, <3>2 DEF Place
    <3>4. g[place] = h[place] /\ g[place] \in Finding(nodes)
      BY <3>2, <3>3
    <3> HIDE DEF place
    <3> DEFINE here == [node |-> n, at |-> k, rest |-> From(part, k)]
    <3>5. /\ FindHere(nodes, uri, g, x)
                = IF k = Len(label) /\ g[place].node # NoNode THEN g[place] ELSE here
          /\ FindHere(nodes, uri, h, x)
                = IF k = Len(label) /\ h[place].node # NoNode THEN h[place] ELSE here
      BY <1>5, <2>5 DEF FindHere, part, i, n, label, k, place
    <3>6. here \in Finding(nodes)
      <4>1. From(part, k) \in Seq(Char) /\ k \in Nat
        BY <1>2, <3>1, FromIs
      <4> QED BY <4>1, <2>1 DEF Finding
    <3> HIDE DEF here
    <3> QED BY <3>4, <3>5, <3>6
  <2> QED BY <2>4, <2>5
<1> QED BY <1>4, <1>5

\* FindAddFrom is what its definition says.
LEMMA FindAddFromIs ==
    ASSUME NEW nodes, NEW roots, Linked(nodes, roots), NEW uri \in Seq(Char),
           NEW x \in Place(nodes, uri)
    PROVE  FindAddFrom(nodes, uri)[x] = FindHere(nodes, uri, FindAddFrom(nodes, uri), x)
<1> DEFINE D == Place(nodes, uri)
           S == Finding(nodes)
           size == [y \in D |-> Len(uri) - y[2]]
           step == [g \in [D -> S] |-> [y \in D |-> FindHere(nodes, uri, g, y)]]
<1>1. size \in [D -> Nat]
  BY DEF Place
<1>2. ASSUME NEW g \in [D -> S], NEW y \in D PROVE FindHere(nodes, uri, g, y) \in S
  <2>1. \A z \in D : g[z] \in S
    OBVIOUS
  <2> QED BY <2>1, FindHereFacts
<1>3. step \in [[D -> S] -> [D -> S]]
  BY <1>2
<1>4. ASSUME NEW g \in [D -> S], NEW h \in [D -> S], NEW y \in D,
             \A z \in D : size[z] < size[y] => g[z] = h[z]
      PROVE  step[g][y] = step[h][y]
  <2>1. \A z \in D : Len(uri) - z[2] < Len(uri) - y[2] => g[z] = h[z]
    BY <1>4
  <2>2. \A z \in D : g[z] \in S
    OBVIOUS
  <2>3. FindHere(nodes, uri, g, y) = FindHere(nodes, uri, h, y)
    <3> HIDE DEF size, step
    <3> QED BY <2>1, <2>2, FindHereFacts
  <2> QED BY <2>3
<1>5. Fixed(D, S, step) # {}
  <2>1. S # {}
    <3>1. [node |-> 0, at |-> 0, rest |-> uri] \in S
      BY DEF Finding, Linked
    <3> QED BY <3>1
  <2> HIDE DEF step, size, D, S
  <2>2. Grounded(D, S, size, step)
    BY <2>1, <1>1, <1>3, <1>4 DEF Grounded
  <2> QED BY <2>2, SizeRecursion, Zenon
<1> DEFINE Solves(f) == f = [y \in D |-> FindHere(nodes, uri, f, y)]
<1>6. \E f : Solves(f)
  <2>1. PICK f \in [D -> S] : f = step[f]
    <3> HIDE DEF step, D, S
    <3> QED BY <1>5 DEF Fixed
  <2>2. step[f] = [y \in D |-> FindHere(nodes, uri, f, y)]
    BY <2>1
  <2> QED BY <2>1, <2>2
<1>7. FindAddFrom(nodes, uri) = CHOOSE f : Solves(f)
  BY DEF FindAddFrom, FindHere, First
<1>8. Solves(FindAddFrom(nodes, uri))
  <2> HIDE DEF Solves
  <2> QED BY <1>6, <1>7
<1> QED BY <1>8
\* A URI ends within the label of node n, at its end if it is the word of n.
Ends(nodes, W, uri, n, r) ==
    LET p == nodes[n].prev IN
    /\ Starts(W[p], uri) /\ Len(W[p]) < Len(uri)
    /\ r.at = 0 /\ Starts(uri, W[n]) /\ r.rest = From(uri, Len(W[p]))

\* It leaves node n after d characters, within its label or because there is no
\* child to go on to.
Leaves(nodes, W, uri, n, r) ==
    LET p == nodes[n].prev
        d == Len(W[p]) + r.at
    IN  /\ Starts(W[p], uri) /\ Len(W[p]) < Len(uri)
        /\ r.at \in Nat /\ r.at # 0 /\ d < Len(uri) /\ d <= Len(W[n])
        /\ \A i \in 1..d : W[n][i] = uri[i]
        /\ r.rest = From(uri, d)
        /\ d < Len(W[n]) => W[n][d + 1] # uri[d + 1]
        /\ d = Len(W[n]) => \A c \in DOMAIN nodes : nodes[c].prev = n => W[c][d + 1] # uri[d + 1]

\* Where FindAdd puts a URI that has been read down to p.
Outcome(nodes, W, uri, p, r) ==
    \/ /\ r.node = NoNode /\ r.rest = From(uri, Len(W[p]))
       /\ \A c \in DOMAIN nodes : nodes[c].prev = p => W[c][Len(W[p]) + 1] # uri[Len(W[p]) + 1]
    \/ /\ r.node \in DOMAIN nodes
       /\ Ends(nodes, W, uri, r.node, r) \/ Leaves(nodes, W, uri, r.node, r)

\* The first character of a label is the next one of the word.
LEMMA HeadOfLabel ==
    ASSUME NEW nodes, NEW roots, NEW W, Linked(nodes, roots), Worded(nodes, W),
           NEW n \in DOMAIN nodes, NEW uri \in Seq(Char),
           NEW d, d = Len(W[nodes[n].prev]), d < Len(uri)
    PROVE  /\ nodes[n].uri # <<>> /\ nodes[n].uri \in Seq(Char)
           /\ Head(nodes[n].uri) = W[n][d + 1]
           /\ From(uri, d) \in Seq(Char) /\ Len(From(uri, d)) = Len(uri) - d
           /\ Head(From(uri, d)) = uri[d + 1]
<1>1. /\ n \in 0..Len(nodes) /\ nodes[n].prev \in 0..Len(nodes)
      /\ W[n] \in Seq(Char) /\ d < Len(W[n]) /\ d \in Nat /\ Len(W[n]) \in Nat
  BY WordFacts
<1>2. nodes[n].uri = From(W[n], d)
  BY DEF Worded
<1>3. d \in 0..Len(W[n]) /\ d \in 0..Len(uri) /\ d < Len(uri) /\ Len(uri) \in Nat
  BY <1>1
<1>4. ASSUME NEW s \in Seq(Char), d \in 0..Len(s), d < Len(s)
      PROVE  /\ From(s, d) \in Seq(Char) /\ Len(From(s, d)) = Len(s) - d
             /\ From(s, d) # <<>> /\ Head(From(s, d)) = s[d + 1]
  <2>1. /\ From(s, d) \in Seq(Char) /\ Len(From(s, d)) = Len(s) - d
        /\ \A i \in 1..(Len(s) - d) : From(s, d)[i] = s[d + i]
    BY <1>4, FromIs
  <2>2. Len(s) - d > 0 /\ 1 \in 1..(Len(s) - d)
    BY <1>1, <1>4
  <2>3. From(s, d)[1] = s[d + 1]
    BY <2>1, <2>2
  <2> DEFINE t == From(s, d)
  <2> HIDE DEF t
  <2>4. t \in Seq(Char) /\ Len(t) > 0 /\ t[1] = s[d + 1] /\ Len(t) = Len(s) - d
    BY <2>1, <2>2, <2>3 DEF t
  <2>5. t # <<>> /\ Head(t) = t[1]
    BY <2>4
  <2> QED BY <2>4, <2>5 DEF t
<1>5. /\ From(W[n], d) \in Seq(Char) /\ From(W[n], d) # <<>> /\ Head(From(W[n], d)) = W[n][d + 1]
  BY <1>1, <1>3, <1>4
<1>6. /\ From(uri, d) \in Seq(Char) /\ Len(From(uri, d)) = Len(uri) - d
      /\ Head(From(uri, d)) = uri[d + 1]
  BY <1>3, <1>4
<1> QED BY <1>2, <1>5, <1>6

\* The search goes on below node n, a child of p, or ends there if it finds nothing.
Onward(nodes, W, uri, find, p, n, r) ==
    LET below == find[<<nodes[n].next, Len(W[n])>>] IN
    /\ nodes[n].prev = p
    /\ Starts(W[n], uri) /\ Len(W[n]) < Len(uri)
    /\ r = IF below.node # NoNode THEN below
           ELSE [node |-> n, at |-> Len(W[n]) - Len(W[p]), rest |-> From(uri, Len(W[n]))]

\* One step of the search: no child of p begins as the URI goes on, or one does.
LEMMA FindStep ==
    ASSUME NEW nodes, NEW roots, NEW W, Linked(nodes, roots), Worded(nodes, W),
           NEW uri \in Seq(Char), NEW p \in 0..Len(nodes),
           Starts(W[p], uri), Len(W[p]) < Len(uri), NEW find,
           NEW r, r = FindHere(nodes, uri, find, <<Kids(nodes, roots, p), Len(W[p])>>)
    PROVE  \/ Outcome(nodes, W, uri, p, r)
           \/ \E n \in DOMAIN nodes : Onward(nodes, W, uri, find, p, n, r)
<1> DEFINE d == Len(W[p])
           list == Kids(nodes, roots, p)
           part == From(uri, d)
           i == First(nodes, list, part)
           n == list[i]
           label == nodes[n].uri
           k == Common(label, part)
           below == find[<<nodes[n].next, d + k>>]
<1>1. list \in Seq(DOMAIN nodes) /\ \A c \in DOMAIN nodes : c \in Range(list) <=> nodes[c].prev = p
  BY DEF Linked, Kids, NoNode
<1>2. r = IF i = 0 THEN [node |-> NoNode, at |-> 0, rest |-> part]
          ELSE IF k = Len(part) THEN [node |-> n, at |-> 0, rest |-> part]
          ELSE IF k = Len(label) /\ below.node # NoNode THEN below
          ELSE [node |-> n, at |-> k, rest |-> From(part, k)]
  BY DEF FindHere
<1>3. /\ i # 0 => n \in DOMAIN nodes /\ n \in Range(list) /\ Meets(nodes, n, part)
      /\ i = 0 => \A c \in Range(list) : ~Meets(nodes, c, part)
  BY <1>1, FirstIs
<1>4. ASSUME NEW c \in DOMAIN nodes, nodes[c].prev = p
      PROVE  /\ Meets(nodes, c, part) <=> W[c][d + 1] = uri[d + 1]
             /\ nodes[c].uri # <<>> /\ nodes[c].uri \in Seq(Char)
             /\ part \in Seq(Char) /\ Len(part) = Len(uri) - d
  <2>1. Len(W[nodes[c].prev]) = d /\ d < Len(uri)
    BY <1>4
  <2>2. /\ nodes[c].uri # <<>> /\ nodes[c].uri \in Seq(Char)
        /\ Head(nodes[c].uri) = W[c][d + 1]
        /\ part \in Seq(Char) /\ Len(part) = Len(uri) - d
        /\ Head(part) = uri[d + 1]
    <3> HIDE DEF d
    <3> QED BY <2>1, HeadOfLabel
  <2> HIDE DEF part, d
  <2> QED BY <2>2 DEF Meets
<1>5. d \in Nat /\ Len(uri) \in Nat /\ d \in 0..Len(uri) /\ W[p] \in Seq(Char)
  <2>1. d \in Nat /\ W[p] \in Seq(Char)
    BY WordFacts
  <2> QED BY <2>1
<1>6. CASE i = 0
  <2>1. r.node = NoNode /\ r.rest = part
    BY <1>2, <1>6
  <2>2. \A c \in DOMAIN nodes : nodes[c].prev = p => W[c][d + 1] # uri[d + 1]
    BY <1>1, <1>3, <1>4, <1>6
  <2> QED BY <2>1, <2>2 DEF Outcome
<1>7. CASE i # 0
  <2>1. n \in DOMAIN nodes /\ nodes[n].prev = p /\ Meets(nodes, n, part)
    BY <1>1, <1>3, <1>7
  <2> HIDE DEF list, i, n, part
  <2>2. /\ label # <<>> /\ label \in Seq(Char) /\ label = From(W[n], d)
        /\ part \in Seq(Char) /\ Len(part) = Len(uri) - d /\ Head(label) = Head(part)
    <3>1. label # <<>> /\ label \in Seq(Char) /\ part \in Seq(Char) /\ Len(part) = Len(uri) - d
      BY <2>1, <1>4
    <3> QED BY <2>1, <3>1 DEF Meets, Worded
  <2> HIDE DEF label, k
  <2>3. /\ W[n] \in Seq(Char) /\ d < Len(W[n]) /\ Len(W[n]) \in Nat /\ d \in 0..Len(W[n])
        /\ Starts(W[p], W[n])
    <3>1. W[n] \in Seq(Char) /\ d < Len(W[n]) /\ Len(W[n]) \in Nat /\ Starts(W[p], W[n])
      BY <2>1, WordFacts
    <3> QED BY <3>1, <1>5
  <2>4. /\ Len(label) = Len(W[n]) - d /\ \A j \in 1..(Len(W[n]) - d) : label[j] = W[n][d + j]
        /\ \A j \in 1..(Len(uri) - d) : part[j] = uri[d + j]
    <3>1. Len(label) = Len(W[n]) - d /\ \A j \in 1..(Len(W[n]) - d) : label[j] = W[n][d + j]
      BY <2>2, <2>3, FromIs
    <3> QED BY <3>1, <1>5, FromIs DEF part
  <2>5. /\ k \in 0..Len(label) /\ k <= Len(part)
        /\ \A j \in 1..k : label[j] = part[j]
        /\ k = Len(label) \/ k = Len(part) \/ label[k + 1] # part[k + 1]
    <3>1. label \in Seq(Char) /\ part \in Seq(Char)
      BY <2>2
    <3>2. k = Common(label, part)
      BY DEF k
    <3>3. /\ Common(label, part) \in 0..Len(label) /\ Common(label, part) <= Len(part)
          /\ \A j \in 1..Common(label, part) : label[j] = part[j]
          /\ Common(label, part) = Len(label) \/ Common(label, part) = Len(part)
             \/ label[Common(label, part) + 1] # part[Common(label, part) + 1]
      BY <3>1, CommonIs
    <3> QED BY <3>2, <3>3
  <2>6. k # Len(part) => k \in 1..Len(label) /\ k < Len(part)
    BY <2>2, MeetsReads DEF k
  <2> HIDE DEF d
  <2>7. k \in Nat /\ k <= Len(W[n]) - d /\ k <= Len(uri) - d
    BY <1>5, <2>2, <2>3, <2>4, <2>5
  <2>8. \A j \in 1..(d + k) : W[n][j] = uri[j]
    <3> SUFFICES ASSUME NEW j \in 1..(d + k) PROVE W[n][j] = uri[j]
      OBVIOUS
    <3>1. CASE j <= d
      BY <3>1, <1>5, <2>3 DEF Starts, d
    <3>2. CASE j > d
      <4>1. /\ j - d \in 1..k /\ j - d \in 1..(Len(W[n]) - d) /\ j - d \in 1..(Len(uri) - d)
            /\ d + (j - d) = j
        BY <3>2, <1>5, <2>3, <2>7
      <4>2. label[j - d] = W[n][d + (j - d)] /\ part[j - d] = uri[d + (j - d)]
        BY <4>1, <2>4
      <4> QED BY <4>1, <4>2, <2>5
    <3> QED BY <3>1, <3>2, <1>5, <2>7
  <2>9. CASE k = Len(part)
    <3>1. r = [node |-> n, at |-> 0, rest |-> part]
      BY <1>2, <1>7, <2>9
    <3>2. d + k = Len(uri)
      BY <1>5, <2>2, <2>9, <2>7
    <3>3. Starts(uri, W[n])
      BY <3>2, <2>3, <2>7, <2>8, <1>5 DEF Starts
    <3>4. Ends(nodes, W, uri, n, r)
      BY <3>1, <3>3, <2>1 DEF Ends, d, part
    <3>5. r.node = n
      BY <3>1
    <3>6. Outcome(nodes, W, uri, p, r)
      BY <3>4, <3>5, <2>1 DEF Outcome
    <3> QED BY <3>6
  <2>10. CASE k # Len(part) /\ k = Len(label)
    <3>1. d + k = Len(W[n]) /\ Len(W[n]) < Len(uri)
      BY <1>5, <2>2, <2>3, <2>4, <2>6, <2>10
    <3>2. Starts(W[n], uri)
      BY <3>1, <2>8, <2>3 DEF Starts
    <3>3. From(part, k) = From(uri, Len(W[n]))
      <4>1. k \in 0..(Len(uri) - d)
        BY <2>7, <1>5
      <4> QED BY <3>1, <4>1, <1>5, FromFrom DEF part
    <3>4. k = Len(W[n]) - Len(W[p])
      BY <3>1, <1>5, <2>7 DEF d
    <3>5. r = IF below.node # NoNode THEN below ELSE [node |-> n, at |-> k, rest |-> From(part, k)]
      BY <1>2, <1>7, <2>10
    <3> QED BY <3>1, <3>2, <3>3, <3>4, <3>5, <2>1 DEF Onward
  <2>11. CASE k # Len(part) /\ k # Len(label)
    <3>1. r = [node |-> n, at |-> k, rest |-> From(part, k)]
      BY <1>2, <1>7, <2>11
    <3>2. k \in 1..Len(label) /\ k < Len(part) /\ k < Len(label)
      BY <2>6, <2>11
    <3>3. d + k < Len(uri) /\ d + k < Len(W[n]) /\ k # 0
      BY <3>2, <1>5, <2>2, <2>3, <2>4
    <3>4. W[n][d + k + 1] # uri[d + k + 1]
      <4>1. /\ k + 1 \in 1..(Len(W[n]) - d) /\ k + 1 \in 1..(Len(uri) - d)
            /\ d + (k + 1) = d + k + 1
        BY <3>2, <3>3, <1>5, <2>3, <2>7
      <4>2. label[k + 1] = W[n][d + (k + 1)] /\ part[k + 1] = uri[d + (k + 1)]
        BY <4>1, <2>4
      <4> QED BY <4>1, <4>2, <2>5, <2>11
    <3>5. From(part, k) = From(uri, d + k)
      <4>1. k \in 0..(Len(uri) - d)
        BY <2>7, <1>5
      <4> QED BY <4>1, <1>5, FromFrom DEF part
    <3>6. Leaves(nodes, W, uri, n, r)
      <4>1. Len(W[nodes[n].prev]) = d /\ r.at = k /\ r.rest = From(uri, d + k)
        BY <3>1, <3>5, <2>1 DEF d
      <4>2. Starts(W[nodes[n].prev], uri) /\ d < Len(uri)
        BY <2>1 DEF d
      <4>3. d + k # Len(W[n]) /\ d + k <= Len(W[n])
        BY <3>3, <1>5, <2>3, <2>7
      <4> QED BY <4>1, <4>2, <4>3, <3>3, <3>4, <2>7, <2>8 DEF Leaves
    <3>7. r.node = n
      BY <3>1
    <3>8. Outcome(nodes, W, uri, p, r)
      BY <3>6, <3>7, <2>1 DEF Outcome
    <3> QED BY <3>8
  <2> QED BY <2>9, <2>10, <2>11
<1> QED BY <1>6, <1>7
\* Wherever a search is, it finds where the URI goes.
LEMMA FindBelow ==
    ASSUME NEW nodes, NEW roots, NEW W, Linked(nodes, roots), Worded(nodes, W),
           NEW uri \in Seq(Char)
    PROVE  \A p \in 0..Len(nodes) :
               Starts(W[p], uri) /\ Len(W[p]) < Len(uri) =>
                   Outcome(nodes, W, uri, p,
                           FindAddFrom(nodes, uri)[<<Kids(nodes, roots, p), Len(W[p])>>])
<1> DEFINE kids(p) == Kids(nodes, roots, p)
           find == FindAddFrom(nodes, uri)
           At(p, n) == Starts(W[p], uri) /\ Len(W[p]) < Len(uri) /\ Len(uri) - Len(W[p]) <= n
                           => Outcome(nodes, W, uri, p, find[<<kids(p), Len(W[p])>>])
           Good == {n \in Nat : \A p \in 0..Len(nodes) : At(p, n)}
<1>0. \A p \in 0..Len(nodes) : Len(W[p]) \in Nat /\ Len(uri) \in Nat
  BY WordFacts
<1>1. 0 \in Good
  <2> SUFFICES ASSUME NEW p \in 0..Len(nodes), Len(W[p]) < Len(uri), Len(uri) - Len(W[p]) <= 0
               PROVE  FALSE
    OBVIOUS
  <2> QED BY <1>0
<1>2. ASSUME NEW n \in Nat, n \in Good PROVE n + 1 \in Good
  <2> SUFFICES ASSUME NEW p \in 0..Len(nodes) PROVE At(p, n + 1)
    <3> HIDE DEF At
    <3> QED OBVIOUS
  <2> SUFFICES ASSUME Starts(W[p], uri), Len(W[p]) < Len(uri),
                      Len(uri) - Len(W[p]) <= n + 1
               PROVE  Outcome(nodes, W, uri, p, find[<<kids(p), Len(W[p])>>])
    <3> HIDE DEF kids, find
    <3> QED OBVIOUS
  <2>a. /\ Len(uri) \in Nat /\ Len(W[p]) \in Nat /\ Len(uri) - Len(W[p]) <= n + 1
        /\ Starts(W[p], uri) /\ Len(W[p]) < Len(uri)
    BY <1>0
  <2>b. <<kids(p), Len(W[p])>> \in Place(nodes, uri)
    <3>1. kids(p) \in Seq(DOMAIN nodes)
      BY DEF Kids, Linked, NoNode
    <3>2. Len(W[p]) \in 0..Len(uri)
      BY <1>0
    <3> QED BY <3>1, <3>2 DEF Place
  <2>c. \A c \in 0..Len(nodes) : Starts(W[c], uri) /\ Len(W[c]) < Len(uri) /\ Len(uri) - Len(W[c]) <= n
           => Outcome(nodes, W, uri, c, find[<<kids(c), Len(W[c])>>])
    <3> HIDE DEF kids, find
    <3> QED BY <1>2
  <2>d. \A c \in DOMAIN nodes : kids(c) = nodes[c].next
    BY DEF Kids, NoNode, Linked
  <2> HIDE DEF Good, At, find
  <2> DEFINE r == find[<<kids(p), Len(W[p])>>]
  <2>1. r = FindHere(nodes, uri, find, <<kids(p), Len(W[p])>>)
    <3> HIDE DEF kids
    <3> QED BY <2>b, FindAddFromIs DEF find
  <2> HIDE DEF kids
  <2> DEFINE below(c) == find[<<nodes[c].next, Len(W[c])>>]
             here(c) == [node |-> c, at |-> Len(W[c]) - Len(W[p]), rest |-> From(uri, Len(W[c]))]
  <2>2. \/ Outcome(nodes, W, uri, p, r)
        \/ \E c \in DOMAIN nodes : Onward(nodes, W, uri, find, p, c, r)
    <3> HIDE DEF r
    <3> QED BY <2>1, <2>a, FindStep DEF kids
  <2> HIDE DEF r
  <2> SUFFICES ASSUME NEW c \in DOMAIN nodes, Onward(nodes, W, uri, find, p, c, r)
               PROVE  Outcome(nodes, W, uri, p, r)
    BY <2>2 DEF r
  <2>e. /\ nodes[c].prev = p /\ Starts(W[c], uri) /\ Len(W[c]) < Len(uri)
        /\ r = IF below(c).node # NoNode THEN below(c) ELSE here(c)
    BY DEF Onward
  <2>3. /\ c \in 0..Len(nodes) /\ c # 0 /\ Len(W[c]) \in Nat
        /\ Len(W[p]) < Len(W[c]) /\ W[c] \in Seq(Char)
    <3>1. c \in 0..Len(nodes) /\ c # 0 /\ Len(W[p]) < Len(W[c]) /\ W[c] \in Seq(Char)
      BY <2>e, WordFacts
    <3> QED BY <1>0, <3>1
  <2>4. Outcome(nodes, W, uri, c, below(c))
    <3>1. Len(uri) - Len(W[c]) <= n
      <4> DEFINE a == Len(uri)
                 b == Len(W[p])
                 e == Len(W[c])
      <4>1. a \in Nat /\ b \in Nat /\ e \in Nat /\ a - b <= n + 1 /\ b < e
        BY <2>a, <2>e, <2>3
      <4> HIDE DEF a, b, e
      <4>2. a - e <= n
        BY <4>1
      <4> QED BY <4>2 DEF a, e
    <3>2. Outcome(nodes, W, uri, c, find[<<kids(c), Len(W[c])>>])
      BY <2>c, <2>e, <2>3, <3>1
    <3> QED BY <3>2, <2>d
  <2>5. CASE below(c).node # NoNode
    <3>1. r = below(c)
      BY <2>e, <2>5
    <3> HIDE DEF below
    <3> QED BY <2>4, <2>5, <3>1 DEF Outcome
  <2>6. CASE below(c).node = NoNode
    <3>1. r = here(c)
      BY <2>e, <2>6
    <3>2. \A d \in DOMAIN nodes : nodes[d].prev = c => W[d][Len(W[c]) + 1] # uri[Len(W[c]) + 1]
      <4>1. NoNode \notin DOMAIN nodes
        BY DEF Linked, NoNode
      <4> HIDE DEF below
      <4> QED BY <2>4, <2>6, <4>1 DEF Outcome
    <3>3. r.node = c /\ r.at = Len(W[c]) - Len(W[p]) /\ r.rest = From(uri, Len(W[c]))
      <4>1. /\ here(c).node = c /\ here(c).at = Len(W[c]) - Len(W[p])
            /\ here(c).rest = From(uri, Len(W[c]))
        OBVIOUS
      <4> HIDE DEF here
      <4> QED BY <3>1, <4>1
    <3>4. Len(W[p]) + r.at = Len(W[c]) /\ r.at \in Nat /\ r.at # 0
      <4> DEFINE b == Len(W[p])
                 e == Len(W[c])
                 a == r.at
      <4>1. b \in Nat /\ e \in Nat /\ b < e /\ a = e - b
        BY <2>a, <2>e, <2>3, <3>3
      <4> HIDE DEF a, b, e
      <4>2. b + a = e /\ a \in Nat /\ a # 0
        BY <4>1
      <4> QED BY <4>2 DEF a, b, e
    <3>5. \A i \in 1..Len(W[c]) : W[c][i] = uri[i]
      BY <2>e, <2>3 DEF Starts
    <3>6. Leaves(nodes, W, uri, c, r)
      <4> DEFINE e == Len(W[c])
      <4>1. Len(W[nodes[c].prev]) + r.at = e /\ e \in Nat /\ e <= e /\ ~(e < e)
        <5>1. Len(W[nodes[c].prev]) + r.at = e /\ e \in Nat
          BY <2>e, <2>3, <3>4
        <5> HIDE DEF e
        <5>2. e <= e /\ ~(e < e)
          BY <5>1
        <5> QED BY <5>1, <5>2
      <4>2. /\ e < Len(uri) /\ \A i \in 1..e : W[c][i] = uri[i]
            /\ r.rest = From(uri, e) /\ Starts(W[nodes[c].prev], uri)
            /\ Len(W[nodes[c].prev]) < Len(uri)
            /\ \A d \in DOMAIN nodes : nodes[d].prev = c => W[d][e + 1] # uri[e + 1]
        BY <2>a, <2>e, <3>2, <3>3, <3>5
      <4>3. e <= Len(W[c])
        BY <4>1
      <4>4. ~(e < Len(W[c]))
        BY <4>1
      <4> HIDE DEF e
      <4> QED BY <4>1, <4>2, <4>3, <4>4, <3>4 DEF Leaves
    <3> QED BY <3>3, <3>6 DEF Outcome
  <2> QED BY <2>5, <2>6
<1>3. Nat \subseteq Good
  <2> HIDE DEF Good
  <2> QED BY <1>1, <1>2, SetInduction
<1> SUFFICES ASSUME NEW p \in 0..Len(nodes), Starts(W[p], uri), Len(W[p]) < Len(uri)
             PROVE  Outcome(nodes, W, uri, p, find[<<kids(p), Len(W[p])>>])
  OBVIOUS
<1>4. Len(uri) - Len(W[p]) \in Nat
  BY <1>0
<1>5. Len(uri) - Len(W[p]) \in Good /\ Len(uri) - Len(W[p]) <= Len(uri) - Len(W[p])
  <2> HIDE DEF Good
  <2> QED BY <1>3, <1>4
<1> HIDE DEF kids, find
<1> QED BY <1>5

\* What FindAdd returns.
LEMMA FindAddIs ==
    ASSUME NEW nodes, NEW roots, NEW W, Linked(nodes, roots), Worded(nodes, W),
           NEW uri \in Seq(Char), uri # <<>>
    PROVE  Outcome(nodes, W, uri, NoNode, FindAdd(nodes, roots, uri))
<1>1. W[0] = <<>> /\ Len(W[0]) = 0 /\ 0 \in 0..Len(nodes)
  BY WordFacts
<1>2. Starts(W[0], uri) /\ Len(W[0]) < Len(uri)
  BY <1>1 DEF Starts
<1>3. Kids(nodes, roots, 0) = roots
  BY DEF Kids, NoNode
<1> QED BY <1>1, <1>2, <1>3, FindBelow DEF FindAdd, NoNode
-----------------------------------------------------------------------------
(* The keys in the tree: leaf l is that of the URI L[l] *)

\* No URI begins with another: they are closed by a bracket.  A literal may be
\* the beginning of another one, and is then not always found: see AddedAreFound.
PrefixFree == \A u, v \in Uri : IsPrefix(u, v) => u = v

Leafed(nodes, W, L) ==
    /\ L \in Seq(Uri) /\ \A i, j \in DOMAIN L : L[i] = L[j] => i = j
    /\ \A n \in DOMAIN nodes :
          nodes[n].leaf # NoLeaf => nodes[n].leaf \in DOMAIN L /\ L[nodes[n].leaf] = W[n]
    /\ \A l \in DOMAIN L : \E n \in DOMAIN nodes : nodes[n].leaf = l
    /\ \A n \in DOMAIN nodes : \E l \in DOMAIN L : Starts(W[n], L[l])

KeyTree(nodes, roots, W, L) == Linked(nodes, roots) /\ Worded(nodes, W) /\ Leafed(nodes, W, L)

\* A URI is in the tree if it has a node, and the leaf of that node is its leaf.
LEMMA LeafOfWord ==
    ASSUME NEW nodes, NEW roots, NEW W, NEW L, KeyTree(nodes, roots, W, L), NEW u
    PROVE  LeavesWith(nodes, W, u) = {l \in DOMAIN L : L[l] = u}
<1>0. Linked(nodes, roots) /\ Worded(nodes, W) /\ Leafed(nodes, W, L)
  BY DEF KeyTree
<1>1. ASSUME NEW l \in LeavesWith(nodes, W, u) PROVE l \in DOMAIN L /\ L[l] = u
  BY <1>0, <1>1 DEF LeavesWith, Leafed
<1>2. ASSUME NEW l \in DOMAIN L, L[l] = u PROVE l \in LeavesWith(nodes, W, u)
  <2>1. PICK n \in DOMAIN nodes : nodes[n].leaf = l
    BY <1>0 DEF Leafed
  <2>2. l # NoLeaf
    BY <1>0 DEF Leafed, NoLeaf
  <2>3. W[n] = u
    BY <1>0, <1>2, <2>1, <2>2 DEF Leafed
  <2> QED BY <2>1, <2>2, <2>3 DEF LeavesWith
<1> QED BY <1>1, <1>2

\* A URI goes on below p, but to no child of p.
NoWayOn(nodes, W, uri, p) ==
    /\ Starts(W[p], uri) /\ Len(W[p]) < Len(uri)
    /\ \A c \in DOMAIN nodes : nodes[c].prev = p => ~Starts(W[c], uri)

Absent(L, uri) == \A l \in DOMAIN L : L[l] # uri

\* Such a URI is not in the tree.
LEMMA NotThere ==
    ASSUME NEW nodes, NEW roots, NEW W, NEW L, KeyTree(nodes, roots, W, L),
           NEW uri \in Seq(Char), NEW p \in 0..Len(nodes), NoWayOn(nodes, W, uri, p)
    PROVE  Absent(L, uri)
<1>0. Linked(nodes, roots) /\ Worded(nodes, W) /\ Leafed(nodes, W, L)
  BY DEF KeyTree
<1> SUFFICES ASSUME NEW l \in DOMAIN L, L[l] = uri PROVE FALSE
  BY DEF Absent
<1>1. PICK n \in DOMAIN nodes : nodes[n].leaf = l
  BY <1>0 DEF Leafed
<1>2. l # NoLeaf
  BY <1>0 DEF Leafed, NoLeaf
<1>3. W[n] = uri
  BY <1>0, <1>1, <1>2 DEF Leafed
<1>4. n \in 0..Len(nodes) /\ Descends(nodes, W, p, n)
  BY <1>0, WordFacts, AllDescend
<1>5. PICK c \in DOMAIN nodes : nodes[c].prev = p /\ Starts(W[c], uri)
  BY <1>3, <1>4 DEF Descends, NoWayOn
<1> QED BY <1>5 DEF NoWayOn

\* A URI of which every character is in the label of a node is the word of the node.
LEMMA EndsAtWord ==
    ASSUME PrefixFree, NEW nodes, NEW roots, NEW W, NEW L, KeyTree(nodes, roots, W, L),
           NEW uri \in Uri, NEW n \in DOMAIN nodes, Starts(uri, W[n])
    PROVE  W[n] = uri /\ nodes[n].leaf # NoLeaf
<1>0. Linked(nodes, roots) /\ Worded(nodes, W) /\ Leafed(nodes, W, L)
  BY DEF KeyTree
<1>1. PICK l \in DOMAIN L : Starts(W[n], L[l])
  BY <1>0 DEF Leafed
<1>2. L[l] \in Uri /\ l # NoLeaf
  BY <1>0 DEF Leafed, NoLeaf
<1>3. uri \in Seq(Char) /\ L[l] \in Seq(Char) /\ W[n] \in Seq(Char) /\ n \in 0..Len(nodes)
  BY <1>0, <1>2, UriAssumption, WordFacts
<1>4. Starts(uri, L[l])
  BY <1>1, <1>3, StartsTransitive
<1>5. uri = L[l]
  BY <1>2, <1>3, <1>4, PrefixIsStart DEF PrefixFree
<1>6. W[n] = uri
  BY <1>1, <1>3, <1>5, StartsWhole DEF Starts
<1>7. PICK x \in DOMAIN nodes : nodes[x].leaf = l
  BY <1>0 DEF Leafed
<1>8. W[x] = uri
  BY <1>0, <1>2, <1>5, <1>7 DEF Leafed
<1>9. x = n
  <2>1. x \in 0..Len(nodes) /\ Descends(nodes, W, x, n)
    BY <1>0, <1>3, WordFacts, AllDescend
  <2> QED BY <2>1, <1>6, <1>8 DEF Descends
<1> QED BY <1>2, <1>6, <1>7, <1>9
-----------------------------------------------------------------------------
(* A new node at the end of a list of children *)

Grown(nodes, roots, nodes2, roots2, p, label, leaf) ==
    LET m == Len(nodes) IN
    /\ nodes2 \in Seq(Node) /\ Len(nodes2) = m + 1
    /\ nodes2[m + 1] = Leaf(label, p, leaf)
    /\ \A i \in 1..m : /\ nodes2[i].uri = nodes[i].uri /\ nodes2[i].prev = nodes[i].prev
                       /\ nodes2[i].leaf = nodes[i].leaf
    /\ \A q \in 0..m : Kids(nodes2, roots2, q) = IF q = p THEN Append(Kids(nodes, roots, q), m + 1)
                                                ELSE Kids(nodes, roots, q)

\* The words with one more node.
Wider(W, m, uri) == [q \in 0..(m + 1) |-> IF q = m + 1 THEN uri ELSE W[q]]

LEMMA SeqInSet ==
    ASSUME NEW S, NEW T, S \subseteq T, NEW s \in Seq(S)
    PROVE  s \in Seq(T)
OBVIOUS

LEMMA RangeInSet ==
    ASSUME NEW S, NEW s \in Seq(S)
    PROVE  \A y \in Range(s) : y \in S
BY DEF Range

LEMMA RangeOfAppend ==
    ASSUME NEW S, NEW s \in Seq(S), NEW x \in S
    PROVE  Append(s, x) \in Seq(S) /\ \A y : y \in Range(Append(s, x)) <=> y \in Range(s) \/ y = x
<1>1. /\ Append(s, x) \in Seq(S) /\ Len(Append(s, x)) = Len(s) + 1 /\ Append(s, x)[Len(s) + 1] = x
      /\ \A i \in 1..Len(s) : Append(s, x)[i] = s[i]
      /\ DOMAIN s = 1..Len(s) /\ DOMAIN Append(s, x) = 1..(Len(s) + 1) /\ Len(s) \in Nat
  OBVIOUS
<1> DEFINE t == Append(s, x)
<1> HIDE DEF t
<1>2. ASSUME NEW y, y \in Range(t) PROVE y \in Range(s) \/ y = x
  <2>1. PICK i \in 1..(Len(s) + 1) : t[i] = y
    BY <1>1, <1>2 DEF Range, t
  <2>2. CASE i = Len(s) + 1
    BY <2>1, <2>2, <1>1 DEF t
  <2>3. CASE i \in 1..Len(s)
    BY <2>1, <2>3, <1>1 DEF t, Range
  <2> QED BY <2>2, <2>3, <1>1
<1>3. ASSUME NEW y, y \in Range(s) \/ y = x PROVE y \in Range(t)
  <2>1. CASE y = x
    <3>1. Len(s) + 1 \in DOMAIN t /\ t[Len(s) + 1] = y
      BY <1>1, <2>1 DEF t
    <3> QED BY <3>1 DEF Range
  <2>2. CASE y \in Range(s)
    <3>1. PICK i \in 1..Len(s) : s[i] = y
      BY <1>1, <2>2 DEF Range
    <3>2. i \in DOMAIN t /\ t[i] = y
      BY <1>1, <3>1 DEF t
    <3> QED BY <3>2 DEF Range
  <2> QED BY <1>3, <2>1, <2>2
<1> QED BY <1>1, <1>2, <1>3 DEF t

LEMMA OnceAppend ==
    ASSUME NEW S, NEW s \in Seq(S), Once(s), NEW x \in S, x \notin Range(s)
    PROVE  Once(Append(s, x))
<1> DEFINE t == Append(s, x)
<1>1. /\ Len(s) \in Nat /\ DOMAIN s = 1..Len(s) /\ Len(t) = Len(s) + 1 /\ t[Len(s) + 1] = x
      /\ \A i \in 1..Len(s) : t[i] = s[i]
  OBVIOUS
<1>2. \A i \in 1..Len(s) : s[i] # x
  BY <1>1 DEF Range
<1> HIDE DEF t
<1>3. \A i \in 1..Len(t) : i \in 1..Len(s) \/ i = Len(s) + 1
  BY <1>1
<1> QED BY <1>1, <1>2, <1>3 DEF Once, t

LEMMA GrownLinked ==
    ASSUME NEW nodes, NEW roots, Linked(nodes, roots), NEW nodes2, NEW roots2,
           NEW p \in 0..Len(nodes), NEW label, NEW leaf,
           Grown(nodes, roots, nodes2, roots2, p, label, leaf)
    PROVE  Linked(nodes2, roots2)
<1> DEFINE m == Len(nodes)
           kids(q) == Kids(nodes, roots, q)
           kids2(q) == Kids(nodes2, roots2, q)
<1>0. \A q \in 0..m : Once(kids(q))
  BY DEF Linked
<1>1. /\ m \in Nat /\ DOMAIN nodes = 1..m /\ roots \in Seq(1..m)
      /\ \A n \in 1..m : nodes[n].next \in Seq(1..m) /\ nodes[n].prev \in 0..m
      /\ \A q \in 0..m, c \in 1..m : c \in Range(kids(q)) <=> nodes[c].prev = q
  BY DEF Linked
<1>2. /\ nodes2 \in Seq(Node) /\ Len(nodes2) = m + 1 /\ DOMAIN nodes2 = 1..(m + 1)
      /\ nodes2[m + 1].prev = p /\ nodes2[m + 1].next = <<>>
      /\ \A i \in 1..m : nodes2[i].prev = nodes[i].prev
      /\ \A q \in 0..m : kids2(q) = IF q = p THEN Append(kids(q), m + 1) ELSE kids(q)
  BY DEF Grown, Leaf
<1>3. \A q \in 0..m : kids(q) \in Seq(1..m)
  BY <1>1 DEF Kids, NoNode
<1>4. kids2(m + 1) = <<>>
  BY <1>1, <1>2 DEF Kids, NoNode
<1>5. kids2(0) = roots2 /\ \A n \in 1..m : kids2(n) = nodes2[n].next
  BY DEF Kids, NoNode
<1> HIDE DEF kids, kids2, m
<1>6. ASSUME NEW s \in Seq(1..m)
      PROVE  /\ s \in Seq(1..(m + 1)) /\ Append(s, m + 1) \in Seq(1..(m + 1))
             /\ \A y : y \in Range(Append(s, m + 1)) <=> y \in Range(s) \/ y = m + 1
             /\ m + 1 \notin Range(s)
  <2>1. s \in Seq(1..(m + 1)) /\ m + 1 \in 1..(m + 1)
    BY <1>1
  <2>2. m + 1 \notin Range(s)
    <3>1. \A y \in Range(s) : y \in 1..m
      BY RangeInSet
    <3>2. m + 1 \notin 1..m
      BY <1>1
    <3> QED BY <3>1, <3>2
  <2> QED BY <2>1, <2>2, RangeOfAppend
<1>7. \A q \in 0..m : kids2(q) \in Seq(1..(m + 1))
  BY <1>2, <1>3, <1>6
<1>8. roots2 \in Seq(1..(m + 1)) /\ \A n \in 1..(m + 1) : nodes2[n].next \in Seq(1..(m + 1))
  <2>1. roots2 \in Seq(1..(m + 1))
    <3>1. 0 \in 0..m
      BY <1>1
    <3> QED BY <1>5, <1>7, <3>1
  <2>2. \A n \in 1..m : nodes2[n].next \in Seq(1..(m + 1))
    <3>1. \A n \in 1..m : n \in 0..m
      BY <1>1
    <3> QED BY <1>5, <1>7, <3>1
  <2>3. nodes2[m + 1].next \in Seq(1..(m + 1))
    BY <1>2
  <2>4. \A n \in 1..(m + 1) : n \in 1..m \/ n = m + 1
    BY <1>1
  <2> QED BY <2>1, <2>2, <2>3, <2>4
<1>9. \A n \in 1..(m + 1) : nodes2[n].prev \in 0..(m + 1)
  <2>1. \A n \in 1..(m + 1) : n \in 1..m \/ n = m + 1
    BY <1>1
  <2>2. \A q \in 0..m : q \in 0..(m + 1)
    BY <1>1
  <2>3. p \in 0..m
    BY DEF m
  <2> QED BY <1>1, <1>2, <2>1, <2>2, <2>3
<1>10. ASSUME NEW q \in 0..(m + 1), NEW c \in 1..(m + 1)
       PROVE  c \in Range(kids2(q)) <=> nodes2[c].prev = q
  <2>1. p \in 0..m /\ (q \in 0..m \/ q = m + 1) /\ (c \in 1..m \/ c = m + 1) /\ m + 1 \notin 0..m
    BY <1>1 DEF m
  <2>2. CASE q = m + 1
    <3>1. c \notin Range(kids2(q))
      BY <1>4, <2>2 DEF Range
    <3>2. nodes2[c].prev \in 0..m
      BY <1>1, <1>2, <2>1
    <3> QED BY <3>1, <3>2, <2>1, <2>2
  <2>3. CASE q \in 0..m /\ c \in 1..m
    <3>1. c # m + 1
      BY <1>1, <2>3
    <3>2. c \in Range(kids2(q)) <=> c \in Range(kids(q))
      BY <1>2, <1>3, <1>6, <2>3, <3>1
    <3> QED BY <3>2, <1>1, <1>2, <2>3
  <2>4. CASE q \in 0..m /\ c = m + 1
    <3>1. c \in Range(kids2(q)) <=> q = p
      BY <1>2, <1>3, <1>6, <2>4
    <3> QED BY <3>1, <1>2, <2>4
  <2> QED BY <2>1, <2>2, <2>3, <2>4
<1>11. ASSUME NEW q \in 0..(m + 1) PROVE Once(kids2(q))
  <2>1. q \in 0..m \/ q = m + 1
    BY <1>1
  <2>2. CASE q = m + 1
    <3>1. kids2(q) = <<>> /\ Len(<<>>) = 0
      BY <1>4, <2>2
    <3> QED BY <3>1 DEF Once
  <2>3. CASE q \in 0..m
    <3>1. Once(kids(q)) /\ kids(q) \in Seq(1..m) /\ m + 1 \notin Range(kids(q))
      BY <2>3, <1>0, <1>3, <1>6
    <3>2. Once(Append(kids(q), m + 1))
      <4>1. kids(q) \in Seq(Nat) /\ m + 1 \in Nat
        <5>1. 1..m \subseteq Nat /\ m + 1 \in Nat
          BY <1>1
        <5> HIDE DEF kids, m
        <5> QED BY <3>1, <5>1, SeqInSet
      <4> HIDE DEF kids, m
      <4> QED BY <3>1, <4>1, OnceAppend
    <3> QED BY <3>1, <3>2, <1>2, <2>3
  <2> QED BY <2>1, <2>2, <2>3
<1> QED BY <1>2, <1>8, <1>9, <1>10, <1>11 DEF Linked, kids2
\* What GrownWorded and GrownLeafed are about: uri gets a node of its own below p.
GrowsBy(nodes, roots, W, nodes2, roots2, p, uri, leaf) ==
    /\ Linked(nodes, roots) /\ Worded(nodes, W) /\ p \in 0..Len(nodes)
    /\ uri \in Seq(Char) /\ Starts(W[p], uri) /\ Len(W[p]) < Len(uri)
    /\ \A c \in DOMAIN nodes : nodes[c].prev = p => W[c][Len(W[p]) + 1] # uri[Len(W[p]) + 1]
    /\ Grown(nodes, roots, nodes2, roots2, p, From(uri, Len(W[p])), leaf)

LEMMA GrownWorded ==
    ASSUME NEW nodes, NEW roots, NEW W, NEW nodes2, NEW roots2, NEW p, NEW uri, NEW leaf,
           GrowsBy(nodes, roots, W, nodes2, roots2, p, uri, leaf)
    PROVE  Worded(nodes2, Wider(W, Len(nodes), uri))
<1> DEFINE m == Len(nodes)
           V == Wider(W, m, uri)
<1>1. /\ Linked(nodes, roots) /\ Worded(nodes, W) /\ p \in 0..m
      /\ uri \in Seq(Char) /\ Starts(W[p], uri) /\ Len(W[p]) < Len(uri)
      /\ \A c \in DOMAIN nodes : nodes[c].prev = p => W[c][Len(W[p]) + 1] # uri[Len(W[p]) + 1]
      /\ Grown(nodes, roots, nodes2, roots2, p, From(uri, Len(W[p])), leaf)
  BY DEF GrowsBy
<1>2. /\ m \in Nat /\ DOMAIN nodes = 1..m
      /\ \A q \in 0..m : W[q] \in Seq(Char) /\ Len(W[q]) \in Nat
      /\ \A c \in 1..m : c \in 0..m /\ nodes[c].prev \in 0..m
      /\ W[0] = <<>>
  BY <1>1, WordFacts
<1>3. /\ Len(nodes2) = m + 1 /\ DOMAIN nodes2 = 1..(m + 1)
      /\ nodes2[m + 1].prev = p /\ nodes2[m + 1].uri = From(uri, Len(W[p]))
      /\ \A i \in 1..m : nodes2[i].prev = nodes[i].prev /\ nodes2[i].uri = nodes[i].uri
  BY <1>1 DEF Grown, Leaf
<1> HIDE DEF m
<1>4. /\ V \in [0..(m + 1) -> Seq(Char)] /\ V[m + 1] = uri /\ \A q \in 0..m : V[q] = W[q]
  <2>1. \A q \in 0..m : q \in 0..(m + 1) /\ q # m + 1
    BY <1>2
  <2>2. \A q \in 0..(m + 1) : q \in 0..m \/ q = m + 1
    BY <1>2
  <2>3. m + 1 \in 0..(m + 1)
    BY <1>2
  <2> QED BY <1>1, <1>2, <2>1, <2>2, <2>3 DEF Wider
<1> HIDE DEF V
<1>5. V[NoNode] = <<>>
  <2>1. 0 \in 0..m
    BY <1>2
  <2> QED BY <2>1, <1>2, <1>4 DEF NoNode
<1>6. \A c \in 1..(m + 1) : c \in 1..m \/ c = m + 1
  BY <1>2
<1>7. ASSUME NEW c \in 1..(m + 1)
      PROVE  /\ Len(V[nodes2[c].prev]) < Len(V[c]) /\ Starts(V[nodes2[c].prev], V[c])
             /\ nodes2[c].uri = From(V[c], Len(V[nodes2[c].prev]))
  <2>1. CASE c = m + 1
    BY <2>1, <1>1, <1>3, <1>4
  <2>2. CASE c \in 1..m
    <3>1. /\ Len(W[nodes[c].prev]) < Len(W[c]) /\ Starts(W[nodes[c].prev], W[c])
          /\ nodes[c].uri = From(W[c], Len(W[nodes[c].prev]))
      BY <1>1, <1>2, <2>2 DEF Worded
    <3> QED BY <3>1, <2>2, <1>2, <1>3, <1>4
  <2> QED BY <2>1, <2>2, <1>6
<1>8. ASSUME NEW c \in 1..(m + 1), NEW d \in 1..(m + 1), nodes2[d].prev = nodes2[c].prev,
             V[c][Len(V[nodes2[c].prev]) + 1] = V[d][Len(V[nodes2[c].prev]) + 1]
      PROVE  c = d
  <2>1. CASE c \in 1..m /\ d \in 1..m
    <3>1. /\ nodes[d].prev = nodes[c].prev
          /\ W[c][Len(W[nodes[c].prev]) + 1] = W[d][Len(W[nodes[c].prev]) + 1]
      BY <2>1, <1>8, <1>2, <1>3, <1>4
    <3> QED BY <3>1, <2>1, <1>1, <1>2 DEF Worded
  <2>2. CASE c = m + 1 /\ d \in 1..m
    <3>1. nodes[d].prev = p /\ W[d][Len(W[p]) + 1] = uri[Len(W[p]) + 1]
      BY <2>2, <1>8, <1>1, <1>2, <1>3, <1>4
    <3> QED BY <3>1, <2>2, <1>1, <1>2
  <2>3. CASE d = m + 1 /\ c \in 1..m
    <3>1. nodes[c].prev = p /\ W[c][Len(W[p]) + 1] = uri[Len(W[p]) + 1]
      BY <2>3, <1>8, <1>1, <1>2, <1>3, <1>4
    <3> QED BY <3>1, <2>3, <1>1, <1>2
  <2> QED BY <2>1, <2>2, <2>3, <1>6
<1> QED BY <1>3, <1>4, <1>5, <1>7, <1>8 DEF Worded, V, m

LEMMA GrownLeafed ==
    ASSUME NEW nodes, NEW roots, NEW W, NEW nodes2, NEW roots2, NEW p, NEW uri \in Uri, NEW L,
           GrowsBy(nodes, roots, W, nodes2, roots2, p, uri, Len(L) + 1),
           Leafed(nodes, W, L), \A l \in DOMAIN L : L[l] # uri
    PROVE  Leafed(nodes2, Wider(W, Len(nodes), uri), Append(L, uri))
<1> DEFINE m == Len(nodes)
           V == Wider(W, m, uri)
           M == Append(L, uri)
           e == Len(L) + 1
<1>1. /\ Linked(nodes, roots) /\ Worded(nodes, W) /\ uri \in Seq(Char)
      /\ Grown(nodes, roots, nodes2, roots2, p, From(uri, Len(W[p])), Len(L) + 1)
  BY DEF GrowsBy
<1>2. m \in Nat /\ DOMAIN nodes = 1..m
  BY <1>1, WordFacts
<1>3. /\ DOMAIN nodes2 = 1..(m + 1) /\ nodes2[m + 1].leaf = e
      /\ \A i \in 1..m : nodes2[i].leaf = nodes[i].leaf
  BY <1>1 DEF Grown, Leaf
<1>4. /\ M \in Seq(Uri) /\ DOMAIN M = 1..e /\ M[e] = uri /\ DOMAIN L = 1..Len(L)
      /\ \A l \in 1..Len(L) : M[l] = L[l] /\ Len(L) \in Nat
  BY DEF Leafed
<1> HIDE DEF M
<1>5. /\ e \in Nat /\ e # 0 /\ e \in 1..e /\ e \notin 1..Len(L)
      /\ \A l \in 1..e : l \in 1..Len(L) \/ l = e
      /\ \A l \in 1..Len(L) : l \in 1..e
  BY DEF Leafed
<1> HIDE DEF m, e
<1>6. /\ \A c \in 1..(m + 1) : c \in 1..m \/ c = m + 1
      /\ \A c \in 1..m : c \in 0..(m + 1) /\ c # m + 1 /\ c \in 1..(m + 1)
      /\ m + 1 \in 0..(m + 1) /\ m + 1 \in 1..(m + 1)
  BY <1>2
<1>7. V[m + 1] = uri /\ \A q \in 1..m : V[q] = W[q]
  BY <1>6 DEF Wider
<1> HIDE DEF V
<1>8. ASSUME NEW i \in 1..e, NEW j \in 1..e, M[i] = M[j] PROVE i = j
  <2>1. CASE i = e
    BY <2>1, <1>4, <1>5, <1>8
  <2>2. CASE j = e
    BY <2>2, <1>4, <1>5, <1>8
  <2>3. CASE i \in 1..Len(L) /\ j \in 1..Len(L)
    BY <2>3, <1>4, <1>8 DEF Leafed
  <2> QED BY <2>1, <2>2, <2>3, <1>5
<1>9. ASSUME NEW n \in 1..(m + 1), nodes2[n].leaf # NoLeaf
      PROVE  nodes2[n].leaf \in 1..e /\ M[nodes2[n].leaf] = V[n]
  <2>1. CASE n = m + 1
    BY <2>1, <1>3, <1>4, <1>5, <1>7
  <2>2. CASE n \in 1..m
    <3>1. nodes[n].leaf \in 1..Len(L) /\ L[nodes[n].leaf] = W[n]
      BY <2>2, <1>2, <1>3, <1>4, <1>9 DEF Leafed
    <3> QED BY <3>1, <2>2, <1>3, <1>4, <1>5, <1>7
  <2> QED BY <2>1, <2>2, <1>6
<1>10. ASSUME NEW l \in 1..e PROVE \E n \in 1..(m + 1) : nodes2[n].leaf = l
  <2>1. CASE l = e
    BY <2>1, <1>3, <1>6
  <2>2. CASE l \in 1..Len(L)
    <3>1. PICK n \in 1..m : nodes[n].leaf = l
      BY <2>2, <1>2, <1>4 DEF Leafed
    <3> QED BY <3>1, <1>3, <1>6
  <2> QED BY <2>1, <2>2, <1>5
<1>11. ASSUME NEW n \in 1..(m + 1) PROVE \E l \in 1..e : Starts(V[n], M[l])
  <2>1. CASE n = m + 1
    <3>1. Starts(uri, uri)
      BY <1>1, StartsItself
    <3> QED BY <3>1, <2>1, <1>4, <1>5, <1>7
  <2>2. CASE n \in 1..m
    <3>1. PICK l \in 1..Len(L) : Starts(W[n], L[l])
      BY <2>2, <1>2, <1>4 DEF Leafed
    <3> QED BY <3>1, <2>2, <1>4, <1>5, <1>7
  <2> QED BY <2>1, <2>2, <1>6
<1> QED BY <1>3, <1>4, <1>8, <1>9, <1>10, <1>11 DEF Leafed, V, M, m
-----------------------------------------------------------------------------
(* A node that is split *)

Divided(nodes, nodes2, n, k, rest, leaf) ==
    LET m == Len(nodes) IN
    /\ nodes2 \in Seq(Node) /\ Len(nodes2) = m + 2
    /\ nodes2[n] = [uri |-> SubSeq(nodes[n].uri, 1, k), next |-> <<m + 1, m + 2>>,
                    prev |-> nodes[n].prev, leaf |-> NoLeaf]
    /\ \A i \in (1..m) \ {n} :
          nodes2[i] = [uri |-> nodes[i].uri, next |-> nodes[i].next,
                       prev |-> IF nodes[i].prev = n THEN m + 1 ELSE nodes[i].prev,
                       leaf |-> nodes[i].leaf]
    /\ nodes2[m + 1] = [uri |-> From(nodes[n].uri, k), next |-> nodes[n].next,
                        prev |-> n, leaf |-> nodes[n].leaf]
    /\ nodes2[m + 2] = Leaf(rest, n, leaf)

\* The fields of a node, and of one with some of them changed.
LEMMA NodeIs ==
    ASSUME NEW x \in Node
    PROVE  /\ x.uri \in Seq(Char) /\ x.next \in Seq(Nat) /\ x.prev \in Nat /\ x.leaf \in Nat
           /\ x = [uri |-> x.uri, next |-> x.next, prev |-> x.prev, leaf |-> x.leaf]
           /\ \A p : [x EXCEPT !.prev = p]
                        = [uri |-> x.uri, next |-> x.next, prev |-> p, leaf |-> x.leaf]
           /\ \A u, p : [x EXCEPT !.uri = u, !.prev = p]
                           = [uri |-> u, next |-> x.next, prev |-> p, leaf |-> x.leaf]
           /\ \A u, l, c : [x EXCEPT !.uri = u, !.leaf = l, !.next = c]
                              = [uri |-> u, next |-> c, prev |-> x.prev, leaf |-> l]
<1>1. x \in [uri: Seq(Char), next: Seq(Nat), prev: Nat, leaf: Nat]
  BY DEF Node
<1> DEFINE A == Seq(Char)
           B == Seq(Nat)
<1> HIDE DEF A, B
<1>2. x \in [uri: A, next: B, prev: Nat, leaf: Nat]
  BY <1>1 DEF A, B
<1>3. x.uri \in A /\ x.next \in B /\ x.prev \in Nat /\ x.leaf \in Nat
  BY <1>2
<1>4. x = [uri |-> x.uri, next |-> x.next, prev |-> x.prev, leaf |-> x.leaf]
  BY <1>2
<1>5. \A p : [x EXCEPT !.prev = p]
                = [uri |-> x.uri, next |-> x.next, prev |-> p, leaf |-> x.leaf]
  BY <1>2
<1>6. ASSUME NEW u, NEW p
      PROVE  [x EXCEPT !.uri = u, !.prev = p]
                = [uri |-> u, next |-> x.next, prev |-> p, leaf |-> x.leaf]
  <2>1. [x EXCEPT !.uri = u] = [uri |-> u, next |-> x.next, prev |-> x.prev, leaf |-> x.leaf]
    BY <1>2
  <2> DEFINE y == [uri |-> u, next |-> x.next, prev |-> x.prev, leaf |-> x.leaf]
  <2>2. [y EXCEPT !.prev = p] = [uri |-> u, next |-> x.next, prev |-> p, leaf |-> x.leaf]
    OBVIOUS
  <2> HIDE DEF y
  <2>3. [x EXCEPT !.uri = u, !.prev = p] = [[x EXCEPT !.uri = u] EXCEPT !.prev = p]
    BY <1>2
  <2> QED BY <2>1, <2>2, <2>3 DEF y
<1>7. ASSUME NEW u, NEW l, NEW c
      PROVE  [x EXCEPT !.uri = u, !.leaf = l, !.next = c]
                = [uri |-> u, next |-> c, prev |-> x.prev, leaf |-> l]
  <2>1. [x EXCEPT !.uri = u] = [uri |-> u, next |-> x.next, prev |-> x.prev, leaf |-> x.leaf]
    BY <1>2
  <2> DEFINE y == [uri |-> u, next |-> x.next, prev |-> x.prev, leaf |-> x.leaf]
             z == [uri |-> u, next |-> x.next, prev |-> x.prev, leaf |-> l]
  <2>2. [y EXCEPT !.leaf = l] = z
    OBVIOUS
  <2>3. [z EXCEPT !.next = c] = [uri |-> u, next |-> c, prev |-> x.prev, leaf |-> l]
    OBVIOUS
  <2> HIDE DEF y, z
  <2>4. [x EXCEPT !.uri = u, !.leaf = l, !.next = c]
           = [[[x EXCEPT !.uri = u] EXCEPT !.leaf = l] EXCEPT !.next = c]
    BY <1>2
  <2> QED BY <2>1, <2>2, <2>3, <2>4 DEF y
<1> QED BY <1>3, <1>4, <1>5, <1>6, <1>7 DEF A, B

LEMMA TwoMore ==
    ASSUME NEW S, NEW a \in Seq(S), NEW x \in S, NEW y \in S
    PROVE  /\ a \o <<x, y>> \in Seq(S) /\ Len(a \o <<x, y>>) = Len(a) + 2
           /\ \A i \in 1..Len(a) : (a \o <<x, y>>)[i] = a[i]
           /\ (a \o <<x, y>>)[Len(a) + 1] = x /\ (a \o <<x, y>>)[Len(a) + 2] = y
<1> DEFINE b == <<x, y>>
<1>1. b \in Seq(S) /\ Len(b) = 2 /\ b[1] = x /\ b[2] = y /\ Len(a) \in Nat
  OBVIOUS
<1> HIDE DEF b
<1>2. /\ a \o b \in Seq(S) /\ Len(a \o b) = Len(a) + Len(b)
      /\ \A i \in 1..(Len(a) + Len(b)) : (a \o b)[i] = IF i <= Len(a) THEN a[i] ELSE b[i - Len(a)]
  BY <1>1, ConcatProperties
<1> DEFINE c == a \o b
           m == Len(a)
<1> HIDE DEF c, m
<1>3. /\ c \in Seq(S) /\ Len(c) = m + 2 /\ m \in Nat
      /\ \A i \in 1..(m + 2) : c[i] = IF i <= m THEN a[i] ELSE b[i - m]
  BY <1>1, <1>2 DEF c, m
<1>4. \A i \in 1..m : c[i] = a[i]
  BY <1>3
<1>5. c[m + 1] = b[1] /\ c[m + 2] = b[2]
  <2>1. /\ m + 1 \in 1..(m + 2) /\ ~(m + 1 <= m) /\ (m + 1) - m = 1
        /\ m + 2 \in 1..(m + 2) /\ ~(m + 2 <= m) /\ (m + 2) - m = 2
    BY <1>3
  <2> QED BY <2>1, <1>3
<1> QED BY <1>1, <1>3, <1>4, <1>5 DEF b, c, m

LEMMA SplitDivides ==
    ASSUME NEW t, Linked(t.nodes, t.uri_id), NEW n \in DOMAIN t.nodes,
           NEW k \in 0..Len(t.nodes[n].uri), NEW rest \in Seq(Char), NEW leaf \in Nat
    PROVE  Divided(t.nodes, Split(t, n, k, rest, leaf), n, k, rest, leaf)
<1> DEFINE nodes == t.nodes
           m == Len(nodes)
           moved == [nodes[n] EXCEPT !.uri = From(@, k), !.prev = n]
           kept == [nodes[n] EXCEPT !.uri = SubSeq(@, 1, k), !.leaf = NoLeaf,
                                    !.next = <<m + 1, m + 2>>]
           old(i) == IF i = n THEN kept
                     ELSE IF i \in Range(moved.next) THEN [nodes[i] EXCEPT !.prev = m + 1]
                     ELSE nodes[i]
           first == [i \in 1..m |-> old(i)]
           nodes2 == Split(t, n, k, rest, leaf)
<1>1. /\ m \in Nat /\ DOMAIN nodes = 1..m /\ \A i \in 1..m : nodes[i] \in Node
      /\ \A i \in 1..m : i \in Range(nodes[n].next) <=> nodes[i].prev = n
      /\ n \in 1..m /\ n # NoNode
  <2>1. m \in Nat /\ DOMAIN nodes = 1..m /\ \A i \in 1..m : nodes[i] \in Node
    BY DEF Linked
  <2>2. n \in 0..m /\ n \in 1..m /\ n # NoNode
    BY <2>1 DEF NoNode
  <2>3. \A i \in 1..m : i \in Range(Kids(nodes, t.uri_id, n)) <=> nodes[i].prev = n
    BY <2>1, <2>2 DEF Linked
  <2> QED BY <2>1, <2>2, <2>3 DEF Kids
<1> HIDE DEF nodes
<1>2. nodes2 = first \o <<moved, Leaf(rest, n, leaf)>>
  BY DEF Split, nodes
<1> HIDE DEF nodes2, m
<1>3. \A i \in 1..m : /\ nodes[i].uri \in Seq(Char) /\ nodes[i].next \in Seq(Nat)
                      /\ nodes[i].prev \in Nat /\ nodes[i].leaf \in Nat
                      /\ nodes[i] = [uri |-> nodes[i].uri, next |-> nodes[i].next,
                                     prev |-> nodes[i].prev, leaf |-> nodes[i].leaf]
  BY <1>1, NodeIs
<1>4. moved = [uri |-> From(nodes[n].uri, k), next |-> nodes[n].next,
               prev |-> n, leaf |-> nodes[n].leaf] /\ moved.next = nodes[n].next
  <2>1. moved = [uri |-> From(nodes[n].uri, k), next |-> nodes[n].next,
                 prev |-> n, leaf |-> nodes[n].leaf]
    BY <1>1, NodeIs
  <2> HIDE DEF moved
  <2> QED BY <2>1
<1>5. kept = [uri |-> SubSeq(nodes[n].uri, 1, k), next |-> <<m + 1, m + 2>>,
              prev |-> nodes[n].prev, leaf |-> NoLeaf]
  <2> DEFINE x == nodes[n]
             c == <<m + 1, m + 2>>
             u == SubSeq(x.uri, 1, k)
  <2>1. kept = [x EXCEPT !.uri = u, !.leaf = NoLeaf, !.next = c]
    OBVIOUS
  <2> HIDE DEF kept, u, c
  <2>2. x \in Node
    BY <1>1
  <2> HIDE DEF x
  <2>3. kept = [uri |-> u, next |-> c, prev |-> x.prev, leaf |-> NoLeaf]
    BY <2>1, <2>2, NodeIs
  <2> QED BY <2>3 DEF x, u, c
<1>6. \A i \in 1..m : [nodes[i] EXCEPT !.prev = m + 1] = [uri |-> nodes[i].uri, next |-> nodes[i].next,
                            prev |-> m + 1, leaf |-> nodes[i].leaf]
  BY <1>1, NodeIs
<1> HIDE DEF moved, kept
<1>7. old(n) = kept
  OBVIOUS
<1>8. ASSUME NEW i \in (1..m) \ {n}
      PROVE  old(i) = [uri |-> nodes[i].uri, next |-> nodes[i].next,
                       prev |-> IF nodes[i].prev = n THEN m + 1 ELSE nodes[i].prev,
                       leaf |-> nodes[i].leaf]
  <2>1. CASE nodes[i].prev = n
    <3>1. old(i) = [nodes[i] EXCEPT !.prev = m + 1]
      BY <2>1, <1>1, <1>4
    <3> QED BY <3>1, <2>1, <1>6
  <2>2. CASE nodes[i].prev # n
    <3>1. old(i) = nodes[i]
      BY <2>2, <1>1, <1>4
    <3> QED BY <3>1, <2>2, <1>3
  <2> QED BY <2>1, <2>2
<1> HIDE DEF old
<1>9. n \in Nat /\ m + 1 \in Nat /\ m + 2 \in Nat /\ NoLeaf \in Nat
  BY <1>1 DEF NoLeaf
<1>10. /\ From(nodes[n].uri, k) \in Seq(Char) /\ SubSeq(nodes[n].uri, 1, k) \in Seq(Char)
       /\ <<m + 1, m + 2>> \in Seq(Nat)
  <2>1. nodes[n].uri \in Seq(Char) /\ k \in 0..Len(nodes[n].uri)
    BY <1>1, <1>3 DEF nodes
  <2> QED BY <2>1, <1>9, FromIs
<1>11. moved \in Node /\ kept \in Node /\ Leaf(rest, n, leaf) \in Node
  <2>1. moved \in Node
    BY <1>1, <1>3, <1>4, <1>9, <1>10 DEF Node
  <2>2. kept \in Node
    BY <1>1, <1>3, <1>5, <1>9, <1>10 DEF Node
  <2>3. Leaf(rest, n, leaf) \in Node
    BY <1>9 DEF Node, Leaf
  <2> QED BY <2>1, <2>2, <2>3
<1>12. \A i \in 1..m : old(i) \in Node
  <2> SUFFICES ASSUME NEW i \in 1..m PROVE old(i) \in Node
    OBVIOUS
  <2>1. CASE i = n
    BY <2>1, <1>7, <1>11
  <2>2. CASE i # n
    <3> DEFINE q == IF nodes[i].prev = n THEN m + 1 ELSE nodes[i].prev
               a == nodes[i].uri
               b == nodes[i].next
               c == nodes[i].leaf
    <3>1. q \in Nat
      BY <1>3, <1>9
    <3>2. old(i) = [uri |-> a, next |-> b, prev |-> q, leaf |-> c]
      BY <1>8, <2>2
    <3>3. a \in Seq(Char) /\ b \in Seq(Nat) /\ c \in Nat
      BY <1>3
    <3> HIDE DEF a, b, c, q
    <3> QED BY <3>1, <3>2, <3>3 DEF Node
  <2> QED BY <2>1, <2>2
<1>13. first \in Seq(Node) /\ Len(first) = m /\ \A i \in 1..m : first[i] = old(i)
  BY <1>1, <1>12
<1> HIDE DEF first
<1>16. /\ nodes2 \in Seq(Node) /\ Len(nodes2) = m + 2
       /\ \A i \in 1..m : nodes2[i] = old(i)
       /\ nodes2[m + 1] = moved /\ nodes2[m + 2] = Leaf(rest, n, leaf)
  <2> DEFINE new == Leaf(rest, n, leaf)
  <2> HIDE DEF new
  <2>1. moved \in Node /\ new \in Node /\ nodes2 = first \o <<moved, new>>
    BY <1>2, <1>11 DEF new
  <2>2. /\ nodes2 \in Seq(Node) /\ Len(nodes2) = Len(first) + 2
        /\ \A i \in 1..Len(first) : nodes2[i] = first[i]
        /\ nodes2[Len(first) + 1] = moved /\ nodes2[Len(first) + 2] = new
    BY <2>1, <1>13, TwoMore
  <2> QED BY <2>2, <1>13 DEF new
<1>17. nodes2[n] = [uri |-> SubSeq(nodes[n].uri, 1, k), next |-> <<m + 1, m + 2>>,
                    prev |-> nodes[n].prev, leaf |-> NoLeaf]
  BY <1>1, <1>5, <1>7, <1>16
<1>18. \A i \in (1..m) \ {n} :
          nodes2[i] = [uri |-> nodes[i].uri, next |-> nodes[i].next,
                       prev |-> IF nodes[i].prev = n THEN m + 1 ELSE nodes[i].prev,
                       leaf |-> nodes[i].leaf]
  BY <1>8, <1>16
<1> QED BY <1>4, <1>16, <1>17, <1>18 DEF Divided, nodes2, m, nodes
\* Lists of children and parents still agree after a split.
LEMMA DividedLinked ==
    ASSUME NEW nodes, NEW roots, Linked(nodes, roots), NEW nodes2, NEW n \in DOMAIN nodes,
           NEW k, NEW rest, NEW leaf, nodes[n].prev # n,
           Divided(nodes, nodes2, n, k, rest, leaf)
    PROVE  Linked(nodes2, roots)
<1> DEFINE m == Len(nodes)
           kids(q) == Kids(nodes, roots, q)
           kids2(q) == Kids(nodes2, roots, q)
<1>0. \A q \in 0..m : Once(kids(q))
  BY DEF Linked
<1>1. /\ m \in Nat /\ DOMAIN nodes = 1..m /\ roots \in Seq(1..m)
      /\ \A i \in 1..m : nodes[i].next \in Seq(1..m) /\ nodes[i].prev \in 0..m
      /\ \A q \in 0..m, c \in 1..m : c \in Range(kids(q)) <=> nodes[c].prev = q
      /\ n \in 1..m
  BY DEF Linked
<1>2. /\ nodes2 \in Seq(Node) /\ Len(nodes2) = m + 2 /\ DOMAIN nodes2 = 1..(m + 2)
      /\ nodes2[n].next = <<m + 1, m + 2>> /\ nodes2[n].prev = nodes[n].prev
      /\ nodes2[m + 1].next = nodes[n].next /\ nodes2[m + 1].prev = n
      /\ nodes2[m + 2].next = <<>> /\ nodes2[m + 2].prev = n
  BY DEF Divided, Leaf
<1>3. \A i \in (1..m) \ {n} :
         /\ nodes2[i].next = nodes[i].next
         /\ nodes2[i].prev = IF nodes[i].prev = n THEN m + 1 ELSE nodes[i].prev
  <2> SUFFICES ASSUME NEW i \in (1..m) \ {n}
               PROVE  /\ nodes2[i].next = nodes[i].next
                      /\ nodes2[i].prev = IF nodes[i].prev = n THEN m + 1 ELSE nodes[i].prev
    OBVIOUS
  <2> DEFINE p == IF nodes[i].prev = n THEN m + 1 ELSE nodes[i].prev
  <2>1. nodes2[i] = [uri |-> nodes[i].uri, next |-> nodes[i].next, prev |-> p, leaf |-> nodes[i].leaf]
    BY DEF Divided
  <2> HIDE DEF p
  <2>2. nodes2[i].next = nodes[i].next /\ nodes2[i].prev = p
    BY <2>1
  <2> QED BY <2>2 DEF p
<1>4. /\ kids(0) = roots /\ kids2(0) = roots
      /\ \A i \in 1..m : kids(i) = nodes[i].next
      /\ \A i \in 1..(m + 2) : kids2(i) = nodes2[i].next
  <2>1. \A i \in 1..(m + 2) : i # NoNode
    BY DEF NoNode
  <2>2. \A i \in 1..m : i # NoNode
    BY DEF NoNode
  <2> QED BY <2>1, <2>2 DEF Kids, NoNode
<1>a. \A q \in 0..m : kids(q) \in Seq(1..m)
  BY <1>1 DEF Kids, NoNode
<1> HIDE DEF kids, kids2, m
<1>5. /\ \A i \in 1..m : i \in 0..m /\ i \in 1..(m + 2) /\ i # m + 1 /\ i # m + 2 /\ i # 0
      /\ \A i \in 1..(m + 2) : i \in 1..m \/ i = m + 1 \/ i = m + 2
      /\ \A q \in 0..(m + 2) : q = 0 \/ q \in 1..m \/ q = m + 1 \/ q = m + 2
      /\ \A q \in 0..m : q # m + 1 /\ q # m + 2 /\ q \in 0..(m + 2)
      /\ m + 1 # m + 2 /\ m + 1 \in 1..(m + 2) /\ m + 2 \in 1..(m + 2) /\ 0 \in 0..m
      /\ m + 1 \in 0..(m + 2) /\ n \in 0..(m + 2) /\ n \in 0..m
  BY <1>1
<1>6. \A c : c \in Range(<<m + 1, m + 2>>) <=> c = m + 1 \/ c = m + 2
  BY DEF Range
<1>7. <<m + 1, m + 2>> \in Seq(1..(m + 2)) /\ Range(<<>>) = {}
  BY <1>5 DEF Range
<1>8. ASSUME NEW s \in Seq(1..m)
      PROVE  s \in Seq(1..(m + 2)) /\ m + 1 \notin Range(s) /\ m + 2 \notin Range(s)
  <2>1. s \in Seq(1..(m + 2))
    <3>1. 1..m \subseteq 1..(m + 2)
      BY <1>5
    <3> QED BY <3>1, SeqInSet
  <2>2. \A y \in Range(s) : y \in 1..m
    BY RangeInSet
  <2> QED BY <2>1, <2>2, <1>5
<1>9. roots \in Seq(1..(m + 2)) /\ \A i \in 1..(m + 2) : nodes2[i].next \in Seq(1..(m + 2))
  <2> SUFFICES ASSUME NEW i \in 1..(m + 2) PROVE nodes2[i].next \in Seq(1..(m + 2))
    BY <1>1, <1>8
  <2>1. CASE i = n
    BY <2>1, <1>2, <1>7
  <2>2. CASE i \in (1..m) \ {n}
    BY <2>2, <1>1, <1>3, <1>8
  <2>3. CASE i = m + 1
    BY <2>3, <1>1, <1>2, <1>8
  <2>4. CASE i = m + 2
    BY <2>4, <1>2
  <2> QED BY <2>1, <2>2, <2>3, <2>4, <1>5
<1>10. \A i \in 1..(m + 2) : nodes2[i].prev \in 0..(m + 2)
  <2> SUFFICES ASSUME NEW i \in 1..(m + 2) PROVE nodes2[i].prev \in 0..(m + 2)
    OBVIOUS
  <2>1. CASE i = n
    BY <2>1, <1>1, <1>2, <1>5
  <2>2. CASE i \in (1..m) \ {n}
    BY <2>2, <1>1, <1>3, <1>5
  <2>3. CASE i = m + 1 \/ i = m + 2
    BY <2>3, <1>1, <1>2, <1>5
  <2> QED BY <2>1, <2>2, <2>3, <1>5
<1>11. ASSUME NEW q \in 0..(m + 2), NEW c \in 1..(m + 2)
       PROVE  c \in Range(kids2(q)) <=> nodes2[c].prev = q
  <2>a. \A i \in 1..m : nodes2[i].prev = IF nodes[i].prev = n THEN m + 1 ELSE nodes[i].prev
    BY <1>2, <1>3
  <2>b. nodes2[m + 1].prev = n /\ nodes2[m + 2].prev = n
    BY <1>2
  <2>c. \A i \in 1..m : nodes[i].prev \in 0..m
    BY <1>1
  <2>1. CASE q = n
    <3>1. kids2(q) = <<m + 1, m + 2>>
      BY <2>1, <1>1, <1>2, <1>4, <1>5
    <3>2. c \in Range(kids2(q)) <=> c = m + 1 \/ c = m + 2
      BY <3>1, <1>6
    <3>3. CASE c \in 1..m
      <4>1. nodes2[c].prev # n
        BY <3>3, <2>a, <1>1, <1>5
      <4> QED BY <4>1, <3>2, <3>3, <2>1, <1>5
    <3>4. CASE c = m + 1 \/ c = m + 2
      BY <3>2, <3>4, <2>1, <2>b
    <3> QED BY <3>3, <3>4, <1>5
  <2>2. CASE q = m + 1
    <3>1. kids2(q) = kids(n)
      BY <2>2, <1>1, <1>2, <1>4, <1>5
    <3>2. kids(n) \in Seq(1..m)
      BY <1>a, <1>5
    <3>3. CASE c \in 1..m
      <4>1. c \in Range(kids(n)) <=> nodes[c].prev = n
        BY <3>3, <1>1, <1>5
      <4>2. nodes2[c].prev = m + 1 <=> nodes[c].prev = n
        BY <3>3, <2>a, <2>c, <1>5
      <4> QED BY <3>1, <4>1, <4>2, <2>2
    <3>4. CASE c = m + 1 \/ c = m + 2
      <4>1. c \notin Range(kids2(q))
        BY <3>1, <3>2, <3>4, <1>8
      <4>2. nodes2[c].prev # m + 1
        BY <3>4, <2>b, <1>1, <1>5
      <4> QED BY <4>1, <4>2, <2>2
    <3> QED BY <3>3, <3>4, <1>5
  <2>3. CASE q = m + 2
    <3>1. c \notin Range(kids2(q))
      BY <2>3, <1>2, <1>4, <1>5, <1>7
    <3>2. nodes2[c].prev # m + 2
      <4>1. CASE c \in 1..m
        BY <4>1, <2>a, <2>c, <1>5
      <4>2. CASE c = m + 1 \/ c = m + 2
        BY <4>2, <2>b, <1>1, <1>5
      <4> QED BY <4>1, <4>2, <1>5
    <3> QED BY <3>1, <3>2, <2>3
  <2>4. CASE q \in 0..m /\ q # n
    <3>1. kids2(q) = kids(q)
      <4>1. CASE q = 0
        BY <4>1, <1>4
      <4>2. CASE q \in 1..m
        BY <4>2, <2>4, <1>3, <1>4, <1>5
      <4> QED BY <4>1, <4>2, <2>4, <1>5
    <3>2. kids(q) \in Seq(1..m)
      BY <2>4, <1>a
    <3>3. CASE c \in 1..m
      <4>1. c \in Range(kids(q)) <=> nodes[c].prev = q
        BY <2>4, <3>3, <1>1
      <4>2. nodes2[c].prev = q <=> nodes[c].prev = q
        BY <3>3, <2>4, <2>a, <1>5
      <4> QED BY <3>1, <4>1, <4>2
    <3>4. CASE c = m + 1 \/ c = m + 2
      <4>1. c \notin Range(kids2(q))
        BY <3>1, <3>2, <3>4, <1>8
      <4>2. nodes2[c].prev # q
        BY <3>4, <2>4, <2>b
      <4> QED BY <4>1, <4>2
    <3> QED BY <3>3, <3>4, <1>5
  <2> QED BY <2>1, <2>2, <2>3, <2>4, <1>5
<1>12. ASSUME NEW q \in 0..(m + 2) PROVE Once(kids2(q))
  <2>1. CASE q = 0
    <3>1. Once(kids(0))
      BY <1>0, <1>5
    <3> QED BY <3>1, <2>1, <1>4
  <2>2. CASE q = n
    <3>1. kids2(q) = <<m + 1, m + 2>>
      BY <2>2, <1>1, <1>2, <1>4, <1>5
    <3>2. Once(<<m + 1, m + 2>>)
      BY <1>1 DEF Once
    <3> QED BY <3>1, <3>2
  <2>3. CASE q \in (1..m) \ {n}
    <3>1. kids2(q) = kids(q) /\ q \in 0..m
      BY <2>3, <1>3, <1>4, <1>5
    <3> QED BY <3>1, <1>0
  <2>4. CASE q = m + 1
    <3>1. kids2(q) = kids(n) /\ n \in 0..m
      BY <2>4, <1>1, <1>2, <1>4, <1>5
    <3> QED BY <3>1, <1>0
  <2>5. CASE q = m + 2
    <3>1. kids2(q) = <<>> /\ Len(<<>>) = 0
      BY <2>5, <1>2, <1>4, <1>5
    <3> QED BY <3>1 DEF Once
  <2> QED BY <2>1, <2>2, <2>3, <2>4, <2>5, <1>5
<1> QED BY <1>2, <1>9, <1>10, <1>11, <1>12 DEF Linked, kids2
\* How many characters n keeps of its word.
CutAt(nodes, W, n, k) == Len(W[nodes[n].prev]) + k

\* uri leaves node n after k characters of its label, which go on otherwise.
SplitsBy(nodes, roots, W, nodes2, n, k, uri, leaf) ==
    LET d == CutAt(nodes, W, n, k) IN
    /\ Linked(nodes, roots) /\ Worded(nodes, W) /\ n \in DOMAIN nodes /\ uri \in Seq(Char)
    /\ k \in Nat /\ k # 0 /\ d < Len(uri) /\ d < Len(W[n])
    /\ \A i \in 1..d : W[n][i] = uri[i]
    /\ W[n][d + 1] # uri[d + 1]
    /\ Divided(nodes, nodes2, n, k, From(uri, d), leaf)

\* n stands for the common part, the first new node for what n stood for.
Cut(W, m, n, d, uri) ==
    [q \in 0..(m + 2) |-> IF q = n THEN SubSeq(uri, 1, d) ELSE IF q = m + 1 THEN W[n]
                          ELSE IF q = m + 2 THEN uri ELSE W[q]]

\* What CutIs shows of the words V after the split.
CutWords(W, m, n, d, uri, V) ==
    /\ d \in Nat /\ d < Len(uri) /\ d < Len(W[n])
    /\ V \in [0..(m + 2) -> Seq(Char)]
    /\ Len(V[n]) = d /\ \A i \in 1..d : V[n][i] = uri[i] /\ W[n][i] = uri[i]
    /\ V[m + 1] = W[n] /\ V[m + 2] = uri
    /\ \A q \in 0..m : q # n => V[q] = W[q]

LEMMA Around ==
    ASSUME NEW m \in Nat, NEW n \in 1..m
    PROVE  /\ \A i \in 1..(m + 2) : i \in (1..m) \ {n} \/ i = n \/ i = m + 1 \/ i = m + 2
           /\ \A q \in 0..(m + 2) : q \in 0..m \/ q = m + 1 \/ q = m + 2
           /\ \A q \in 0..m : q \in 0..(m + 2) /\ q # m + 1 /\ q # m + 2
           /\ \A i \in 1..m : i \in 0..m /\ i # m + 1 /\ i # m + 2 /\ i \in 1..(m + 2)
           /\ m + 1 \in 0..(m + 2) /\ m + 2 \in 0..(m + 2) /\ m + 1 # m + 2
           /\ m + 1 \in 1..(m + 2) /\ m + 2 \in 1..(m + 2)
           /\ m + 1 \notin 1..m /\ m + 2 \notin 1..m
           /\ n # m + 1 /\ n # m + 2 /\ n \in 0..(m + 2) /\ n \in 0..m /\ n # 0 /\ 0 \in 0..m
           /\ n \in 1..(m + 2)
OBVIOUS

LEMMA CutIs ==
    ASSUME NEW nodes, NEW roots, NEW W, NEW nodes2, NEW n, NEW k, NEW uri, NEW leaf,
           SplitsBy(nodes, roots, W, nodes2, n, k, uri, leaf),
           NEW m, m = Len(nodes), NEW d, d = CutAt(nodes, W, n, k),
           NEW V, V = Cut(W, m, n, d, uri)
    PROVE  /\ m \in Nat /\ DOMAIN nodes = 1..m /\ n \in 1..m
           /\ \A q \in 0..m : W[q] \in Seq(Char) /\ Len(W[q]) \in Nat
           /\ \A c \in 1..m : nodes[c].prev \in 0..m /\ nodes[c].prev # c
           /\ CutWords(W, m, n, d, uri, V)
<1> DEFINE p == nodes[n].prev
<1>0. /\ Linked(nodes, roots) /\ Worded(nodes, W) /\ n \in DOMAIN nodes /\ uri \in Seq(Char)
      /\ k \in Nat /\ k # 0 /\ d < Len(uri) /\ d < Len(W[n])
      /\ \A i \in 1..d : W[n][i] = uri[i]
  BY DEF SplitsBy
<1>1. /\ m \in Nat /\ DOMAIN nodes = 1..m /\ n \in 1..m
      /\ \A q \in 0..m : W[q] \in Seq(Char) /\ Len(W[q]) \in Nat
      /\ \A c \in 1..m : /\ c \in 0..m /\ nodes[c].prev \in 0..m
                         /\ Len(W[nodes[c].prev]) < Len(W[c])
  BY <1>0, WordFacts
<1>2. \A c \in 1..m : nodes[c].prev # c
  <2> SUFFICES ASSUME NEW c \in 1..m, nodes[c].prev = c PROVE FALSE
    OBVIOUS
  <2>1. Len(W[c]) < Len(W[c]) /\ Len(W[c]) \in Nat
    BY <1>1
  <2> QED BY <2>1
<1>3. d \in Nat /\ Len(W[p]) < d
  <2>1. Len(W[p]) \in Nat
    BY <1>1
  <2> HIDE DEF p
  <2>2. d = Len(W[p]) + k
    BY DEF p, CutAt
  <2> DEFINE a == Len(W[p])
  <2>3. a \in Nat /\ d = a + k
    BY <2>1, <2>2
  <2> HIDE DEF a
  <2>4. d \in Nat /\ a < d
    BY <2>3, <1>0
  <2> QED BY <2>4 DEF a
<1> DEFINE S == SubSeq(uri, 1, d)
<1>4. S \in Seq(Char) /\ Len(S) = d /\ \A i \in 1..d : S[i] = uri[i]
  <2>1. d \in 0..Len(uri)
    BY <1>0, <1>3
  <2> QED BY <2>1, <1>0
<1>5. V = [q \in 0..(m + 2) |-> IF q = n THEN S ELSE IF q = m + 1 THEN W[n]
                                ELSE IF q = m + 2 THEN uri ELSE W[q]]
  BY DEF Cut
<1> HIDE DEF S
<1>6. /\ \A q \in 0..(m + 2) : q \in 0..m \/ q = m + 1 \/ q = m + 2
      /\ \A q \in 0..m : q \in 0..(m + 2) /\ q # m + 1 /\ q # m + 2
      /\ m + 1 \in 0..(m + 2) /\ m + 2 \in 0..(m + 2) /\ m + 1 # m + 2
      /\ n # m + 1 /\ n # m + 2 /\ n \in 0..(m + 2) /\ n \in 0..m
  BY <1>1, Around
<1>7. V \in [0..(m + 2) -> Seq(Char)]
  BY <1>0, <1>1, <1>4, <1>5, <1>6
<1>8. V[n] = S /\ V[m + 1] = W[n] /\ V[m + 2] = uri /\ \A q \in 0..m : q # n => V[q] = W[q]
  BY <1>5, <1>6
<1>9. CutWords(W, m, n, d, uri, V)
  BY <1>0, <1>3, <1>4, <1>7, <1>8 DEF CutWords
<1> QED BY <1>1, <1>2, <1>9

LEMMA DividedWorded ==
    ASSUME NEW nodes, NEW roots, NEW W, NEW nodes2, NEW n, NEW k, NEW uri, NEW leaf,
           SplitsBy(nodes, roots, W, nodes2, n, k, uri, leaf),
           NEW m, m = Len(nodes), NEW d, d = CutAt(nodes, W, n, k),
           NEW V, V = Cut(W, m, n, d, uri)
    PROVE  Worded(nodes2, V)
<1>0. /\ Linked(nodes, roots) /\ Worded(nodes, W) /\ uri \in Seq(Char)
      /\ k \in Nat /\ k # 0 /\ W[n][d + 1] # uri[d + 1]
      /\ Divided(nodes, nodes2, n, k, From(uri, d), leaf)
  BY DEF SplitsBy
<1>1. /\ m \in Nat /\ DOMAIN nodes = 1..m /\ n \in 1..m
      /\ \A q \in 0..m : W[q] \in Seq(Char) /\ Len(W[q]) \in Nat
      /\ \A c \in 1..m : nodes[c].prev \in 0..m /\ nodes[c].prev # c
  BY CutIs
<1>2. /\ d \in Nat /\ d < Len(uri) /\ d < Len(W[n])
      /\ V \in [0..(m + 2) -> Seq(Char)]
      /\ Len(V[n]) = d /\ \A i \in 1..d : V[n][i] = uri[i] /\ W[n][i] = uri[i]
      /\ V[m + 1] = W[n] /\ V[m + 2] = uri
      /\ \A q \in 0..m : q # n => V[q] = W[q]
  <2>1. CutWords(W, m, n, d, uri, V)
    BY CutIs, Zenon
  <2> QED BY <2>1 DEF CutWords
<1> DEFINE p == nodes[n].prev
           a == Len(W[p])
<1>d. a < d /\ a \in Nat
  <2>1. a \in Nat /\ d = a + k
    BY <1>1 DEF CutAt
  <2> HIDE DEF a
  <2> QED BY <2>1, <1>0
<1> HIDE DEF a, p
<1>3. /\ Len(nodes2) = m + 2 /\ DOMAIN nodes2 = 1..(m + 2)
      /\ nodes2[n].prev = p /\ nodes2[n].uri = SubSeq(nodes[n].uri, 1, k)
      /\ nodes2[m + 1].prev = n /\ nodes2[m + 1].uri = From(nodes[n].uri, k)
      /\ nodes2[m + 2].prev = n /\ nodes2[m + 2].uri = From(uri, d)
  BY <1>0 DEF Divided, Leaf, p
<1>4. \A i \in (1..m) \ {n} :
         /\ nodes2[i].uri = nodes[i].uri
         /\ nodes2[i].prev = IF nodes[i].prev = n THEN m + 1 ELSE nodes[i].prev
  <2> SUFFICES ASSUME NEW i \in (1..m) \ {n}
               PROVE  /\ nodes2[i].uri = nodes[i].uri
                      /\ nodes2[i].prev = IF nodes[i].prev = n THEN m + 1 ELSE nodes[i].prev
    OBVIOUS
  <2> DEFINE q == IF nodes[i].prev = n THEN m + 1 ELSE nodes[i].prev
  <2>1. nodes2[i] = [uri |-> nodes[i].uri, next |-> nodes[i].next, prev |-> q, leaf |-> nodes[i].leaf]
    BY <1>0 DEF Divided
  <2> HIDE DEF q
  <2>2. nodes2[i].uri = nodes[i].uri /\ nodes2[i].prev = q
    BY <2>1
  <2> QED BY <2>2 DEF q
<1>5. /\ \A c \in 1..m : /\ c \in 0..m /\ Len(W[nodes[c].prev]) < Len(W[c])
                         /\ Starts(W[nodes[c].prev], W[c])
                         /\ nodes[c].uri = From(W[c], Len(W[nodes[c].prev]))
      /\ \A c, e \in 1..m : /\ nodes[e].prev = nodes[c].prev
                            /\ W[c][Len(W[nodes[c].prev]) + 1] = W[e][Len(W[nodes[c].prev]) + 1]
                            => c = e
  <2>1. ASSUME NEW c \in 1..m
        PROVE  /\ c \in 0..m /\ Len(W[nodes[c].prev]) < Len(W[c])
               /\ Starts(W[nodes[c].prev], W[c])
               /\ nodes[c].uri = From(W[c], Len(W[nodes[c].prev]))
    <3>1. c \in 0..m
      BY <1>1, Around
    <3> QED BY <3>1, <1>0, <1>1 DEF Worded
  <2>2. ASSUME NEW c \in 1..m, NEW e \in 1..m, nodes[e].prev = nodes[c].prev,
               W[c][Len(W[nodes[c].prev]) + 1] = W[e][Len(W[nodes[c].prev]) + 1]
        PROVE  c = e
    BY <1>0, <1>1, <2>2 DEF Worded
  <2> QED BY <2>1, <2>2
<1>6. /\ \A i \in 1..(m + 2) : i \in (1..m) \ {n} \/ i = n \/ i = m + 1 \/ i = m + 2
      /\ \A q \in 0..m : q # m + 1 /\ q # m + 2
      /\ n # 0 /\ n \in 0..m /\ p \in 0..m /\ p # n /\ m + 1 \notin 1..m /\ m + 2 \notin 1..m
      /\ 0 \in 0..m
  <2>1. p \in 0..m /\ p # n
    BY <1>1 DEF p
  <2> QED BY <2>1, <1>1, Around
<1>7. V[NoNode] = <<>> /\ V[p] = W[p]
  BY <1>0, <1>2, <1>6 DEF Worded, NoNode
<1>8. a \in Nat /\ a < d /\ Len(W[n]) \in Nat /\ Len(uri) \in Nat /\ W[n] \in Seq(Char)
  BY <1>0, <1>1, <1>6, <1>d
<1>9. d = a + k
  BY DEF a, p, CutAt
\* The labels
<1>10. /\ a < d /\ Starts(W[p], V[n]) /\ nodes2[n].uri = From(V[n], a)
  <2>1. Starts(W[p], W[n]) /\ nodes[n].uri = From(W[n], a)
    BY <1>1, <1>5 DEF a, p
  <2>2. V[n] \in Seq(Char)
    <3>1. n \in 0..(m + 2)
      BY <1>1
    <3> QED BY <3>1, <1>2
  <2>3. Starts(W[p], V[n])
    <3>1. Len(W[p]) = a /\ \A i \in 1..a : i \in 1..d
      BY <1>2, <1>8 DEF a
    <3>2. \A i \in 1..a : W[n][i] = W[p][i] /\ a <= d
      BY <2>1, <3>1, <1>2, <1>8 DEF Starts
    <3> QED BY <3>1, <3>2, <1>2, <1>8 DEF Starts
  <2>4. nodes2[n].uri = SubSeq(From(W[n], a), 1, k)
    BY <2>1, <1>3
  <2>5. a \in 0..Len(W[n]) /\ a \in 0..Len(V[n]) /\ k <= Len(W[n]) - a /\ Len(V[n]) - a = k
    <3> DEFINE w == Len(W[n])
               v == Len(V[n])
    <3>1. w \in Nat /\ v = d /\ d < w /\ d \in Nat
      BY <1>2, <1>8
    <3> HIDE DEF v, w
    <3>2. a \in 0..w /\ a \in 0..v /\ k <= w - a /\ v - a = k
      BY <3>1, <1>0, <1>8, <1>9
    <3> QED BY <3>2 DEF v, w
  <2>6. /\ From(W[n], a) \in Seq(Char) /\ Len(From(W[n], a)) = Len(W[n]) - a
        /\ \A i \in 1..(Len(W[n]) - a) : From(W[n], a)[i] = W[n][a + i]
    <3> DEFINE w == W[n]
    <3>1. w \in Seq(Char) /\ a \in 0..Len(w)
      BY <2>5, <1>8
    <3> HIDE DEF w
    <3>2. /\ From(w, a) \in Seq(Char) /\ Len(From(w, a)) = Len(w) - a
          /\ \A i \in 1..(Len(w) - a) : From(w, a)[i] = w[a + i]
      BY <3>1, FromIs
    <3> QED BY <3>2 DEF w
  <2>7. /\ From(V[n], a) \in Seq(Char) /\ Len(From(V[n], a)) = k
        /\ \A i \in 1..k : From(V[n], a)[i] = V[n][a + i]
    <3> DEFINE v == V[n]
    <3>1. v \in Seq(Char) /\ a \in 0..Len(v) /\ Len(v) - a = k
      BY <2>2, <2>5
    <3> HIDE DEF v
    <3>2. /\ From(v, a) \in Seq(Char) /\ Len(From(v, a)) = Len(v) - a
          /\ \A i \in 1..(Len(v) - a) : From(v, a)[i] = v[a + i]
      BY <3>1, FromIs
    <3> QED BY <3>1, <3>2 DEF v
  <2> DEFINE label == From(W[n], a)
  <2> HIDE DEF label
  <2>8. /\ SubSeq(label, 1, k) \in Seq(Char) /\ Len(SubSeq(label, 1, k)) = k
        /\ \A i \in 1..k : SubSeq(label, 1, k)[i] = label[i]
    <3>1. label \in Seq(Char) /\ k \in 0..Len(label)
      BY <2>5, <2>6, <1>0 DEF label
    <3> QED BY <3>1
  <2>9. \A i \in 1..k : SubSeq(label, 1, k)[i] = From(V[n], a)[i]
    <3> SUFFICES ASSUME NEW i \in 1..k PROVE SubSeq(label, 1, k)[i] = From(V[n], a)[i]
      OBVIOUS
    <3>1. i \in 1..(Len(W[n]) - a) /\ a + i \in 1..d
      BY <2>5, <1>0, <1>8, <1>9
    <3>2. label[i] = W[n][a + i] /\ W[n][a + i] = V[n][a + i]
      BY <2>6, <3>1, <1>2 DEF label
    <3> QED BY <3>2, <2>7, <2>8
  <2>10. SubSeq(label, 1, k) = From(V[n], a)
    BY <2>7, <2>8, <2>9, SeqEqual
  <2> QED BY <2>3, <2>4, <2>10, <1>8 DEF label
<1>11. Starts(V[n], W[n]) /\ nodes2[m + 1].uri = From(W[n], d)
  <2>1. Starts(V[n], W[n])
    BY <1>2, <1>8 DEF Starts
  <2>2. nodes[n].uri = From(W[n], a)
    BY <1>1, <1>5 DEF a, p
  <2>3. a \in 0..Len(W[n]) /\ k \in 0..(Len(W[n]) - a)
    <3> DEFINE w == Len(W[n])
    <3>1. w \in Nat /\ d < w /\ d \in Nat
      BY <1>2, <1>8
    <3> HIDE DEF w
    <3>2. a \in 0..w /\ k \in 0..(w - a)
      BY <3>1, <1>0, <1>8, <1>9
    <3> QED BY <3>2 DEF w
  <2>4. From(From(W[n], a), k) = From(W[n], d)
    BY <2>3, <1>8, <1>9, FromFrom
  <2> QED BY <2>1, <2>2, <2>4, <1>3
<1>12. Starts(V[n], uri)
  BY <1>2, <1>8 DEF Starts
<1>13. ASSUME NEW c \in 1..(m + 2)
       PROVE  /\ Len(V[nodes2[c].prev]) < Len(V[c]) /\ Starts(V[nodes2[c].prev], V[c])
              /\ nodes2[c].uri = From(V[c], Len(V[nodes2[c].prev]))
  <2>1. CASE c = n
    BY <2>1, <1>2, <1>3, <1>7, <1>10 DEF a, p
  <2>2. CASE c = m + 1
    BY <2>2, <1>2, <1>3, <1>11
  <2>3. CASE c = m + 2
    BY <2>3, <1>2, <1>3, <1>12
  <2>4. CASE c \in (1..m) \ {n}
    <3>1. V[c] = W[c] /\ V[nodes2[c].prev] = W[nodes[c].prev]
      BY <2>4, <1>1, <1>2, <1>4, <1>5
    <3> QED BY <3>1, <2>4, <1>4, <1>5
  <2> QED BY <2>1, <2>2, <2>3, <2>4, <1>6
\* The siblings
<1>14. ASSUME NEW c \in 1..(m + 2), NEW e \in 1..(m + 2), nodes2[e].prev = nodes2[c].prev,
              V[c][Len(V[nodes2[c].prev]) + 1] = V[e][Len(V[nodes2[c].prev]) + 1]
       PROVE  c = e
  <2>a. \A i \in 1..m : nodes2[i].prev = IF nodes[i].prev = n THEN m + 1 ELSE nodes[i].prev
    BY <1>1, <1>3, <1>4 DEF p
  <2>b. \A i \in 1..m : nodes2[i].prev # n
    BY <2>a, <1>1, <1>6
  <2>c. \A i \in 1..(m + 2) : i \in 1..m \/ i = m + 1 \/ i = m + 2
    BY <1>6, <1>1
  <2>1. CASE c \in {m + 1, m + 2}
    <3>1. e \in {m + 1, m + 2} /\ Len(V[nodes2[c].prev]) = d
      BY <2>1, <2>b, <2>c, <1>2, <1>3, <1>14
    <3>2. V[c][d + 1] = V[e][d + 1]
      BY <3>1, <1>14
    <3>3. V[m + 1][d + 1] # V[m + 2][d + 1]
      BY <1>0, <1>2
    <3> QED BY <2>1, <3>1, <3>2, <3>3
  <2>2. CASE c \in 1..m
    <3>1. e \in 1..m
      BY <2>2, <2>b, <2>c, <1>3, <1>14
    <3>2. nodes[e].prev = nodes[c].prev
      BY <2>2, <3>1, <2>a, <1>1, <1>6, <1>14
    <3> DEFINE q == nodes[c].prev
               b == Len(W[q])
    <3>3. V[nodes2[c].prev] = W[q]
      BY <2>2, <2>a, <1>1, <1>2, <1>6
    <3>4. V[c][b + 1] = V[e][b + 1]
      BY <3>3, <1>14
    <3>5. ASSUME NEW i \in 1..m, nodes[i].prev = q PROVE V[i][b + 1] = W[i][b + 1]
      <4>1. CASE i = n
        <5>1. b = a
          BY <3>5, <4>1 DEF a, p
        <5>2. a + 1 \in 1..d
          BY <1>2, <1>8
        <5> QED BY <4>1, <5>1, <5>2, <1>2
      <4>2. CASE i # n
        BY <4>2, <1>2, <1>5
      <4> QED BY <4>1, <4>2
    <3>6. W[c][b + 1] = W[e][b + 1]
      BY <2>2, <3>1, <3>2, <3>4, <3>5
    <3> QED BY <2>2, <3>1, <3>2, <3>6, <1>5
  <2> QED BY <2>1, <2>2, <2>c
<1> QED BY <1>2, <1>3, <1>7, <1>13, <1>14 DEF Worded
LEMMA DividedLeafed ==
    ASSUME NEW nodes, NEW roots, NEW W, NEW nodes2, NEW n, NEW k, NEW uri \in Uri, NEW L,
           NEW leaf, leaf = Len(L) + 1, SplitsBy(nodes, roots, W, nodes2, n, k, uri, leaf),
           NEW m, m = Len(nodes), NEW d, d = CutAt(nodes, W, n, k),
           NEW V, V = Cut(W, m, n, d, uri),
           Leafed(nodes, W, L), \A l \in DOMAIN L : L[l] # uri
    PROVE  Leafed(nodes2, V, Append(L, uri))
<1> DEFINE M == Append(L, uri)
           e == Len(L) + 1
<1>0. uri \in Seq(Char) /\ Divided(nodes, nodes2, n, k, From(uri, d), leaf)
  BY DEF SplitsBy
<1>1. /\ m \in Nat /\ DOMAIN nodes = 1..m /\ n \in 1..m
      /\ \A q \in 0..m : W[q] \in Seq(Char) /\ Len(W[q]) \in Nat
  BY CutIs
<1>2. /\ d \in Nat /\ d < Len(uri) /\ d < Len(W[n])
      /\ V \in [0..(m + 2) -> Seq(Char)]
      /\ Len(V[n]) = d /\ \A i \in 1..d : V[n][i] = uri[i] /\ W[n][i] = uri[i]
      /\ V[m + 1] = W[n] /\ V[m + 2] = uri
      /\ \A q \in 0..m : q # n => V[q] = W[q]
  <2>1. CutWords(W, m, n, d, uri, V)
    BY CutIs, Zenon
  <2> QED BY <2>1 DEF CutWords
<1>3. /\ DOMAIN nodes2 = 1..(m + 2)
      /\ nodes2[n].leaf = NoLeaf /\ nodes2[m + 1].leaf = nodes[n].leaf
      /\ nodes2[m + 2].leaf = e
      /\ \A i \in (1..m) \ {n} : nodes2[i].leaf = nodes[i].leaf
  <2>1. /\ DOMAIN nodes2 = 1..(m + 2)
        /\ nodes2[n].leaf = NoLeaf /\ nodes2[m + 1].leaf = nodes[n].leaf
        /\ nodes2[m + 2].leaf = e
    BY <1>0 DEF Divided, Leaf
  <2>2. ASSUME NEW i \in (1..m) \ {n} PROVE nodes2[i].leaf = nodes[i].leaf
    <3> DEFINE q == IF nodes[i].prev = n THEN m + 1 ELSE nodes[i].prev
    <3>1. nodes2[i] = [uri |-> nodes[i].uri, next |-> nodes[i].next, prev |-> q, leaf |-> nodes[i].leaf]
      BY <1>0 DEF Divided
    <3> HIDE DEF q
    <3> QED BY <3>1
  <2> QED BY <2>1, <2>2
<1>4. /\ M \in Seq(Uri) /\ DOMAIN M = 1..e /\ M[e] = uri /\ DOMAIN L = 1..Len(L)
      /\ \A l \in 1..Len(L) : M[l] = L[l] /\ Len(L) \in Nat
  BY DEF Leafed
<1> HIDE DEF M
<1>5. /\ e \in Nat /\ e # 0 /\ e \in 1..e /\ e \notin 1..Len(L)
      /\ \A l \in 1..e : l \in 1..Len(L) \/ l = e
      /\ \A l \in 1..Len(L) : l \in 1..e /\ l # 0
  BY DEF Leafed
<1> HIDE DEF e
<1>6. /\ \A i \in 1..(m + 2) : i \in (1..m) \ {n} \/ i = n \/ i = m + 1 \/ i = m + 2
      /\ \A i \in 1..m : i \in 0..m /\ i \in 1..(m + 2)
      /\ m + 1 \in 1..(m + 2) /\ m + 2 \in 1..(m + 2) /\ n \in 1..(m + 2)
  BY <1>1, Around
<1>7. \A i \in (1..m) \ {n} : V[i] = W[i]
  BY <1>2, <1>6
<1>8. Starts(V[n], uri) /\ Starts(uri, uri)
  <2>1. Len(V[n]) <= Len(uri)
    BY <1>0, <1>2
  <2> QED BY <2>1, <1>0, <1>2, StartsItself DEF Starts
<1>9. ASSUME NEW i \in 1..e, NEW j \in 1..e, M[i] = M[j] PROVE i = j
  <2>1. CASE i = e
    BY <2>1, <1>4, <1>5, <1>9
  <2>2. CASE j = e
    BY <2>2, <1>4, <1>5, <1>9
  <2>3. CASE i \in 1..Len(L) /\ j \in 1..Len(L)
    <3>1. L[i] = L[j] /\ i \in DOMAIN L /\ j \in DOMAIN L
      BY <2>3, <1>4, <1>9
    <3> QED BY <3>1 DEF Leafed
  <2> QED BY <2>1, <2>2, <2>3, <1>5
<1>10. ASSUME NEW i \in 1..(m + 2), nodes2[i].leaf # NoLeaf
       PROVE  nodes2[i].leaf \in 1..e /\ M[nodes2[i].leaf] = V[i]
  <2>a. ASSUME NEW j \in 1..m, nodes[j].leaf # NoLeaf
        PROVE  nodes[j].leaf \in 1..e /\ M[nodes[j].leaf] = W[j]
    <3>1. nodes[j].leaf \in 1..Len(L) /\ L[nodes[j].leaf] = W[j]
      BY <2>a, <1>1, <1>4 DEF Leafed
    <3> QED BY <3>1, <1>4, <1>5
  <2>1. CASE i = n
    BY <2>1, <1>3, <1>10
  <2>2. CASE i \in (1..m) \ {n}
    BY <2>2, <2>a, <1>3, <1>7, <1>10
  <2>3. CASE i = m + 1
    BY <2>3, <2>a, <1>1, <1>2, <1>3, <1>10
  <2>4. CASE i = m + 2
    BY <2>4, <1>2, <1>3, <1>4, <1>5
  <2> QED BY <2>1, <2>2, <2>3, <2>4, <1>6
<1>11. ASSUME NEW l \in 1..e PROVE \E i \in 1..(m + 2) : nodes2[i].leaf = l
  <2>1. CASE l = e
    BY <2>1, <1>3, <1>6
  <2>2. CASE l \in 1..Len(L)
    <3>1. PICK i \in 1..m : nodes[i].leaf = l
      BY <2>2, <1>1, <1>4 DEF Leafed
    <3>2. CASE i = n
      BY <3>1, <3>2, <1>3, <1>6
    <3>3. CASE i # n
      BY <3>1, <3>3, <1>3, <1>6
    <3> QED BY <3>2, <3>3
  <2> QED BY <2>1, <2>2, <1>5
<1>12. ASSUME NEW i \in 1..(m + 2) PROVE \E l \in 1..e : Starts(V[i], M[l])
  <2>a. ASSUME NEW j \in 1..m PROVE \E l \in 1..e : Starts(W[j], M[l])
    <3>1. PICK l \in 1..Len(L) : Starts(W[j], L[l])
      BY <1>1, <1>4 DEF Leafed
    <3> QED BY <3>1, <1>4, <1>5
  <2>1. CASE i = n
    BY <2>1, <1>4, <1>5, <1>8
  <2>2. CASE i \in (1..m) \ {n}
    BY <2>2, <2>a, <1>7
  <2>3. CASE i = m + 1
    BY <2>3, <2>a, <1>1, <1>2
  <2>4. CASE i = m + 2
    BY <2>4, <1>2, <1>4, <1>5, <1>8
  <2> QED BY <2>1, <2>2, <2>3, <2>4, <1>6
<1> QED BY <1>3, <1>4, <1>9, <1>10, <1>11, <1>12 DEF Leafed, M

-----------------------------------------------------------------------------
(* Adding a URI to the tree *)

\* The tree and the keys of its leaves, as KeyManager::Add leaves them.
Tree(t, L) ==
    /\ t \in [nodes: Seq(Node), uri_id: Seq(Nat), id: Seq(Nat), added: Seq(Nat)]
    /\ Len(L) = Len(t.id)
    /\ \E W : KeyTree(t.nodes, t.uri_id, W, L)

\* uri has been added: l is its leaf, M the URIs of the leaves.
Has(t, L, uri, t2, M, l) ==
    /\ Tree(t2, M)
    /\ DOMAIN t.nodes \subseteq DOMAIN t2.nodes /\ WordsKept(t.nodes, t2.nodes)
    /\ t2.added = Append(t.added, l) /\ l \in DOMAIN M /\ M[l] = uri
    /\ \/ M = L /\ t2.id = t.id
       \/ M = Append(L, uri) /\ t2.id = Append(t.id, 0)
\* The words after a node has been appended, or one has been split.
LEMMA WiderStarts ==
    ASSUME NEW m \in Nat, NEW W, \A q \in 1..m : W[q] \in Seq(Char), NEW uri
    PROVE  \A q \in 1..m : Starts(Wider(W, m, uri)[q], W[q])
<1> SUFFICES ASSUME NEW q \in 1..m PROVE Starts(Wider(W, m, uri)[q], W[q])
  OBVIOUS
<1>1. q \in 0..(m + 1) /\ q # m + 1
  OBVIOUS
<1>2. Wider(W, m, uri)[q] = W[q]
  BY <1>1 DEF Wider
<1> QED BY <1>2, StartsItself

LEMMA CutStarts ==
    ASSUME NEW nodes, NEW roots, NEW W, NEW nodes2, NEW n, NEW k, NEW uri, NEW leaf,
           SplitsBy(nodes, roots, W, nodes2, n, k, uri, leaf),
           NEW d, d = CutAt(nodes, W, n, k), NEW V, V = Cut(W, Len(nodes), n, d, uri)
    PROVE  \A q \in DOMAIN nodes : Starts(V[q], W[q])
<1> DEFINE m == Len(nodes)
<1>1. /\ m \in Nat /\ DOMAIN nodes = 1..m /\ n \in 1..m
      /\ \A q \in 0..m : W[q] \in Seq(Char) /\ Len(W[q]) \in Nat
      /\ CutWords(W, m, n, d, uri, V)
  BY CutIs
<1> HIDE DEF m
<1>2. SUFFICES ASSUME NEW q \in 1..m PROVE Starts(V[q], W[q])
  BY <1>1
<1>3. q \in 0..m
  OBVIOUS
<1>4. CASE q = n
  BY <1>1, <1>3, <1>4 DEF CutWords, Starts
<1>5. CASE q # n
  BY <1>1, <1>3, <1>5, StartsItself DEF CutWords
<1> QED BY <1>4, <1>5

LEMMA AppendIs ==
    ASSUME NEW S, NEW s \in Seq(S), NEW x \in S
    PROVE  /\ Len(Append(s, x)) = Len(s) + 1 /\ Append(s, x)[Len(s) + 1] = x
           /\ \A j \in 1..Len(s) : Append(s, x)[j] = s[j]
OBVIOUS

LEMMA StartsAppend ==
    ASSUME NEW S, NEW s \in Seq(S), NEW x \in S
    PROVE  Starts(s, Append(s, x)) /\ Append(s, x) \in Seq(S)
BY DEF Starts

LEMMA NewLeaf ==
    ASSUME NEW t, NEW L, Tree(t, L), NEW uri \in Uri, NEW nodes2, NEW roots2, NEW V, NEW W,
           L \in Seq(Uri), KeyTree(nodes2, roots2, V, Append(L, uri)),
           KeyTree(t.nodes, t.uri_id, W, L), \A q \in DOMAIN t.nodes : Starts(V[q], W[q]),
           DOMAIN t.nodes \subseteq DOMAIN nodes2, NEW leaf, leaf = Len(t.id) + 1
    PROVE  Has(t, L, uri, [nodes |-> nodes2, uri_id |-> roots2, id |-> Append(t.id, 0),
                           added |-> Append(t.added, leaf)], Append(L, uri), leaf)
<1> DEFINE M == Append(L, uri)
           t2 == [nodes |-> nodes2, uri_id |-> roots2, id |-> Append(t.id, 0),
                  added |-> Append(t.added, leaf)]
<1>1. /\ t.id \in Seq(Nat) /\ t.added \in Seq(Nat) /\ Len(t.id) \in Nat /\ Len(L) = Len(t.id)
  <2>1. t.id \in Seq(Nat) /\ t.added \in Seq(Nat) /\ Len(L) = Len(t.id)
    BY DEF Tree
  <2> QED BY <2>1
<1>2. nodes2 \in Seq(Node) /\ roots2 \in Seq(Nat)
  <2>1. nodes2 \in Seq(Node) /\ roots2 \in Seq(DOMAIN nodes2)
    BY DEF KeyTree, Linked
  <2>2. DOMAIN nodes2 \subseteq Nat
    BY <2>1
  <2> QED BY <2>1, <2>2, SeqInSet
<1>3. leaf \in Nat /\ Append(t.id, 0) \in Seq(Nat) /\ Append(t.added, leaf) \in Seq(Nat)
      /\ Len(Append(t.id, 0)) = leaf
  BY <1>1
<1>4. Len(M) = leaf /\ leaf \in DOMAIN M /\ M[leaf] = uri
  <2>1. Len(M) = Len(L) + 1 /\ M[Len(L) + 1] = uri /\ M \in Seq(Uri)
    BY AppendIs, StartsAppend
  <2> HIDE DEF M
  <2>2. DOMAIN M = 1..(Len(L) + 1)
    BY <2>1
  <2> QED BY <2>1, <2>2, <1>1
<1> HIDE DEF M
<1>5. /\ t2 \in [nodes: Seq(Node), uri_id: Seq(Nat), id: Seq(Nat), added: Seq(Nat)]
      /\ t2.nodes = nodes2 /\ t2.uri_id = roots2 /\ t2.id = Append(t.id, 0)
      /\ t2.added = Append(t.added, leaf)
  BY <1>2, <1>3
<1> HIDE DEF t2
<1>6. Tree(t2, M)
  BY <1>3, <1>4, <1>5 DEF Tree, M
<1>8. WordsKept(t.nodes, nodes2)
  BY WordsAreKept DEF KeyTree
<1>7. Has(t, L, uri, t2, M, leaf)
  BY <1>4, <1>5, <1>6, <1>8 DEF Has, M
<1> QED BY <1>7 DEF M, t2

\* A child that is appended, and a root.
LEMMA ChildGrows ==
    ASSUME NEW t, Linked(t.nodes, t.uri_id), NEW n \in DOMAIN t.nodes,
           NEW rest \in Seq(Char), NEW leaf \in Nat
    PROVE  Grown(t.nodes, t.uri_id, AppendChild(t, n, rest, leaf), t.uri_id, n, rest, leaf)
<1> DEFINE nodes == t.nodes
           m == Len(nodes)
           c == Append(nodes[n].next, m + 1)
           wider == [nodes EXCEPT ![n] = [nodes[n] EXCEPT !.next = c]]
           new == Leaf(rest, n, leaf)
           nodes2 == AppendChild(t, n, rest, leaf)
<1>1. /\ m \in Nat /\ DOMAIN nodes = 1..m /\ nodes \in Seq(Node) /\ \A i \in 1..m : nodes[i] \in Node
      /\ n \in 1..m /\ nodes[n] \in Node
  BY DEF Linked
<1>2. nodes[n].next \in Seq(Nat) /\ m + 1 \in Nat /\ n \in Nat
  <2> HIDE DEF nodes, m
  <2>1. nodes[n].next \in Seq(Nat)
    BY <1>1, NodeIs
  <2>2. m + 1 \in Nat /\ n \in Nat
    BY <1>1
  <2> QED BY <2>1, <2>2
<1>3. c \in Seq(Nat)
  BY <1>2
<1>4. nodes2 = Append(wider, new)
  BY DEF AppendChild
<1> HIDE DEF c
<1> DEFINE changed == [nodes[n] EXCEPT !.next = c]
<1>5. /\ changed \in Node /\ changed.next = c /\ changed.uri = nodes[n].uri
      /\ changed.prev = nodes[n].prev /\ changed.leaf = nodes[n].leaf
  <2> DEFINE x == nodes[n]
  <2>1. x \in [uri: Seq(Char), next: Seq(Nat), prev: Nat, leaf: Nat]
    BY <1>1 DEF Node
  <2> HIDE DEF x
  <2>2. [x EXCEPT !.next = c] \in [uri: Seq(Char), next: Seq(Nat), prev: Nat, leaf: Nat]
    BY <2>1, <1>3
  <2>3. /\ [x EXCEPT !.next = c].next = c /\ [x EXCEPT !.next = c].uri = x.uri
        /\ [x EXCEPT !.next = c].prev = x.prev /\ [x EXCEPT !.next = c].leaf = x.leaf
    BY <2>1
  <2> QED BY <2>2, <2>3 DEF x, Node
<1> HIDE DEF changed
<1>6. wider = [nodes EXCEPT ![n] = changed]
  BY DEF changed
<1> HIDE DEF wider, nodes2, m, nodes
<1>7. /\ wider \in Seq(Node) /\ Len(wider) = m /\ wider[n] = changed
      /\ \A i \in (1..m) \ {n} : wider[i] = nodes[i]
  BY <1>1, <1>5, <1>6 DEF m
<1>8. new \in Node
  BY <1>2 DEF Leaf, Node
<1> HIDE DEF new
<1>9. /\ nodes2 \in Seq(Node) /\ Len(nodes2) = m + 1 /\ nodes2[m + 1] = new
      /\ \A i \in 1..m : nodes2[i] = wider[i]
  BY <1>1, <1>4, <1>7, <1>8
<1>10. \A i \in 1..m : /\ nodes2[i].uri = nodes[i].uri /\ nodes2[i].prev = nodes[i].prev
                       /\ nodes2[i].leaf = nodes[i].leaf
                       /\ nodes2[i].next = IF i = n THEN c ELSE nodes[i].next
  BY <1>5, <1>7, <1>9
<1>11. \A q \in 0..m : Kids(nodes2, t.uri_id, q) =
                          IF q = n THEN Append(Kids(nodes, t.uri_id, q), m + 1)
                          ELSE Kids(nodes, t.uri_id, q)
  <2> SUFFICES ASSUME NEW q \in 0..m
               PROVE  Kids(nodes2, t.uri_id, q) =
                          IF q = n THEN Append(Kids(nodes, t.uri_id, q), m + 1)
                          ELSE Kids(nodes, t.uri_id, q)
    OBVIOUS
  <2>1. n # 0 /\ (q = 0 \/ q \in 1..m)
    BY <1>1
  <2>2. CASE q = 0
    BY <2>1, <2>2 DEF Kids, NoNode
  <2>3. CASE q # 0
    <3>1. Kids(nodes2, t.uri_id, q) = nodes2[q].next /\ Kids(nodes, t.uri_id, q) = nodes[q].next
      BY <2>3 DEF Kids, NoNode
    <3> QED BY <3>1, <2>1, <2>3, <1>10 DEF c, m
  <2> QED BY <2>2, <2>3
<1> QED BY <1>9, <1>10, <1>11 DEF Grown, m, nodes, nodes2, new

LEMMA RootGrows ==
    ASSUME NEW nodes, NEW roots, Linked(nodes, roots), NEW uri \in Seq(Char), NEW leaf \in Nat
    PROVE  Grown(nodes, roots, Append(nodes, Leaf(uri, NoNode, leaf)),
                 Append(roots, Len(nodes) + 1), 0, uri, leaf)
<1> DEFINE m == Len(nodes)
           new == Leaf(uri, NoNode, leaf)
           nodes2 == Append(nodes, new)
           roots2 == Append(roots, m + 1)
<1>1. m \in Nat /\ nodes \in Seq(Node)
  BY DEF Linked
<1>2. new \in Node
  BY DEF Leaf, Node, NoNode
<1> HIDE DEF new
<1>3. /\ nodes2 \in Seq(Node) /\ Len(nodes2) = m + 1 /\ nodes2[m + 1] = new
      /\ \A i \in 1..m : nodes2[i] = nodes[i]
  BY <1>1, <1>2
<1> HIDE DEF nodes2, m
<1>4. \A q \in 0..m : Kids(nodes2, roots2, q) =
                         IF q = 0 THEN Append(Kids(nodes, roots, q), m + 1)
                         ELSE Kids(nodes, roots, q)
  <2> SUFFICES ASSUME NEW q \in 0..m
               PROVE  Kids(nodes2, roots2, q) =
                          IF q = 0 THEN Append(Kids(nodes, roots, q), m + 1)
                          ELSE Kids(nodes, roots, q)
    OBVIOUS
  <2>1. CASE q = 0
    BY <2>1 DEF Kids, NoNode
  <2>2. CASE q # 0
    <3>1. q \in 1..m
      BY <2>2, <1>1
    <3> QED BY <3>1, <2>2, <1>3 DEF Kids, NoNode
  <2> QED BY <2>1, <2>2
<1> QED BY <1>3, <1>4 DEF Grown, m, nodes2, new, NoNode
LEMMA FromZero ==
    ASSUME NEW S, NEW s \in Seq(S)
    PROVE  From(s, 0) = s
BY DEF From

\* Node::Add keeps the tree, and gives uri a leaf.
LEMMA NodeAddKeeps ==
    ASSUME PrefixFree, NEW t, NEW L, Tree(t, L), NEW W, KeyTree(t.nodes, t.uri_id, W, L),
           NEW uri \in Uri, NEW r, r.node \in DOMAIN t.nodes,
           Ends(t.nodes, W, uri, r.node, r) \/ Leaves(t.nodes, W, uri, r.node, r)
    PROVE  \E M, l : Has(t, L, uri, NodeAdd(t, r.node, r.at, r.rest), M, l)
<1> DEFINE nodes == t.nodes
           n == r.node
           k == r.at
           rest == r.rest
           label == nodes[n].uri
           p == nodes[n].prev
           a == Len(W[p])
           d == a + k
           part1 == From(label, k)
           leaf == Len(t.id) + 1
           t2 == NodeAdd(t, n, k, rest)
           new(nodes2) == [nodes |-> nodes2, uri_id |-> t.uri_id,
                           id |-> Append(t.id, 0), added |-> Append(t.added, leaf)]
<1>1. /\ t2 = IF part1 = rest /\ nodes[n].leaf # NoLeaf
              THEN [t EXCEPT !.added = Append(@, nodes[n].leaf)]
              ELSE new(IF part1 = rest THEN [nodes EXCEPT ![n].leaf = leaf]
                       ELSE IF part1 = <<>> THEN AppendChild(t, n, rest, leaf)
                       ELSE Split(t, n, k, rest, leaf))
  BY DEF NodeAdd
<1> HIDE DEF t2, new
<1>2. /\ Linked(nodes, t.uri_id) /\ Worded(nodes, W) /\ Leafed(nodes, W, L) /\ L \in Seq(Uri)
      /\ uri \in Seq(Char)
  BY UriAssumption DEF KeyTree, Leafed
<1>3. /\ n \in 0..Len(nodes) /\ p \in 0..Len(nodes) /\ W[n] \in Seq(Char) /\ W[p] \in Seq(Char)
      /\ a \in Nat /\ Len(W[n]) \in Nat /\ a < Len(W[n]) /\ Starts(W[p], W[n])
      /\ DOMAIN nodes = 1..Len(nodes) /\ Len(nodes) \in Nat
  BY <1>2, WordFacts
<1>4. label = From(W[n], a)
  BY <1>2 DEF Worded
<1>5. /\ label \in Seq(Char) /\ Len(label) = Len(W[n]) - a
      /\ \A i \in 1..(Len(W[n]) - a) : label[i] = W[n][a + i]
  <2>1. a \in 0..Len(W[n])
    BY <1>3
  <2> QED BY <2>1, <1>3, <1>4, FromIs
<1>6. leaf \in Nat /\ Len(L) = Len(t.id) /\ leaf = Len(L) + 1
      /\ t \in [nodes: Seq(Node), uri_id: Seq(Nat), id: Seq(Nat), added: Seq(Nat)]
  <2>1. /\ t \in [nodes: Seq(Node), uri_id: Seq(Nat), id: Seq(Nat), added: Seq(Nat)]
        /\ Len(L) = Len(t.id)
    BY DEF Tree
  <2> QED BY <2>1, <1>2
<1>7. CASE Ends(nodes, W, uri, n, r)
  <2>1. k = 0 /\ Starts(uri, W[n]) /\ rest = From(uri, a)
    BY <1>7 DEF Ends
  <2>2. W[n] = uri /\ nodes[n].leaf # NoLeaf
    BY <2>1, EndsAtWord
  <2>3. part1 = label
    BY <2>1, <1>5, FromZero
  <2>4. part1 = rest
    BY <2>1, <2>2, <2>3, <1>4
  <2> DEFINE l == nodes[n].leaf
  <2>5. t2 = [t EXCEPT !.added = Append(@, l)]
    BY <2>2, <2>4, <1>1
  <2>6. l \in DOMAIN L /\ L[l] = uri
    BY <2>2, <1>2 DEF Leafed
  <2>7. l \in Nat
    BY <2>6, <1>2
  <2> HIDE DEF l
  <2>8. /\ t2 \in [nodes: Seq(Node), uri_id: Seq(Nat), id: Seq(Nat), added: Seq(Nat)]
        /\ t2.nodes = nodes /\ t2.uri_id = t.uri_id /\ t2.id = t.id
        /\ t2.added = Append(t.added, l)
    <3>1. t.added \in Seq(Nat) /\ Append(t.added, l) \in Seq(Nat)
      BY <2>7, <1>6
    <3> QED BY <3>1, <2>5, <1>6
  <2>9. Tree(t2, L)
    BY <2>8, <1>6 DEF Tree
  <2>11. WordsKept(nodes, nodes)
    <3>1. \A q \in DOMAIN nodes : Starts(W[q], W[q])
      BY <1>2, WordFacts, StartsItself
    <3> QED BY <3>1, <1>2, WordsAreKept
  <2>10. Has(t, L, uri, t2, L, l)
    BY <2>6, <2>8, <2>9, <2>11 DEF Has, nodes
  <2> QED BY <2>10 DEF t2
<1>8. CASE Leaves(nodes, W, uri, n, r)
  <2>1. /\ Starts(W[p], uri) /\ a < Len(uri)
        /\ k \in Nat /\ k # 0 /\ d < Len(uri) /\ d <= Len(W[n])
        /\ \A i \in 1..d : W[n][i] = uri[i]
        /\ rest = From(uri, d)
        /\ d < Len(W[n]) => W[n][d + 1] # uri[d + 1]
        /\ d = Len(W[n]) => \A c \in DOMAIN nodes : nodes[c].prev = n => W[c][d + 1] # uri[d + 1]
    BY <1>8 DEF Leaves
  <2>2. d \in Nat /\ Len(uri) \in Nat /\ d \in 0..Len(uri) /\ a < d /\ d = a + k
    <3>1. Len(uri) \in Nat
      BY <1>2
    <3> HIDE DEF a
    <3> QED BY <3>1, <2>1, <1>3
  <2> HIDE DEF k, a, rest, p, n, nodes, label, d, leaf
  <2>3. /\ rest \in Seq(Char) /\ Len(rest) = Len(uri) - d
        /\ \A i \in 1..(Len(uri) - d) : rest[i] = uri[d + i]
    BY <2>1, <2>2, <1>2, FromIs
  <2>4. k \in 0..Len(label) /\ Len(label) - k = Len(W[n]) - d
    BY <2>1, <2>2, <1>3, <1>5
  <2>5. /\ part1 \in Seq(Char) /\ Len(part1) = Len(label) - k
        /\ \A i \in 1..(Len(label) - k) : part1[i] = label[k + i]
    BY <2>4, <1>5, FromIs
  <2> HIDE DEF part1
  <2>6. rest # <<>>
    BY <2>1, <2>2, <2>3
  <2>7. CASE d = Len(W[n])
    <3>1. part1 = <<>>
      BY <2>4, <2>5, <2>7, <1>3
    <3>2. t2 = new(AppendChild(t, n, rest, leaf))
      BY <3>1, <2>6, <1>1
    <3> DEFINE nodes2 == AppendChild(t, n, rest, leaf)
               V == Wider(W, Len(nodes), uri)
    <3>3. Grown(nodes, t.uri_id, nodes2, t.uri_id, n, rest, leaf)
      BY <1>2, <1>6, <2>3, ChildGrows DEF nodes, n
    <3>4. Starts(W[n], uri)
      BY <2>1, <2>2, <2>7 DEF Starts
    <3>5. GrowsBy(nodes, t.uri_id, W, nodes2, t.uri_id, n, uri, leaf)
      BY <3>3, <3>4, <2>1, <2>7, <1>2, <1>3 DEF GrowsBy
    <3>6. \A c \in DOMAIN nodes : nodes[c].prev = n => ~Starts(W[c], uri)
      <4> SUFFICES ASSUME NEW c \in DOMAIN nodes, nodes[c].prev = n, Starts(W[c], uri)
                   PROVE  FALSE
        OBVIOUS
      <4>1. Len(W[n]) < Len(W[c]) /\ Len(W[c]) \in Nat
        <5>1. c \in 0..Len(nodes) /\ Len(W[n]) < Len(W[c]) /\ W[c] \in Seq(Char)
          BY <1>2, WordFacts
        <5> QED BY <5>1
      <4>2. d + 1 \in 1..Len(W[c])
        BY <4>1, <2>2, <2>7
      <4>3. W[c][d + 1] = uri[d + 1]
        BY <4>2 DEF Starts
      <4> QED BY <4>3, <2>1, <2>7
    <3>7. Absent(L, uri)
      <4>1. KeyTree(nodes, t.uri_id, W, L) /\ Len(W[n]) < Len(uri)
        BY <2>1, <2>7 DEF nodes
      <4>2. NoWayOn(nodes, W, uri, n)
        BY <4>1, <3>4, <3>6 DEF NoWayOn
      <4> QED BY <4>1, <4>2, <1>2, <1>3, NotThere
    <3> HIDE DEF nodes2, V
    <3>8. Linked(nodes2, t.uri_id)
      BY <3>3, <1>2, <1>3, GrownLinked
    <3>9. Worded(nodes2, V)
      BY <3>5, GrownWorded DEF V
    <3>10. Leafed(nodes2, V, Append(L, uri))
      BY <3>5, <3>7, <1>2, <1>6, GrownLeafed DEF V, Absent
    <3>11. KeyTree(nodes2, t.uri_id, V, Append(L, uri))
      BY <3>8, <3>9, <3>10 DEF KeyTree
    <3>12. DOMAIN t.nodes \subseteq DOMAIN nodes2
      BY <3>3, <1>3 DEF Grown, nodes
    <3>14. \A q \in DOMAIN t.nodes : Starts(V[q], W[q])
      BY <1>2, <1>3, WordFacts, WiderStarts DEF V, nodes
    <3>13. Has(t, L, uri, new(nodes2), Append(L, uri), leaf)
      BY <3>11, <3>12, <3>14, <1>2, NewLeaf DEF new, leaf
    <3> QED BY <3>2, <3>13 DEF t2, nodes2, n, k, rest
  <2>8. CASE d < Len(W[n])
    <3>1. part1 # <<>> /\ part1 # rest
      <4>1. /\ Len(part1) > 0 /\ 1 \in 1..(Len(label) - k) /\ 1 \in 1..(Len(uri) - d)
            /\ k + 1 \in 1..(Len(W[n]) - a) /\ a + (k + 1) = d + 1
        <5> DEFINE w == Len(W[n])
                   b == Len(label)
                   u == Len(uri)
                   q == Len(part1)
        <5>1. /\ w \in Nat /\ u \in Nat /\ a \in Nat /\ k \in Nat /\ d = a + k
              /\ d < w /\ d < u /\ b = w - a /\ q = b - k
          BY <2>1, <2>2, <2>5, <2>8, <1>3, <1>5
        <5> HIDE DEF w, b, u, q
        <5>2. /\ q > 0 /\ 1 \in 1..(b - k) /\ 1 \in 1..(u - d)
              /\ k + 1 \in 1..(w - a) /\ a + (k + 1) = d + 1
          BY <5>1
        <5> QED BY <5>2 DEF w, b, u, q
      <4>2. part1[1] = label[k + 1] /\ label[k + 1] = W[n][a + (k + 1)] /\ rest[1] = uri[d + 1]
        BY <4>1, <2>3, <2>5, <1>5
      <4>3. part1[1] # rest[1]
        BY <4>1, <4>2, <2>1, <2>8
      <4> QED BY <4>1, <4>3
    <3>2. t2 = new(Split(t, n, k, rest, leaf))
      BY <3>1, <1>1
    <3> DEFINE nodes2 == Split(t, n, k, rest, leaf)
               V == Cut(W, Len(nodes), n, d, uri)
    <3>3. Divided(nodes, nodes2, n, k, rest, leaf)
      <4>1. n \in DOMAIN t.nodes /\ k \in 0..Len(t.nodes[n].uri) /\ Linked(t.nodes, t.uri_id)
        BY <2>4, <1>2 DEF n, label, nodes
      <4> QED BY <4>1, <2>3, <1>6, SplitDivides DEF nodes
    <3>4. d = CutAt(nodes, W, n, k)
      BY <2>2 DEF CutAt, a, p
    <3>5. SplitsBy(nodes, t.uri_id, W, nodes2, n, k, uri, leaf)
      <4>1. n \in DOMAIN nodes
        BY DEF n, nodes
      <4> QED BY <4>1, <3>3, <3>4, <2>1, <2>8, <1>2 DEF SplitsBy
    <3>6. \A c \in DOMAIN nodes : nodes[c].prev = p => ~Starts(W[c], uri)
      <4> SUFFICES ASSUME NEW c \in DOMAIN nodes, nodes[c].prev = p, Starts(W[c], uri)
                   PROVE  FALSE
        OBVIOUS
      <4>1. a < Len(W[c]) /\ Len(W[c]) \in Nat
        <5>1. c \in 0..Len(nodes) /\ Len(W[p]) < Len(W[c]) /\ W[c] \in Seq(Char)
          BY <1>2, WordFacts
        <5> QED BY <5>1 DEF a
      <4>2. a + 1 \in 1..Len(W[c]) /\ a + 1 \in 1..d
        BY <4>1, <2>2, <1>3
      <4>3. W[c][a + 1] = W[n][a + 1]
        BY <4>2, <2>1 DEF Starts
      <4>4. c = n
        <5>1. n \in DOMAIN nodes /\ nodes[n].prev = nodes[c].prev
          BY DEF n, nodes, p
        <5> QED BY <5>1, <4>3, <1>2 DEF Worded, a
      <4>5. d + 1 \in 1..Len(W[n])
        BY <2>2, <2>8, <1>3
      <4> QED BY <4>4, <4>5, <2>1, <2>8 DEF Starts
    <3>7. Absent(L, uri)
      <4>1. KeyTree(nodes, t.uri_id, W, L) /\ Len(W[p]) < Len(uri)
        BY <2>1 DEF nodes, a
      <4>2. NoWayOn(nodes, W, uri, p)
        BY <4>1, <3>6, <2>1 DEF NoWayOn
      <4> QED BY <4>1, <4>2, <1>2, <1>3, NotThere
    <3> HIDE DEF nodes2, V
    <3>8. Linked(nodes2, t.uri_id)
      <4>1. n \in DOMAIN nodes
        BY DEF n, nodes
      <4>2. nodes[n].prev # n
        BY <1>3 DEF p, a
      <4> QED BY <4>1, <4>2, <3>3, <1>2, DividedLinked
    <3>9. Worded(nodes2, V)
      BY <3>4, <3>5, DividedWorded DEF V
    <3>10. Leafed(nodes2, V, Append(L, uri))
      BY <3>4, <3>5, <3>7, <1>2, <1>6, DividedLeafed DEF V, Absent
    <3>11. KeyTree(nodes2, t.uri_id, V, Append(L, uri))
      BY <3>8, <3>9, <3>10 DEF KeyTree
    <3>12. DOMAIN t.nodes \subseteq DOMAIN nodes2
      BY <3>3, <1>3 DEF Divided, nodes
    <3>14. \A q \in DOMAIN t.nodes : Starts(V[q], W[q])
      BY <3>4, <3>5, CutStarts DEF V, nodes
    <3>13. Has(t, L, uri, new(nodes2), Append(L, uri), leaf)
      BY <3>11, <3>12, <3>14, <1>2, NewLeaf DEF new, leaf
    <3> QED BY <3>2, <3>13 DEF t2, nodes2, n, k, rest
  <2> QED BY <2>1, <2>2, <2>7, <2>8, <1>3
<1> QED BY <1>7, <1>8 DEF t2
\* KeyManager::Add keeps the tree, and gives uri a leaf.
LEMMA AddKeeps ==
    ASSUME PrefixFree, NEW t, NEW L, Tree(t, L), NEW uri \in Uri
    PROVE  \E M, l : Has(t, L, uri, Add(t, uri), M, l)
<1> DEFINE nodes == t.nodes
           roots == t.uri_id
           r == FindAdd(nodes, roots, uri)
           leaf == Len(t.id) + 1
           nodes2 == Append(nodes, Leaf(uri, NoNode, leaf))
           roots2 == Append(roots, Len(nodes) + 1)
           new == [nodes |-> nodes2, uri_id |-> roots2, id |-> Append(t.id, 0),
                   added |-> Append(t.added, leaf)]
<1>1. Add(t, uri) = IF r.node # NoNode THEN NodeAdd(t, r.node, r.at, r.rest) ELSE new
  BY DEF Add
<1>2. PICK W : KeyTree(nodes, roots, W, L)
  BY DEF Tree
<1>3. /\ Linked(nodes, roots) /\ Worded(nodes, W) /\ Leafed(nodes, W, L) /\ L \in Seq(Uri)
      /\ uri \in Seq(Char) /\ uri # <<>>
  BY <1>2, UriAssumption DEF KeyTree, Leafed
<1>4. Outcome(nodes, W, uri, NoNode, r)
  BY <1>3, FindAddIs
<1>5. /\ leaf \in Nat /\ Len(L) = Len(t.id) /\ leaf = Len(L) + 1
      /\ W[0] = <<>> /\ Len(W[0]) = 0 /\ 0 \in 0..Len(nodes) /\ DOMAIN nodes = 1..Len(nodes)
  <2>1. Len(L) = Len(t.id)
    BY DEF Tree
  <2> QED BY <2>1, <1>3, WordFacts
<1> HIDE DEF r, nodes, roots, nodes2, roots2, new, leaf
<1>6. CASE r.node # NoNode
  <2>1. /\ r.node \in DOMAIN nodes
        /\ (Ends(nodes, W, uri, r.node, r) \/ Leaves(nodes, W, uri, r.node, r))
    BY <1>4, <1>6 DEF Outcome
  <2>2. \E M, l : Has(t, L, uri, NodeAdd(t, r.node, r.at, r.rest), M, l)
    BY <2>1, <1>2, NodeAddKeeps DEF nodes, roots
  <2> QED BY <2>2, <1>1, <1>6
<1>7. CASE r.node = NoNode
  <2> DEFINE V == Wider(W, Len(nodes), uri)
  <2>0. Len(uri) \in Nat /\ Len(uri) > 0 /\ Starts(W[0], uri)
    BY <1>3, <1>5 DEF Starts
  <2>1. \A c \in DOMAIN nodes : nodes[c].prev = 0 => W[c][0 + 1] # uri[0 + 1]
    <3>1. NoNode \notin DOMAIN nodes
      BY <1>5 DEF NoNode
    <3> QED BY <3>1, <1>4, <1>5, <1>7 DEF Outcome, NoNode
  <2>2. NoWayOn(nodes, W, uri, 0)
    <3> SUFFICES ASSUME NEW c \in DOMAIN nodes, nodes[c].prev = 0, Starts(W[c], uri) PROVE FALSE
      BY <2>0, <1>5 DEF NoWayOn
    <3>1. Len(W[0]) < Len(W[c]) /\ W[c] \in Seq(Char)
      <4>1. c \in 0..Len(nodes) /\ Len(W[nodes[c].prev]) < Len(W[c]) /\ W[c] \in Seq(Char)
        BY <1>3, WordFacts
      <4> QED BY <4>1
    <3>2. 0 + 1 \in 1..Len(W[c])
      BY <3>1, <1>5
    <3> QED BY <3>2, <2>1 DEF Starts
  <2>3. Absent(L, uri)
    BY <2>2, <1>2, <1>3, <1>5, NotThere
  <2>4. Grown(nodes, roots, nodes2, roots2, 0, uri, leaf)
    BY <1>3, <1>5, RootGrows DEF nodes2, roots2
  <2>5. GrowsBy(nodes, roots, W, nodes2, roots2, 0, uri, leaf)
    <3>1. From(uri, Len(W[0])) = uri
      BY <1>3, <1>5, FromZero
    <3>2. Len(W[0]) < Len(uri)
      BY <2>0, <1>5
    <3>3. \A c \in DOMAIN nodes : nodes[c].prev = 0 => W[c][Len(W[0]) + 1] # uri[Len(W[0]) + 1]
      BY <2>1, <1>5
    <3> QED BY <3>1, <3>2, <3>3, <2>0, <2>4, <1>3, <1>5 DEF GrowsBy
  <2>6. Linked(nodes2, roots2)
    BY <2>4, <1>3, <1>5, GrownLinked
  <2>7. Worded(nodes2, V)
    BY <2>5, GrownWorded
  <2>8. Leafed(nodes2, V, Append(L, uri))
    BY <2>3, <2>5, <1>3, <1>5, GrownLeafed DEF Absent
  <2>9. KeyTree(nodes2, roots2, V, Append(L, uri))
    BY <2>6, <2>7, <2>8 DEF KeyTree
  <2>10. DOMAIN t.nodes \subseteq DOMAIN nodes2
    BY <2>4, <1>5 DEF Grown, nodes
  <2>12. \A q \in DOMAIN t.nodes : Starts(V[q], W[q])
    BY <1>3, <1>5, WordFacts, WiderStarts DEF nodes
  <2>13. KeyTree(t.nodes, t.uri_id, W, L)
    BY <1>2 DEF nodes, roots
  <2>11. Has(t, L, uri, new, Append(L, uri), leaf)
    BY <2>9, <2>10, <2>12, <2>13, <1>3, NewLeaf DEF new, leaf
  <2> QED BY <2>11, <1>1, <1>7
<1> QED BY <1>6, <1>7

\* AddAll adds one URI after the other, four at most.
LEMMA AddAllIs ==
    ASSUME NEW uris, Len(uris) \in 0..4
    PROVE  \E f : /\ f[0] = [trie EXCEPT !.added = <<>>]
                  /\ \A i \in 1..Len(uris) : f[i] = Add(f[i - 1], uris[i])
                  /\ AddAll(uris) = f[Len(uris)]
<1> DEFINE n == Len(uris)
           t0 == [trie EXCEPT !.added = <<>>]
           Body(f, i) == IF i = 0 THEN t0 ELSE Add(f[i - 1], uris[i])
           Solves(f) == f = [i \in 0..n |-> Body(f, i)]
           t1 == Add(t0, uris[1])
           t2 == Add(t1, uris[2])
           t3 == Add(t2, uris[3])
           t4 == Add(t3, uris[4])
           g == [i \in 0..n |-> IF i = 0 THEN t0 ELSE IF i = 1 THEN t1 ELSE IF i = 2 THEN t2
                                ELSE IF i = 3 THEN t3 ELSE t4]
<1>1. Solves(g)
  <2> HIDE DEF t0
  <2>1. t1 = Add(t0, uris[1]) /\ t2 = Add(t1, uris[2]) /\ t3 = Add(t2, uris[3]) /\ t4 = Add(t3, uris[4])
    OBVIOUS
  <2> HIDE DEF t1, t2, t3, t4
  <2>2. n \in {0, 1, 2, 3, 4}
    OBVIOUS
  <2> HIDE DEF n
  <2>3. \A i \in 0..n : i \in {0, 1, 2, 3, 4} /\ (i # 0 => i - 1 \in 0..n)
    BY <2>2
  <2>4. ASSUME NEW i \in 0..n PROVE g[i] = Body(g, i)
    BY <2>1, <2>3
  <2> HIDE DEF Body
  <2> QED BY <2>4
<1>2. AddAll(uris) = (CHOOSE f : Solves(f))[n]
  BY DEF AddAll
<1> HIDE DEF g
<1> DEFINE h == CHOOSE f : Solves(f)
<1>3. Solves(h)
  <2> HIDE DEF Solves
  <2> QED BY <1>1
<1> HIDE DEF h
<1>4. h[0] = t0 /\ \A i \in 1..n : h[i] = Add(h[i - 1], uris[i])
  <2>1. 0 \in 0..n /\ \A i \in 1..n : i \in 0..n /\ i # 0
    OBVIOUS
  <2>2. \A i \in 0..n : h[i] = Body(h, i)
    <3> HIDE DEF Body
    <3> QED BY <1>3
  <2> HIDE DEF t0, n
  <2> QED BY <2>1, <2>2
<1>5. AddAll(uris) = h[n]
  BY <1>2 DEF h
<1> QED BY <1>4, <1>5
LEMMA TreeLeaves ==
    ASSUME NEW t, NEW L, Tree(t, L)
    PROVE  /\ L \in Seq(Uri) /\ Len(L) \in Nat /\ DOMAIN L = 1..Len(L)
           /\ \A i, j \in DOMAIN L : L[i] = L[j] => i = j
           /\ t.id \in Seq(Nat) /\ t.added \in Seq(Nat) /\ Len(t.id) = Len(L)
<1>1. PICK W : KeyTree(t.nodes, t.uri_id, W, L)
  BY DEF Tree
<1>2. L \in Seq(Uri) /\ \A i, j \in DOMAIN L : L[i] = L[j] => i = j
  BY <1>1 DEF KeyTree, Leafed
<1>3. t.id \in Seq(Nat) /\ t.added \in Seq(Nat) /\ Len(t.id) = Len(L)
  BY DEF Tree
<1> QED BY <1>2, <1>3

\* What the first i of uris have made of the tree: s instead of t, with leaves M.
Reached(t, L, uris, i, s, M) ==
    /\ Tree(s, M) /\ DOMAIN t.nodes \subseteq DOMAIN s.nodes
    /\ Starts(L, M) /\ Starts(t.id, s.id) /\ WordsKept(t.nodes, s.nodes)
    /\ \A l \in DOMAIN s.id : l \in DOMAIN t.id \/ s.id[l] = 0
    /\ \A u : u \in Range(M) <=> u \in Range(L) \/ \E j \in 1..i : uris[j] = u
    /\ Len(s.added) = i
    /\ \A j \in 1..i : s.added[j] \in DOMAIN M /\ M[s.added[j]] = uris[j]

LEMMA ReachedNext ==
    ASSUME NEW t, NEW L, Tree(t, L), L \in Seq(Uri), t.id \in Seq(Nat), NEW uris \in Seq(Uri), NEW i \in Nat,
           i + 1 \in 1..Len(uris), NEW s, NEW M, Reached(t, L, uris, i, s, M),
           NEW s2, NEW M2, NEW l, Has(s, M, uris[i + 1], s2, M2, l)
    PROVE  Reached(t, L, uris, i + 1, s2, M2)
<1> DEFINE uri == uris[i + 1]
<1>1. uri \in Uri
  OBVIOUS
<1> HIDE DEF uri
<1>2. /\ Tree(s, M) /\ Starts(L, M) /\ Starts(t.id, s.id)
      /\ DOMAIN t.nodes \subseteq DOMAIN s.nodes
      /\ \A u : u \in Range(M) <=> u \in Range(L) \/ \E j \in 1..i : uris[j] = u
      /\ Len(s.added) = i
      /\ \A j \in 1..i : s.added[j] \in DOMAIN M /\ M[s.added[j]] = uris[j]
  BY DEF Reached
<1>3. /\ Tree(s2, M2) /\ DOMAIN s.nodes \subseteq DOMAIN s2.nodes
      /\ s2.added = Append(s.added, l) /\ l \in DOMAIN M2 /\ M2[l] = uri
      /\ \/ M2 = M /\ s2.id = s.id
         \/ M2 = Append(M, uri) /\ s2.id = Append(s.id, 0)
  BY DEF Has, uri
<1>4. /\ M \in Seq(Uri) /\ M2 \in Seq(Uri) /\ s.id \in Seq(Nat) /\ s2.id \in Seq(Nat)
      /\ s.added \in Seq(Nat) /\ DOMAIN M = 1..Len(M) /\ DOMAIN M2 = 1..Len(M2)
      /\ Len(M) \in Nat /\ Len(M2) \in Nat
  BY <1>2, <1>3, TreeLeaves
<1>5. Starts(M, M2) /\ Starts(s.id, s2.id)
  <2>1. Starts(M, M) /\ Starts(s.id, s.id)
    BY <1>4, StartsItself
  <2>2. Starts(M, Append(M, uri))
    BY <1>1, <1>4, StartsAppend
  <2>3. Starts(s.id, Append(s.id, 0))
    BY <1>4, StartsAppend
  <2> QED BY <2>1, <2>2, <2>3, <1>3
<1>6. Starts(L, M2) /\ Starts(t.id, s2.id)
  BY <1>2, <1>4, <1>5, StartsTransitive
<1>7. \A u : u \in Range(M2) <=> u \in Range(M) \/ u = uri
  <2>1. CASE M2 = Append(M, uri)
    BY <2>1, <1>1, <1>4, RangeOfAppend
  <2>2. CASE M2 = M
    <3>1. uri \in Range(M)
      BY <2>2, <1>3 DEF Range
    <3> QED BY <2>2, <3>1
  <2> QED BY <2>1, <2>2, <1>3
<1>8. \A u : u \in Range(M2) <=> u \in Range(L) \/ \E j \in 1..(i + 1) : uris[j] = u
  <2>1. \A u : (\E j \in 1..(i + 1) : uris[j] = u) <=> (\E j \in 1..i : uris[j] = u) \/ u = uri
    <3>1. \A j \in 1..(i + 1) : j \in 1..i \/ j = i + 1
      OBVIOUS
    <3>2. \A j \in 1..i : j \in 1..(i + 1)
      OBVIOUS
    <3>3. i + 1 \in 1..(i + 1)
      OBVIOUS
    <3> QED BY <3>1, <3>2, <3>3 DEF uri
  <2> QED BY <2>1, <1>2, <1>7
<1>9. Len(s2.added) = i + 1 /\ s2.added[i + 1] = l /\ \A j \in 1..i : s2.added[j] = s.added[j]
  <2>1. l \in Nat
    <3>1. l \in 1..Len(M2)
      BY <1>3, <1>4
    <3> QED BY <3>1
  <2> DEFINE a == s.added
  <2>2. a \in Seq(Nat) /\ Len(a) = i /\ s2.added = Append(a, l)
    BY <1>2, <1>3, <1>4
  <2> HIDE DEF a
  <2>3. /\ Len(Append(a, l)) = Len(a) + 1 /\ Append(a, l)[Len(a) + 1] = l
        /\ \A j \in 1..Len(a) : Append(a, l)[j] = a[j]
    BY <2>1, <2>2, AppendIs
  <2> QED BY <2>2, <2>3 DEF a
<1>10. ASSUME NEW j \in 1..(i + 1)
       PROVE  s2.added[j] \in DOMAIN M2 /\ M2[s2.added[j]] = uris[j]
  <2>1. CASE j = i + 1
    BY <2>1, <1>3, <1>9 DEF uri
  <2>2. CASE j \in 1..i
    <3>1. s.added[j] \in 1..Len(M) /\ M[s.added[j]] = uris[j]
      BY <2>2, <1>2, <1>4
    <3>2. s.added[j] \in 1..Len(M2) /\ M2[s.added[j]] = M[s.added[j]]
      BY <3>1, <1>4, <1>5 DEF Starts
    <3> QED BY <2>2, <3>1, <3>2, <1>4, <1>9
  <2> QED BY <2>1, <2>2
<1>11. DOMAIN t.nodes \subseteq DOMAIN s2.nodes
  BY <1>2, <1>3
<1>12. WordsKept(t.nodes, s2.nodes)
  <2>1. WordsKept(t.nodes, s.nodes) /\ WordsKept(s.nodes, s2.nodes)
    BY DEF Reached, Has
  <2>2. PICK W : Linked(t.nodes, t.uri_id) /\ Worded(t.nodes, W)
    BY DEF Tree, KeyTree
  <2>3. PICK W1 : Linked(s.nodes, s.uri_id) /\ Worded(s.nodes, W1)
    BY <1>2 DEF Tree, KeyTree
  <2>4. PICK V : Linked(s2.nodes, s2.uri_id) /\ Worded(s2.nodes, V)
    BY <1>3 DEF Tree, KeyTree
  <2> QED BY <2>1, <2>2, <2>3, <2>4, <1>2, <1>3, WordsKeptOn
<1>13. ASSUME NEW j \in DOMAIN s2.id PROVE j \in DOMAIN t.id \/ s2.id[j] = 0
  <2>1. \A i1 \in DOMAIN s.id : i1 \in DOMAIN t.id \/ s.id[i1] = 0
    BY DEF Reached
  <2>2. CASE s2.id = s.id
    BY <2>1, <2>2
  <2>3. CASE s2.id = Append(s.id, 0)
    <3>1. (j \in DOMAIN s.id /\ s2.id[j] = s.id[j]) \/ s2.id[j] = 0
      BY <2>3, <1>4
    <3> QED BY <3>1, <2>1
  <2> QED BY <2>2, <2>3, <1>3
<1> QED BY <1>3, <1>6, <1>8, <1>9, <1>10, <1>11, <1>12, <1>13 DEF Reached

\* AddAll keeps the tree; added holds the leaves of uris, and no key or leaf is
\* taken from another URI.
LEMMA AddAllKeeps ==
    ASSUME PrefixFree, NEW L, Tree(trie, L), NEW uris \in Seq(Uri), Len(uris) \in 0..4
    PROVE  \E M : Reached(trie, L, uris, Len(uris), AddAll(uris), M)
<1>1. PICK f : /\ f[0] = [trie EXCEPT !.added = <<>>]
               /\ \A i \in 1..Len(uris) : f[i] = Add(f[i - 1], uris[i])
               /\ AddAll(uris) = f[Len(uris)]
  BY AddAllIs
<1>2. /\ L \in Seq(Uri) /\ trie.id \in Seq(Nat)
  BY TreeLeaves
<1> DEFINE At(i) == i <= Len(uris) => \E M : Reached(trie, L, uris, i, f[i], M)
           Good == {i \in Nat : At(i)}
<1>3. 0 \in Good
  <2>1. trie \in [nodes: Seq(Node), uri_id: Seq(Nat), id: Seq(Nat), added: Seq(Nat)]
    BY DEF Tree
  <2>2. /\ f[0] \in [nodes: Seq(Node), uri_id: Seq(Nat), id: Seq(Nat), added: Seq(Nat)]
        /\ f[0].nodes = trie.nodes /\ f[0].uri_id = trie.uri_id /\ f[0].id = trie.id
        /\ f[0].added = <<>>
    <3> DEFINE A == Seq(Node)
               B == Seq(Nat)
               x == trie
    <3>1. x \in [nodes: A, uri_id: B, id: B, added: B] /\ <<>> \in B
      BY <2>1
    <3>2. f[0] = [x EXCEPT !.added = <<>>]
      BY <1>1
    <3> HIDE DEF A, B, x
    <3>3. /\ f[0] \in [nodes: A, uri_id: B, id: B, added: B]
          /\ f[0].nodes = x.nodes /\ f[0].uri_id = x.uri_id /\ f[0].id = x.id
          /\ f[0].added = <<>>
      BY <3>1, <3>2
    <3> QED BY <3>3 DEF A, B, x
  <2>3. Tree(f[0], L)
    BY <2>2 DEF Tree
  <2>4. Starts(L, L) /\ Starts(trie.id, trie.id)
    BY <1>2, StartsItself
  <2>5. Reached(trie, L, uris, 0, f[0], L)
    <3>1. 1..0 = {} /\ Len(<<>>) = 0
      OBVIOUS
    <3>2. WordsKept(trie.nodes, trie.nodes)
      <4>1. PICK W : Linked(trie.nodes, trie.uri_id) /\ Worded(trie.nodes, W)
        BY DEF Tree, KeyTree
      <4>2. \A q \in DOMAIN trie.nodes : Starts(W[q], W[q])
        BY <4>1, WordFacts, StartsItself
      <4> QED BY <4>1, <4>2, WordsAreKept
    <3> QED BY <3>1, <3>2, <2>2, <2>3, <2>4 DEF Reached
  <2> QED BY <2>5
<1>4. ASSUME NEW i \in Nat, i \in Good PROVE i + 1 \in Good
  <2> SUFFICES ASSUME i + 1 <= Len(uris)
               PROVE  \E M : Reached(trie, L, uris, i + 1, f[i + 1], M)
    OBVIOUS
  <2>1. i <= Len(uris) /\ i + 1 \in 1..Len(uris) /\ (i + 1) - 1 = i
    OBVIOUS
  <2>2. PICK M : Reached(trie, L, uris, i, f[i], M)
    BY <2>1, <1>4
  <2> HIDE DEF At, Good
  <2>3. f[i + 1] = Add(f[i], uris[i + 1])
    BY <2>1, <1>1
  <2>4. Tree(f[i], M) /\ uris[i + 1] \in Uri
    BY <2>1, <2>2 DEF Reached
  <2>5. PICK M2, l : Has(f[i], M, uris[i + 1], Add(f[i], uris[i + 1]), M2, l)
    BY <2>4, AddKeeps
  <2>6. Has(f[i], M, uris[i + 1], f[i + 1], M2, l)
    BY <2>3, <2>5
  <2>7. Reached(trie, L, uris, i + 1, f[i + 1], M2)
    BY <2>1, <2>2, <2>6, <1>2, ReachedNext
  <2> QED BY <2>7
<1>5. Nat \subseteq Good
  <2> HIDE DEF Good
  <2> QED BY <1>3, <1>4, SetInduction
<1>6. Len(uris) \in Nat /\ Len(uris) <= Len(uris)
  OBVIOUS
<1>7. Len(uris) \in Good
  <2> HIDE DEF Good
  <2> QED BY <1>5, <1>6
<1> QED BY <1>1, <1>6, <1>7
-----------------------------------------------------------------------------
(* The nodes below a node, one after the other *)

\* g[i] is what is below the first i children.
Walked(N, list, below, g) ==
    /\ g \in [0..Len(list) -> Seq(N)] /\ g[0] = <<>>
    /\ \A i \in 1..Len(list) : g[i] = g[i - 1] \o <<list[i]>> \o below[list[i]]

LEMMA Longer ==
    ASSUME NEW N, NEW s \in Seq(N), NEW x \in N, NEW t \in Seq(N)
    PROVE  s \o <<x>> \o t \in Seq(N)
<1>1. <<x>> \in Seq(N)
  OBVIOUS
<1>2. s \o <<x>> \in Seq(N)
  BY <1>1
<1> QED BY <1>2

LEMMA WalkIs ==
    ASSUME NEW N, NEW list \in Seq(N), NEW below,
           \A i \in 1..Len(list) : below[list[i]] \in Seq(N)
    PROVE  \E g : Walked(N, list, below, g) /\ Walk(list, below) = g[Len(list)]
<1> DEFINE D == 0..Len(list)
           S == Seq(N)
           Longer1(s, i) == s \o <<list[i]>> \o below[list[i]]
           Body(g, i) == IF i = 0 THEN <<>> ELSE Longer1(g[i - 1], i)
           size == [i \in D |-> i]
           step == [g \in [D -> S] |-> [i \in D |-> Body(g, i)]]
<1>1. \A i \in D : i \in Nat /\ (i # 0 => i - 1 \in D /\ i - 1 < i /\ i \in 1..Len(list))
  OBVIOUS
<1>2. ASSUME NEW s \in S, NEW i \in 1..Len(list) PROVE Longer1(s, i) \in S
  <2>1. list[i] \in N /\ below[list[i]] \in Seq(N)
    OBVIOUS
  <2> QED BY <2>1, Longer
<1>3. <<>> \in S
  OBVIOUS
<1> HIDE DEF Longer1, S
<1>4. ASSUME NEW g \in [D -> S], NEW i \in D PROVE Body(g, i) \in S
  BY <1>1, <1>2, <1>3
<1>5. size \in [D -> Nat]
  BY <1>1
<1>6. step \in [[D -> S] -> [D -> S]]
  <2> HIDE DEF Body
  <2> QED BY <1>4
<1>7. ASSUME NEW g \in [D -> S], NEW h \in [D -> S], NEW i \in D,
             \A j \in D : size[j] < size[i] => g[j] = h[j]
      PROVE  step[g][i] = step[h][i]
  <2>1. i # 0 => g[i - 1] = h[i - 1]
    BY <1>1, <1>7
  <2>2. Body(g, i) = Body(h, i)
    BY <2>1
  <2> HIDE DEF Body
  <2> QED BY <2>2
<1>8. Fixed(D, S, step) # {}
  <2> HIDE DEF step, size, D
  <2>1. Grounded(D, S, size, step)
    BY <1>3, <1>5, <1>6, <1>7 DEF Grounded
  <2> QED BY <2>1, SizeRecursion, Zenon
<1> DEFINE Solves(f) == f = [i \in D |-> Body(f, i)]
<1>9. \E f : Solves(f)
  <2>1. PICK f \in [D -> S] : f = step[f]
    <3> HIDE DEF step, D
    <3> QED BY <1>8 DEF Fixed
  <2>2. step[f] = [i \in D |-> Body(f, i)]
    <3> HIDE DEF Body
    <3> QED BY <2>1
  <2> QED BY <2>1, <2>2
<1> DEFINE w == CHOOSE f : Solves(f)
<1>10. Walk(list, below) = w[Len(list)]
  BY DEF Walk, Longer1
<1>11. Solves(w)
  <2> HIDE DEF Solves
  <2> QED BY <1>9
<1> HIDE DEF w
<1>12. w[0] = <<>> /\ \A i \in 1..Len(list) : w[i] = Longer1(w[i - 1], i)
  <2>1. \A i \in D : w[i] = Body(w, i)
    <3> HIDE DEF Body
    <3> QED BY <1>11
  <2>2. 0 \in D /\ \A i \in 1..Len(list) : i \in D /\ i # 0
    OBVIOUS
  <2> QED BY <2>1, <2>2
<1> DEFINE Good == {i \in Nat : i <= Len(list) => w[i] \in S}
<1>13. Nat \subseteq Good
  <2>1. 0 \in Good
    BY <1>3, <1>12
  <2>2. ASSUME NEW i \in Nat, i \in Good PROVE i + 1 \in Good
    <3> SUFFICES ASSUME i + 1 <= Len(list) PROVE w[i + 1] \in S
      OBVIOUS
    <3>1. i + 1 \in 1..Len(list) /\ (i + 1) - 1 = i /\ w[i] \in S
      BY <2>2
    <3> QED BY <3>1, <1>2, <1>12
  <2> HIDE DEF Good
  <2> QED BY <2>1, <2>2, SetInduction
<1>14. w \in [D -> S]
  <2>1. \A i \in D : w[i] \in S
    BY <1>1, <1>13
  <2>2. DOMAIN w = D
    <3> HIDE DEF Body
    <3> QED BY <1>11
  <2>3. w = [i \in D |-> w[i]]
    <3> HIDE DEF Body
    <3> QED BY <1>11, <2>2
  <2> QED BY <2>1, <2>3
<1> QED BY <1>10, <1>12, <1>14 DEF Walked, Longer1, S

\* The walk depends on what is below the nodes of the list alone.
LEMMA WalkSame ==
    ASSUME NEW N, NEW list \in Seq(N), NEW g, NEW h,
           \A i \in 1..Len(list) : g[list[i]] \in Seq(N) /\ h[list[i]] = g[list[i]]
    PROVE  Walk(list, g) = Walk(list, h)
<1>1. PICK v : Walked(N, list, g, v) /\ Walk(list, g) = v[Len(list)]
  BY WalkIs
<1>2. PICK w : Walked(N, list, h, w) /\ Walk(list, h) = w[Len(list)]
  BY WalkIs
<1> DEFINE Good == {i \in Nat : i <= Len(list) => v[i] = w[i]}
<1>3. Nat \subseteq Good
  <2>1. 0 \in Good
    BY <1>1, <1>2 DEF Walked
  <2>2. ASSUME NEW i \in Nat, i \in Good PROVE i + 1 \in Good
    <3> SUFFICES ASSUME i + 1 <= Len(list) PROVE v[i + 1] = w[i + 1]
      OBVIOUS
    <3>1. i + 1 \in 1..Len(list) /\ (i + 1) - 1 = i /\ v[i] = w[i]
      BY <2>2
    <3>2. v[i + 1] = v[i] \o <<list[i + 1]>> \o g[list[i + 1]]
      BY <3>1, <1>1 DEF Walked
    <3>3. w[i + 1] = w[i] \o <<list[i + 1]>> \o h[list[i + 1]]
      BY <3>1, <1>2 DEF Walked
    <3>4. h[list[i + 1]] = g[list[i + 1]]
      BY <3>1
    <3> QED BY <3>1, <3>2, <3>3, <3>4
  <2> HIDE DEF Good
  <2> QED BY <2>1, <2>2, SetInduction
<1>4. Len(list) \in Good /\ Len(list) \in Nat
  BY <1>3
<1> QED BY <1>1, <1>2, <1>4
\* No word is longer than some number.
LEMMA WordsBounded ==
    ASSUME NEW nodes, NEW roots, NEW W, Linked(nodes, roots), Worded(nodes, W)
    PROVE  \E h \in Nat : \A p \in 0..Len(nodes) : Len(W[p]) <= h
<1> DEFINE Good == {m \in Nat : m <= Len(nodes) =>
                       \E h \in Nat : \A p \in 0..m : Len(W[p]) <= h}
<1>1. Len(nodes) \in Nat /\ \A p \in 0..Len(nodes) : Len(W[p]) \in Nat
  BY WordFacts
<1>2. Nat \subseteq Good
  <2>1. 0 \in Good
    <3>1. \A p \in 0..0 : Len(W[p]) <= Len(W[0])
      <4>1. Len(W[0]) \in Nat /\ \A p \in 0..0 : p = 0
        BY <1>1
      <4> QED BY <4>1
    <3>2. Len(W[0]) \in Nat
      BY <1>1
    <3> QED BY <3>1, <3>2
  <2>2. ASSUME NEW m \in Nat, m \in Good PROVE m + 1 \in Good
    <3> SUFFICES ASSUME m + 1 <= Len(nodes)
                 PROVE  \E h \in Nat : \A p \in 0..(m + 1) : Len(W[p]) <= h
      OBVIOUS
    <3>1. PICK h \in Nat : \A p \in 0..m : Len(W[p]) <= h
      BY <2>2, <1>1
    <3> DEFINE l == Len(W[m + 1])
    <3>2. l \in Nat
      BY <1>1
    <3> HIDE DEF l
    <3>3. h + l \in Nat /\ l <= h + l
      BY <3>2
    <3>4. ASSUME NEW p \in 0..(m + 1) PROVE Len(W[p]) <= h + l
      <4>1. CASE p = m + 1
        BY <4>1, <3>3 DEF l
      <4>2. CASE p # m + 1
        <5>1. p \in 0..m /\ p \in 0..Len(nodes)
          BY <4>2, <1>1
        <5> DEFINE q == Len(W[p])
        <5>2. q \in Nat /\ q <= h
          BY <5>1, <1>1, <3>1
        <5> HIDE DEF q
        <5>3. q <= h + l
          BY <5>2, <3>2
        <5> QED BY <5>3 DEF q
      <4> QED BY <4>1, <4>2
    <3> QED BY <3>3, <3>4
  <2> HIDE DEF Good
  <2> QED BY <2>1, <2>2, SetInduction
<1>3. Len(nodes) \in Good
  BY <1>1, <1>2
<1> QED BY <1>1, <1>3

\* How far a node is from the end of the longest word.
Depths(nodes, W) ==
    {size \in [0..Len(nodes) -> Nat] :
        \A c \in DOMAIN nodes : size[c] < size[nodes[c].prev]}

LEMMA SomeDepths ==
    ASSUME NEW nodes, NEW roots, NEW W, Linked(nodes, roots), Worded(nodes, W)
    PROVE  Depths(nodes, W) # {}
<1>1. PICK h \in Nat : \A p \in 0..Len(nodes) : Len(W[p]) <= h
  BY WordsBounded
<1> DEFINE size == [p \in 0..Len(nodes) |-> h - Len(W[p])]
<1>2. ASSUME NEW p \in 0..Len(nodes) PROVE h - Len(W[p]) \in Nat
  <2>1. Len(W[p]) \in Nat
    BY WordFacts
  <2> DEFINE l == Len(W[p])
  <2>2. l \in Nat /\ l <= h
    BY <1>1, <2>1
  <2> HIDE DEF l
  <2>3. h - l \in Nat
    BY <2>2
  <2> QED BY <2>3 DEF l
<1>3. size \in [0..Len(nodes) -> Nat]
  BY <1>2
<1>4. ASSUME NEW c \in DOMAIN nodes PROVE size[c] < size[nodes[c].prev]
  <2> DEFINE a == Len(W[nodes[c].prev])
             b == Len(W[c])
  <2>1. c \in 0..Len(nodes) /\ nodes[c].prev \in 0..Len(nodes) /\ a \in Nat /\ b \in Nat /\ a < b
    BY WordFacts
  <2>2. size[c] = h - b /\ size[nodes[c].prev] = h - a
    BY <2>1
  <2> HIDE DEF a, b, size
  <2> QED BY <2>1, <2>2
<1> HIDE DEF size
<1> QED BY <1>3, <1>4 DEF Depths

\* What is below the nodes, and what is below each is what a walk over its
\* children makes of it.
LEMMA BelowIs ==
    ASSUME NEW t, NEW W, Linked(t.nodes, t.uri_id), Worded(t.nodes, W)
    PROVE  \A n \in 0..Len(t.nodes) :
              /\ Kids(t.nodes, t.uri_id, n) \in Seq(DOMAIN t.nodes)
              /\ Below(t)[n] \in Seq(DOMAIN t.nodes)
              /\ Below(t)[n] = Walk(Kids(t.nodes, t.uri_id, n), Below(t))
<1> DEFINE nodes == t.nodes
           D == 0..Len(nodes)
           N == DOMAIN nodes
           S == Seq(N)
           kids(n) == Kids(nodes, t.uri_id, n)
           step == [g \in [D -> S] |-> [n \in D |-> Walk(kids(n), g)]]
<1>1. PICK size \in [D -> Nat] : \A c \in N : size[c] < size[nodes[c].prev]
  BY SomeDepths DEF Depths
<1>2. Len(nodes) \in Nat /\ N = 1..Len(nodes) /\ {NoNode} \cup N = D /\ N \subseteq D
  <2>1. Len(nodes) \in Nat /\ N = 1..Len(nodes)
    BY WordFacts
  <2> QED BY <2>1 DEF NoNode
<1>3. \A n \in D : kids(n) \in S
  BY <1>2 DEF Kids, Linked, NoNode
<1>4. ASSUME NEW n \in D, NEW i \in 1..Len(kids(n))
      PROVE  kids(n)[i] \in N /\ size[kids(n)[i]] < size[n]
  <2>1. kids(n)[i] \in N /\ kids(n)[i] \in Range(kids(n))
    BY <1>3 DEF Range
  <2> DEFINE c == kids(n)[i]
  <2> HIDE DEF c
  <2>2. c \in N /\ nodes[c].prev = n
    BY <2>1 DEF Linked, c
  <2> QED BY <2>2, <1>1 DEF c
<1> HIDE DEF kids, N
<1>5. ASSUME NEW g \in [D -> S], NEW n \in D PROVE Walk(kids(n), g) \in S
  <2>1. kids(n) \in Seq(N) /\ \A i \in 1..Len(kids(n)) : g[kids(n)[i]] \in Seq(N)
    BY <1>2, <1>3, <1>4
  <2>2. PICK w : Walked(N, kids(n), g, w) /\ Walk(kids(n), g) = w[Len(kids(n))]
    BY <2>1, WalkIs
  <2>3. Len(kids(n)) \in 0..Len(kids(n))
    BY <2>1
  <2> QED BY <2>2, <2>3 DEF Walked
<1>6. step \in [[D -> S] -> [D -> S]]
  BY <1>5
<1>7. ASSUME NEW g \in [D -> S], NEW h \in [D -> S], NEW n \in D,
             \A m \in D : size[m] < size[n] => g[m] = h[m]
      PROVE  step[g][n] = step[h][n]
  <2>1. kids(n) \in Seq(N)
    BY <1>3
  <2>2. \A i \in 1..Len(kids(n)) : g[kids(n)[i]] \in Seq(N) /\ h[kids(n)[i]] = g[kids(n)[i]]
    BY <1>2, <1>4, <1>7
  <2>3. Walk(kids(n), g) = Walk(kids(n), h)
    BY <2>1, <2>2, WalkSame
  <2> QED BY <2>3
<1>8. Fixed(D, S, step) # {}
  <2>1. S # {}
    <3>1. <<>> \in S
      OBVIOUS
    <3> QED BY <3>1
  <2> HIDE DEF step, D, S
  <2>2. Grounded(D, S, size, step)
    BY <2>1, <1>1, <1>6, <1>7 DEF Grounded
  <2> QED BY <2>2, SizeRecursion, Zenon
<1> DEFINE Solves(f) == f = [n \in D |-> Walk(kids(n), f)]
<1>9. \E f : Solves(f)
  <2>1. PICK f \in [D -> S] : f = step[f]
    <3> HIDE DEF step, D, S
    <3> QED BY <1>8 DEF Fixed
  <2>2. step[f] = [n \in D |-> Walk(kids(n), f)]
    BY <2>1
  <2> QED BY <2>1, <2>2
<1>10. Below(t) = CHOOSE f : Solves(f)
  BY <1>2 DEF Below, kids, N
<1>11. Solves(Below(t))
  <2> HIDE DEF Solves
  <2> QED BY <1>9, <1>10
<1> DEFINE b == Below(t)
<1> HIDE DEF b
<1>12. \A n \in D : b[n] = Walk(kids(n), b)
  BY <1>11 DEF b
<1> DEFINE Good == {k \in Nat : \A n \in D : size[n] < k => b[n] \in S}
<1>13. Nat \subseteq Good
  <2>1. 0 \in Good
    OBVIOUS
  <2>2. ASSUME NEW k \in Nat, k \in Good PROVE k + 1 \in Good
    <3> SUFFICES ASSUME NEW n \in D, size[n] < k + 1 PROVE b[n] \in S
      OBVIOUS
    <3>1. kids(n) \in Seq(N)
      BY <1>3
    <3>2. ASSUME NEW i \in 1..Len(kids(n)) PROVE b[kids(n)[i]] \in Seq(N)
      <4>1. kids(n)[i] \in D /\ size[kids(n)[i]] < size[n]
        BY <1>2, <1>4
      <4>2. size[kids(n)[i]] < k
        BY <4>1
      <4> QED BY <4>1, <4>2, <2>2
    <3>3. PICK w : Walked(N, kids(n), b, w) /\ Walk(kids(n), b) = w[Len(kids(n))]
      BY <3>1, <3>2, WalkIs
    <3>4. Len(kids(n)) \in 0..Len(kids(n))
      BY <3>1
    <3> QED BY <1>12, <3>3, <3>4 DEF Walked
  <2> HIDE DEF Good
  <2> QED BY <2>1, <2>2, SetInduction
<1>14. \A n \in D : b[n] \in S
  <2> TAKE n \in D
  <2>1. size[n] + 1 \in Good /\ size[n] < size[n] + 1
    BY <1>13
  <2> QED BY <2>1
<1> QED BY <1>3, <1>12, <1>14 DEF b, kids, N

LEMMA PreorderIs ==
    ASSUME NEW L, Tree(trie, L)
    PROVE  Preorder \in Seq(DOMAIN trie.nodes)
<1>1. PICK W : KeyTree(trie.nodes, trie.uri_id, W, L)
  BY DEF Tree
<1>2. Linked(trie.nodes, trie.uri_id) /\ Worded(trie.nodes, W)
  BY <1>1 DEF KeyTree
<1>3. NoNode \in 0..Len(trie.nodes)
  BY <1>2, WordFacts DEF NoNode
<1> QED BY <1>2, <1>3, BelowIs DEF Preorder

\* g[i] is what is kept of the first i elements of list.
KeptBy(N, list, S, g) ==
    /\ g \in [0..Len(list) -> Seq(N \cap S)] /\ g[0] = <<>>
    /\ \A i \in 1..Len(list) :
          g[i] = IF list[i] \in S THEN Append(g[i - 1], list[i]) ELSE g[i - 1]

LEMMA KeptIs ==
    ASSUME NEW N, NEW list \in Seq(N), NEW S
    PROVE  \E g : KeptBy(N, list, S, g) /\ Kept(list, S) = g[Len(list)]
<1> DEFINE D == 0..Len(list)
           T == Seq(N \cap S)
           Body(g, i) == IF i = 0 THEN <<>>
                         ELSE IF list[i] \in S THEN Append(g[i - 1], list[i]) ELSE g[i - 1]
           size == [i \in D |-> i]
           step == [g \in [D -> T] |-> [i \in D |-> Body(g, i)]]
<1>1. \A i \in D : i \in Nat /\ (i # 0 => i - 1 \in D /\ i - 1 < i /\ i \in 1..Len(list))
  OBVIOUS
<1>2. ASSUME NEW s \in T, NEW i \in 1..Len(list), list[i] \in S PROVE Append(s, list[i]) \in T
  BY <1>2
<1>3. <<>> \in T
  OBVIOUS
<1> HIDE DEF T
<1>4. ASSUME NEW g \in [D -> T], NEW i \in D PROVE Body(g, i) \in T
  BY <1>1, <1>2, <1>3
<1>5. size \in [D -> Nat]
  BY <1>1
<1>6. step \in [[D -> T] -> [D -> T]]
  <2> HIDE DEF Body
  <2> QED BY <1>4
<1>7. ASSUME NEW g \in [D -> T], NEW h \in [D -> T], NEW i \in D,
             \A j \in D : size[j] < size[i] => g[j] = h[j]
      PROVE  step[g][i] = step[h][i]
  <2>1. i # 0 => g[i - 1] = h[i - 1]
    BY <1>1, <1>7
  <2>2. Body(g, i) = Body(h, i)
    BY <2>1
  <2> HIDE DEF Body
  <2> QED BY <2>2
<1>8. Fixed(D, T, step) # {}
  <2> HIDE DEF step, size, D
  <2>1. Grounded(D, T, size, step)
    BY <1>3, <1>5, <1>6, <1>7 DEF Grounded
  <2> QED BY <2>1, SizeRecursion, Zenon
<1> DEFINE Solves(f) == f = [i \in D |-> Body(f, i)]
<1>9. \E f : Solves(f)
  <2>1. PICK f \in [D -> T] : f = step[f]
    <3> HIDE DEF step, D
    <3> QED BY <1>8 DEF Fixed
  <2>2. step[f] = [i \in D |-> Body(f, i)]
    <3> HIDE DEF Body
    <3> QED BY <2>1
  <2> QED BY <2>1, <2>2
<1> DEFINE w == CHOOSE f : Solves(f)
<1>10. Kept(list, S) = w[Len(list)]
  BY DEF Kept
<1>11. Solves(w)
  <2> HIDE DEF Solves
  <2> QED BY <1>9
<1> HIDE DEF w
<1>12. \A i \in D : w[i] = Body(w, i)
  <2> HIDE DEF Body
  <2> QED BY <1>11
<1> DEFINE Good == {i \in Nat : i <= Len(list) => w[i] \in T}
<1>13. Nat \subseteq Good
  <2>1. 0 \in Good
    <3>1. 0 \in D
      OBVIOUS
    <3> QED BY <3>1, <1>3, <1>12
  <2>2. ASSUME NEW i \in Nat, i \in Good PROVE i + 1 \in Good
    <3> SUFFICES ASSUME i + 1 <= Len(list) PROVE w[i + 1] \in T
      OBVIOUS
    <3>1. i + 1 \in 1..Len(list) /\ (i + 1) - 1 = i /\ w[i] \in T /\ i + 1 \in D /\ i + 1 # 0
      BY <2>2
    <3> QED BY <3>1, <1>2, <1>12
  <2> HIDE DEF Good
  <2> QED BY <2>1, <2>2, SetInduction
<1>14. w \in [D -> T]
  <2>1. \A i \in D : w[i] \in T
    BY <1>1, <1>13
  <2> HIDE DEF D, Body
  <2>2. w = [i \in D |-> w[i]]
    BY <1>11
  <2> QED BY <2>1, <2>2
<1>15. KeptBy(N, list, S, w)
  <2>1. \A i \in 1..Len(list) : i \in D /\ i # 0
    OBVIOUS
  <2>2. 0 \in D
    OBVIOUS
  <2> QED BY <2>1, <2>2, <1>12, <1>14 DEF KeptBy, T
<1> QED BY <1>10, <1>15
LEMMA KeptExact ==
    ASSUME NEW N, NEW list \in Seq(N), NEW S
    PROVE  /\ Kept(list, S) \in Seq(N \cap S)
           /\ \A x : x \in Range(Kept(list, S)) <=> x \in Range(list) /\ x \in S
           /\ Once(list) => Once(Kept(list, S))
<1>1. PICK g : KeptBy(N, list, S, g) /\ Kept(list, S) = g[Len(list)]
  BY KeptIs
<1> DEFINE T == N \cap S
           Right(n) == /\ g[n] \in Seq(T)
                       /\ \A x : x \in Range(g[n]) <=> x \in S /\ \E i \in 1..n : x = list[i]
                       /\ Once(list) => Once(g[n])
           Good == {n \in Nat : n <= Len(list) => Right(n)}
<1>2. 0 \in Good
  <2>1. g[0] = <<>> /\ <<>> \in Seq(T) /\ Len(<<>>) = 0 /\ Range(<<>>) = {} /\ 1..0 = {}
    BY <1>1 DEF KeptBy, Range
  <2>2. Once(g[0])
    BY <2>1 DEF Once
  <2> QED BY <2>1, <2>2
<1>3. ASSUME NEW n \in Nat, n \in Good PROVE n + 1 \in Good
  <2> SUFFICES ASSUME n + 1 <= Len(list) PROVE Right(n + 1)
    <3> HIDE DEF Right
    <3> QED OBVIOUS
  <2> DEFINE c == list[n + 1]
             s == g[n]
  <2>1. /\ n + 1 \in 1..Len(list) /\ (n + 1) - 1 = n /\ n <= Len(list) /\ c \in N
        /\ \A i \in 1..n : i \in 1..Len(list) /\ i # n + 1
        /\ \A i \in 1..(n + 1) : i \in 1..n \/ i = n + 1
        /\ \A i \in 1..n : i \in 1..(n + 1)
        /\ n + 1 \in 1..(n + 1)
    OBVIOUS
  <2>2. Right(n)
    <3> HIDE DEF Right
    <3> QED BY <2>1, <1>3
  <2>3. g[n + 1] = IF c \in S THEN Append(s, c) ELSE s
    BY <2>1, <1>1 DEF KeptBy
  <2>4. CASE c \notin S
    <3>1. g[n + 1] = s
      BY <2>3, <2>4
    <3>2. ASSUME NEW x PROVE x \in Range(s) <=> x \in S /\ \E i \in 1..(n + 1) : x = list[i]
      BY <2>1, <2>2, <2>4
    <3> QED BY <3>1, <3>2, <2>2
  <2>5. CASE c \in S
    <3>1. g[n + 1] = Append(s, c) /\ s \in Seq(T) /\ c \in T
      BY <2>1, <2>2, <2>3, <2>5
    <3>2. Append(s, c) \in Seq(T) /\ \A y : y \in Range(Append(s, c)) <=> y \in Range(s) \/ y = c
      <4> HIDE DEF s, T, c
      <4> QED BY <3>1, RangeOfAppend
    <3>3. ASSUME NEW x PROVE x \in Range(g[n + 1]) <=> x \in S /\ \E i \in 1..(n + 1) : x = list[i]
      BY <2>1, <2>2, <2>5, <3>1, <3>2
    <3>4. ASSUME Once(list) PROVE Once(g[n + 1])
      <4>1. c \notin Range(s)
        BY <2>1, <2>2, <3>4 DEF Once
      <4>2. Once(s)
        BY <2>2, <3>4
      <4> HIDE DEF s, c, T
      <4>3. Once(Append(s, c))
        BY <3>1, <4>1, <4>2, OnceAppend
      <4> QED BY <3>1, <4>3
    <3> QED BY <3>1, <3>2, <3>3, <3>4
  <2> QED BY <2>4, <2>5
<1>4. Nat \subseteq Good
  <2> HIDE DEF Good
  <2> QED BY <1>2, <1>3, SetInduction
<1>5. Right(Len(list))
  <2> HIDE DEF Right
  <2>1. Len(list) \in Nat /\ Len(list) <= Len(list)
    OBVIOUS
  <2> QED BY <2>1, <1>4
<1>6. \A x : x \in Range(list) <=> \E i \in 1..Len(list) : x = list[i]
  <2>1. DOMAIN list = 1..Len(list)
    OBVIOUS
  <2> QED BY <2>1 DEF Range
<1> QED BY <1>1, <1>5, <1>6

-----------------------------------------------------------------------------
(* The key a search finds *)

\* FirstKey is a key of the list, 0 only if they all are.
LEMMA FirstKeyIs ==
    ASSUME NEW keys \in Seq(Nat)
    PROVE  \/ FirstKey(keys) = 0 /\ \A i \in 1..Len(keys) : keys[i] = 0
           \/ \E i \in 1..Len(keys) : keys[i] # 0 /\ FirstKey(keys) = keys[i]
<1> DEFINE D == 0..Len(keys)
           Body(g, i) == IF i = 0 THEN 0 ELSE IF g[i - 1] # 0 THEN g[i - 1] ELSE keys[i]
           size == [i \in D |-> i]
           step == [g \in [D -> Nat] |-> [i \in D |-> Body(g, i)]]
<1>1. \A i \in D : i \in Nat /\ (i # 0 => i - 1 \in D /\ i - 1 < i /\ i \in 1..Len(keys))
  OBVIOUS
<1>2. ASSUME NEW g \in [D -> Nat], NEW i \in D PROVE Body(g, i) \in Nat
  BY <1>1
<1>3. size \in [D -> Nat]
  BY <1>1
<1>4. step \in [[D -> Nat] -> [D -> Nat]]
  <2> HIDE DEF Body
  <2> QED BY <1>2
<1>5. ASSUME NEW g \in [D -> Nat], NEW h \in [D -> Nat], NEW i \in D,
             \A j \in D : size[j] < size[i] => g[j] = h[j]
      PROVE  step[g][i] = step[h][i]
  <2>1. i # 0 => g[i - 1] = h[i - 1]
    BY <1>1, <1>5
  <2>2. Body(g, i) = Body(h, i)
    BY <2>1
  <2> HIDE DEF Body
  <2> QED BY <2>2
<1>6. Fixed(D, Nat, step) # {}
  <2>0. Nat # {}
    OBVIOUS
  <2> HIDE DEF step, size, D
  <2>1. Grounded(D, Nat, size, step)
    BY <2>0, <1>3, <1>4, <1>5 DEF Grounded
  <2> QED BY <2>1, SizeRecursion, Zenon
<1> DEFINE Solves(f) == f = [i \in D |-> Body(f, i)]
<1>7. \E f : Solves(f)
  <2>1. PICK f \in [D -> Nat] : f = step[f]
    <3> HIDE DEF step, D
    <3> QED BY <1>6 DEF Fixed
  <2>2. step[f] = [i \in D |-> Body(f, i)]
    <3> HIDE DEF Body
    <3> QED BY <2>1
  <2> QED BY <2>1, <2>2
<1> DEFINE w == CHOOSE f : Solves(f)
<1>8. FirstKey(keys) = w[Len(keys)]
  BY DEF FirstKey
<1>9. Solves(w)
  <2> HIDE DEF Solves
  <2> QED BY <1>7
<1> HIDE DEF w
<1>10. \A i \in D : w[i] = Body(w, i)
  <2> HIDE DEF Body
  <2> QED BY <1>9
<1> DEFINE Good == {n \in Nat : n <= Len(keys) =>
                       \/ w[n] = 0 /\ \A i \in 1..n : keys[i] = 0
                       \/ \E i \in 1..n : keys[i] # 0 /\ w[n] = keys[i]}
<1>11. Nat \subseteq Good
  <2>1. 0 \in Good
    <3>1. 0 \in D
      OBVIOUS
    <3> QED BY <3>1, <1>10
  <2>2. ASSUME NEW n \in Nat, n \in Good PROVE n + 1 \in Good
    <3> SUFFICES ASSUME n + 1 <= Len(keys)
                 PROVE  \/ w[n + 1] = 0 /\ \A i \in 1..(n + 1) : keys[i] = 0
                        \/ \E i \in 1..(n + 1) : keys[i] # 0 /\ w[n + 1] = keys[i]
      OBVIOUS
    <3>1. n + 1 \in D /\ n + 1 # 0 /\ (n + 1) - 1 = n /\ n + 1 \in 1..(n + 1)
      OBVIOUS
    <3>2. \A i \in 1..(n + 1) : i = n + 1 \/ i \in 1..n
      OBVIOUS
    <3>3. \A i \in 1..n : i \in 1..(n + 1)
      OBVIOUS
    <3>4. w[n + 1] = IF w[n] # 0 THEN w[n] ELSE keys[n + 1]
      BY <3>1, <1>10
    <3>5. \/ w[n] = 0 /\ \A i \in 1..n : keys[i] = 0
          \/ \E i \in 1..n : keys[i] # 0 /\ w[n] = keys[i]
      BY <2>2
    <3> HIDE DEF D, Good
    <3> QED BY <3>1, <3>2, <3>3, <3>4, <3>5
  <2> HIDE DEF Good
  <2> QED BY <2>1, <2>2, SetInduction
<1>12. Len(keys) \in Nat /\ Len(keys) \in Good
  BY <1>11
<1> QED BY <1>8, <1>12

\* The key a search finds at node n of t, and below.
KeyHere(t, uri, get, n, d) ==
    LET label == t.nodes[n].uri
        at == d + Len(label)
    IN  IF label = <<>> \/ ~IsPrefix(label, From(uri, d)) THEN 0
        ELSE IF at < Len(uri) THEN get[<<t.nodes[n].next, at>>]
        ELSE IF t.nodes[n].leaf = NoLeaf THEN 0 ELSE t.id[t.nodes[n].leaf]

KeysHere(t, uri, get, x) == [i \in DOMAIN x[1] |-> KeyHere(t, uri, get, x[1][i], x[2])]

LEMMA KeyHereFacts ==
    ASSUME NEW t, NEW L, Tree(t, L), NEW uri \in Seq(Char),
           NEW d \in 0..Len(uri), NEW n \in DOMAIN t.nodes,
           NEW g, NEW h,
           \A y \in Place(t.nodes, uri) : g[y] \in Nat,
           \A y \in Place(t.nodes, uri) : Len(uri) - y[2] < Len(uri) - d => g[y] = h[y]
    PROVE  /\ KeyHere(t, uri, g, n, d) \in Nat
           /\ KeyHere(t, uri, g, n, d) = KeyHere(t, uri, h, n, d)
<1> DEFINE nodes == t.nodes
           at == d + Len(nodes[n].uri)
<1>1. /\ nodes[n].uri \in Seq(Char) /\ nodes[n].next \in Seq(DOMAIN nodes)
      /\ nodes[n].leaf # NoLeaf => t.id[nodes[n].leaf] \in Nat
  <2>1. PICK W : KeyTree(nodes, t.uri_id, W, L)
    BY DEF Tree
  <2>2. Linked(nodes, t.uri_id) /\ Leafed(nodes, W, L)
    BY <2>1 DEF KeyTree
  <2>3. nodes[n] \in Node /\ nodes[n].next \in Seq(DOMAIN nodes)
    BY <2>2 DEF Linked
  <2>4. nodes[n].leaf # NoLeaf => nodes[n].leaf \in DOMAIN L
    BY <2>2 DEF Leafed
  <2>5. DOMAIN L = 1..Len(t.id) /\ t.id \in Seq(Nat)
    BY TreeLeaves
  <2> HIDE DEF nodes
  <2>6. nodes[n].leaf \in 1..Len(t.id) => t.id[nodes[n].leaf] \in Nat
    BY <2>5
  <2> QED BY <2>3, <2>4, <2>5, <2>6 DEF Node
<1>2. CASE nodes[n].uri = <<>> \/ ~IsPrefix(nodes[n].uri, From(uri, d))
  BY <1>2 DEF KeyHere
<1>3. CASE ~(nodes[n].uri = <<>> \/ ~IsPrefix(nodes[n].uri, From(uri, d)))
  <2>1. at \in 0..Len(uri) /\ d < at
    BY <1>1, <1>3, FitsIs
  <2>2. <<nodes[n].next, at>> \in Place(nodes, uri)
    BY <1>1, <2>1 DEF Place
  <2>3. Len(uri) - at < Len(uri) - d
    <3>1. Len(uri) \in Nat /\ d \in Nat /\ at \in Nat
      BY <2>1
    <3> HIDE DEF at
    <3> QED BY <2>1, <3>1
  <2>4. g[<<nodes[n].next, at>>] \in Nat /\ g[<<nodes[n].next, at>>] = h[<<nodes[n].next, at>>]
    BY <2>2, <2>3
  <2> QED BY <1>1, <1>3, <2>4 DEF KeyHere
<1> QED BY <1>2, <1>3

\* GetFrom is what its definition says.
LEMMA GetFromIs ==
    ASSUME NEW t, NEW L, Tree(t, L), NEW uri \in Seq(Char)
    PROVE  \A x \in Place(t.nodes, uri) :
              /\ KeysHere(t, uri, GetFrom(t, uri), x) \in Seq(Nat)
              /\ GetFrom(t, uri)[x] = FirstKey(KeysHere(t, uri, GetFrom(t, uri), x))
<1> DEFINE D == Place(t.nodes, uri)
           size == [y \in D |-> Len(uri) - y[2]]
           Body(g, x) == FirstKey(KeysHere(t, uri, g, x))
           step == [g \in [D -> Nat] |-> [y \in D |-> Body(g, y)]]
<1>1. ASSUME NEW x \in D
      PROVE  /\ x[2] \in 0..Len(uri) /\ x[1] \in Seq(DOMAIN t.nodes)
             /\ \A i \in DOMAIN x[1] : x[1][i] \in DOMAIN t.nodes
  BY DEF Place
<1>2. size \in [D -> Nat]
  BY <1>1
<1>3. ASSUME NEW g, \A y \in D : g[y] \in Nat, NEW x \in D
      PROVE  KeysHere(t, uri, g, x) \in Seq(Nat)
  <2>1. ASSUME NEW i \in DOMAIN x[1] PROVE KeyHere(t, uri, g, x[1][i], x[2]) \in Nat
    BY <1>1, <1>3, KeyHereFacts
  <2>2. DOMAIN x[1] = 1..Len(x[1]) /\ Len(x[1]) \in Nat
    BY <1>1
  <2> QED BY <2>1, <2>2 DEF KeysHere
<1>4. ASSUME NEW g, \A y \in D : g[y] \in Nat, NEW x \in D PROVE Body(g, x) \in Nat
  <2> DEFINE keys == KeysHere(t, uri, g, x)
  <2>1. keys \in Seq(Nat)
    BY <1>3, <1>4
  <2> HIDE DEF keys
  <2>2. FirstKey(keys) \in Nat
    BY <2>1, FirstKeyIs
  <2> QED BY <2>2 DEF keys
<1>5. step \in [[D -> Nat] -> [D -> Nat]]
  <2> HIDE DEF Body
  <2> QED BY <1>4
<1>6. ASSUME NEW g, NEW h, \A y \in D : g[y] \in Nat, NEW x \in D,
             \A z \in D : size[z] < size[x] => g[z] = h[z]
      PROVE  Body(g, x) = Body(h, x)
  <2>1. \A z \in D : Len(uri) - z[2] < Len(uri) - x[2] => g[z] = h[z]
    BY <1>6
  <2>2. ASSUME NEW i \in DOMAIN x[1]
        PROVE  KeyHere(t, uri, g, x[1][i], x[2]) = KeyHere(t, uri, h, x[1][i], x[2])
    <3> DEFINE n == x[1][i]
               d == x[2]
    <3>1. n \in DOMAIN t.nodes /\ d \in 0..Len(uri)
      BY <1>1
    <3>2. \A z \in Place(t.nodes, uri) : g[z] \in Nat
      BY <1>6
    <3>3. \A z \in Place(t.nodes, uri) : Len(uri) - z[2] < Len(uri) - d => g[z] = h[z]
      BY <2>1
    <3> HIDE DEF size, step, n, d, D
    <3>4. KeyHere(t, uri, g, n, d) = KeyHere(t, uri, h, n, d)
      BY <3>1, <3>2, <3>3, KeyHereFacts
    <3> QED BY <3>4 DEF n, d
  <2>3. KeysHere(t, uri, g, x) = KeysHere(t, uri, h, x)
    BY <2>2 DEF KeysHere
  <2> QED BY <2>3
<1>7. Fixed(D, Nat, step) # {}
  <2>0. Nat # {}
    OBVIOUS
  <2>1. \A g, h \in [D -> Nat] : \A x \in D :
           (\A y \in D : size[y] < size[x] => g[y] = h[y]) => step[g][x] = step[h][x]
    <3> SUFFICES ASSUME NEW g \in [D -> Nat], NEW h \in [D -> Nat], NEW x \in D,
                        \A y \in D : size[y] < size[x] => g[y] = h[y]
                 PROVE  Body(g, x) = Body(h, x)
      <4> HIDE DEF Body, size
      <4> QED OBVIOUS
    <3> HIDE DEF Body, size, D
    <3>1. \A y \in D : g[y] \in Nat
      OBVIOUS
    <3> QED BY <3>1, <1>6
  <2> HIDE DEF step, size, D
  <2>2. Grounded(D, Nat, size, step)
    BY <2>0, <2>1, <1>2, <1>5 DEF Grounded
  <2> QED BY <2>2, SizeRecursion, Zenon
<1> DEFINE Solves(f) == f = [y \in D |-> Body(f, y)]
<1>8. \E f : Solves(f)
  <2>1. PICK f \in [D -> Nat] : f = step[f]
    <3> HIDE DEF step, D
    <3> QED BY <1>7 DEF Fixed
  <2>2. step[f] = [y \in D |-> Body(f, y)]
    <3> HIDE DEF Body
    <3> QED BY <2>1
  <2> QED BY <2>1, <2>2
<1>9. GetFrom(t, uri) = CHOOSE f : Solves(f)
  BY DEF GetFrom, KeysHere, KeyHere
<1>10. Solves(GetFrom(t, uri))
  <2> HIDE DEF Solves
  <2> QED BY <1>8, <1>9
<1> DEFINE f == GetFrom(t, uri)
<1> HIDE DEF f
<1>11. \A x \in D : f[x] = Body(f, x)
  <2> HIDE DEF Body
  <2> QED BY <1>10 DEF f
<1>12. PICK e \in [D -> Nat] : \A x \in D : e[x] = Body(e, x)
  <2>1. PICK e \in [D -> Nat] : e = step[e]
    <3> HIDE DEF step, D
    <3> QED BY <1>7 DEF Fixed
  <2>2. step[e] = [y \in D |-> Body(e, y)]
    <3> HIDE DEF Body
    <3> QED BY <2>1
  <2> HIDE DEF Body, step
  <2> QED BY <2>1, <2>2
<1> DEFINE Good == {k \in Nat : \A x \in D : size[x] < k => f[x] = e[x]}
<1>13. Nat \subseteq Good
  <2>1. 0 \in Good
    BY <1>2
  <2>2. ASSUME NEW k \in Nat, k \in Good PROVE k + 1 \in Good
    <3> SUFFICES ASSUME NEW x \in D, size[x] < k + 1 PROVE f[x] = e[x]
      OBVIOUS
    <3>1. ASSUME NEW y \in D, size[y] < size[x] PROVE e[y] = f[y]
      <4> HIDE DEF size, D
      <4>1. size[y] \in Nat /\ size[x] \in Nat
        BY <1>2
      <4>2. size[y] < k
        BY <3>1, <4>1
      <4> QED BY <4>2, <2>2
    <3>2. \A y \in D : e[y] \in Nat
      OBVIOUS
    <3> HIDE DEF Body, size, D
    <3>3. Body(e, x) = Body(f, x)
      BY <3>1, <3>2, <1>6
    <3> QED BY <3>3, <1>11, <1>12
  <2> HIDE DEF Good
  <2> QED BY <2>1, <2>2, SetInduction
<1>14. \A x \in D : f[x] \in Nat
  <2> TAKE x \in D
  <2> HIDE DEF size, D
  <2>1. size[x] + 1 \in Good /\ size[x] < size[x] + 1
    BY <1>2, <1>13
  <2>2. f[x] = e[x]
    BY <2>1
  <2> QED BY <2>2
<1>15. \A x \in D : KeysHere(t, uri, f, x) \in Seq(Nat)
  BY <1>3, <1>14
<1> QED BY <1>11, <1>15 DEF f
\* k is the key in leaves, if there are any.
IsKey(t, leaves, k) == (leaves = {} => k = 0) /\ \A l \in leaves : k = t.id[l]

\* What a search finds at a child.
LEMMA KeyAtChild ==
    ASSUME NEW t, NEW W, Linked(t.nodes, t.uri_id), Worded(t.nodes, W),
           NEW uri \in Seq(Char), NEW c \in DOMAIN t.nodes, NEW get,
           Starts(W[t.nodes[c].prev], uri),
           NEW leaves, leaves = LeavesWith(t.nodes, W, uri),
           Starts(W[c], uri) /\ Len(W[c]) < Len(uri) =>
               IsKey(t, leaves, get[<<t.nodes[c].next, Len(W[c])>>])
    PROVE  /\ ~Starts(W[c], uri) => KeyHere(t, uri, get, c, Len(W[t.nodes[c].prev])) = 0
           /\ Starts(W[c], uri) =>
                  IsKey(t, leaves, KeyHere(t, uri, get, c, Len(W[t.nodes[c].prev])))
<1> DEFINE nodes == t.nodes
           p == nodes[c].prev
           d == Len(W[p])
           key == KeyHere(t, uri, get, c, d)
<1>1. /\ nodes[c].uri \in Seq(Char) /\ nodes[c].uri # <<>>
      /\ d + Len(nodes[c].uri) = Len(W[c])
      /\ IsPrefix(nodes[c].uri, From(uri, d)) <=> Starts(W[c], uri)
  BY FitsWord
<1>2. c \in 0..Len(nodes) /\ W[c] \in Seq(Char) /\ Len(W[c]) \in Nat /\ Len(uri) \in Nat
  BY WordFacts
<1>3. key = IF ~Starts(W[c], uri) THEN 0
            ELSE IF Len(W[c]) < Len(uri) THEN get[<<nodes[c].next, Len(W[c])>>]
            ELSE IF nodes[c].leaf = NoLeaf THEN 0 ELSE t.id[nodes[c].leaf]
  BY <1>1 DEF KeyHere
<1>4. ASSUME Starts(W[c], uri), ~(Len(W[c]) < Len(uri)) PROVE IsKey(t, leaves, key)
  <2>1. Len(W[c]) = Len(uri)
    BY <1>2, <1>4 DEF Starts
  <2>2. W[c] = uri
    BY <2>1, <1>2, <1>4, StartsWhole
  <2>3. ASSUME NEW l \in leaves PROVE l = nodes[c].leaf
    <3>1. PICK m \in DOMAIN nodes : W[m] = uri /\ l = nodes[m].leaf
      BY DEF LeavesWith
    <3>2. m \in 0..Len(nodes) /\ Descends(nodes, W, m, c)
      BY <1>2, WordFacts, AllDescend
    <3>3. m = c
      BY <2>2, <3>1, <3>2 DEF Descends
    <3> QED BY <3>1, <3>3
  <2>4. nodes[c].leaf # NoLeaf => nodes[c].leaf \in leaves
    BY <2>2 DEF LeavesWith
  <2>5. NoLeaf \notin leaves
    BY DEF LeavesWith
  <2>6. key = IF nodes[c].leaf = NoLeaf THEN 0 ELSE t.id[nodes[c].leaf]
    BY <1>3, <1>4
  <2> HIDE DEF key
  <2> QED BY <2>3, <2>4, <2>5, <2>6 DEF IsKey
<1> HIDE DEF key, d, nodes
<1> QED BY <1>3, <1>4 DEF key, d, nodes

\* Whatever list of children a search is at, it finds the key of its word.
LEMMA GetBelow ==
    ASSUME NEW t, NEW L, Tree(t, L), NEW W, KeyTree(t.nodes, t.uri_id, W, L),
           NEW uri \in Seq(Char)
    PROVE  \A p \in 0..Len(t.nodes) :
               Starts(W[p], uri) /\ Len(W[p]) < Len(uri) =>
                   IsKey(t, LeavesWith(t.nodes, W, uri),
                         GetFrom(t, uri)[<<Kids(t.nodes, t.uri_id, p), Len(W[p])>>])
<1> DEFINE nodes == t.nodes
           kids(p) == Kids(nodes, t.uri_id, p)
           leaves == LeavesWith(nodes, W, uri)
           get == GetFrom(t, uri)
           At(p, n) == Starts(W[p], uri) /\ Len(W[p]) < Len(uri) /\ Len(uri) - Len(W[p]) <= n
                           => IsKey(t, leaves, get[<<kids(p), Len(W[p])>>])
           Good == {n \in Nat : \A p \in 0..Len(nodes) : At(p, n)}
<1>0. Linked(nodes, t.uri_id) /\ Worded(nodes, W) /\ Leafed(nodes, W, L)
  BY DEF KeyTree
<1>1. 0 \in Good
  <2> SUFFICES ASSUME NEW p \in 0..Len(nodes), Len(W[p]) < Len(uri), Len(uri) - Len(W[p]) <= 0
               PROVE  FALSE
    OBVIOUS
  <2>1. Len(W[p]) \in Nat /\ Len(uri) \in Nat
    BY <1>0, WordFacts
  <2> QED BY <2>1
<1>2. ASSUME NEW n \in Nat, n \in Good PROVE n + 1 \in Good
  <2> SUFFICES ASSUME NEW p \in 0..Len(nodes) PROVE At(p, n + 1)
    <3> HIDE DEF At
    <3> QED OBVIOUS
  <2> SUFFICES ASSUME Starts(W[p], uri), Len(W[p]) < Len(uri),
                      Len(uri) - Len(W[p]) <= n + 1
               PROVE  IsKey(t, leaves, get[<<kids(p), Len(W[p])>>])
    <3> HIDE DEF kids, leaves, get
    <3> QED OBVIOUS
  <2> DEFINE d == Len(W[p])
             here(c) == KeyHere(t, uri, get, c, d)
             keys == KeysHere(t, uri, get, <<kids(p), d>>)
  <2>0. Len(uri) - d <= n + 1
    OBVIOUS
  <2>1. W[p] \in Seq(Char) /\ d \in Nat /\ Len(uri) \in Nat /\ d \in 0..Len(uri)
    <3>1. W[p] \in Seq(Char) /\ d \in Nat
      BY <1>0, WordFacts
    <3> QED BY <3>1
  <2>2. kids(p) \in Seq(DOMAIN nodes)
    BY <1>0 DEF Kids, Linked, NoNode
  <2>3. \A c \in DOMAIN nodes : c \in Range(kids(p)) <=> nodes[c].prev = p
    BY <1>0 DEF Linked
  <2>4. /\ keys \in Seq(Nat) /\ get[<<kids(p), d>>] = FirstKey(keys)
        /\ Len(keys) = Len(kids(p)) /\ \A i \in 1..Len(keys) : keys[i] = here(kids(p)[i])
    <3>1. <<kids(p), d>> \in Place(nodes, uri)
      BY <2>1, <2>2 DEF Place
    <3> HIDE DEF kids, d
    <3>2. keys \in Seq(Nat) /\ get[<<kids(p), d>>] = FirstKey(keys)
      BY <3>1, GetFromIs
    <3>3. keys = [i \in DOMAIN kids(p) |-> here(kids(p)[i])]
      BY DEF KeysHere
    <3>4. DOMAIN kids(p) = 1..Len(kids(p)) /\ Len(kids(p)) \in Nat
      BY <2>2
    <3> HIDE DEF keys, here
    <3>5. Len(keys) = Len(kids(p))
      BY <3>2, <3>3, <3>4
    <3> QED BY <3>2, <3>3, <3>4, <3>5
  <2>5. ASSUME NEW c \in DOMAIN nodes, nodes[c].prev = p
        PROVE  /\ ~Starts(W[c], uri) => here(c) = 0
               /\ Starts(W[c], uri) => IsKey(t, leaves, here(c))
    <3>1. c \in 0..Len(nodes) /\ W[c] \in Seq(Char) /\ Len(W[c]) \in Nat /\ d < Len(W[c])
      BY <2>5, <1>0, WordFacts
    <3>2. ASSUME Starts(W[c], uri), Len(W[c]) < Len(uri)
          PROVE  IsKey(t, leaves, get[<<nodes[c].next, Len(W[c])>>])
      <4>1. Len(uri) - Len(W[c]) <= n
        <5> HIDE DEF d
        <5> QED BY <2>1, <2>0, <3>1, <3>2
      <4>2. IsKey(t, leaves, get[<<kids(c), Len(W[c])>>])
        <5> HIDE DEF kids, leaves, get
        <5> QED BY <1>2, <3>1, <3>2, <4>1
      <4>3. kids(c) = nodes[c].next
        <5>1. c # 0
          BY <1>0, WordFacts
        <5> QED BY <5>1 DEF Kids, NoNode
      <4> HIDE DEF leaves, get, kids
      <4> QED BY <4>2, <4>3
    <3> HIDE DEF get
    <3> QED BY <3>2, <2>5, <1>0, KeyAtChild
  <2>6. \A i \in 1..Len(keys) : kids(p)[i] \in DOMAIN nodes /\ nodes[kids(p)[i]].prev = p
    <3>1. \A i \in 1..Len(keys) : kids(p)[i] \in DOMAIN nodes /\ kids(p)[i] \in Range(kids(p))
      BY <2>2, <2>4 DEF Range
    <3> QED BY <3>1, <2>3
  <2> DEFINE k == FirstKey(keys)
  <2>7. \/ k = 0 /\ \A i \in 1..Len(keys) : keys[i] = 0
        \/ \E i \in 1..Len(keys) : keys[i] # 0 /\ k = keys[i]
    <3> HIDE DEF keys
    <3> QED BY <2>4, FirstKeyIs
  <2> HIDE DEF k, keys, here, get
  <2>8. ASSUME NEW i \in 1..Len(keys), keys[i] # 0 PROVE IsKey(t, leaves, keys[i])
    <3> DEFINE c == kids(p)[i]
    <3>1. c \in DOMAIN nodes /\ nodes[c].prev = p /\ keys[i] = here(c)
      BY <2>4, <2>6
    <3> HIDE DEF c, leaves, kids
    <3> QED BY <3>1, <2>5, <2>8
  <2>9. ASSUME NEW l \in leaves PROVE k = t.id[l]
    <3>1. PICK m \in DOMAIN nodes : W[m] = uri /\ l = nodes[m].leaf /\ l # NoLeaf
      BY DEF LeavesWith
    <3>2. m \in 0..Len(nodes) /\ Descends(nodes, W, p, m)
      BY <1>0, WordFacts, AllDescend
    <3>3. PICK c \in DOMAIN nodes : nodes[c].prev = p /\ Starts(W[c], uri)
      BY <3>1, <3>2 DEF Descends
    <3>4. PICK j \in 1..Len(keys) : kids(p)[j] = c
      BY <3>3, <2>2, <2>3, <2>4 DEF Range
    <3>5. keys[j] = t.id[l]
      <4>1. IsKey(t, leaves, here(c))
        BY <3>3, <2>5
      <4>2. keys[j] = here(c)
        BY <3>4, <2>4
      <4> QED BY <4>1, <4>2 DEF IsKey
    <3> HIDE DEF leaves
    <3>6. \A i \in 1..Len(keys) : keys[i] # 0 => keys[i] = t.id[l]
      BY <2>8 DEF IsKey
    <3> QED BY <2>7, <3>5, <3>6
  <2>10. ASSUME leaves = {} PROVE k = 0
    <3> HIDE DEF leaves
    <3>1. \A i \in 1..Len(keys) : keys[i] = 0
      BY <2>8, <2>10 DEF IsKey
    <3> QED BY <2>7, <3>1
  <2> HIDE DEF leaves
  <2> QED BY <2>4, <2>9, <2>10 DEF IsKey, k
<1>3. Nat \subseteq Good
  <2> HIDE DEF Good
  <2> QED BY <1>1, <1>2, SetInduction
<1> SUFFICES ASSUME NEW p \in 0..Len(nodes), Starts(W[p], uri), Len(W[p]) < Len(uri)
             PROVE  IsKey(t, leaves, get[<<kids(p), Len(W[p])>>])
  OBVIOUS
<1>4. Len(uri) - Len(W[p]) \in Nat
  <2>1. Len(W[p]) \in Nat /\ Len(uri) \in Nat
    BY <1>0, WordFacts
  <2> QED BY <2>1
<1>5. Len(uri) - Len(W[p]) \in Good /\ Len(uri) - Len(W[p]) <= Len(uri) - Len(W[p])
  <2> HIDE DEF Good
  <2> QED BY <1>3, <1>4
<1> HIDE DEF kids, leaves, get
<1> QED BY <1>5

\* KeyManager::Get finds the key in the leaf of a URI, and no key without a leaf.
LEMMA GetIs ==
    ASSUME NEW t, NEW L, Tree(t, L), NEW uri \in Seq(Char), uri # <<>>
    PROVE  /\ GetIn(t, uri) \in Nat
           /\ \A l \in DOMAIN L : L[l] = uri => GetIn(t, uri) = t.id[l]
           /\ Absent(L, uri) => GetIn(t, uri) = 0
<1>1. PICK W : KeyTree(t.nodes, t.uri_id, W, L)
  BY DEF Tree
<1>2. Linked(t.nodes, t.uri_id) /\ Worded(t.nodes, W)
  BY <1>1 DEF KeyTree
<1>3. W[0] = <<>> /\ Len(W[0]) = 0 /\ 0 \in 0..Len(t.nodes)
  BY <1>2, WordFacts
<1>4. Starts(W[0], uri) /\ Len(W[0]) < Len(uri)
  BY <1>3 DEF Starts
<1>5. Kids(t.nodes, t.uri_id, 0) = t.uri_id
  BY DEF Kids, NoNode
<1> DEFINE leaves == LeavesWith(t.nodes, W, uri)
           k == GetIn(t, uri)
<1>6. IsKey(t, leaves, k)
  BY <1>1, <1>3, <1>4, <1>5, GetBelow DEF GetIn
<1>7. leaves = {l \in DOMAIN L : L[l] = uri}
  BY <1>1, LeafOfWord
<1>8. k \in Nat
  <2> HIDE DEF leaves, k
  <2>1. CASE leaves = {}
    BY <2>1, <1>6 DEF IsKey
  <2>2. CASE leaves # {}
    <3>1. PICK l \in DOMAIN L : l \in leaves
      BY <2>2, <1>7
    <3>2. k = t.id[l]
      BY <3>1, <1>6 DEF IsKey
    <3>3. t.id[l] \in Nat
      BY TreeLeaves
    <3> QED BY <3>2, <3>3
  <2> QED BY <2>1, <2>2
<1> HIDE DEF leaves, k
<1> QED BY <1>6, <1>7, <1>8 DEF IsKey, Absent, k
-----------------------------------------------------------------------------
(* The types of the leaves, and giving the keys *)

\* The type of a leaf is that of its last line, Unclassified if it has none.
LEMMA TypeOfLeafIs ==
    ASSUME NEW A, tt \in Seq([leaf: A, type: Nat]), NEW leaf
    PROVE  /\ TypeOfLeaf(leaf) \in Nat
           /\ (\A i \in 1..Len(tt) : tt[i].leaf # leaf) => TypeOfLeaf(leaf) = Unclassified
           /\ \A i \in 1..Len(tt) :
                 tt[i].leaf = leaf /\ (\A j \in (i + 1)..Len(tt) : tt[j].leaf # leaf)
                    => TypeOfLeaf(leaf) = tt[i].type
<1> DEFINE D == 0..Len(tt)
           again(i) == \E j \in 1..(i - 1) : tt[j].leaf = leaf
           Body(g, i) == IF i = 0 THEN Unclassified
                         ELSE IF tt[i].leaf # leaf THEN g[i - 1]
                         ELSE IF again(i) THEN GiveSubClass(g[i - 1], tt[i].type)
                         ELSE tt[i].type
           size == [i \in D |-> i]
           step == [g \in [D -> Nat] |-> [i \in D |-> Body(g, i)]]
<1>1. /\ \A i \in D : i \in Nat /\ (i # 0 => i - 1 \in D /\ i - 1 < i /\ i \in 1..Len(tt))
      /\ Len(tt) \in Nat /\ Unclassified \in Nat
  BY DEF Unclassified
<1>2. \A i \in 1..Len(tt) : tt[i].type \in Nat
  <2> DEFINE S == [leaf: A, type: Nat]
  <2>1. tt \in Seq(S) /\ \A x \in S : x.type \in Nat
    OBVIOUS
  <2> HIDE DEF S
  <2>2. \A i \in 1..Len(tt) : tt[i] \in S
    BY <2>1
  <2> QED BY <2>1, <2>2
<1>3. \A g : \A i \in D : Body(g, i) = IF i = 0 THEN Unclassified
                                       ELSE IF tt[i].leaf # leaf THEN g[i - 1] ELSE tt[i].type
  <2> HIDE DEF again
  <2> QED BY DEF GiveSubClass
<1> HIDE DEF again
<1>4. ASSUME NEW g \in [D -> Nat], NEW i \in D PROVE Body(g, i) \in Nat
  <2> HIDE DEF Body
  <2> QED BY <1>1, <1>2, <1>3
<1>5. size \in [D -> Nat]
  BY <1>1
<1>6. step \in [[D -> Nat] -> [D -> Nat]]
  <2> HIDE DEF Body
  <2> QED BY <1>4
<1>7. ASSUME NEW g \in [D -> Nat], NEW h \in [D -> Nat], NEW i \in D,
             \A j \in D : size[j] < size[i] => g[j] = h[j]
      PROVE  step[g][i] = step[h][i]
  <2>1. i # 0 => g[i - 1] = h[i - 1]
    BY <1>1, <1>7
  <2> HIDE DEF Body
  <2>2. Body(g, i) = Body(h, i)
    BY <2>1, <1>3
  <2> QED BY <2>2
<1>8. Fixed(D, Nat, step) # {}
  <2>0. Nat # {}
    OBVIOUS
  <2> HIDE DEF step, size, D
  <2>1. Grounded(D, Nat, size, step)
    BY <2>0, <1>5, <1>6, <1>7 DEF Grounded
  <2> QED BY <2>1, SizeRecursion, Zenon
<1> DEFINE Solves(f) == f = [i \in D |-> Body(f, i)]
<1>9. \E f : Solves(f)
  <2>1. PICK f \in [D -> Nat] : f = step[f]
    <3> HIDE DEF step, D
    <3> QED BY <1>8 DEF Fixed
  <2>2. step[f] = [i \in D |-> Body(f, i)]
    <3> HIDE DEF Body
    <3> QED BY <2>1
  <2> QED BY <2>1, <2>2
<1> DEFINE w == CHOOSE f : Solves(f)
<1>10. TypeOfLeaf(leaf) = w[Len(tt)]
  BY DEF TypeOfLeaf, again
<1>11. Solves(w)
  <2> HIDE DEF Solves
  <2> QED BY <1>9
<1> HIDE DEF w
<1>12. \A i \in D : w[i] = IF i = 0 THEN Unclassified
                           ELSE IF tt[i].leaf # leaf THEN w[i - 1] ELSE tt[i].type
  <2> HIDE DEF Body
  <2> QED BY <1>3, <1>11
<1> HIDE DEF Body
<1> DEFINE Right(n) ==
               /\ w[n] \in Nat
               /\ (\A i \in 1..n : tt[i].leaf # leaf) => w[n] = Unclassified
               /\ \A i \in 1..n :
                     tt[i].leaf = leaf /\ (\A j \in (i + 1)..n : tt[j].leaf # leaf)
                        => w[n] = tt[i].type
           Good == {n \in Nat : n <= Len(tt) => Right(n)}
<1>13. Nat \subseteq Good
  <2>1. 0 \in Good
    <3>1. 0 \in D
      BY <1>1
    <3> QED BY <3>1, <1>1, <1>12
  <2>2. ASSUME NEW n \in Nat, n \in Good PROVE n + 1 \in Good
    <3> SUFFICES ASSUME n + 1 <= Len(tt) PROVE Right(n + 1)
      <4> HIDE DEF Right
      <4> QED OBVIOUS
    <3>1. n + 1 \in D /\ n + 1 # 0 /\ (n + 1) - 1 = n /\ n + 1 \in 1..Len(tt)
      BY <1>1
    <3>2. w[n + 1] = IF tt[n + 1].leaf # leaf THEN w[n] ELSE tt[n + 1].type
      BY <3>1, <1>12
    <3>3. Right(n)
      <4> HIDE DEF Right
      <4>1. n <= Len(tt)
        BY <1>1
      <4> QED BY <4>1, <2>2
    <3>4. CASE tt[n + 1].leaf # leaf
      <4>1. w[n + 1] = w[n] /\ w[n] \in Nat
        BY <3>2, <3>3, <3>4
      <4>2. (\A i \in 1..(n + 1) : tt[i].leaf # leaf) => w[n + 1] = Unclassified
        <5>1. \A i \in 1..n : i \in 1..(n + 1)
          OBVIOUS
        <5> QED BY <5>1, <4>1, <3>3
      <4>3. ASSUME NEW i \in 1..(n + 1), tt[i].leaf = leaf,
                   \A j \in (i + 1)..(n + 1) : tt[j].leaf # leaf
            PROVE  w[n + 1] = tt[i].type
        <5>1. i # n + 1
          BY <3>4, <4>3
        <5>2. i \in 1..n /\ \A j \in (i + 1)..n : j \in (i + 1)..(n + 1)
          BY <5>1
        <5> QED BY <5>2, <4>1, <4>3, <3>3
      <4> QED BY <4>1, <4>2, <4>3
    <3>5. CASE tt[n + 1].leaf = leaf
      <4>1. w[n + 1] = tt[n + 1].type /\ w[n + 1] \in Nat
        BY <3>1, <3>2, <3>5, <1>2
      <4>2. n + 1 \in 1..(n + 1)
        OBVIOUS
      <4>3. ASSUME NEW i \in 1..(n + 1), \A j \in (i + 1)..(n + 1) : tt[j].leaf # leaf
            PROVE  i = n + 1
        <5>1. n + 1 \notin (i + 1)..(n + 1)
          BY <4>3, <3>5
        <5> QED BY <5>1
      <4> QED BY <4>1, <4>2, <4>3, <3>5
    <3> HIDE DEF Right
    <3> QED BY <3>4, <3>5
  <2> HIDE DEF Good
  <2> QED BY <2>1, <2>2, SetInduction
<1> HIDE DEF Right
<1>14. Len(tt) \in Good /\ Len(tt) <= Len(tt)
  BY <1>1, <1>13
<1>15. Right(Len(tt))
  BY <1>14
<1> QED BY <1>10, <1>15 DEF Right

LEMMA FcnIsSeq ==
    ASSUME NEW S, NEW m \in Nat, NEW f \in [1..m -> S]
    PROVE  f \in Seq(S) /\ Len(f) = m
<1>1. f \in Seq(S)
  OBVIOUS
<1>2. DOMAIN f = 1..m
  OBVIOUS
<1>3. DOMAIN f = 1..Len(f) /\ Len(f) \in Nat
  BY <1>1
<1>4. 1..m = 1..Len(f)
  BY <1>2, <1>3
<1> QED BY <1>1, <1>3, <1>4

LEMMA MinIs ==
    ASSUME NEW I \in SUBSET Nat, I # {}
    PROVE  Min(I) \in I
<1>1. \E x \in I : \A y \in I : x <= y
  BY LeastNatural
<1> QED BY <1>1 DEF Min

\* Where a key is in a list of keys.
LEMMA KeyIndexIs ==
    ASSUME NEW S, NEW k \in Seq(S), NEW key \in Range(k)
    PROVE  /\ SelectInSeq(k, LAMBDA x : x = key) \in 1..Len(k)
           /\ k[SelectInSeq(k, LAMBDA x : x = key)] = key
<1> DEFINE I == {i \in 1..Len(k) : k[i] = key}
<1>1. I \in SUBSET Nat /\ I # {}
  BY DEF Range
<1>2. SelectInSeq(k, LAMBDA x : x = key) = Min(I)
  BY <1>1 DEF SelectInSeq
<1>3. Min(I) \in I
  <2> HIDE DEF I
  <2> QED BY <1>1, MinIs
<1> QED BY <1>2, <1>3

\* Where the node of a leaf is in a list of nodes.
LEMMA NodeIndexIs ==
    ASSUME NEW S, NEW list \in Seq(S), NEW l, NEW i,
           i = SelectInSeq(list, LAMBDA n : trie.nodes[n].leaf = l)
    PROVE  /\ i \in 0..Len(list)
           /\ i # 0 => trie.nodes[list[i]].leaf = l
           /\ i = 0 => \A j \in 1..Len(list) : trie.nodes[list[j]].leaf # l
<1> DEFINE I == {j \in 1..Len(list) : trie.nodes[list[j]].leaf = l}
<1>1. i = IF I # {} THEN Min(I) ELSE 0
  BY DEF SelectInSeq
<1>2. I # {} => Min(I) \in I
  <2>1. I \in SUBSET Nat
    OBVIOUS
  <2> HIDE DEF I
  <2> QED BY <2>1, MinIs
<1>3. CASE I = {}
  <2>1. \A j \in 1..Len(list) : trie.nodes[list[j]].leaf # l
    BY <1>3
  <2> QED BY <2>1, <1>1, <1>3
<1>4. CASE I # {}
  <2>1. i \in I
    BY <1>1, <1>2, <1>4
  <2>2. i \in 1..Len(list) /\ trie.nodes[list[i]].leaf = l
    BY <2>1
  <2> QED BY <2>2
<1> QED BY <1>3, <1>4

\* The keys in elements are keys, and lead to nodes.
ElementsOK(t, e) == \A key \in DOMAIN e : key \in Nat \ {0} /\ e[key] \in DOMAIN t.nodes

\* The leaves of the nodes of list have the keys k, the others the keys they had.
Rekeyed(nodes, id, id2, list, k, L) ==
    \A l \in DOMAIN L :
        \/ id2[l] = id[l] /\ \A j \in 1..Len(list) : nodes[list[j]].leaf # l
        \/ \E i \in 1..Len(list) : nodes[list[i]].leaf = l /\ id2[l] = k[i]

\* Giving keys changes nothing but the keys.
LEMMA AssignKeeps ==
    ASSUME NEW L, Tree(trie, L), NEW list \in Seq(DOMAIN trie.nodes), NEW k \in Seq(Nat \ {0}),
           Len(k) = Len(list), Assign(list, k), ElementsOK(trie, elements)
    PROVE  /\ Tree(trie', L) /\ trie'.nodes = trie.nodes
           /\ Rekeyed(trie.nodes, trie.id, trie'.id, list, k, L)
           /\ ElementsOK(trie', elements')
<1> DEFINE at(l) == SelectInSeq(list, LAMBDA n : trie.nodes[n].leaf = l)
           id2 == [l \in DOMAIN trie.id |-> IF at(l) = 0 THEN trie.id[l] ELSE k[at(l)]]
<1>1. trie' = [trie EXCEPT !.id = id2]
  BY DEF Assign
<1>2. \A l : /\ at(l) \in 0..Len(list)
             /\ at(l) # 0 => trie.nodes[list[at(l)]].leaf = l
             /\ at(l) = 0 => \A j \in 1..Len(list) : trie.nodes[list[j]].leaf # l
  <2> TAKE l
  <2>1. at(l) = SelectInSeq(list, LAMBDA n : trie.nodes[n].leaf = l)
    OBVIOUS
  <2> HIDE DEF at
  <2> QED BY <2>1, NodeIndexIs
<1> HIDE DEF at
<1>3. trie.id \in Seq(Nat) /\ Len(trie.id) = Len(L) /\ L \in Seq(Uri) /\ DOMAIN L = DOMAIN trie.id
  <2>1. trie.id \in Seq(Nat) /\ Len(trie.id) = Len(L) /\ L \in Seq(Uri)
    BY TreeLeaves
  <2> QED BY <2>1
<1>4. id2 \in Seq(Nat) /\ Len(id2) = Len(trie.id)
  <2> DEFINE id1 == trie.id
  <2>1. id1 \in Seq(Nat) /\ DOMAIN id1 = 1..Len(id1) /\ Len(id1) \in Nat
    BY <1>3
  <2>2. \A l \in DOMAIN id1 : id1[l] \in Nat
    BY <2>1
  <2>3. \A i \in 1..Len(list) : k[i] \in Nat
    OBVIOUS
  <2> HIDE DEF id1
  <2>4. \A l \in DOMAIN id1 : (IF at(l) = 0 THEN id1[l] ELSE k[at(l)]) \in Nat
    BY <2>2, <2>3, <1>2
  <2>5. id2 = [l \in 1..Len(id1) |-> IF at(l) = 0 THEN id1[l] ELSE k[at(l)]]
    BY <2>1 DEF id1
  <2>6. id2 \in [1..Len(id1) -> Nat]
    BY <2>1, <2>4, <2>5
  <2> HIDE DEF id2
  <2> DEFINE m == Len(id1)
  <2>7. m \in Nat /\ id2 \in [1..m -> Nat]
    BY <2>1, <2>6
  <2> HIDE DEF m
  <2>8. id2 \in Seq(Nat) /\ Len(id2) = m
    BY <2>7, FcnIsSeq
  <2> QED BY <2>8 DEF id1, m
<1>5. \A l \in DOMAIN L : id2[l] = IF at(l) = 0 THEN trie.id[l] ELSE k[at(l)]
  BY <1>3
<1> HIDE DEF id2
<1>6. /\ trie' \in [nodes: Seq(Node), uri_id: Seq(Nat), id: Seq(Nat), added: Seq(Nat)]
      /\ trie'.nodes = trie.nodes /\ trie'.uri_id = trie.uri_id /\ trie'.id = id2
  <2> DEFINE A == Seq(Node)
             B == Seq(Nat)
             x == trie
  <2>1. x \in [nodes: A, uri_id: B, id: B, added: B] /\ id2 \in B
    BY <1>4 DEF Tree
  <2>2. trie' = [x EXCEPT !.id = id2]
    BY <1>1
  <2> HIDE DEF A, B, x
  <2>3. /\ trie' \in [nodes: A, uri_id: B, id: B, added: B]
        /\ trie'.nodes = x.nodes /\ trie'.uri_id = x.uri_id /\ trie'.id = id2
    BY <2>1, <2>2
  <2> QED BY <2>3 DEF A, B, x
<1>7. Tree(trie', L)
  BY <1>3, <1>4, <1>6 DEF Tree
<1>8. ASSUME NEW key \in DOMAIN elements'
      PROVE  key \in Nat \ {0} /\ elements'[key] \in DOMAIN trie'.nodes
  <2>1. /\ key \in DOMAIN elements \cup Range(k)
        /\ elements'[key] = IF key \in Range(k)
                            THEN list[SelectInSeq(k, LAMBDA x : x = key)] ELSE elements[key]
    BY <1>8 DEF Assign
  <2>2. CASE key \in Range(k)
    <3>1. SelectInSeq(k, LAMBDA x : x = key) \in 1..Len(k)
      BY <2>2, KeyIndexIs
    <3>2. list[SelectInSeq(k, LAMBDA x : x = key)] \in DOMAIN trie.nodes
      BY <3>1
    <3>3. key \in Nat \ {0}
      BY <2>2 DEF Range
    <3> QED BY <2>1, <2>2, <3>2, <3>3, <1>6
  <2>3. CASE key \notin Range(k)
    BY <2>1, <2>3, <1>6 DEF ElementsOK
  <2> QED BY <2>2, <2>3
<1>9. Rekeyed(trie.nodes, trie.id, trie'.id, list, k, L)
  <2> SUFFICES ASSUME NEW l \in DOMAIN L
               PROVE  \/ trie'.id[l] = trie.id[l]
                         /\ \A j \in 1..Len(list) : trie.nodes[list[j]].leaf # l
                      \/ \E i \in 1..Len(list) : /\ trie.nodes[list[i]].leaf = l
                                                 /\ trie'.id[l] = k[i]
    BY DEF Rekeyed
  <2>1. CASE at(l) = 0
    BY <2>1, <1>2, <1>5, <1>6
  <2>2. CASE at(l) # 0
    <3>1. at(l) \in 1..Len(list)
      BY <2>2, <1>2
    <3> QED BY <2>2, <3>1, <1>2, <1>5, <1>6
  <2> QED BY <2>1, <2>2
<1> QED BY <1>6, <1>7, <1>8, <1>9 DEF ElementsOK
-----------------------------------------------------------------------------
(* What the lines say is in the tree *)

\* The URIs a line adds in the second pass.
NewOf(l) == IF l.predicate = RdfType THEN <<l.subject>>
            ELSE IF l.predicate = SubClassOf THEN <<>>
            ELSE <<l.subject, l.predicate, l.object, l.prov>>

AddedSet(ls, r1, r2) ==
    (UNION {Range(ClassesOf(ls[i])) : i \in r1})
    \cup {ls[i].subject : i \in {j \in r2 : ls[j].predicate = RdfType}}
    \cup UNION {Range(<<ls[i].subject, ls[i].predicate, ls[i].object, ls[i].prov>>) :
                   i \in {j \in r2 : IsQuad(ls[j])}}

IsAdded(ls, r1, r2, u) == \/ \E i \in r1 : u \in Range(ClassesOf(ls[i]))
                          \/ \E i \in r2 : u \in Range(NewOf(ls[i]))

LEMMA AddedSetIs ==
    ASSUME NEW ls, NEW r1, NEW r2, NEW u
    PROVE  u \in AddedSet(ls, r1, r2) <=> IsAdded(ls, r1, r2, u)
<1>1. ASSUME NEW i
      PROVE  u \in Range(NewOf(ls[i])) <=>
                \/ ls[i].predicate = RdfType /\ u = ls[i].subject
                \/ IsQuad(ls[i])
                   /\ u \in Range(<<ls[i].subject, ls[i].predicate, ls[i].object, ls[i].prov>>)
  <2>1. Range(<<ls[i].subject>>) = {ls[i].subject}
    BY DEF Range
  <2>2. Range(<<>>) = {}
    BY DEF Range
  <2>3. SubClassOf # RdfType
    BY UriAssumption
  <2> QED BY <2>1, <2>2, <2>3 DEF NewOf, IsQuad
<1> DEFINE four(i) == Range(<<ls[i].subject, ls[i].predicate, ls[i].object, ls[i].prov>>)
<1> HIDE DEF four
<1> DEFINE A == UNION {Range(ClassesOf(ls[i])) : i \in r1}
           B == {ls[i].subject : i \in {j \in r2 : ls[j].predicate = RdfType}}
           C == UNION {Range(<<ls[i].subject, ls[i].predicate, ls[i].object, ls[i].prov>>) :
                          i \in {j \in r2 : IsQuad(ls[j])}}
<1>2. AddedSet(ls, r1, r2) = A \cup B \cup C
  BY DEF AddedSet
<1>3. u \in A <=> \E i \in r1 : u \in Range(ClassesOf(ls[i]))
  OBVIOUS
<1>4. u \in B <=> \E i \in r2 : ls[i].predicate = RdfType /\ u = ls[i].subject
  OBVIOUS
<1>5. u \in C <=> \E i \in r2 : IsQuad(ls[i]) /\ u \in four(i)
  BY DEF four
<1>6. (\E i \in r2 : u \in Range(NewOf(ls[i]))) <=>
         \/ \E i \in r2 : ls[i].predicate = RdfType /\ u = ls[i].subject
         \/ \E i \in r2 : IsQuad(ls[i]) /\ u \in four(i)
  BY <1>1 DEF four
<1> HIDE DEF A, B, C
<1>7. u \in AddedSet(ls, r1, r2) <=> u \in A \/ u \in B \/ u \in C
  BY <1>2
<1> QED BY <1>3, <1>4, <1>5, <1>6, <1>7 DEF IsAdded

LEMMA ClassesOfIs ==
    ASSUME NEW l \in Line
    PROVE  /\ ClassesOf(l) \in Seq(Uri) /\ Len(ClassesOf(l)) \in 0..4
           /\ NewOf(l) \in Seq(Uri) /\ Len(NewOf(l)) \in 0..4
<1>1. l.subject \in Uri /\ l.predicate \in Uri /\ l.object \in Uri /\ l.prov \in Uri
  BY DEF Line
<1>2. ClassesOf(l) \in {<<l.object>>, <<l.subject, l.object>>, <<>>}
  BY DEF ClassesOf
<1>3. NewOf(l) \in {<<l.subject>>, <<>>, <<l.subject, l.predicate, l.object, l.prov>>}
  BY DEF NewOf
<1> DEFINE Few == {s \in Seq(Uri) : Len(s) \in 0..4}
           a == l.subject
           b == l.predicate
           c == l.object
           d == l.prov
<1> HIDE DEF a, b, c, d
<1>4. a \in Uri /\ b \in Uri /\ c \in Uri /\ d \in Uri
  BY <1>1 DEF a, b, c, d
<1>5. <<>> \in Few /\ <<a>> \in Few /\ <<c>> \in Few /\ <<a, c>> \in Few
      /\ <<a, b, c, d>> \in Few
  BY <1>4
<1> HIDE DEF Few
<1>6. ClassesOf(l) \in Few
  BY <1>2, <1>5 DEF a, c
<1>7. NewOf(l) \in Few
  BY <1>3, <1>5 DEF a, b, c, d
<1> QED BY <1>6, <1>7 DEF Few

\* Which quad of r line i is.
Rank(r, i) == Cardinality({h \in r : h <= i})

\* qs holds the leaves of the quads that lines r are.
QuadsBy(ls, r, qs, L) ==
    /\ qs \in Seq([1..4 -> DOMAIN L]) /\ IsFiniteSet(r) /\ Len(qs) = Cardinality(r)
    /\ \A i \in r : /\ Rank(r, i) \in 1..Len(qs)
                    /\ \A j \in 1..4 : L[qs[Rank(r, i)][j]] = NewOf(ls[i])[j]

\* Whatever is added later.
LEMMA QuadsKept ==
    ASSUME NEW ls, NEW r, NEW qs, NEW L \in Seq(Uri), NEW M \in Seq(Uri), Starts(L, M),
           QuadsBy(ls, r, qs, L)
    PROVE  QuadsBy(ls, r, qs, M)
<1>1. \A l \in DOMAIN L : l \in DOMAIN M /\ M[l] = L[l]
  BY DEF Starts
<1> DEFINE A == [1..4 -> DOMAIN L]
           B == [1..4 -> DOMAIN M]
<1>2. A \subseteq B
  BY <1>1
<1>3. qs \in Seq(A)
  BY DEF QuadsBy
<1>4. ASSUME NEW k \in 1..Len(qs), NEW j \in 1..4 PROVE qs[k][j] \in DOMAIN L
  <2>1. qs[k] \in A
    BY <1>3
  <2> QED BY <2>1
<1>5. qs \in Seq(B)
  <2> HIDE DEF A, B
  <2> QED BY <1>2, <1>3, SeqInSet
<1>6. ASSUME NEW i \in r
      PROVE  /\ Rank(r, i) \in 1..Len(qs)
             /\ \A j \in 1..4 : M[qs[Rank(r, i)][j]] = NewOf(ls[i])[j]
  <2>1. /\ Rank(r, i) \in 1..Len(qs)
        /\ \A j \in 1..4 : L[qs[Rank(r, i)][j]] = NewOf(ls[i])[j]
    BY DEF QuadsBy
  <2> DEFINE k == Rank(r, i)
  <2> HIDE DEF k
  <2>2. \A j \in 1..4 : M[qs[k][j]] = L[qs[k][j]]
    BY <2>1, <1>1, <1>4 DEF k
  <2> QED BY <2>1, <2>2 DEF k
<1> QED BY <1>5, <1>6 DEF QuadsBy

\* The next quad.
LEMMA QuadsNext ==
    ASSUME NEW ls, NEW r, NEW qs, NEW L \in Seq(Uri), QuadsBy(ls, r, qs, L),
           NEW n \in Nat, \A i \in r : i \in Nat /\ i < n,
           NEW q \in [1..4 -> DOMAIN L], \A j \in 1..4 : L[q[j]] = NewOf(ls[n])[j]
    PROVE  QuadsBy(ls, r \cup {n}, Append(qs, q), L)
<1> DEFINE A == [1..4 -> DOMAIN L]
           r2 == r \cup {n}
           m == Len(qs)
<1>1. qs \in Seq(A) /\ IsFiniteSet(r) /\ m = Cardinality(r) /\ m \in Nat /\ q \in A
  BY DEF QuadsBy
<1>2. n \notin r
  OBVIOUS
<1>3. IsFiniteSet(r2) /\ Cardinality(r2) = m + 1
  BY <1>1, <1>2, FS_AddElement
<1>4. /\ Append(qs, q) \in Seq(A) /\ Len(Append(qs, q)) = m + 1 /\ Append(qs, q)[m + 1] = q
      /\ \A k \in 1..m : Append(qs, q)[k] = qs[k]
  <2> HIDE DEF A, m
  <2> QED BY <1>1, AppendIs, StartsAppend DEF m
<1>5. ASSUME NEW i \in r PROVE Rank(r2, i) = Rank(r, i)
  <2>1. {h \in r2 : h <= i} = {h \in r : h <= i}
    OBVIOUS
  <2> QED BY <2>1 DEF Rank
<1>6. Rank(r2, n) = m + 1
  <2>1. {h \in r2 : h <= n} = r2
    OBVIOUS
  <2> QED BY <2>1, <1>3 DEF Rank
<1>7. ASSUME NEW i \in r2
      PROVE  /\ Rank(r2, i) \in 1..(m + 1)
             /\ \A j \in 1..4 : L[Append(qs, q)[Rank(r2, i)][j]] = NewOf(ls[i])[j]
  <2>1. CASE i = n
    <3>1. m + 1 \in 1..(m + 1)
      BY <1>1
    <3> QED BY <2>1, <3>1, <1>4, <1>6
  <2>2. CASE i \in r
    <3>1. /\ Rank(r, i) \in 1..m
          /\ \A j \in 1..4 : L[qs[Rank(r, i)][j]] = NewOf(ls[i])[j]
      BY <2>2 DEF QuadsBy
    <3>2. Rank(r, i) \in 1..(m + 1)
      BY <3>1, <1>1
    <3>3. Append(qs, q)[Rank(r, i)] = qs[Rank(r, i)]
      BY <3>1, <1>4
    <3>4. Rank(r2, i) = Rank(r, i)
      BY <2>2, <1>5
    <3> HIDE DEF r2, A, m
    <3> QED BY <3>1, <3>2, <3>3, <3>4
  <2> QED BY <2>1, <2>2
<1> HIDE DEF r2, A, m
<1>8. QuadsBy(ls, r2, Append(qs, q), L)
  BY <1>3, <1>4, <1>7 DEF QuadsBy, A
<1> QED BY <1>8 DEF r2

-----------------------------------------------------------------------------
(* The inductive invariant *)

\* What has been read of ls is in t, ts and qs; L is the URIs of the leaves.
Indexed(ls, r1, r2, t, ts, qs, L) ==
    /\ Tree(t, L)
    /\ \A u : u \in Range(L) <=> IsAdded(ls, r1, r2, u)
    /\ ts \in Seq([leaf: DOMAIN L, type: Nat])
    /\ QuadsBy(ls, {i \in r2 : IsQuad(ls[i])}, qs, L)

IInv ==
    /\ lines \in Inputs /\ pass \in 1..3 /\ next \in 1..(Len(lines) + 1)
    /\ ElementsOK(trie, elements)
    /\ \E L : Indexed(lines, Read1, Read2, trie, tt, quads, L)

\* SeqRange is large enough.
LEMMA Room ==
    ASSUME lines \in Inputs
    PROVE  /\ lines \in Seq(Line) /\ Len(lines) \in Nat /\ DOMAIN lines = 1..Len(lines)
           /\ SeqRange \in Nat /\ 4 * Len(lines) + 3 < SeqRange
<1>1. lines \in Seq(Line)
  BY LineAssumption
<1>2. SeqRange \in Nat /\ 4 * Len(lines) + 3 < SeqRange
  BY SeqAssumption
<1> QED BY <1>1, <1>2

LEMMA EmptyTree ==
    Tree([nodes |-> <<>>, uri_id |-> <<>>, id |-> <<>>, added |-> <<>>], <<>>)
<1> DEFINE t == [nodes |-> <<>>, uri_id |-> <<>>, id |-> <<>>, added |-> <<>>]
           W == [p \in 0..0 |-> <<>>]
<1>1. t \in [nodes: Seq(Node), uri_id: Seq(Nat), id: Seq(Nat), added: Seq(Nat)]
  <2>1. <<>> \in Seq(Node) /\ <<>> \in Seq(Nat)
    OBVIOUS
  <2> QED BY <2>1
<1>2. t.nodes = <<>> /\ t.uri_id = <<>> /\ t.id = <<>>
  OBVIOUS
<1> HIDE DEF t
<1>3. Len(<<>>) = 0 /\ DOMAIN <<>> = {}
  OBVIOUS
<1>4. Linked(<<>>, <<>>)
  <2>1. <<>> \in Seq(Node) /\ <<>> \in Seq(DOMAIN <<>>)
    OBVIOUS
  <2>2. \A p \in 0..0 : Once(Kids(<<>>, <<>>, p))
    BY <1>3 DEF Kids, NoNode, Once
  <2> QED BY <2>1, <2>2, <1>3 DEF Linked
<1>5. Worded(<<>>, W)
  <2>1. W \in [0..0 -> Seq(Char)] /\ W[0] = <<>>
    OBVIOUS
  <2> HIDE DEF W
  <2> QED BY <2>1, <1>3 DEF Worded, NoNode
<1>6. Leafed(<<>>, W, <<>>)
  <2>1. <<>> \in Seq(Uri)
    OBVIOUS
  <2> HIDE DEF W
  <2> QED BY <2>1, <1>3 DEF Leafed
<1> HIDE DEF W
<1>7. Tree(t, <<>>)
  BY <1>1, <1>2, <1>3, <1>4, <1>5, <1>6 DEF Tree, KeyTree
<1> QED BY <1>7 DEF t

LEMMA InitIInv == Init => IInv
<1> SUFFICES ASSUME Init PROVE IInv
  OBVIOUS
<1>1. /\ lines \in Inputs /\ pass = 1 /\ next = 1 /\ tt = <<>> /\ quads = <<>>
      /\ elements = <<>>
      /\ trie = [nodes |-> <<>>, uri_id |-> <<>>, id |-> <<>>, added |-> <<>>]
  BY DEF Init
<1>2. Len(lines) \in Nat
  BY <1>1, Room
<1>3. ElementsOK(trie, elements)
  <2>1. DOMAIN <<>> = {}
    OBVIOUS
  <2> QED BY <2>1, <1>1 DEF ElementsOK
<1>4. Read1 = {} /\ Read2 = {}
  BY <1>1 DEF Read1, Read2
<1>5. Tree(trie, <<>>)
  BY <1>1, EmptyTree
<1>6. \A u : u \in Range(<<>>) <=> IsAdded(lines, Read1, Read2, u)
  <2>1. Range(<<>>) = {}
    BY DEF Range
  <2> QED BY <2>1, <1>4 DEF IsAdded
<1>7. QuadsBy(lines, {i \in Read2 : IsQuad(lines[i])}, quads, <<>>)
  <2>1. {i \in Read2 : IsQuad(lines[i])} = {}
    BY <1>4
  <2>2. IsFiniteSet({}) /\ Cardinality({}) = 0
    BY FS_EmptySet
  <2>3. <<>> \in Seq([1..4 -> DOMAIN <<>>]) /\ Len(<<>>) = 0
    OBVIOUS
  <2> QED BY <2>1, <2>2, <2>3, <1>1 DEF QuadsBy
<1>8. tt \in Seq([leaf: DOMAIN <<>>, type: Nat])
  BY <1>1
<1>9. Indexed(lines, Read1, Read2, trie, tt, quads, <<>>)
  BY <1>5, <1>6, <1>7, <1>8 DEF Indexed
<1> QED BY <1>1, <1>2, <1>3, <1>9 DEF IInv
LEMMA TypesKept ==
    ASSUME NEW L \in Seq(Uri), NEW M \in Seq(Uri), Starts(L, M),
           NEW ts \in Seq([leaf: DOMAIN L, type: Nat])
    PROVE  ts \in Seq([leaf: DOMAIN M, type: Nat]) /\ DOMAIN L \subseteq DOMAIN M
<1>1. DOMAIN L \subseteq DOMAIN M
  BY DEF Starts
<1> DEFINE A == [leaf: DOMAIN L, type: Nat]
           B == [leaf: DOMAIN M, type: Nat]
<1>2. A \subseteq B
  BY <1>1
<1>3. ts \in Seq(B)
  <2>1. ts \in Seq(A)
    OBVIOUS
  <2> HIDE DEF A, B
  <2> QED BY <1>2, <2>1, SeqInSet
<1> QED BY <1>1, <1>3

\* The tree t2 has what lines s1 and s2 add, the rest is still that of lines r2.
LineAdded(ls, r2, s1, s2, t, t2, ts, qs, L, M) ==
    /\ Tree(t2, M) /\ Starts(L, M) /\ L \in Seq(Uri) /\ M \in Seq(Uri)
    /\ \A u : u \in Range(M) <=> IsAdded(ls, s1, s2, u)
    /\ ts \in Seq([leaf: DOMAIN M, type: Nat])
    /\ QuadsBy(ls, {i \in r2 : IsQuad(ls[i])}, qs, M)
    /\ DOMAIN t.nodes \subseteq DOMAIN t2.nodes

\* What AddAll has made of the tree, with the lines of which it adds the URIs.
LEMMA AddsLine ==
    ASSUME NEW L, NEW ls, NEW r1, NEW r2, NEW s1, NEW s2, NEW uris \in Seq(Uri),
           NEW t, NEW ts, NEW qs, Indexed(ls, r1, r2, t, ts, qs, L),
           NEW t2, NEW M, Reached(t, L, uris, Len(uris), t2, M),
           \A u : IsAdded(ls, s1, s2, u) <=> IsAdded(ls, r1, r2, u) \/ u \in Range(uris)
    PROVE  LineAdded(ls, r2, s1, s2, t, t2, ts, qs, L, M)
<1>1. /\ Tree(t, L) /\ \A u : u \in Range(L) <=> IsAdded(ls, r1, r2, u)
      /\ ts \in Seq([leaf: DOMAIN L, type: Nat])
      /\ QuadsBy(ls, {i \in r2 : IsQuad(ls[i])}, qs, L)
  BY DEF Indexed
<1>2. /\ Tree(t2, M) /\ Starts(L, M) /\ DOMAIN t.nodes \subseteq DOMAIN t2.nodes
      /\ \A u : u \in Range(M) <=> u \in Range(L) \/ \E j \in 1..Len(uris) : uris[j] = u
  BY DEF Reached
<1>3. L \in Seq(Uri) /\ M \in Seq(Uri)
  BY <1>1, <1>2, TreeLeaves
<1>4. \A u : u \in Range(uris) <=> \E j \in 1..Len(uris) : uris[j] = u
  BY DEF Range
<1>5. ts \in Seq([leaf: DOMAIN M, type: Nat])
  BY <1>1, <1>2, <1>3, TypesKept
<1>6. QuadsBy(ls, {i \in r2 : IsQuad(ls[i])}, qs, M)
  BY <1>1, <1>2, <1>3, QuadsKept
<1>7. \A u : u \in Range(M) <=> IsAdded(ls, s1, s2, u)
  BY <1>1, <1>2, <1>4
<1> QED BY <1>2, <1>3, <1>5, <1>6, <1>7 DEF LineAdded

LEMMA ElementsKept ==
    ASSUME NEW t, NEW t2, NEW e, ElementsOK(t, e), DOMAIN t.nodes \subseteq DOMAIN t2.nodes
    PROVE  ElementsOK(t2, e)
BY DEF ElementsOK

LEMMA ReadClassesStep ==
    ASSUME PrefixFree, IInv, ReadClasses
    PROVE  IInv'
<1>1. PICK L : Indexed(lines, Read1, Read2, trie, tt, quads, L)
  BY DEF IInv
<1>2. /\ lines \in Inputs /\ ElementsOK(trie, elements)
      /\ pass = 1 /\ next \in 1..Len(lines) /\ next \in Nat
      /\ Len(lines) \in Nat /\ lines \in Seq(Line)
  <2>1. /\ lines \in Inputs /\ ElementsOK(trie, elements)
        /\ pass = 1 /\ next <= Len(lines) /\ next \in 1..(Len(lines) + 1)
    BY DEF IInv, ReadClasses
  <2>2. Len(lines) \in Nat /\ lines \in Seq(Line)
    BY <2>1, Room
  <2> QED BY <2>1, <2>2
<1> DEFINE uris == ClassesOf(lines[next])
<1>3. /\ trie' = AddAll(uris) /\ next' = next + 1
      /\ lines' = lines /\ pass' = pass /\ elements' = elements /\ tt' = tt /\ quads' = quads
  BY DEF ReadClasses
<1>4. uris \in Seq(Uri) /\ Len(uris) \in 0..4
  <2>1. lines[next] \in Line
    BY <1>2
  <2> QED BY <2>1, ClassesOfIs
<1>5. Tree(trie, L)
  BY <1>1 DEF Indexed
<1>6. PICK M : Reached(trie, L, uris, Len(uris), trie', M)
  <2> HIDE DEF uris
  <2> QED BY <1>3, <1>4, <1>5, AddAllKeeps
<1>7. /\ Read1 = 1..(next - 1) /\ Read1' = 1..next /\ Read2 = {} /\ Read2' = {}
      /\ Read1' = Read1 \cup {next}
  <2>1. (next + 1) - 1 = next /\ 1..next = 1..(next - 1) \cup {next}
    BY <1>2
  <2> QED BY <2>1, <1>2, <1>3 DEF Read1, Read2
<1>8. \A u : IsAdded(lines, Read1', Read2', u) <=>
                IsAdded(lines, Read1, Read2, u) \/ u \in Range(uris)
  BY <1>7 DEF IsAdded
<1> HIDE DEF uris
<1>9. /\ Tree(trie', M) /\ DOMAIN trie.nodes \subseteq DOMAIN trie'.nodes
      /\ \A u : u \in Range(M) <=> IsAdded(lines, Read1', Read2', u)
      /\ tt \in Seq([leaf: DOMAIN M, type: Nat])
      /\ QuadsBy(lines, {i \in Read2 : IsQuad(lines[i])}, quads, M)
  <2>1. LineAdded(lines, Read2, Read1', Read2', trie, trie', tt, quads, L, M)
    BY <1>1, <1>4, <1>6, <1>8, AddsLine
  <2> QED BY <2>1 DEF LineAdded
<1>10. Indexed(lines', Read1', Read2', trie', tt', quads', M)
  BY <1>3, <1>7, <1>9 DEF Indexed
<1>11. ElementsOK(trie', elements')
  BY <1>2, <1>3, <1>9, ElementsKept
<1>12. lines' \in Inputs /\ pass' \in 1..3 /\ next' \in 1..(Len(lines') + 1)
  BY <1>2, <1>3
<1> QED BY <1>10, <1>11, <1>12 DEF IInv

\* The nodes that are given keys.
LEMMA LeavesAreNodes ==
    ASSUME NEW L, Tree(trie, L)
    PROVE  AllLeaves \in Seq(DOMAIN trie.nodes) /\ Pending \in Seq(DOMAIN trie.nodes)
<1> DEFINE N == DOMAIN trie.nodes
           S == {n \in WithLeaf : trie.id[trie.nodes[n].leaf] = 0}
<1>1. Preorder \in Seq(N)
  BY PreorderIs
<1>2. Kept(Preorder, WithLeaf) \in Seq(N \cap WithLeaf) /\ Kept(Preorder, S) \in Seq(N \cap S)
  <2> HIDE DEF N, S
  <2> QED BY <1>1, KeptExact
<1>3. N \cap WithLeaf \subseteq N /\ N \cap S \subseteq N
  OBVIOUS
<1>4. AllLeaves \in Seq(N) /\ Pending \in Seq(N)
  <2>1. AllLeaves = Kept(Preorder, WithLeaf) /\ Pending = Kept(Preorder, S)
    BY DEF AllLeaves, Pending
  <2> HIDE DEF N, S
  <2> QED BY <1>2, <1>3, <2>1, SeqInSet
<1> QED BY <1>4

LEMMA MakeInverseIndexTypesStep ==
    ASSUME PrefixFree, IInv, MakeInverseIndexTypes
    PROVE  IInv'
<1>1. PICK L : Indexed(lines, Read1, Read2, trie, tt, quads, L)
  BY DEF IInv
<1> DEFINE list == AllLeaves
           k == [i \in DOMAIN list |-> GetId(i + 2, 1)]
<1>2. /\ lines \in Inputs /\ ElementsOK(trie, elements)
      /\ pass = 1 /\ next = Len(lines) + 1
      /\ Len(lines) \in Nat /\ DOMAIN lines = 1..Len(lines) /\ SeqRange \in Nat
  <2>1. /\ lines \in Inputs /\ ElementsOK(trie, elements)
        /\ pass = 1 /\ next > Len(lines) /\ next \in 1..(Len(lines) + 1)
    BY DEF IInv, MakeInverseIndexTypes
  <2>2. Len(lines) \in Nat /\ DOMAIN lines = 1..Len(lines) /\ SeqRange \in Nat
    BY <2>1, Room
  <2> QED BY <2>1, <2>2
<1>3. /\ Assign(list, k) /\ pass' = 2 /\ next' = 1
      /\ lines' = lines /\ tt' = tt /\ quads' = quads
  BY DEF MakeInverseIndexTypes
<1>4. Tree(trie, L)
  BY <1>1 DEF Indexed
<1>5. list \in Seq(DOMAIN trie.nodes)
  BY <1>4, LeavesAreNodes
<1>6. k \in Seq(Nat \ {0}) /\ Len(k) = Len(list)
  <2>1. Len(list) \in Nat /\ DOMAIN list = 1..Len(list)
    BY <1>5
  <2> DEFINE m == Len(list)
  <2> HIDE DEF list
  <2>2. m \in Nat /\ k = [i \in 1..m |-> GetId(i + 2, 1)]
    BY <2>1
  <2> HIDE DEF m, k
  <2>3. \A i \in 1..m : GetId(i + 2, 1) \in Nat \ {0}
    BY <2>2, <1>2 DEF GetId
  <2>4. k \in [1..m -> Nat \ {0}]
    BY <2>2, <2>3
  <2> QED BY <2>2, <2>4, FcnIsSeq DEF m
<1> HIDE DEF list, k
<1>7. Tree(trie', L) /\ ElementsOK(trie', elements')
  BY <1>2, <1>3, <1>4, <1>5, <1>6, AssignKeeps
<1>8. Read1 = DOMAIN lines /\ Read1' = DOMAIN lines /\ Read2 = {} /\ Read2' = {}
  <2>1. (Len(lines) + 1) - 1 = Len(lines) /\ 1..(1 - 1) = {}
    BY <1>2
  <2> QED BY <2>1, <1>2, <1>3 DEF Read1, Read2
<1>9. Indexed(lines', Read1', Read2', trie', tt', quads', L)
  BY <1>1, <1>3, <1>7, <1>8 DEF Indexed
<1>10. lines' \in Inputs /\ pass' \in 1..3 /\ next' \in 1..(Len(lines') + 1)
  BY <1>2, <1>3
<1> QED BY <1>7, <1>9, <1>10 DEF IInv

LEMMA MakeInverseIndexStep ==
    ASSUME PrefixFree, IInv, MakeInverseIndex
    PROVE  IInv'
<1>1. PICK L : Indexed(lines, Read1, Read2, trie, tt, quads, L)
  BY DEF IInv
<1> DEFINE list == Pending
           type == [i \in DOMAIN list |-> TypeOfLeaf(trie.nodes[list[i]].leaf)]
           before(i) == {j \in 1..(i - 1) : type[j] = type[i]}
           k == [i \in DOMAIN list |-> GetId(Cardinality(before(i)) + 1, type[i])]
<1>2. /\ lines \in Inputs /\ ElementsOK(trie, elements)
      /\ pass = 2 /\ next \in 1..(Len(lines) + 1) /\ SeqRange \in Nat
  <2>1. /\ lines \in Inputs /\ ElementsOK(trie, elements)
        /\ pass = 2 /\ next \in 1..(Len(lines) + 1)
    BY DEF IInv, MakeInverseIndex
  <2>2. SeqRange \in Nat
    BY <2>1, Room
  <2> QED BY <2>1, <2>2
<1>3. /\ Assign(list, k) /\ pass' = 3
      /\ lines' = lines /\ next' = next /\ tt' = tt /\ quads' = quads
  BY DEF MakeInverseIndex, AssignByType
<1>4. Tree(trie, L) /\ tt \in Seq([leaf: DOMAIN L, type: Nat])
  BY <1>1 DEF Indexed
<1>5. list \in Seq(DOMAIN trie.nodes)
  BY <1>4, LeavesAreNodes
<1>6. k \in Seq(Nat \ {0}) /\ Len(k) = Len(list)
  <2>1. Len(list) \in Nat /\ DOMAIN list = 1..Len(list)
    BY <1>5
  <2> DEFINE m == Len(list)
  <2>2. \A i \in 1..m : type[i] \in Nat
    <3>1. \A l : TypeOfLeaf(l) \in Nat
      BY <1>4, TypeOfLeafIs
    <3> QED BY <2>1, <3>1
  <2>3. \A i \in 1..m : Cardinality(before(i)) \in Nat
    <3> TAKE i \in 1..m
    <3>1. IsFiniteSet(1..(i - 1))
      BY FS_Interval
    <3>2. before(i) \subseteq 1..(i - 1)
      OBVIOUS
    <3> HIDE DEF before
    <3>3. IsFiniteSet(before(i))
      BY <3>1, <3>2, FS_Subset
    <3> QED BY <3>3, FS_CardinalityType
  <2> HIDE DEF list, before, type
  <2>4. m \in Nat /\ k = [i \in 1..m |-> GetId(Cardinality(before(i)) + 1, type[i])]
    BY <2>1
  <2> HIDE DEF m, k
  <2>5. \A i \in 1..m : GetId(Cardinality(before(i)) + 1, type[i]) \in Nat \ {0}
    <3> TAKE i \in 1..m
    <3> DEFINE c == Cardinality(before(i))
               x == type[i] * SeqRange
    <3>1. c \in Nat /\ x \in Nat
      BY <2>2, <2>3, <1>2
    <3>2. GetId(c + 1, type[i]) = x + (c + 1)
      BY DEF GetId
    <3> HIDE DEF c, x
    <3>3. GetId(c + 1, type[i]) \in Nat \ {0}
      BY <3>1, <3>2
    <3> QED BY <3>3 DEF c
  <2>6. k \in [1..m -> Nat \ {0}]
    BY <2>4, <2>5
  <2> QED BY <2>4, <2>6, FcnIsSeq DEF m
<1> HIDE DEF list, k
<1>7. Tree(trie', L) /\ ElementsOK(trie', elements')
  BY <1>2, <1>3, <1>4, <1>5, <1>6, AssignKeeps
<1>8. Read1' = Read1 /\ Read2' = Read2
  BY <1>2, <1>3 DEF Read1, Read2
<1>9. Indexed(lines', Read1', Read2', trie', tt', quads', L)
  BY <1>1, <1>3, <1>7, <1>8 DEF Indexed
<1>10. lines' \in Inputs /\ pass' \in 1..3 /\ next' \in 1..(Len(lines') + 1)
  BY <1>2, <1>3
<1> QED BY <1>7, <1>9, <1>10 DEF IInv
\* added holds the leaves of uris, in their order.
AddedAre(t2, uris, M) ==
    /\ t2.added \in Seq(Nat) /\ Len(t2.added) = Len(uris)
    /\ \A j \in 1..Len(uris) : t2.added[j] \in DOMAIN M /\ M[t2.added[j]] = uris[j]

\* A line of either kind that adds URIs in the second pass.
LEMMA LineIsAdded ==
    ASSUME PrefixFree, NEW L, NEW r1, NEW r2, NEW n, NEW l, l = lines[n], l \in Line,
           Indexed(lines, r1, r2, trie, tt, quads, L), NEW t2, t2 = AddAll(NewOf(l)),
           ElementsOK(trie, elements)
    PROVE  \E M : /\ LineAdded(lines, r2, r1, r2 \cup {n}, trie, t2, tt, quads, L, M)
                  /\ AddedAre(t2, NewOf(l), M)
                  /\ ElementsOK(t2, elements)
<1> DEFINE uris == NewOf(l)
<1>1. uris \in Seq(Uri) /\ Len(uris) \in 0..4
  BY ClassesOfIs
<1>2. \A u : IsAdded(lines, r1, r2 \cup {n}, u) <=> IsAdded(lines, r1, r2, u) \/ u \in Range(uris)
  BY DEF IsAdded
<1>3. Tree(trie, L)
  BY DEF Indexed
<1> HIDE DEF uris
<1>4. PICK M : Reached(trie, L, uris, Len(uris), t2, M)
  BY <1>1, <1>3, AddAllKeeps DEF uris
<1>5. LineAdded(lines, r2, r1, r2 \cup {n}, trie, t2, tt, quads, L, M)
  BY <1>1, <1>2, <1>4, AddsLine
<1>6. /\ Len(t2.added) = Len(uris)
      /\ \A j \in 1..Len(uris) : t2.added[j] \in DOMAIN M /\ M[t2.added[j]] = uris[j]
  BY <1>4 DEF Reached
<1>7. Tree(t2, M) /\ DOMAIN trie.nodes \subseteq DOMAIN t2.nodes
  BY <1>5 DEF LineAdded
<1>8. t2.added \in Seq(Nat) /\ ElementsOK(t2, elements)
  BY <1>7, TreeLeaves, ElementsKept
<1> QED BY <1>5, <1>6, <1>8 DEF uris, AddedAre

LEMMA ReadLineStep ==
    ASSUME PrefixFree, IInv, ReadLine
    PROVE  IInv'
<1>1. PICK L : Indexed(lines, Read1, Read2, trie, tt, quads, L)
  BY DEF IInv
<1>2. /\ lines \in Inputs /\ ElementsOK(trie, elements)
      /\ pass = 2 /\ next \in 1..Len(lines) /\ next \in Nat
      /\ Len(lines) \in Nat /\ DOMAIN lines = 1..Len(lines) /\ lines \in Seq(Line)
      /\ SeqRange \in Nat /\ SeqRange > 0
  <2>1. /\ lines \in Inputs /\ ElementsOK(trie, elements)
        /\ pass = 2 /\ next <= Len(lines) /\ next \in 1..(Len(lines) + 1)
    BY DEF IInv, ReadLine
  <2>2. Len(lines) \in Nat /\ DOMAIN lines = 1..Len(lines) /\ lines \in Seq(Line)
        /\ SeqRange \in Nat /\ 4 * Len(lines) + 3 < SeqRange
    BY <2>1, Room
  <2> QED BY <2>1, <2>2
<1>3. /\ next' = next + 1 /\ lines' = lines /\ pass' = pass /\ elements' = elements
  BY DEF ReadLine
<1> DEFINE l == lines[next]
           r == {i \in Read2 : IsQuad(lines[i])}
           r2 == {i \in Read2' : IsQuad(lines[i])}
<1>4. l \in Line /\ l.subject \in Uri /\ l.object \in Uri
  <2>1. l \in Line
    BY <1>2
  <2> QED BY <2>1 DEF Line
<1>5. /\ Read1' = Read1 /\ Read2 = 1..(next - 1) /\ Read2' = Read2 \cup {next}
      /\ next \notin Read2
  <2>1. (next + 1) - 1 = next /\ 1..next = 1..(next - 1) \cup {next}
    BY <1>2
  <2> QED BY <2>1, <1>2, <1>3 DEF Read1, Read2
<1>6. r2 = IF IsQuad(l) THEN r \cup {next} ELSE r
  BY <1>5
<1>7. lines' \in Inputs /\ pass' \in 1..3 /\ next' \in 1..(Len(lines') + 1)
  BY <1>2, <1>3
<1>8. SubClassOf # RdfType
  BY UriAssumption
<1> HIDE DEF l
<1>9. CASE l.predicate = SubClassOf
  <2>1. trie' = trie /\ tt' = tt /\ quads' = quads
    BY <1>8, <1>9 DEF ReadLine, l
  <2>2. NewOf(l) = <<>> /\ ~IsQuad(l)
    BY <1>8, <1>9 DEF NewOf, IsQuad
  <2>3. \A u : IsAdded(lines, Read1', Read2', u) <=> IsAdded(lines, Read1, Read2, u)
    <3>1. Range(NewOf(lines[next])) = {}
      BY <2>2 DEF Range, l
    <3> QED BY <3>1, <1>5 DEF IsAdded
  <2>4. r2 = r
    BY <2>2, <1>6
  <2>5. Indexed(lines', Read1', Read2', trie', tt', quads', L)
    <3>1. /\ Tree(trie, L) /\ \A u : u \in Range(L) <=> IsAdded(lines, Read1, Read2, u)
          /\ tt \in Seq([leaf: DOMAIN L, type: Nat]) /\ QuadsBy(lines, r, quads, L)
      BY <1>1 DEF Indexed
    <3> QED BY <3>1, <2>1, <2>3, <2>4, <1>3 DEF Indexed
  <2> QED BY <2>1, <2>5, <1>2, <1>3, <1>7 DEF IInv
<1>10. ASSUME l.predicate # SubClassOf, trie' = AddAll(NewOf(l))
       PROVE  \E M : /\ LineAdded(lines, Read2, Read1', Read2', trie, trie', tt, quads, L, M)
                     /\ AddedAre(trie', NewOf(l), M) /\ ElementsOK(trie', elements)
  <2>1. l = lines[next]
    BY DEF l
  <2>2. \E M : /\ LineAdded(lines, Read2, Read1, Read2 \cup {next}, trie, trie', tt, quads, L, M)
               /\ AddedAre(trie', NewOf(l), M) /\ ElementsOK(trie', elements)
    BY <2>1, <1>1, <1>2, <1>4, <1>10, LineIsAdded
  <2> QED BY <2>2, <1>5
<1>11. CASE l.predicate = RdfType
  <2>1. /\ trie' = AddAll(<<l.subject>>) /\ quads' = quads
        /\ tt' = Append(tt, [leaf |-> trie'.added[1], type |-> GetSeq(GetIn(trie', l.object))])
    BY <1>8, <1>11 DEF ReadLine, l
  <2>2. NewOf(l) = <<l.subject>> /\ ~IsQuad(l)
    BY <1>11 DEF NewOf, IsQuad
  <2>3. PICK M : /\ LineAdded(lines, Read2, Read1', Read2', trie, trie', tt, quads, L, M)
                 /\ AddedAre(trie', NewOf(l), M) /\ ElementsOK(trie', elements)
    BY <2>1, <2>2, <1>8, <1>10, <1>11
  <2>4. trie'.added[1] \in DOMAIN M
    <3>1. 1 \in 1..Len(<<l.subject>>)
      OBVIOUS
    <3> QED BY <3>1, <2>2, <2>3 DEF AddedAre
  <2>5. /\ Tree(trie', M) /\ tt \in Seq([leaf: DOMAIN M, type: Nat])
        /\ \A u : u \in Range(M) <=> IsAdded(lines, Read1', Read2', u)
        /\ QuadsBy(lines, r, quads, M)
    BY <2>3 DEF LineAdded
  <2>6. GetSeq(GetIn(trie', l.object)) \in Nat
    <3>1. GetIn(trie', l.object) \in Nat
      <4>1. l.object \in Seq(Char) /\ l.object # <<>>
        BY <1>4, UriAssumption
      <4> QED BY <4>1, <2>5, GetIs
    <3> QED BY <3>1, <1>2 DEF GetSeq
  <2>7. tt' \in Seq([leaf: DOMAIN M, type: Nat])
    <3> DEFINE S == [leaf: DOMAIN M, type: Nat]
               x == [leaf |-> trie'.added[1], type |-> GetSeq(GetIn(trie', l.object))]
    <3>1. x \in S /\ tt \in Seq(S) /\ tt' = Append(tt, x)
      BY <2>1, <2>4, <2>5, <2>6
    <3> HIDE DEF S, x
    <3>2. tt' \in Seq(S)
      BY <3>1, StartsAppend
    <3> QED BY <3>2 DEF S
  <2>8. QuadsBy(lines, r2, quads, M)
    <3>1. r2 = r
      BY <2>2, <1>6
    <3> HIDE DEF r, r2
    <3> QED BY <3>1, <2>5
  <2>9. Indexed(lines', Read1', Read2', trie', tt', quads', M)
    BY <2>1, <2>5, <2>7, <2>8, <1>3 DEF Indexed
  <2> QED BY <2>3, <2>9, <1>3, <1>7 DEF IInv
<1>12. CASE l.predicate \notin {RdfType, SubClassOf}
  <2>1. /\ trie' = AddAll(<<l.subject, l.predicate, l.object, l.prov>>) /\ tt' = tt
        /\ quads' = Append(quads, trie'.added)
    BY <1>12 DEF ReadLine, l
  <2>2. NewOf(l) = <<l.subject, l.predicate, l.object, l.prov>> /\ IsQuad(l)
    BY <1>12 DEF NewOf, IsQuad
  <2>3. PICK M : /\ LineAdded(lines, Read2, Read1', Read2', trie, trie', tt, quads, L, M)
                 /\ AddedAre(trie', NewOf(l), M) /\ ElementsOK(trie', elements)
    BY <2>1, <2>2, <1>10, <1>12
  <2>4. /\ Tree(trie', M) /\ tt \in Seq([leaf: DOMAIN M, type: Nat]) /\ M \in Seq(Uri)
        /\ \A u : u \in Range(M) <=> IsAdded(lines, Read1', Read2', u)
        /\ QuadsBy(lines, r, quads, M)
    BY <2>3 DEF LineAdded
  <2> DEFINE q == trie'.added
  <2>5. q \in [1..4 -> DOMAIN M] /\ \A j \in 1..4 : M[q[j]] = NewOf(l)[j]
    <3>1. Len(<<l.subject, l.predicate, l.object, l.prov>>) = 4
      OBVIOUS
    <3>2. /\ q \in Seq(Nat) /\ Len(q) = 4
          /\ \A j \in 1..4 : q[j] \in DOMAIN M /\ M[q[j]] = NewOf(l)[j]
      BY <3>1, <2>2, <2>3 DEF AddedAre
    <3> HIDE DEF q
    <3>3. DOMAIN q = 1..4 /\ q = [j \in 1..4 |-> q[j]]
      BY <3>2
    <3> QED BY <3>2, <3>3
  <2>6. QuadsBy(lines, r2, quads', M)
    <3>1. r2 = r \cup {next} /\ quads' = Append(quads, q) /\ l = lines[next]
      BY <2>1, <2>2, <1>6 DEF l
    <3>2. \A i \in r : i \in Nat /\ i < next
      BY <1>2, <1>5
    <3>3. \A j \in 1..4 : M[q[j]] = NewOf(lines[next])[j]
      BY <2>5, <3>1
    <3> HIDE DEF r, r2, q
    <3>4. QuadsBy(lines, r \cup {next}, Append(quads, q), M)
      BY <3>2, <3>3, <2>4, <2>5, <1>2, QuadsNext
    <3> QED BY <3>1, <3>4
  <2>7. Indexed(lines', Read1', Read2', trie', tt', quads', M)
    BY <2>1, <2>4, <2>6, <1>3 DEF Indexed
  <2> QED BY <2>3, <2>7, <1>3, <1>7 DEF IInv
<1> QED BY <1>9, <1>11, <1>12

\* IInv holds in every state that is reached.
LEMMA NextIInv == ASSUME PrefixFree PROVE IInv /\ [Next]_vars => IInv'
<1> SUFFICES ASSUME IInv, [Next]_vars PROVE IInv'
  OBVIOUS
<1>1. CASE ReadClasses
  BY <1>1, ReadClassesStep
<1>2. CASE MakeInverseIndexTypes
  BY <1>2, MakeInverseIndexTypesStep
<1>3. CASE ReadLine
  BY <1>3, ReadLineStep
<1>4. CASE MakeInverseIndex
  BY <1>4, MakeInverseIndexStep
<1>5. CASE UNCHANGED vars
  <2>1. Read1' = Read1 /\ Read2' = Read2
    BY <1>5 DEF vars, Read1, Read2
  <2> QED BY <2>1, <1>5 DEF IInv, vars
<1> QED BY <1>1, <1>2, <1>3, <1>4, <1>5 DEF Next

THEOREM IndexInvariant == ASSUME PrefixFree PROVE Spec => []IInv
<1>1. Init => IInv
  BY InitIInv
<1>2. IInv /\ [Next]_vars => IInv'
  BY NextIInv
<1> QED BY <1>1, <1>2, PTL DEF Spec

\* The leaves of a URI.
LEMMA LeavesOfUri ==
    ASSUME NEW L, Tree(trie, L), NEW u \in Uri
    PROVE  LeavesOf(u) = {l \in DOMAIN L : L[l] = u}
<1>1. PICK W : KeyTree(trie.nodes, trie.uri_id, W, L)
  BY DEF Tree
<1>2. Linked(trie.nodes, trie.uri_id) /\ Worded(trie.nodes, W)
  BY <1>1 DEF KeyTree
<1>3. u \in Seq(Char) /\ u # <<>>
  BY UriAssumption
<1> QED BY <1>1, <1>2, <1>3, LeavesOfIs, LeafOfWord

LEMMA AddedIs ==
    ASSUME NEW L, Indexed(lines, Read1, Read2, trie, tt, quads, L)
    PROVE  \A u : u \in Added <=> u \in Range(L)
<1>1. Added = AddedSet(lines, Read1, Read2)
  BY DEF Added, Classes, AddedSet
<1> QED BY <1>1, AddedSetIs DEF Indexed

-----------------------------------------------------------------------------
(* The words of the nodes in the code, and the sweep *)

LEMMA StartAndRest ==
    ASSUME NEW S, NEW a \in Seq(S), NEW w \in Seq(S), Starts(a, w)
    PROVE  a \o From(w, Len(a)) = w
<1> DEFINE r == From(w, Len(a))
           v == a \o r
<1>1. Len(a) \in 0..Len(w) /\ Len(a) \in Nat /\ Len(w) \in Nat
  BY DEF Starts
<1>2. /\ r \in Seq(S) /\ Len(r) = Len(w) - Len(a)
      /\ \A i \in 1..(Len(w) - Len(a)) : r[i] = w[Len(a) + i]
  BY <1>1, FromIs
<1> HIDE DEF r
<1>3. /\ v \in Seq(S) /\ Len(v) = Len(a) + Len(r)
      /\ \A i \in 1..Len(v) : v[i] = IF i <= Len(a) THEN a[i] ELSE r[i - Len(a)]
  BY <1>2
<1> HIDE DEF v
<1>4. Len(v) = Len(w)
  BY <1>1, <1>2, <1>3
<1>5. ASSUME NEW i \in 1..Len(v) PROVE v[i] = w[i]
  <2>1. CASE i <= Len(a)
    <3>1. i \in 1..Len(a)
      BY <2>1, <1>1
    <3> QED BY <2>1, <3>1, <1>3 DEF Starts
  <2>2. CASE ~(i <= Len(a))
    <3>1. i - Len(a) \in 1..(Len(w) - Len(a)) /\ Len(a) + (i - Len(a)) = i
      BY <2>2, <1>1, <1>4
    <3> QED BY <2>2, <3>1, <1>2, <1>3
  <2> QED BY <2>1, <2>2
<1>6. v = w
  BY <1>3, <1>4, <1>5, SeqEqual
<1> QED BY <1>6 DEF v, r

\* Node::GetUri spells the word of a node.
LEMMA GetUriIs ==
    ASSUME NEW W, Linked(trie.nodes, trie.uri_id), Worded(trie.nodes, W),
           NEW n \in DOMAIN trie.nodes
    PROVE  GetUri(n) = W[n]
<1> DEFINE nodes == trie.nodes
           D == {NoNode} \cup DOMAIN nodes
           Body(f, m) == IF m = NoNode THEN <<>> ELSE f[nodes[m].prev] \o nodes[m].uri
           Solves(f) == f = [m \in D |-> Body(f, m)]
           h == CHOOSE f : Solves(f)
           V == [m \in D |-> W[m]]
<1>1. /\ Len(nodes) \in Nat /\ DOMAIN nodes = 1..Len(nodes)
      /\ \A p \in 0..Len(nodes) : W[p] \in Seq(Char) /\ Len(W[p]) \in Nat
      /\ \A p \in DOMAIN nodes : /\ nodes[p].prev \in 0..Len(nodes)
                                 /\ Len(W[nodes[p].prev]) < Len(W[p])
                                 /\ Starts(W[nodes[p].prev], W[p])
      /\ W[0] = <<>>
  BY WordFacts
<1>2. D = 0..Len(nodes) /\ \A m \in D : m # NoNode => m \in DOMAIN nodes
  BY <1>1 DEF NoNode
<1>3. ASSUME NEW m \in DOMAIN nodes PROVE W[m] = W[nodes[m].prev] \o nodes[m].uri
  <2> DEFINE p == nodes[m].prev
  <2>1. p \in 0..Len(nodes) /\ Starts(W[p], W[m]) /\ W[p] \in Seq(Char) /\ W[m] \in Seq(Char)
    BY <1>1, <1>2
  <2>2. nodes[m].uri = From(W[m], Len(W[p]))
    BY DEF Worded
  <2> HIDE DEF p
  <2>3. W[p] \o From(W[m], Len(W[p])) = W[m]
    BY <2>1, StartAndRest
  <2> QED BY <2>2, <2>3 DEF p
<1>4. Solves(V)
  <2>1. ASSUME NEW m \in D PROVE V[m] = Body(V, m)
    <3>1. CASE m = NoNode
      BY <3>1, <1>1 DEF NoNode
    <3>2. CASE m # NoNode
      BY <3>2, <1>1, <1>2, <1>3
    <3> QED BY <3>1, <3>2
  <2> HIDE DEF Body
  <2> QED BY <2>1
<1>5. GetUri(n) = h[n]
  BY DEF GetUri
<1>6. Solves(h)
  <2> HIDE DEF Solves, V
  <2> QED BY <1>4
<1> HIDE DEF h
<1>7. \A m \in D : h[m] = Body(h, m)
  <2> HIDE DEF Body
  <2> QED BY <1>6
<1> DEFINE Good == {k \in Nat : \A m \in D : Len(W[m]) < k => h[m] = W[m]}
<1>8. Nat \subseteq Good
  <2>1. 0 \in Good
    BY <1>1, <1>2
  <2>2. ASSUME NEW k \in Nat, k \in Good PROVE k + 1 \in Good
    <3> SUFFICES ASSUME NEW m \in D, Len(W[m]) < k + 1 PROVE h[m] = W[m]
      OBVIOUS
    <3>1. CASE m = NoNode
      BY <3>1, <1>1, <1>7 DEF NoNode
    <3>2. CASE m # NoNode
      <4> DEFINE p == nodes[m].prev
                 a == Len(W[p])
      <4>1. m \in DOMAIN nodes /\ p \in D /\ a \in Nat /\ a < Len(W[m]) /\ Len(W[m]) \in Nat
        BY <3>2, <1>1, <1>2
      <4>2. a < k
        <5> HIDE DEF a
        <5> QED BY <4>1
      <4>3. h[p] = W[p]
        BY <4>1, <4>2, <2>2
      <4>4. h[m] = h[p] \o nodes[m].uri
        BY <3>2, <1>7
      <4> QED BY <4>1, <4>3, <4>4, <1>3
    <3> QED BY <3>1, <3>2
  <2> HIDE DEF Good
  <2> QED BY <2>1, <2>2, SetInduction
<1>9. n \in D /\ Len(W[n]) + 1 \in Good /\ Len(W[n]) < Len(W[n]) + 1
  BY <1>1, <1>2, <1>8
<1> QED BY <1>5, <1>9

\* Two sequences, one after the other.
LEMMA JoinIs ==
    ASSUME NEW N, NEW s \in Seq(N), NEW t \in Seq(N)
    PROVE  /\ s \o t \in Seq(N)
           /\ \A x : x \in Range(s \o t) <=> x \in Range(s) \/ x \in Range(t)
           /\ Once(s) /\ Once(t) /\ (\A x \in Range(s) : x \notin Range(t)) => Once(s \o t)
<1> DEFINE v == s \o t
<1>1. /\ v \in Seq(N) /\ Len(v) = Len(s) + Len(t) /\ Len(s) \in Nat /\ Len(t) \in Nat
      /\ \A i \in 1..Len(s) : v[i] = s[i]
      /\ \A i \in 1..Len(t) : v[Len(s) + i] = t[i]
      /\ DOMAIN s = 1..Len(s) /\ DOMAIN t = 1..Len(t)
  OBVIOUS
<1> HIDE DEF v
<1>2. DOMAIN v = 1..Len(v)
  BY <1>1
<1>3. ASSUME NEW i \in 1..Len(v)
      PROVE  i \in 1..Len(s) \/ \E j \in 1..Len(t) : i = Len(s) + j
  <2>1. CASE i > Len(s)
    <3>1. i - Len(s) \in 1..Len(t) /\ i = Len(s) + (i - Len(s))
      BY <2>1, <1>1
    <3> QED BY <3>1
  <2>2. CASE ~(i > Len(s))
    BY <2>2, <1>1
  <2> QED BY <2>1, <2>2
<1>4. /\ \A i \in 1..Len(s) : i \in 1..Len(v)
      /\ \A j \in 1..Len(t) : Len(s) + j \in 1..Len(v)
  BY <1>1
<1>5. ASSUME NEW x PROVE x \in Range(v) <=> x \in Range(s) \/ x \in Range(t)
  <2>1. ASSUME x \in Range(v) PROVE x \in Range(s) \/ x \in Range(t)
    <3>1. PICK i \in 1..Len(v) : v[i] = x
      BY <2>1, <1>2 DEF Range
    <3>2. CASE i \in 1..Len(s)
      BY <3>1, <3>2, <1>1 DEF Range
    <3>3. CASE i \notin 1..Len(s)
      <4>1. PICK j \in 1..Len(t) : i = Len(s) + j
        BY <3>3, <1>3
      <4>2. x = t[j]
        BY <3>1, <4>1, <1>1
      <4> QED BY <4>2, <1>1 DEF Range
    <3> QED BY <3>2, <3>3
  <2>2. ASSUME x \in Range(s) PROVE x \in Range(v)
    <3>1. PICK i \in 1..Len(s) : s[i] = x
      BY <2>2, <1>1 DEF Range
    <3> QED BY <3>1, <1>1, <1>2, <1>4 DEF Range
  <2>3. ASSUME x \in Range(t) PROVE x \in Range(v)
    <3>1. PICK j \in 1..Len(t) : t[j] = x
      BY <2>3, <1>1 DEF Range
    <3>2. Len(s) + j \in DOMAIN v /\ v[Len(s) + j] = x
      BY <3>1, <1>1, <1>2, <1>4
    <3> QED BY <3>2 DEF Range
  <2> QED BY <2>1, <2>2, <2>3
<1>6. ASSUME Once(s), Once(t), \A x \in Range(s) : x \notin Range(t) PROVE Once(v)
  <2> SUFFICES ASSUME NEW i \in 1..Len(v), NEW j \in 1..Len(v), v[i] = v[j] PROVE i = j
    BY DEF Once
  <2>1. \A a \in 1..Len(s), b \in 1..Len(t) : s[a] # t[b]
    BY <1>1, <1>6 DEF Range
  <2>2. CASE i \in 1..Len(s) /\ j \in 1..Len(s)
    BY <2>2, <1>1, <1>6 DEF Once
  <2>3. CASE i \in 1..Len(s) /\ j \notin 1..Len(s)
    BY <2>1, <2>3, <1>1, <1>3
  <2>4. CASE i \notin 1..Len(s) /\ j \in 1..Len(s)
    BY <2>1, <2>4, <1>1, <1>3
  <2>5. CASE i \notin 1..Len(s) /\ j \notin 1..Len(s)
    <3>1. PICK a \in 1..Len(t) : i = Len(s) + a
      BY <2>5, <1>3
    <3>2. PICK b \in 1..Len(t) : j = Len(s) + b
      BY <2>5, <1>3
    <3>3. t[a] = t[b]
      BY <3>1, <3>2, <1>1
    <3>4. a = b
      BY <3>3, <1>6 DEF Once
    <3> QED BY <3>1, <3>2, <3>4
  <2> QED BY <2>2, <2>3, <2>4, <2>5
<1> QED BY <1>1, <1>5, <1>6 DEF v

LEMMA OnlyOne ==
    ASSUME NEW N, NEW x \in N
    PROVE  <<x>> \in Seq(N) /\ Once(<<x>>) /\ \A y : y \in Range(<<x>>) <=> y = x
BY DEF Once, Range

\* x is child i of the list, or below it.
Part(list, below, i, x) == x = list[i] \/ x \in Range(below[list[i]])

\* A walk comes to each child and to what is below it once, if they are apart.
LEMMA WalkExact ==
    ASSUME NEW N, NEW list \in Seq(N), NEW below,
           \A i \in 1..Len(list) : /\ below[list[i]] \in Seq(N) /\ Once(below[list[i]])
                                   /\ list[i] \notin Range(below[list[i]]),
           \A i, j \in 1..Len(list) : \A x :
               Part(list, below, i, x) /\ Part(list, below, j, x) => i = j
    PROVE  /\ Once(Walk(list, below))
           /\ \A x : x \in Range(Walk(list, below)) <=> \E i \in 1..Len(list) : Part(list, below, i, x)
<1>1. PICK g : Walked(N, list, below, g) /\ Walk(list, below) = g[Len(list)]
  BY WalkIs
<1> DEFINE Right(n) == /\ g[n] \in Seq(N) /\ Once(g[n])
                       /\ \A x : x \in Range(g[n]) <=> \E i \in 1..n : Part(list, below, i, x)
           Good == {n \in Nat : n <= Len(list) => Right(n)}
<1>2. 0 \in Good
  <2>1. g[0] = <<>> /\ <<>> \in Seq(N) /\ Len(<<>>) = 0 /\ Range(<<>>) = {} /\ 1..0 = {}
    BY <1>1 DEF Walked, Range
  <2>2. Once(g[0])
    BY <2>1 DEF Once
  <2> QED BY <2>1, <2>2
<1>3. ASSUME NEW n \in Nat, n \in Good PROVE n + 1 \in Good
  <2> SUFFICES ASSUME n + 1 <= Len(list) PROVE Right(n + 1)
    <3> HIDE DEF Right
    <3> QED OBVIOUS
  <2> DEFINE c == list[n + 1]
             b == below[c]
             s == g[n] \o <<c>>
  <2>1. /\ n + 1 \in 1..Len(list) /\ (n + 1) - 1 = n /\ n <= Len(list) /\ c \in N
        /\ \A i \in 1..n : i \in 1..Len(list) /\ i # n + 1
        /\ \A i \in 1..(n + 1) : i \in 1..n \/ i = n + 1
        /\ \A i \in 1..n : i \in 1..(n + 1)
        /\ n + 1 \in 1..(n + 1)
    OBVIOUS
  <2>2. Right(n)
    <3> HIDE DEF Right
    <3> QED BY <2>1, <1>3
  <2>3. g[n + 1] = s \o b
    BY <2>1, <1>1 DEF Walked
  <2>4. b \in Seq(N) /\ Once(b) /\ c \notin Range(b)
    BY <2>1
  <2>5. \A x : Part(list, below, n + 1, x) <=> x = c \/ x \in Range(b)
    BY DEF Part
  <2>6. \A x \in Range(g[n]) : x # c /\ x \notin Range(b)
    <3> SUFFICES ASSUME NEW x \in Range(g[n]), x = c \/ x \in Range(b) PROVE FALSE
      OBVIOUS
    <3>1. PICK i \in 1..n : Part(list, below, i, x)
      BY <2>2
    <3>2. Part(list, below, n + 1, x)
      BY <2>5
    <3> QED BY <3>1, <3>2, <2>1
  <2> HIDE DEF b, c
  <2>7. <<c>> \in Seq(N) /\ Once(<<c>>) /\ \A y : y \in Range(<<c>>) <=> y = c
    BY <2>1, OnlyOne
  <2>8. /\ s \in Seq(N) /\ Once(s)
        /\ \A x : x \in Range(s) <=> x \in Range(g[n]) \/ x = c
    <3>1. \A x \in Range(g[n]) : x \notin Range(<<c>>)
      BY <2>6, <2>7
    <3>2. g[n] \in Seq(N) /\ Once(g[n])
      BY <2>2
    <3> HIDE DEF Right
    <3> QED BY <3>1, <3>2, <2>7, JoinIs
  <2> HIDE DEF s
  <2>9. /\ s \o b \in Seq(N) /\ Once(s \o b)
        /\ \A x : x \in Range(s \o b) <=> x \in Range(g[n]) \/ x = c \/ x \in Range(b)
    <3>1. \A x \in Range(s) : x \notin Range(b)
      BY <2>4, <2>6, <2>8
    <3> HIDE DEF Right
    <3> QED BY <3>1, <2>4, <2>8, JoinIs
  <2>10. ASSUME NEW x
         PROVE  x \in Range(g[n + 1]) <=> \E i \in 1..(n + 1) : Part(list, below, i, x)
    <3>1. x \in Range(g[n]) <=> \E i \in 1..n : Part(list, below, i, x)
      BY <2>2
    <3> HIDE DEF Right
    <3> QED BY <3>1, <2>1, <2>3, <2>5, <2>9
  <2> QED BY <2>3, <2>9, <2>10
<1>4. Nat \subseteq Good
  <2> HIDE DEF Good
  <2> QED BY <1>2, <1>3, SetInduction
<1> HIDE DEF Right
<1>5. Right(Len(list))
  <2>1. Len(list) \in Nat /\ Len(list) <= Len(list)
    OBVIOUS
  <2> QED BY <2>1, <1>4
<1> QED BY <1>1, <1>5 DEF Right

-----------------------------------------------------------------------------
(* The sweep comes to every node once *)

Under(nodes, W, n, x) == x \in DOMAIN nodes /\ Len(W[n]) < Len(W[x]) /\ Starts(W[n], W[x])

\* s is all that is below n, once.
Sweeps(nodes, W, n, s) == Once(s) /\ \A x : x \in Range(s) <=> Under(nodes, W, n, x)

LEMMA UnderChild ==
    ASSUME NEW nodes, NEW roots, NEW W, Linked(nodes, roots), Worded(nodes, W),
           NEW n \in 0..Len(nodes), NEW x
    PROVE  Under(nodes, W, n, x) <=>
               \E c \in DOMAIN nodes : nodes[c].prev = n /\ (x = c \/ Under(nodes, W, c, x))
<1>1. /\ Len(nodes) \in Nat /\ DOMAIN nodes = 1..Len(nodes)
      /\ \A p \in 0..Len(nodes) : W[p] \in Seq(Char) /\ Len(W[p]) \in Nat
      /\ \A p \in DOMAIN nodes : /\ p \in 0..Len(nodes) /\ nodes[p].prev \in 0..Len(nodes)
                                 /\ Len(W[nodes[p].prev]) < Len(W[p])
                                 /\ Starts(W[nodes[p].prev], W[p])
  BY WordFacts
<1>2. ASSUME Under(nodes, W, n, x)
      PROVE  \E c \in DOMAIN nodes : nodes[c].prev = n /\ (x = c \/ Under(nodes, W, c, x))
  <2>1. x \in DOMAIN nodes /\ x \in 0..Len(nodes) /\ Len(W[n]) < Len(W[x]) /\ Starts(W[n], W[x])
    BY <1>1, <1>2 DEF Under
  <2>2. PICK c \in DOMAIN nodes : nodes[c].prev = n /\ Starts(W[c], W[x])
    BY <2>1, AllDescend DEF Descends
  <2>3. c \in 0..Len(nodes) /\ W[c] \in Seq(Char) /\ W[x] \in Seq(Char)
        /\ Len(W[c]) \in Nat /\ Len(W[x]) \in Nat
    BY <1>1, <2>1
  <2>4. CASE Len(W[c]) < Len(W[x])
    BY <2>1, <2>2, <2>4 DEF Under
  <2>5. CASE ~(Len(W[c]) < Len(W[x]))
    <3>1. W[c] = W[x]
      BY <2>2, <2>3, <2>5, StartsWhole
    <3>2. c = x
      BY <3>1, <2>1, <2>3, AllDescend DEF Descends
    <3> QED BY <2>2, <3>2
  <2> QED BY <2>4, <2>5
<1>3. ASSUME NEW c \in DOMAIN nodes, nodes[c].prev = n, x = c \/ Under(nodes, W, c, x)
      PROVE  Under(nodes, W, n, x)
  <2>1. c \in 0..Len(nodes) /\ Len(W[n]) < Len(W[c]) /\ Starts(W[n], W[c])
    BY <1>1, <1>3
  <2>2. CASE x = c
    BY <2>1, <2>2 DEF Under
  <2>3. CASE Under(nodes, W, c, x)
    <3>1. x \in DOMAIN nodes /\ x \in 0..Len(nodes) /\ Len(W[c]) < Len(W[x]) /\ Starts(W[c], W[x])
      BY <2>3, <1>1 DEF Under
    <3>2. Starts(W[n], W[x])
      BY <2>1, <3>1, <1>1, StartsTransitive
    <3>3. Len(W[n]) < Len(W[x])
      BY <2>1, <3>1, <1>1
    <3> QED BY <3>1, <3>2, <3>3 DEF Under
  <2> QED BY <1>3, <2>2, <2>3
<1> QED BY <1>2, <1>3

\* The children of n and what is below them are apart.
LEMMA ChildrenApart ==
    ASSUME NEW nodes, NEW roots, NEW W, Linked(nodes, roots), Worded(nodes, W),
           NEW c \in DOMAIN nodes, NEW d \in DOMAIN nodes, nodes[c].prev = nodes[d].prev, NEW x,
           x = c \/ Under(nodes, W, c, x), x = d \/ Under(nodes, W, d, x)
    PROVE  c = d
<1>1. /\ \A p \in 0..Len(nodes) : W[p] \in Seq(Char)
      /\ \A p \in DOMAIN nodes : p \in 0..Len(nodes)
  BY WordFacts
<1>2. x \in DOMAIN nodes /\ W[x] \in Seq(Char)
  BY <1>1 DEF Under
<1>3. Starts(W[x], W[x])
  BY <1>2, StartsItself
<1>4. Starts(W[c], W[x]) /\ Starts(W[d], W[x])
  BY <1>3 DEF Under
<1> QED BY <1>2, <1>4, SameWay

LEMMA BelowExact ==
    ASSUME NEW t, NEW W, Linked(t.nodes, t.uri_id), Worded(t.nodes, W)
    PROVE  \A n \in 0..Len(t.nodes) : Sweeps(t.nodes, W, n, Below(t)[n])
<1> DEFINE nodes == t.nodes
           list(n) == Kids(nodes, t.uri_id, n)
<1>1. /\ Len(nodes) \in Nat /\ DOMAIN nodes = 1..Len(nodes)
      /\ \A p \in 0..Len(nodes) : W[p] \in Seq(Char) /\ Len(W[p]) \in Nat
      /\ \A p \in DOMAIN nodes : p \in 0..Len(nodes)
  BY WordFacts
<1>2. PICK size \in [0..Len(nodes) -> Nat] : \A c \in DOMAIN nodes : size[c] < size[nodes[c].prev]
  BY SomeDepths DEF Depths
<1> DEFINE Good == {k \in Nat : \A n \in 0..Len(nodes) :
                       size[n] < k => Sweeps(nodes, W, n, Below(t)[n])}
<1>3. \A n \in 0..Len(nodes) : size[n] \in Nat
  BY <1>2
<1>4. 0 \in Good
  BY <1>3
<1>5. ASSUME NEW k \in Nat, k \in Good PROVE k + 1 \in Good
  <2> SUFFICES ASSUME NEW n \in 0..Len(nodes), size[n] < k + 1
               PROVE  Sweeps(nodes, W, n, Below(t)[n])
    OBVIOUS
  <2> DEFINE s == list(n)
             b == Below(t)
  <2>1. s \in Seq(DOMAIN nodes) /\ b[n] = Walk(s, b)
    BY BelowIs
  <2>2. Once(s) /\ \A c \in DOMAIN nodes : c \in Range(s) <=> nodes[c].prev = n
    BY DEF Linked
  <2>3. ASSUME NEW i \in 1..Len(s)
        PROVE  /\ s[i] \in DOMAIN nodes /\ nodes[s[i]].prev = n
               /\ b[s[i]] \in Seq(DOMAIN nodes) /\ Sweeps(nodes, W, s[i], b[s[i]])
               /\ s[i] \notin Range(b[s[i]])
    <3>1. s[i] \in DOMAIN nodes /\ s[i] \in Range(s)
      <4>1. DOMAIN s = 1..Len(s)
        BY <2>1
      <4> HIDE DEF s
      <4> QED BY <2>1, <4>1 DEF Range
    <3> DEFINE c == s[i]
    <3>2. nodes[c].prev = n /\ c \in 0..Len(nodes)
      BY <2>2, <3>1, <1>1
    <3>3. size[c] < k
      <4>1. size[c] < size[n]
        BY <3>1, <3>2, <1>2
      <4>2. size[c] \in Nat /\ size[n] \in Nat
        BY <3>2, <1>3
      <4> HIDE DEF c
      <4> QED BY <4>1, <4>2
    <3>4. Sweeps(nodes, W, c, b[c])
      BY <1>5, <3>2, <3>3
    <3>5. b[c] \in Seq(DOMAIN nodes)
      BY <3>2, BelowIs
    <3>6. c \notin Range(b[c])
      BY <3>2, <3>4, <1>1 DEF Sweeps, Under
    <3> QED BY <3>1, <3>2, <3>4, <3>5, <3>6
  <2>4. ASSUME NEW i \in 1..Len(s), NEW x
        PROVE  Part(s, b, i, x) <=> x = s[i] \/ Under(nodes, W, s[i], x)
    BY <2>3 DEF Sweeps, Part
  <2>5. ASSUME NEW i \in 1..Len(s), NEW j \in 1..Len(s), NEW x, Part(s, b, i, x), Part(s, b, j, x)
        PROVE  i = j
    <3>1. s[i] = s[j]
      <4> DEFINE c == s[i]
                 d == s[j]
      <4>1. c \in DOMAIN nodes /\ d \in DOMAIN nodes /\ nodes[c].prev = nodes[d].prev
        BY <2>3
      <4>2. (x = c \/ Under(nodes, W, c, x)) /\ (x = d \/ Under(nodes, W, d, x))
        BY <2>4, <2>5
      <4> HIDE DEF c, d
      <4>3. c = d
        BY <4>1, <4>2, ChildrenApart
      <4> QED BY <4>3 DEF c, d
    <3> QED BY <3>1, <2>2 DEF Once
  <2>6. /\ Once(Walk(s, b))
        /\ \A x : x \in Range(Walk(s, b)) <=> \E i \in 1..Len(s) : Part(s, b, i, x)
    <3>1. \A i \in 1..Len(s) : /\ b[s[i]] \in Seq(DOMAIN nodes) /\ Once(b[s[i]])
                               /\ s[i] \notin Range(b[s[i]])
      BY <2>3 DEF Sweeps
    <3>2. \A i, j \in 1..Len(s) : \A x : Part(s, b, i, x) /\ Part(s, b, j, x) => i = j
      BY <2>5
    <3> HIDE DEF s, b
    <3> QED BY <2>1, <3>1, <3>2, WalkExact
  <2>7. ASSUME NEW x PROVE x \in Range(b[n]) <=> Under(nodes, W, n, x)
    <3>1. Under(nodes, W, n, x) <=>
              \E c \in DOMAIN nodes : nodes[c].prev = n /\ (x = c \/ Under(nodes, W, c, x))
      BY UnderChild
    <3>2. \A c \in DOMAIN nodes : nodes[c].prev = n <=> \E i \in 1..Len(s) : s[i] = c
      <4>1. DOMAIN s = 1..Len(s)
        BY <2>1
      <4> HIDE DEF s
      <4> QED BY <2>2, <4>1 DEF Range
    <3> HIDE DEF s, b
    <3> QED BY <3>1, <3>2, <2>1, <2>3, <2>4, <2>6
  <2> QED BY <2>1, <2>6, <2>7 DEF Sweeps
<1>6. Nat \subseteq Good
  <2> HIDE DEF Good
  <2> QED BY <1>4, <1>5, SetInduction
<1>7. ASSUME NEW n \in 0..Len(nodes) PROVE Sweeps(nodes, W, n, Below(t)[n])
  <2>1. size[n] + 1 \in Good /\ size[n] < size[n] + 1
    <3> HIDE DEF Good
    <3> QED BY <1>3, <1>6
  <2> QED BY <2>1
<1> QED BY <1>7

LEMMA PreorderExact ==
    ASSUME NEW L, Tree(trie, L)
    PROVE  Once(Preorder) /\ \A x : x \in Range(Preorder) <=> x \in DOMAIN trie.nodes
<1>1. PICK W : KeyTree(trie.nodes, trie.uri_id, W, L)
  BY DEF Tree
<1>2. Linked(trie.nodes, trie.uri_id) /\ Worded(trie.nodes, W)
  BY <1>1 DEF KeyTree
<1>3. /\ Len(trie.nodes) \in Nat /\ DOMAIN trie.nodes = 1..Len(trie.nodes)
      /\ \A p \in 0..Len(trie.nodes) : W[p] \in Seq(Char) /\ Len(W[p]) \in Nat
      /\ \A p \in DOMAIN trie.nodes : /\ p \in 0..Len(trie.nodes)
                                      /\ trie.nodes[p].prev \in 0..Len(trie.nodes)
                                      /\ Len(W[trie.nodes[p].prev]) < Len(W[p])
      /\ W[0] = <<>> /\ Len(W[0]) = 0
  BY <1>2, WordFacts
<1>4. Sweeps(trie.nodes, W, 0, Preorder)
  <2>1. 0 \in 0..Len(trie.nodes) /\ Preorder = Below(trie)[0]
    BY <1>3 DEF Preorder, NoNode
  <2>2. \A n \in 0..Len(trie.nodes) : Sweeps(trie.nodes, W, n, Below(trie)[n])
    BY <1>2, BelowExact
  <2> QED BY <2>1, <2>2
<1>5. ASSUME NEW x \in DOMAIN trie.nodes PROVE Under(trie.nodes, W, 0, x)
  <2>1. Len(W[x]) \in Nat /\ Len(W[trie.nodes[x].prev]) \in Nat
    BY <1>3
  <2> QED BY <1>3, <2>1 DEF Under, Starts
<1> QED BY <1>4, <1>5 DEF Sweeps, Under

-----------------------------------------------------------------------------
(* How many keys are given *)

LEMMA NoSqueeze ==
    ASSUME NEW a \in Nat, NEW b \in Nat, NEW f \in [1..a -> 1..b],
           \A i, j \in 1..a : f[i] = f[j] => i = j
    PROVE  a <= b
<1>1. /\ IsFiniteSet(1..a) /\ Cardinality(1..a) = a
      /\ IsFiniteSet(1..b) /\ Cardinality(1..b) = b
  BY FS_Interval
<1>2. ASSUME b < a PROVE FALSE
  <2>1. Cardinality(1..b) < Cardinality(1..a)
    BY <1>1, <1>2
  <2>2. \E x, y \in 1..a : x # y /\ f[x] = f[y]
    BY <1>1, <2>1, FS_PigeonHole
  <2> QED BY <2>2
<1> QED BY <1>2

\* The URIs a line adds in one pass or the other.
OfLine(l) == ClassesOf(l) \o NewOf(l)

LEMMA OfLineIs ==
    ASSUME NEW l \in Line, NEW u, u \in Range(ClassesOf(l)) \/ u \in Range(NewOf(l))
    PROVE  \E j \in 1..4 : u = OfLine(l)[j]
<1>1. CASE l.predicate = RdfType
  <2>1. OfLine(l) = (IF l.object # Skipped THEN <<l.object>> ELSE <<>>) \o <<l.subject>>
        /\ Range(ClassesOf(l)) \subseteq (IF l.object # Skipped THEN {l.object} ELSE {})
        /\ Range(NewOf(l)) = {l.subject}
    BY <1>1, UriAssumption DEF OfLine, ClassesOf, NewOf, Range
  <2>2. CASE l.object # Skipped
    <3>1. OfLine(l) = <<l.object>> \o <<l.subject>>
      BY <2>1, <2>2
    <3>2. \A a, b \in Uri : (<<a>> \o <<b>>)[1] = a /\ (<<a>> \o <<b>>)[2] = b
      OBVIOUS
    <3>3. l.object \in Uri /\ l.subject \in Uri
      BY DEF Line
    <3>4. OfLine(l)[1] = l.object /\ OfLine(l)[2] = l.subject /\ 1 \in 1..4 /\ 2 \in 1..4
      BY <3>1, <3>2, <3>3
    <3> QED BY <2>1, <2>2, <3>4
  <2>3. CASE l.object = Skipped
    <3>1. OfLine(l) = <<l.subject>>
      BY <2>1, <2>3
    <3>2. OfLine(l)[1] = l.subject /\ 1 \in 1..4
      BY <3>1
    <3> QED BY <2>1, <2>3, <3>2
  <2> QED BY <2>2, <2>3
<1>2. CASE l.predicate = SubClassOf
  <2>1. l.predicate # RdfType
    BY <1>2, UriAssumption
  <2>2. Range(NewOf(l)) = {} /\ NewOf(l) = <<>>
    BY <1>2, <2>1 DEF NewOf, Range
  <2>3. CASE Skipped \notin {l.subject, l.object}
    <3>1. ClassesOf(l) = <<l.subject, l.object>>
      BY <1>2, <2>1, <2>3 DEF ClassesOf
    <3>2. OfLine(l) = <<l.subject, l.object>>
      BY <2>2, <3>1 DEF OfLine
    <3>3. OfLine(l)[1] = l.subject /\ OfLine(l)[2] = l.object /\ 1 \in 1..4 /\ 2 \in 1..4
      BY <3>2
    <3>4. Range(ClassesOf(l)) = {l.subject, l.object}
      BY <3>1 DEF Range
    <3> QED BY <2>2, <3>3, <3>4
  <2>4. CASE ~(Skipped \notin {l.subject, l.object})
    <3>1. Range(ClassesOf(l)) = {}
      BY <1>2, <2>1, <2>4 DEF ClassesOf, Range
    <3> QED BY <2>2, <3>1
  <2> QED BY <2>3, <2>4
<1>3. CASE l.predicate \notin {RdfType, SubClassOf}
  <2>1. ClassesOf(l) = <<>> /\ NewOf(l) = <<l.subject, l.predicate, l.object, l.prov>>
    BY <1>3 DEF ClassesOf, NewOf
  <2>2. Range(ClassesOf(l)) = {} /\ OfLine(l) = <<l.subject, l.predicate, l.object, l.prov>>
    BY <2>1 DEF OfLine, Range
  <2>3. /\ OfLine(l)[1] = l.subject /\ OfLine(l)[2] = l.predicate
        /\ OfLine(l)[3] = l.object /\ OfLine(l)[4] = l.prov
        /\ 1 \in 1..4 /\ 2 \in 1..4 /\ 3 \in 1..4 /\ 4 \in 1..4
    BY <2>2
  <2>4. Range(NewOf(l)) = {l.subject, l.predicate, l.object, l.prov}
    BY <2>1 DEF Range
  <2> QED BY <2>2, <2>3, <2>4
<1> QED BY <1>1, <1>2, <1>3

\* Four URIs a line at most: the sequence numbers fit.
LEMMA LeavesFit ==
    ASSUME NEW ls \in Seq(Line), NEW L \in Seq(Uri), \A i, j \in DOMAIN L : L[i] = L[j] => i = j,
           NEW r1, NEW r2, r1 \subseteq DOMAIN ls, r2 \subseteq DOMAIN ls,
           \A u : u \in Range(L) => IsAdded(ls, r1, r2, u)
    PROVE  Len(L) <= 4 * Len(ls)
<1> DEFINE n == Len(ls)
           m == Len(L)
           Place4(l, i, j) == L[l] = OfLine(ls[i])[j]
<1>1. n \in Nat /\ m \in Nat /\ DOMAIN ls = 1..n /\ DOMAIN L = 1..m /\ 4 * n \in Nat
  OBVIOUS
<1>2. ASSUME NEW l \in 1..m PROVE \E i \in 1..n, j \in 1..4 : Place4(l, i, j)
  <2>1. L[l] \in Range(L)
    BY <1>1 DEF Range
  <2>2. PICK i \in 1..n : L[l] \in Range(ClassesOf(ls[i])) \/ L[l] \in Range(NewOf(ls[i]))
    BY <2>1, <1>1 DEF IsAdded
  <2>3. ls[i] \in Line
    BY <1>1
  <2> QED BY <2>2, <2>3, OfLineIs
<1> DEFINE is(l, x) == \E i \in 1..n, j \in 1..4 : Place4(l, i, j) /\ x = 4 * (i - 1) + j
           f == [l \in 1..m |-> CHOOSE x : is(l, x)]
<1>3. ASSUME NEW l \in 1..m PROVE is(l, f[l])
  <2>1. \E x : is(l, x)
    BY <1>2
  <2> HIDE DEF is
  <2> QED BY <2>1
<1> HIDE DEF f
<1>4. ASSUME NEW l \in 1..m PROVE f[l] \in 1..(4 * n)
  <2>1. PICK i \in 1..n, j \in 1..4 : f[l] = 4 * (i - 1) + j
    BY <1>3
  <2> QED BY <2>1, <1>1
<1>5. f \in [1..m -> 1..(4 * n)]
  BY <1>4 DEF f
<1>6. ASSUME NEW l \in 1..m, NEW k \in 1..m, f[l] = f[k] PROVE l = k
  <2>1. PICK i \in 1..n, j \in 1..4 : Place4(l, i, j) /\ f[l] = 4 * (i - 1) + j
    BY <1>3
  <2>2. PICK a \in 1..n, b \in 1..4 : Place4(k, a, b) /\ f[k] = 4 * (a - 1) + b
    BY <1>3
  <2>3. i \in Int /\ a \in Int /\ 4 * (i - 1) + j = 4 * (a - 1) + b
    BY <2>1, <2>2, <1>6
  <2>4. i = a /\ j = b
    BY <2>3
  <2>5. L[l] = L[k]
    BY <2>1, <2>2, <2>4
  <2> QED BY <2>5, <1>1
<1> QED BY <1>1, <1>5, <1>6, NoSqueeze

-----------------------------------------------------------------------------
(* The nodes that are given keys *)

\* Leaves tell the URIs of all leaves, and nodes.
LEMMA LeavesUnique ==
    ASSUME NEW t, NEW L, NEW M, Tree(t, L), Tree(t, M)
    PROVE  L = M
<1>1. PICK W : KeyTree(t.nodes, t.uri_id, W, L)
  BY DEF Tree
<1>2. PICK V : KeyTree(t.nodes, t.uri_id, V, M)
  BY DEF Tree
<1>3. \A n \in 0..Len(t.nodes) : V[n] = W[n]
  BY <1>1, <1>2, WordsUnique DEF KeyTree
<1>4. DOMAIN t.nodes \subseteq 0..Len(t.nodes)
  BY <1>1, WordFacts DEF KeyTree
<1>5. /\ L \in Seq(Uri) /\ Len(L) \in Nat /\ DOMAIN L = 1..Len(L)
      /\ M \in Seq(Uri) /\ Len(M) \in Nat /\ DOMAIN M = 1..Len(M) /\ Len(L) = Len(M)
  BY TreeLeaves DEF Tree
<1>6. ASSUME NEW l \in 1..Len(L) PROVE L[l] = M[l]
  <2>1. PICK n \in DOMAIN t.nodes : t.nodes[n].leaf = l
    BY <1>1, <1>5 DEF KeyTree, Leafed
  <2>2. t.nodes[n].leaf # NoLeaf
    BY <2>1, <1>5 DEF NoLeaf
  <2>3. L[l] = W[n] /\ M[l] = V[n]
    BY <2>1, <2>2, <1>1, <1>2 DEF KeyTree, Leafed
  <2> QED BY <2>3, <1>3, <1>4
<1> QED BY <1>5, <1>6, SeqEqual

\* list is a list of nodes with leaves, no two with the same.
Leafs(t, list, L) ==
    /\ list \in Seq(DOMAIN t.nodes) /\ Len(list) <= Len(L)
    /\ \A i \in 1..Len(list) : t.nodes[list[i]].leaf \in DOMAIN L
    /\ \A i, j \in 1..Len(list) : t.nodes[list[i]].leaf = t.nodes[list[j]].leaf => i = j

LEMMA KeptLeafs ==
    ASSUME NEW L, Tree(trie, L), NEW S, S \subseteq WithLeaf, NEW list, list = Kept(Preorder, S)
    PROVE  Leafs(trie, list, L) /\ \A n : n \in S <=> \E i \in 1..Len(list) : list[i] = n
<1> DEFINE N == DOMAIN trie.nodes
           leaf(n) == trie.nodes[n].leaf
<1>1. PICK W : KeyTree(trie.nodes, trie.uri_id, W, L)
  BY DEF Tree
<1>2. Linked(trie.nodes, trie.uri_id) /\ Worded(trie.nodes, W) /\ Leafed(trie.nodes, W, L)
  BY <1>1 DEF KeyTree
<1>3. L \in Seq(Uri) /\ Len(L) \in Nat /\ DOMAIN L = 1..Len(L) /\ N \subseteq 0..Len(trie.nodes)
  BY <1>2, TreeLeaves, WordFacts
<1>4. Preorder \in Seq(N) /\ Once(Preorder) /\ \A x : x \in Range(Preorder) <=> x \in N
  BY PreorderIs, PreorderExact
<1>5. /\ list \in Seq(N \cap S) /\ Once(list)
      /\ \A x : x \in Range(list) <=> x \in Range(Preorder) /\ x \in S
  <2> HIDE DEF N
  <2> QED BY <1>4, KeptExact
<1>6. S \subseteq N /\ N \cap S = S
  BY DEF WithLeaf
<1>7. DOMAIN list = 1..Len(list) /\ Len(list) \in Nat /\ list \in Seq(S)
  BY <1>5, <1>6
<1>8. \A n : n \in S <=> \E i \in 1..Len(list) : list[i] = n
  BY <1>4, <1>5, <1>6, <1>7 DEF Range
<1>9. ASSUME NEW i \in 1..Len(list)
      PROVE  list[i] \in N /\ leaf(list[i]) \in DOMAIN L /\ L[leaf(list[i])] = W[list[i]]
  <2>1. list[i] \in N /\ leaf(list[i]) # NoLeaf
    BY <1>7 DEF WithLeaf
  <2> QED BY <2>1, <1>2 DEF Leafed
<1>10. ASSUME NEW i \in 1..Len(list), NEW j \in 1..Len(list), leaf(list[i]) = leaf(list[j])
       PROVE  i = j
  <2>1. W[list[i]] = W[list[j]] /\ list[i] \in 0..Len(trie.nodes) /\ list[j] \in 0..Len(trie.nodes)
    BY <1>3, <1>9, <1>10
  <2>2. list[i] = list[j]
    BY <2>1, <1>2, AllDescend DEF Descends
  <2> QED BY <2>2, <1>5 DEF Once
<1>11. Len(list) <= Len(L)
  <2> DEFINE f == [i \in 1..Len(list) |-> leaf(list[i])]
  <2>1. f \in [1..Len(list) -> 1..Len(L)]
    BY <1>3, <1>9
  <2>2. \A i, j \in 1..Len(list) : f[i] = f[j] => i = j
    BY <1>10
  <2> HIDE DEF f
  <2> QED BY <2>1, <2>2, <1>3, <1>7, NoSqueeze
<1>12. list \in Seq(N)
  BY <1>6, <1>7, SeqInSet
<1> QED BY <1>8, <1>9, <1>10, <1>11, <1>12 DEF Leafs

-----------------------------------------------------------------------------
(* Keys *)

LEMMA KeyParts ==
    ASSUME SeqRange \in Nat, NEW seq \in Nat, NEW tid \in Nat, seq < SeqRange
    PROVE  /\ GetId(seq, tid) \in Nat
           /\ GetSeq(GetId(seq, tid)) = seq /\ GetType(GetId(seq, tid)) = tid
           /\ seq # 0 => GetId(seq, tid) # 0
BY DEF GetId, GetSeq, GetType

\* Where the keys given lead to, and those given before.
LEMMA AssignFiles ==
    ASSUME NEW A, NEW list, NEW k \in Seq(A), Assign(list, k)
    PROVE  /\ \A key \in DOMAIN elements : key \notin Range(k) =>
                  key \in DOMAIN elements' /\ elements'[key] = elements[key]
           /\ Once(k) => \A i \in 1..Len(k) : k[i] \in DOMAIN elements'
                                              /\ elements'[k[i]] = list[i]
<1> DEFINE e2 == [key \in DOMAIN elements \cup Range(k) |->
                     IF key \in Range(k) THEN list[SelectInSeq(k, LAMBDA x : x = key)]
                     ELSE elements[key]]
<1>1. elements' = e2
  BY DEF Assign
<1>2. /\ DOMAIN e2 = DOMAIN elements \cup Range(k)
      /\ \A key \in DOMAIN elements \cup Range(k) :
            e2[key] = IF key \in Range(k) THEN list[SelectInSeq(k, LAMBDA x : x = key)]
                      ELSE elements[key]
  OBVIOUS
<1>3. ASSUME Once(k), NEW i \in 1..Len(k)
      PROVE  k[i] \in Range(k) /\ SelectInSeq(k, LAMBDA x : x = k[i]) = i
  <2> DEFINE key == k[i]
  <2>1. key \in Range(k)
    <3>1. DOMAIN k = 1..Len(k)
      OBVIOUS
    <3> QED BY <3>1 DEF Range
  <2> HIDE DEF key
  <2>2. /\ SelectInSeq(k, LAMBDA x : x = key) \in 1..Len(k)
        /\ k[SelectInSeq(k, LAMBDA x : x = key)] = key
    BY <2>1, KeyIndexIs
  <2>3. SelectInSeq(k, LAMBDA x : x = key) = i
    BY <2>2, <1>3 DEF Once, key
  <2> QED BY <2>1, <2>3 DEF key
<1> HIDE DEF e2
<1>4. ASSUME NEW key \in DOMAIN elements, key \notin Range(k)
      PROVE  key \in DOMAIN elements' /\ elements'[key] = elements[key]
  BY <1>1, <1>2, <1>4
<1>5. ASSUME Once(k), NEW i \in 1..Len(k)
      PROVE  k[i] \in DOMAIN elements' /\ elements'[k[i]] = list[i]
  BY <1>1, <1>2, <1>3, <1>5
<1> QED BY <1>4, <1>5

-----------------------------------------------------------------------------
(* What the keys are in each pass *)

\* All the classes of the input.
Cls(ls) == UNION {Range(ClassesOf(ls[i])) : i \in DOMAIN ls}

\* The sequence numbers of the classes, 0 for what is none.
Numbers(N, C) ==
    /\ N \in [Uri -> Nat]
    /\ \A c \in Uri : IF c \in C THEN N[c] >= 3 /\ N[c] < SeqRange ELSE N[c] = 0
    /\ \A b, c \in C : N[b] = N[c] => b = c

\* key leads to a node of which the word is the beginning of u, or u itself.
LeadsTowards(t, e, key, u) ==
    key \in DOMAIN e /\ \E W : Worded(t.nodes, W) /\ Starts(W[e[key]], u)
LeadsTo(t, e, key, u) ==
    key \in DOMAIN e /\ \E W : Worded(t.nodes, W) /\ W[e[key]] = u

\* The keys of the classes.
ClassKeys(t, e, L, C, N) ==
    \A l \in DOMAIN L :
        L[l] \in C => t.id[l] = GetId(N[L[l]], 1) /\ LeadsTowards(t, e, t.id[l], L[l])

\* type is what ts says last of a leaf.
Says(ts, leaf, type) ==
    \/ type = Unclassified /\ \A i \in 1..Len(ts) : ts[i].leaf # leaf
    \/ \E i \in 1..Len(ts) : /\ ts[i].leaf = leaf /\ ts[i].type = type
                             /\ \A j \in (i + 1)..Len(ts) : ts[j].leaf # leaf

IsTypeLine(l, u) == l.predicate = RdfType /\ l.subject = u

\* type is what lines r say last of u.
Said(ls, r, u, N, type) ==
    \/ type = Unclassified /\ \A i \in r : ~IsTypeLine(ls[i], u)
    \/ \E i \in r : /\ IsTypeLine(ls[i], u) /\ type = N[ls[i].object]
                    /\ \A j \in r : IsTypeLine(ls[j], u) => j <= i

Blank(t, e, ts) == (\A l \in DOMAIN t.id : t.id[l] = 0) /\ DOMAIN e = {} /\ ts = <<>>

\* Classes have keys and nothing else has.
Half(ls, r, t, e, ts, L, N) ==
    /\ Numbers(N, Cls(ls)) /\ ClassKeys(t, e, L, Cls(ls), N)
    /\ \A l \in DOMAIN L : L[l] \notin Cls(ls) => t.id[l] = 0
    /\ \A l \in DOMAIN L : \E type : Says(ts, l, type) /\ Said(ls, r, L[l], N, type)

\* The key of what is no class: its type is what the lines say last of it.
InstanceKey(ls, t, e, u, N, key) ==
    /\ key # 0 /\ Said(ls, DOMAIN ls, u, N, GetType(key)) /\ LeadsTo(t, e, key, u)

Whole(ls, t, e, L, N) ==
    /\ Numbers(N, Cls(ls)) /\ ClassKeys(t, e, L, Cls(ls), N)
    /\ \A l \in DOMAIN L : L[l] \notin Cls(ls) => InstanceKey(ls, t, e, L[l], N, t.id[l])
    /\ \A l, m \in DOMAIN L : t.id[l] = t.id[m] => l = m

KInv ==
    \E L, N : /\ Tree(trie, L)
              /\ pass = 1 => Blank(trie, elements, tt)
              /\ pass = 2 => Half(lines, Read2, trie, elements, tt, L, N)
              /\ pass = 3 => Whole(lines, trie, elements, L, N)

\* Every URI that has a leaf keeps it, and its key once it has one.
KeepsKeys(t, t2) ==
    \E L, M : /\ Tree(t, L) /\ Tree(t2, M)
              /\ \A l \in DOMAIN L : /\ l \in DOMAIN M /\ M[l] = L[l]
                                     /\ t.id[l] # 0 => t2.id[l] = t.id[l]

-----------------------------------------------------------------------------
(* The first pass gives nothing a key *)

\* What is added after L, and what was there.
LEMMA AfterAdding ==
    ASSUME NEW t, NEW L, Tree(t, L), NEW uris, NEW n, NEW t2, NEW M, Reached(t, L, uris, n, t2, M)
    PROVE  /\ \A l \in DOMAIN L : l \in DOMAIN M /\ M[l] = L[l] /\ t2.id[l] = t.id[l]
           /\ \A l \in DOMAIN M : l \notin DOMAIN L => t2.id[l] = 0 /\ M[l] \notin Range(L)
           /\ KeepsKeys(t, t2)
<1>1. /\ L \in Seq(Uri) /\ Len(L) \in Nat /\ DOMAIN L = 1..Len(L)
      /\ t.id \in Seq(Nat) /\ Len(t.id) = Len(L)
  BY TreeLeaves
<1>2. /\ Tree(t2, M) /\ Starts(L, M) /\ Starts(t.id, t2.id)
      /\ \A l \in DOMAIN t2.id : l \in DOMAIN t.id \/ t2.id[l] = 0
  BY DEF Reached
<1>3. /\ M \in Seq(Uri) /\ Len(M) \in Nat /\ DOMAIN M = 1..Len(M)
      /\ \A i, j \in DOMAIN M : M[i] = M[j] => i = j
      /\ t2.id \in Seq(Nat) /\ Len(t2.id) = Len(M)
  BY <1>2, TreeLeaves
<1>4. DOMAIN t.id = DOMAIN L /\ DOMAIN t2.id = DOMAIN M
  BY <1>1, <1>3
<1>5. ASSUME NEW l \in DOMAIN L PROVE l \in DOMAIN M /\ M[l] = L[l] /\ t2.id[l] = t.id[l]
  <2>1. l \in 1..Len(L) /\ l \in 1..Len(t.id) /\ l \in 1..Len(M)
    BY <1>1, <1>2, <1>3 DEF Starts
  <2> QED BY <2>1, <1>2, <1>3 DEF Starts
<1>6. ASSUME NEW l \in DOMAIN M, l \notin DOMAIN L PROVE t2.id[l] = 0 /\ M[l] \notin Range(L)
  <2>1. t2.id[l] = 0
    BY <1>2, <1>4, <1>6
  <2>2. ASSUME M[l] \in Range(L) PROVE FALSE
    <3>1. PICK k \in DOMAIN L : L[k] = M[l]
      BY <2>2 DEF Range
    <3>2. M[k] = M[l] /\ k \in DOMAIN M
      BY <3>1, <1>5
    <3> QED BY <3>1, <3>2, <1>3, <1>6
  <2> QED BY <2>1, <2>2
<1>7. KeepsKeys(t, t2)
  BY <1>2, <1>5 DEF KeepsKeys
<1> QED BY <1>5, <1>6, <1>7

LEMMA InitKInv == Init => KInv
<1> SUFFICES ASSUME Init PROVE KInv
  OBVIOUS
<1>1. /\ pass = 1 /\ tt = <<>> /\ elements = <<>>
      /\ trie = [nodes |-> <<>>, uri_id |-> <<>>, id |-> <<>>, added |-> <<>>]
  BY DEF Init
<1>2. Tree(trie, <<>>)
  BY <1>1, EmptyTree
<1>3. Blank(trie, elements, tt)
  <2>1. trie.id = <<>> /\ DOMAIN <<>> = {}
    BY <1>1
  <2> QED BY <2>1, <1>1 DEF Blank
<1>4. pass # 2 /\ pass # 3
  BY <1>1
<1> QED BY <1>2, <1>3, <1>4 DEF KInv

LEMMA ReadClassesKeys ==
    ASSUME PrefixFree, IInv, KInv, ReadClasses
    PROVE  KInv' /\ KeepsKeys(trie, trie')
<1> DEFINE l == lines[next]
<1>1. PICK L : Tree(trie, L) /\ (pass = 1 => Blank(trie, elements, tt))
  BY DEF KInv
<1>2. /\ lines \in Inputs /\ pass = 1 /\ next \in 1..Len(lines)
      /\ trie' = AddAll(ClassesOf(l)) /\ pass' = 1 /\ elements' = elements /\ tt' = tt
  <2>1. /\ lines \in Inputs /\ next \in 1..(Len(lines) + 1)
        /\ pass = 1 /\ next <= Len(lines)
        /\ trie' = AddAll(ClassesOf(l)) /\ pass' = 1 /\ elements' = elements /\ tt' = tt
    BY DEF IInv, ReadClasses
  <2>2. Len(lines) \in Nat
    BY <2>1, Room
  <2> QED BY <2>1, <2>2
<1>3. l \in Line
  BY <1>2, Room
<1>4. ClassesOf(l) \in Seq(Uri) /\ Len(ClassesOf(l)) \in 0..4
  <2> HIDE DEF l
  <2> QED BY <1>3, ClassesOfIs
<1> HIDE DEF l
<1>5. PICK M : Reached(trie, L, ClassesOf(l), Len(ClassesOf(l)), trie', M)
  BY <1>1, <1>2, <1>4, AddAllKeeps
<1>6. KeepsKeys(trie, trie')
  BY <1>1, <1>5, AfterAdding
<1>7. ASSUME NEW x \in DOMAIN trie'.id PROVE trie'.id[x] = 0
  <2>1. CASE x \in DOMAIN trie.id
    <3>1. trie.id[x] = 0
      BY <2>1, <1>1, <1>2 DEF Blank
    <3>2. trie'.id[x] = trie.id[x]
      <4>1. trie.id \in Seq(Nat)
        BY <1>1, TreeLeaves
      <4>2. DOMAIN trie.id = 1..Len(trie.id)
        BY <4>1
      <4> QED BY <4>2, <2>1, <1>5 DEF Reached, Starts
    <3> QED BY <3>1, <3>2
  <2>2. CASE x \notin DOMAIN trie.id
    BY <2>2, <1>5 DEF Reached
  <2> QED BY <2>1, <2>2
<1>8. Blank(trie', elements', tt')
  BY <1>1, <1>2, <1>7 DEF Blank
<1>9. Tree(trie', M) /\ pass' # 2 /\ pass' # 3
  BY <1>2, <1>5 DEF Reached
<1> QED BY <1>6, <1>8, <1>9 DEF KInv

\* What a URI of the input is.
LEMMA UriIs ==
    ASSUME NEW u \in Uri
    PROVE  u \in Seq(Char) /\ u # <<>>
BY UriAssumption

LEMMA ClsIs ==
    ASSUME NEW ls, NEW u
    PROVE  u \in Cls(ls) <=> \E i \in DOMAIN ls : u \in Range(ClassesOf(ls[i]))
BY DEF Cls

\* A leaf is that of one node, of which the word is its URI.
LEMMA NodeOfLeaf ==
    ASSUME NEW t, NEW L, Tree(t, L)
    PROVE  \E W : /\ KeyTree(t.nodes, t.uri_id, W, L)
                  /\ \A n \in DOMAIN t.nodes : t.nodes[n].leaf \in DOMAIN L =>
                        W[n] = L[t.nodes[n].leaf]
                  /\ \A l \in DOMAIN L : l # NoLeaf /\ \E n \in DOMAIN t.nodes : t.nodes[n].leaf = l
<1>1. PICK W : KeyTree(t.nodes, t.uri_id, W, L)
  BY DEF Tree
<1>2. \A l \in DOMAIN L : l # NoLeaf /\ \E n \in DOMAIN t.nodes : t.nodes[n].leaf = l
  <2>1. DOMAIN L = 1..Len(L)
    BY TreeLeaves
  <2> QED BY <1>1, <2>1 DEF KeyTree, Leafed, NoLeaf
<1>3. \A n \in DOMAIN t.nodes : t.nodes[n].leaf \in DOMAIN L => W[n] = L[t.nodes[n].leaf]
  BY <1>1, <1>2 DEF KeyTree, Leafed
<1> QED BY <1>1, <1>2, <1>3

\* The keys of the classes, one after the other.
LEMMA ClassKeysGiven ==
    ASSUME NEW m \in Nat, SeqRange \in Nat, m + 3 < SeqRange,
           NEW k, k = [i \in 1..m |-> GetId(i + 2, 1)]
    PROVE  /\ k \in Seq(Nat \ {0}) /\ Len(k) = m /\ Once(k)
           /\ \A i \in 1..m : /\ k[i] = GetId(i + 2, 1) /\ GetSeq(k[i]) = i + 2
                              /\ i + 2 >= 3 /\ i + 2 < SeqRange /\ i + 2 \in Nat
<1>1. ASSUME NEW i \in 1..m
      PROVE  /\ k[i] = GetId(i + 2, 1) /\ k[i] \in Nat \ {0} /\ GetSeq(k[i]) = i + 2
             /\ i + 2 >= 3 /\ i + 2 < SeqRange /\ i + 2 \in Nat
  <2> DEFINE s == i + 2
  <2>1. s \in Nat /\ s >= 3 /\ s < SeqRange /\ s # 0 /\ 1 \in Nat
    OBVIOUS
  <2>2. k[i] = GetId(s, 1)
    OBVIOUS
  <2> HIDE DEF s
  <2>3. GetId(s, 1) \in Nat /\ GetSeq(GetId(s, 1)) = s /\ GetId(s, 1) # 0
    BY <2>1, KeyParts
  <2>4. k[i] \in Nat \ {0} /\ GetSeq(k[i]) = s
    BY <2>2, <2>3
  <2> QED BY <2>1, <2>2, <2>4 DEF s
<1>2. k \in [1..m -> Nat \ {0}]
  BY <1>1
<1>3. k \in Seq(Nat \ {0}) /\ Len(k) = m
  BY <1>2, FcnIsSeq
<1>4. ASSUME NEW i \in 1..m, NEW j \in 1..m, k[i] = k[j] PROVE i = j
  <2>1. i + 2 = j + 2
    BY <1>1, <1>4
  <2> QED BY <2>1
<1> QED BY <1>1, <1>3, <1>4 DEF Once

LEMMA MakeInverseIndexTypesKeys ==
    ASSUME PrefixFree, IInv, KInv, MakeInverseIndexTypes
    PROVE  KInv' /\ KeepsKeys(trie, trie')
<1>1. PICK L : Indexed(lines, Read1, Read2, trie, tt, quads, L)
  BY DEF IInv
<1> DEFINE list == AllLeaves
           m == Len(list)
           k == [i \in DOMAIN list |-> GetId(i + 2, 1)]
           C == Cls(lines)
<1>2. /\ lines \in Inputs /\ ElementsOK(trie, elements) /\ pass = 1 /\ next = Len(lines) + 1
      /\ lines \in Seq(Line) /\ Len(lines) \in Nat /\ DOMAIN lines = 1..Len(lines)
      /\ SeqRange \in Nat /\ 4 * Len(lines) + 3 < SeqRange
  <2>1. /\ lines \in Inputs /\ ElementsOK(trie, elements)
        /\ pass = 1 /\ next > Len(lines) /\ next \in 1..(Len(lines) + 1)
    BY DEF IInv, MakeInverseIndexTypes
  <2>2. /\ lines \in Seq(Line) /\ Len(lines) \in Nat /\ DOMAIN lines = 1..Len(lines)
        /\ SeqRange \in Nat /\ 4 * Len(lines) + 3 < SeqRange
    BY <2>1, Room
  <2> QED BY <2>1, <2>2
<1>3. Assign(list, k) /\ pass' = 2 /\ next' = 1 /\ lines' = lines /\ tt' = tt
  BY DEF MakeInverseIndexTypes
<1>4. Tree(trie, L) /\ Blank(trie, elements, tt) /\ tt = <<>>
  BY <1>1, <1>2 DEF Indexed, KInv, Blank
<1>5. Read1 = DOMAIN lines /\ Read2 = {} /\ Read2' = {}
  <2>1. (Len(lines) + 1) - 1 = Len(lines) /\ 1..(1 - 1) = {}
    BY <1>2
  <2> QED BY <2>1, <1>2, <1>3 DEF Read1, Read2
<1>6. /\ L \in Seq(Uri) /\ Len(L) \in Nat /\ DOMAIN L = 1..Len(L)
      /\ \A i, j \in DOMAIN L : L[i] = L[j] => i = j
  BY <1>4, TreeLeaves
<1>7. \A u : u \in Range(L) <=> u \in C
  <2>1. \A u : u \in Range(L) <=> IsAdded(lines, DOMAIN lines, {}, u)
    BY <1>1, <1>5 DEF Indexed
  <2>2. \A u : u \in C <=> \E i \in DOMAIN lines : u \in Range(ClassesOf(lines[i]))
    BY ClsIs
  <2> QED BY <2>1, <2>2 DEF IsAdded
<1>8. Leafs(trie, list, L) /\ \A n : n \in WithLeaf <=> \E i \in 1..m : list[i] = n
  <2>1. WithLeaf \subseteq WithLeaf /\ AllLeaves = Kept(Preorder, WithLeaf)
    BY DEF AllLeaves
  <2> QED BY <2>1, <1>4, KeptLeafs
<1>9. list \in Seq(DOMAIN trie.nodes) /\ m \in Nat /\ DOMAIN list = 1..m /\ m <= Len(L)
  BY <1>8 DEF Leafs
<1>10. m + 3 < SeqRange
  <2>1. Len(L) <= 4 * Len(lines)
    <3>1. \A u : u \in Range(L) => IsAdded(lines, Read1, Read2, u)
      BY <1>1 DEF Indexed
    <3>2. Read1 \subseteq DOMAIN lines /\ Read2 \subseteq DOMAIN lines
      BY <1>5
    <3> QED BY <3>1, <3>2, <1>2, <1>6, LeavesFit
  <2> HIDE DEF m
  <2> QED BY <2>1, <1>2, <1>6, <1>9
<1>11. /\ k \in Seq(Nat \ {0}) /\ Len(k) = m /\ Once(k)
       /\ \A i \in 1..m : /\ k[i] = GetId(i + 2, 1) /\ GetSeq(k[i]) = i + 2
                          /\ i + 2 >= 3 /\ i + 2 < SeqRange /\ i + 2 \in Nat
  <2> HIDE DEF list
  <2>1. k = [i \in 1..m |-> GetId(i + 2, 1)]
    BY <1>9
  <2> HIDE DEF k, m
  <2> QED BY <2>1, <1>2, <1>9, <1>10, ClassKeysGiven
<1> HIDE DEF list, k, C
<1>12. /\ Tree(trie', L) /\ trie'.nodes = trie.nodes
       /\ Rekeyed(trie.nodes, trie.id, trie'.id, list, k, L)
  <2>1. /\ Tree(trie, L) /\ list \in Seq(DOMAIN trie.nodes) /\ k \in Seq(Nat \ {0})
        /\ Len(k) = Len(list) /\ Assign(list, k) /\ ElementsOK(trie, elements)
    BY <1>2, <1>3, <1>4, <1>9, <1>11
  <2> QED BY <2>1, AssignKeeps
<1>13. \A i \in 1..m : k[i] \in DOMAIN elements' /\ elements'[k[i]] = list[i]
  BY <1>3, <1>11, AssignFiles
<1>14. PICK W : /\ KeyTree(trie.nodes, trie.uri_id, W, L)
                /\ \A n \in DOMAIN trie.nodes : trie.nodes[n].leaf \in DOMAIN L =>
                      W[n] = L[trie.nodes[n].leaf]
                /\ \A l \in DOMAIN L : /\ l # NoLeaf
                                       /\ \E n \in DOMAIN trie.nodes : trie.nodes[n].leaf = l
  BY <1>4, NodeOfLeaf
<1> DEFINE Given(l, i) == trie.nodes[list[i]].leaf = l /\ trie'.id[l] = k[i]
<1>15. ASSUME NEW l \in DOMAIN L PROVE \E i \in 1..m : Given(l, i)
  <2>1. PICK n \in DOMAIN trie.nodes : trie.nodes[n].leaf = l
    BY <1>14
  <2>2. n \in WithLeaf
    BY <2>1, <1>14 DEF WithLeaf
  <2>3. \E j \in 1..m : list[j] = n
    BY <2>2, <1>8
  <2> QED BY <2>1, <2>3, <1>12 DEF Rekeyed
<1> DEFINE N == [u \in Uri |-> IF u \in C THEN GetSeq(GetIn(trie', u)) ELSE 0]
<1>16. ASSUME NEW l \in DOMAIN L, NEW i \in 1..m, Given(l, i)
       PROVE  L[l] \in C /\ L[l] \in Uri /\ N[L[l]] = i + 2 /\ trie'.id[l] = GetId(N[L[l]], 1)
  <2> DEFINE u == L[l]
  <2>1. u \in Uri /\ u \in C
    BY <1>6, <1>7 DEF Range
  <2>2. GetIn(trie', u) = trie'.id[l]
    <3>1. u \in Seq(Char) /\ u # <<>>
      BY <2>1, UriIs
    <3>2. L[l] = u
      OBVIOUS
    <3> HIDE DEF u
    <3> QED BY <3>1, <3>2, <1>12, GetIs
  <2> HIDE DEF u
  <2>3. N[u] = GetSeq(trie'.id[l])
    BY <2>1, <2>2
  <2>4. N[u] = i + 2
    BY <2>3, <1>11, <1>16
  <2>5. trie'.id[l] = GetId(N[u], 1)
    BY <2>4, <1>11, <1>16
  <2> QED BY <2>1, <2>4, <2>5 DEF u
<1>17. ASSUME NEW c \in C PROVE \E l \in DOMAIN L : L[l] = c
  BY <1>7 DEF Range
<1>18. \A u \in Uri : u \notin C => N[u] = 0
  OBVIOUS
<1>19. N = [u \in Uri |-> N[u]]
  OBVIOUS
<1> HIDE DEF N
<1>20. Numbers(N, C)
  <2>1. ASSUME NEW c \in C PROVE \E l \in DOMAIN L, i \in 1..m : L[l] = c /\ Given(l, i) /\ N[c] = i + 2
    <3>1. PICK l \in DOMAIN L : L[l] = c
      BY <1>17
    <3>2. PICK i \in 1..m : Given(l, i)
      BY <1>15
    <3>3. N[c] = i + 2
      BY <3>1, <3>2, <1>16
    <3> QED BY <3>1, <3>2, <3>3
  <2>2. \A c \in C : N[c] \in Nat /\ N[c] >= 3 /\ N[c] < SeqRange
    BY <2>1, <1>11
  <2>3. ASSUME NEW b \in C, NEW c \in C, N[b] = N[c] PROVE b = c
    <3>1. PICK l \in DOMAIN L, i \in 1..m : L[l] = b /\ Given(l, i) /\ N[b] = i + 2
      BY <2>1
    <3>2. PICK n \in DOMAIN L, j \in 1..m : L[n] = c /\ Given(n, j) /\ N[c] = j + 2
      BY <2>1
    <3>3. i = j
      BY <3>1, <3>2, <2>3
    <3> QED BY <3>1, <3>2, <3>3
  <2>4. \A u \in Uri : N[u] \in Nat
    BY <2>2, <1>18
  <2>5. N \in [Uri -> Nat]
    BY <2>4, <1>19
  <2> QED BY <2>2, <2>3, <2>5, <1>18 DEF Numbers
<1>21. ClassKeys(trie', elements', L, C, N)
  <2> SUFFICES ASSUME NEW l \in DOMAIN L
               PROVE  /\ trie'.id[l] = GetId(N[L[l]], 1)
                      /\ LeadsTowards(trie', elements', trie'.id[l], L[l])
    BY DEF ClassKeys
  <2>1. PICK i \in 1..m : Given(l, i)
    BY <1>15
  <2>2. trie'.id[l] \in DOMAIN elements' /\ elements'[trie'.id[l]] = list[i]
    BY <2>1, <1>13
  <2>3. W[list[i]] = L[l] /\ L[l] \in Seq(Char)
    <3>1. list[i] \in DOMAIN trie.nodes
      BY <1>9
    <3>2. L[l] \in Uri
      BY <1>6
    <3> QED BY <2>1, <3>1, <3>2, <1>14, UriIs
  <2>4. Worded(trie'.nodes, W)
    BY <1>12, <1>14 DEF KeyTree
  <2>5. LeadsTowards(trie', elements', trie'.id[l], L[l])
    <3>1. Starts(L[l], L[l])
      BY <2>3, StartsItself
    <3> QED BY <3>1, <2>2, <2>3, <2>4 DEF LeadsTowards
  <2> QED BY <2>1, <2>5, <1>16
<1>22. \A l \in DOMAIN L : L[l] \in C
  BY <1>15, <1>16
<1>23. \A l \in DOMAIN L : \E type : Says(tt', l, type) /\ Said(lines, {}, L[l], N, type)
  <2>1. Len(tt') = 0
    BY <1>3, <1>4
  <2>2. \A l : Says(tt', l, Unclassified) /\ Said(lines, {}, L[l], N, Unclassified)
    BY <2>1 DEF Says, Said
  <2> QED BY <2>2
<1>24. Half(lines', Read2', trie', elements', tt', L, N)
  BY <1>3, <1>5, <1>20, <1>21, <1>22, <1>23 DEF Half, C
<1>25. Tree(trie', L) /\ pass' # 1 /\ pass' # 3
  BY <1>3, <1>12
<1>26. KeepsKeys(trie, trie')
  <2>1. DOMAIN L = DOMAIN trie.id
    BY <1>4, TreeLeaves
  <2>2. \A l \in DOMAIN L : trie.id[l] = 0
    BY <2>1, <1>4 DEF Blank
  <2> QED BY <2>2, <1>4, <1>12 DEF KeepsKeys
<1> QED BY <1>24, <1>25, <1>26 DEF KInv

-----------------------------------------------------------------------------
(* The second pass keeps the keys of the classes *)

\* A key still leads towards a URI after others have been added.
LEMMA StillLeads ==
    ASSUME NEW t, NEW L, Tree(t, L), NEW t2, NEW M, Tree(t2, M), NEW e, ElementsOK(t, e),
           DOMAIN t.nodes \subseteq DOMAIN t2.nodes, WordsKept(t.nodes, t2.nodes),
           NEW key, NEW u \in Uri, LeadsTowards(t, e, key, u)
    PROVE  LeadsTowards(t2, e, key, u)
<1>1. PICK W : Worded(t.nodes, W) /\ Starts(W[e[key]], u)
  BY DEF LeadsTowards
<1>2. PICK V : KeyTree(t2.nodes, t2.uri_id, V, M)
  BY DEF Tree
<1>3. PICK X : KeyTree(t.nodes, t.uri_id, X, L)
  BY DEF Tree
<1> DEFINE n == e[key]
<1>4. key \in DOMAIN e /\ n \in DOMAIN t.nodes /\ n \in DOMAIN t2.nodes
  BY DEF LeadsTowards, ElementsOK
<1>5. Starts(V[n], W[n])
  BY <1>1, <1>2, <1>4 DEF WordsKept, KeyTree
<1>6. W[n] \in Seq(Char) /\ V[n] \in Seq(Char) /\ u \in Seq(Char)
  <2>1. W[n] \in Seq(Char)
    BY <1>1, <1>3, <1>4, WordFacts DEF KeyTree
  <2>2. V[n] \in Seq(Char)
    BY <1>2, <1>4, WordFacts DEF KeyTree
  <2> QED BY <2>1, <2>2, UriIs
<1>7. Starts(V[n], u)
  <2> HIDE DEF n
  <2>1. Starts(W[n], u)
    BY <1>1 DEF n
  <2> QED BY <2>1, <1>5, <1>6, StartsTransitive
<1> QED BY <1>2, <1>4, <1>7 DEF LeadsTowards, KeyTree

\* The keys when URIs have been added in the second pass.
OnlyClassKeys(t, e, M, C, N) ==
    ClassKeys(t, e, M, C, N) /\ \A l \in DOMAIN M : M[l] \notin C => t.id[l] = 0

LEMMA KeysGrow ==
    ASSUME NEW t, NEW L, Tree(t, L), NEW e, ElementsOK(t, e), NEW C, C \subseteq Range(L), NEW N,
           OnlyClassKeys(t, e, L, C, N),
           NEW uris, NEW n, NEW t2, NEW M, Reached(t, L, uris, n, t2, M)
    PROVE  OnlyClassKeys(t2, e, M, C, N)
<1>1. /\ \A l \in DOMAIN L : l \in DOMAIN M /\ M[l] = L[l] /\ t2.id[l] = t.id[l]
      /\ \A l \in DOMAIN M : l \notin DOMAIN L => t2.id[l] = 0 /\ M[l] \notin Range(L)
  BY AfterAdding
<1>2. /\ Tree(t2, M) /\ DOMAIN t.nodes \subseteq DOMAIN t2.nodes /\ WordsKept(t.nodes, t2.nodes)
  BY DEF Reached
<1>3. L \in Seq(Uri) /\ \A l \in DOMAIN L : L[l] \in Uri
  <2>1. L \in Seq(Uri)
    BY TreeLeaves
  <2> QED BY <2>1
<1>4. ASSUME NEW l \in DOMAIN M, M[l] \in C
      PROVE  t2.id[l] = GetId(N[M[l]], 1) /\ LeadsTowards(t2, e, t2.id[l], M[l])
  <2>1. l \in DOMAIN L /\ M[l] = L[l] /\ t2.id[l] = t.id[l] /\ L[l] \in C /\ L[l] \in Uri
    BY <1>1, <1>3, <1>4
  <2>2. t.id[l] = GetId(N[L[l]], 1) /\ LeadsTowards(t, e, t.id[l], L[l])
    BY <2>1 DEF OnlyClassKeys, ClassKeys
  <2>3. LeadsTowards(t2, e, t.id[l], L[l])
    BY <2>1, <2>2, <1>2, StillLeads
  <2> QED BY <2>1, <2>2, <2>3
<1>5. ASSUME NEW l \in DOMAIN M, M[l] \notin C PROVE t2.id[l] = 0
  BY <1>1, <1>5 DEF OnlyClassKeys
<1> QED BY <1>4, <1>5 DEF OnlyClassKeys, ClassKeys

\* Get gives the number of a class, and 0 for what is none.
LEMMA ClassNumber ==
    ASSUME SeqRange \in Nat, SeqRange > 0, NEW t, NEW M, Tree(t, M), NEW e, NEW C,
           C \subseteq Range(M), NEW N, Numbers(N, C), OnlyClassKeys(t, e, M, C, N), NEW u \in Uri
    PROVE  GetSeq(GetIn(t, u)) = N[u]
<1>1. u \in Seq(Char) /\ u # <<>>
  BY UriIs
<1>2. /\ \A l \in DOMAIN M : M[l] = u => GetIn(t, u) = t.id[l]
      /\ Absent(M, u) => GetIn(t, u) = 0
  BY <1>1, GetIs
<1>3. CASE u \in C
  <2>1. PICK l \in DOMAIN M : M[l] = u
    BY <1>3 DEF Range
  <2>2. GetIn(t, u) = GetId(N[u], 1)
    BY <2>1, <1>2, <1>3 DEF OnlyClassKeys, ClassKeys
  <2>3. N[u] \in Nat /\ N[u] < SeqRange /\ 1 \in Nat
    BY <1>3 DEF Numbers
  <2>4. GetSeq(GetId(N[u], 1)) = N[u]
    BY <2>3, KeyParts
  <2> QED BY <2>2, <2>4
<1>4. CASE u \notin C
  <2>1. GetIn(t, u) = 0
    BY <1>2, <1>4 DEF OnlyClassKeys, Absent
  <2>2. N[u] = 0 /\ 0 % SeqRange = 0
    BY <1>4 DEF Numbers
  <2> QED BY <2>1, <2>2 DEF GetSeq
<1> QED BY <1>3, <1>4

\* The types said of the leaves.
TypesSay(ls, r, ts, L, N) ==
    \A l \in DOMAIN L : \E type : Says(ts, l, type) /\ Said(ls, r, L[l], N, type)

\* An rdf:type line says the type of its subject.
LEMMA TypeLineSays ==
    ASSUME NEW t, NEW L, Tree(t, L), NEW t2, NEW M, Tree(t2, M),
           \A l \in DOMAIN M : l \notin DOMAIN L => M[l] \notin Range(L),
           \A l \in DOMAIN L : M[l] = L[l] /\ l \in DOMAIN M,
           NEW ls, NEW n \in Nat, NEW r, \A i \in r : i \in Nat /\ i < n, NEW N,
           NEW S, NEW ts \in Seq(S), TypesSay(ls, r, ts, L, N), ls[n].predicate = RdfType,
           NEW x \in S, x.leaf \in DOMAIN M, M[x.leaf] = ls[n].subject, x.type = N[ls[n].object],
           \A u \in Range(M) : u \in Range(L) \/ u = ls[n].subject
    PROVE  TypesSay(ls, r \cup {n}, Append(ts, x), M, N)
<1> DEFINE ts2 == Append(ts, x)
           m == Len(ts)
<1>1. /\ m \in Nat /\ Len(ts2) = m + 1 /\ ts2[m + 1] = x
      /\ \A i \in 1..m : ts2[i] = ts[i]
  BY AppendIs
<1>2. \A i, j \in DOMAIN M : M[i] = M[j] => i = j
  BY TreeLeaves
<1> HIDE DEF ts2
<1> SUFFICES ASSUME NEW l \in DOMAIN M
             PROVE  \E type : Says(ts2, l, type) /\ Said(ls, r \cup {n}, M[l], N, type)
  BY DEF TypesSay, ts2
<1>3. CASE l = x.leaf
  <2>1. Says(ts2, l, x.type)
    <3>1. m + 1 \in 1..Len(ts2) /\ ((m + 1) + 1)..Len(ts2) = {}
      BY <1>1
    <3>2. ts2[m + 1].leaf = l /\ ts2[m + 1].type = x.type
      BY <1>1, <1>3
    <3> QED BY <3>1, <3>2 DEF Says
  <2>2. Said(ls, r \cup {n}, M[l], N, x.type)
    <3>1. IsTypeLine(ls[n], M[l])
      BY <1>3 DEF IsTypeLine
    <3>2. \A j \in r \cup {n} : j <= n
      OBVIOUS
    <3> QED BY <3>1, <3>2 DEF Said
  <2> QED BY <2>1, <2>2
<1>4. CASE l # x.leaf
  <2>1. M[l] # ls[n].subject
    BY <1>2, <1>4
  <2>2. M[l] \in Range(M)
    BY DEF Range
  <2>3. l \in DOMAIN L /\ M[l] = L[l]
    BY <2>1, <2>2
  <2>4. PICK type : Says(ts, l, type) /\ Said(ls, r, L[l], N, type)
    BY <2>3 DEF TypesSay
  <2>5. Says(ts2, l, type)
    <3>1. CASE type = Unclassified /\ \A i \in 1..m : ts[i].leaf # l
      <4>1. \A i \in 1..Len(ts2) : i \in 1..m \/ i = m + 1
        BY <1>1
      <4>2. \A i \in 1..Len(ts2) : ts2[i].leaf # l
        BY <3>1, <4>1, <1>1, <1>4
      <4> QED BY <3>1, <4>2 DEF Says
    <3>2. CASE \E i \in 1..m : /\ ts[i].leaf = l /\ ts[i].type = type
                               /\ \A j \in (i + 1)..m : ts[j].leaf # l
      <4>1. PICK i \in 1..m : /\ ts[i].leaf = l /\ ts[i].type = type
                              /\ \A j \in (i + 1)..m : ts[j].leaf # l
        BY <3>2
      <4>2. i \in 1..Len(ts2) /\ ts2[i].leaf = l /\ ts2[i].type = type
        BY <4>1, <1>1
      <4>3. ASSUME NEW j \in (i + 1)..Len(ts2) PROVE ts2[j].leaf # l
        <5>1. j \in (i + 1)..m \/ j = m + 1
          BY <1>1
        <5>2. \A a \in (i + 1)..m : a \in 1..m
          BY <1>1
        <5> QED BY <5>1, <5>2, <4>1, <1>1, <1>4
      <4> QED BY <4>2, <4>3 DEF Says
    <3> QED BY <2>4, <3>1, <3>2 DEF Says
  <2>6. Said(ls, r \cup {n}, M[l], N, type)
    <3>1. ~IsTypeLine(ls[n], M[l])
      BY <2>1 DEF IsTypeLine
    <3> QED BY <2>3, <2>4, <3>1 DEF Said
  <2> QED BY <2>5, <2>6
<1> QED BY <1>3, <1>4

\* Any other line says nothing of the types.
LEMMA OtherLineSays ==
    ASSUME NEW t, NEW L, Tree(t, L), NEW M,
           \A l \in DOMAIN M : l \notin DOMAIN L => M[l] \notin Range(L),
           \A l \in DOMAIN L : M[l] = L[l] /\ l \in DOMAIN M,
           NEW ls, NEW n, NEW r, NEW N,
           NEW ts \in Seq([leaf: DOMAIN L, type: Nat]), TypesSay(ls, r, ts, L, N),
           ls[n].predicate # RdfType,
           \A i \in r : ls[i].predicate = RdfType => ls[i].subject \in Range(L)
    PROVE  TypesSay(ls, r \cup {n}, ts, M, N)
<1> SUFFICES ASSUME NEW l \in DOMAIN M
             PROVE  \E type : Says(ts, l, type) /\ Said(ls, r \cup {n}, M[l], N, type)
  BY DEF TypesSay
<1>1. \A u : ~IsTypeLine(ls[n], u)
  BY DEF IsTypeLine
<1>2. CASE l \in DOMAIN L
  <2>1. PICK type : Says(ts, l, type) /\ Said(ls, r, L[l], N, type)
    BY <1>2 DEF TypesSay
  <2>2. Said(ls, r \cup {n}, M[l], N, type)
    BY <1>1, <1>2, <2>1 DEF Said
  <2> QED BY <2>1, <2>2
<1>3. CASE l \notin DOMAIN L
  <2>1. \A i \in 1..Len(ts) : ts[i].leaf # l
    <3> TAKE i \in 1..Len(ts)
    <3> DEFINE S == [leaf: DOMAIN L, type: Nat]
    <3>1. ts[i] \in S
      <4>1. ts \in Seq(S)
        OBVIOUS
      <4> HIDE DEF S
      <4> QED BY <4>1
    <3> QED BY <3>1, <1>3
  <2>2. Says(ts, l, Unclassified)
    BY <2>1 DEF Says
  <2>3. \A i \in r : ~IsTypeLine(ls[i], M[l])
    BY <1>3 DEF IsTypeLine
  <2>4. Said(ls, r \cup {n}, M[l], N, Unclassified)
    BY <1>1, <2>3 DEF Said
  <2> QED BY <2>2, <2>4
<1> QED BY <1>2, <1>3

LEMMA ReadLineKeys ==
    ASSUME PrefixFree, IInv, KInv, ReadLine
    PROVE  KInv' /\ KeepsKeys(trie, trie')
<1>1. PICK L : Indexed(lines, Read1, Read2, trie, tt, quads, L)
  BY DEF IInv
<1>2. /\ lines \in Inputs /\ ElementsOK(trie, elements)
      /\ pass = 2 /\ next \in 1..Len(lines) /\ next \in Nat
      /\ Len(lines) \in Nat /\ DOMAIN lines = 1..Len(lines) /\ lines \in Seq(Line)
      /\ SeqRange \in Nat /\ SeqRange > 0
  <2>1. /\ lines \in Inputs /\ ElementsOK(trie, elements)
        /\ pass = 2 /\ next <= Len(lines) /\ next \in 1..(Len(lines) + 1)
    BY DEF IInv, ReadLine
  <2>2. Len(lines) \in Nat /\ DOMAIN lines = 1..Len(lines) /\ lines \in Seq(Line)
        /\ SeqRange \in Nat /\ 4 * Len(lines) + 3 < SeqRange
    BY <2>1, Room
  <2> QED BY <2>1, <2>2
<1>3. /\ next' = next + 1 /\ lines' = lines /\ pass' = pass /\ elements' = elements
  BY DEF ReadLine
<1> DEFINE l == lines[next]
           C == Cls(lines)
<1>4. l \in Line /\ l.subject \in Uri /\ l.object \in Uri
  <2>1. l \in Line
    BY <1>2
  <2> QED BY <2>1 DEF Line
<1>5. /\ Read1 = DOMAIN lines /\ Read2 = 1..(next - 1) /\ Read2' = Read2 \cup {next}
      /\ \A i \in Read2 : i \in Nat /\ i < next
  <2>1. (next + 1) - 1 = next /\ 1..next = 1..(next - 1) \cup {next}
    BY <1>2
  <2> QED BY <2>1, <1>2, <1>3 DEF Read1, Read2
<1>6. /\ Tree(trie, L) /\ tt \in Seq([leaf: DOMAIN L, type: Nat])
      /\ \A u : u \in Range(L) <=> IsAdded(lines, Read1, Read2, u)
  BY <1>1 DEF Indexed
<1>7. PICK N : Half(lines, Read2, trie, elements, tt, L, N)
  <2>1. PICK L1, N : Tree(trie, L1) /\ Half(lines, Read2, trie, elements, tt, L1, N)
    BY <1>2 DEF KInv
  <2>2. L1 = L
    BY <2>1, <1>6, LeavesUnique
  <2> QED BY <2>1, <2>2
<1>8. /\ Numbers(N, C) /\ OnlyClassKeys(trie, elements, L, C, N) /\ TypesSay(lines, Read2, tt, L, N)
  BY <1>7 DEF Half, OnlyClassKeys, TypesSay
<1>9. C \subseteq Range(L)
  <2> SUFFICES ASSUME NEW u \in C PROVE u \in Range(L)
    OBVIOUS
  <2>1. \E i \in Read1 : u \in Range(ClassesOf(lines[i]))
    BY <1>5, ClsIs
  <2> QED BY <2>1, <1>6 DEF IsAdded
<1>10. SubClassOf # RdfType
  BY UriAssumption
<1>11. ASSUME NEW M, Tree(trie', M), OnlyClassKeys(trie', elements, M, C, N),
              TypesSay(lines, Read2 \cup {next}, tt', M, N)
       PROVE  KInv'
  <2>1. Half(lines', Read2', trie', elements', tt', M, N)
    <3> HIDE DEF C
    <3>1. OnlyClassKeys(trie', elements', M, C, N) /\ TypesSay(lines', Read2', tt', M, N)
          /\ C = Cls(lines')
      BY <1>3, <1>5, <1>11 DEF C
    <3> QED BY <3>1, <1>8 DEF Half, OnlyClassKeys, TypesSay
  <2>2. pass' # 1 /\ pass' # 3
    BY <1>2, <1>3
  <2> QED BY <2>1, <2>2, <1>11 DEF KInv
<1>12. \A i \in Read2 : lines[i].predicate = RdfType => lines[i].subject \in Range(L)
  <2> SUFFICES ASSUME NEW i \in Read2, lines[i].predicate = RdfType
               PROVE  lines[i].subject \in Range(L)
    OBVIOUS
  <2>1. lines[i].subject \in Range(NewOf(lines[i]))
    BY DEF NewOf, Range
  <2> QED BY <2>1, <1>6 DEF IsAdded
<1> HIDE DEF C
<1>13. ASSUME l.predicate # SubClassOf, trie' = AddAll(NewOf(l))
       PROVE  \E M : Reached(trie, L, NewOf(l), Len(NewOf(l)), trie', M)
  <2> HIDE DEF l
  <2>1. NewOf(l) \in Seq(Uri) /\ Len(NewOf(l)) \in 0..4
    BY <1>4, ClassesOfIs
  <2> QED BY <2>1, <1>6, <1>13, AddAllKeeps
<1>14. ASSUME NEW M, Reached(trie, L, NewOf(l), Len(NewOf(l)), trie', M)
       PROVE  /\ Tree(trie', M) /\ OnlyClassKeys(trie', elements, M, C, N)
              /\ \A x \in DOMAIN M : x \notin DOMAIN L => M[x] \notin Range(L)
              /\ \A x \in DOMAIN L : M[x] = L[x] /\ x \in DOMAIN M
              /\ C \subseteq Range(M) /\ KeepsKeys(trie, trie')
  <2> HIDE DEF l
  <2>1. Tree(trie', M)
    BY <1>14 DEF Reached
  <2>2. OnlyClassKeys(trie', elements, M, C, N)
    BY <1>2, <1>6, <1>8, <1>9, <1>14, KeysGrow
  <2>3. /\ \A x \in DOMAIN L : x \in DOMAIN M /\ M[x] = L[x]
        /\ \A x \in DOMAIN M : x \notin DOMAIN L => M[x] \notin Range(L)
        /\ KeepsKeys(trie, trie')
    BY <1>6, <1>14, AfterAdding
  <2>4. C \subseteq Range(M)
    BY <1>9, <2>3 DEF Range
  <2> QED BY <2>1, <2>2, <2>3, <2>4
<1>15. CASE l.predicate = SubClassOf
  <2>1. trie' = trie /\ tt' = tt
    BY <1>10, <1>15 DEF ReadLine
  <2>2. TypesSay(lines, Read2 \cup {next}, tt, L, N)
    <3>1. lines[next].predicate # RdfType
      BY <1>10, <1>15
    <3> QED BY <3>1, <1>6, <1>8, <1>12, OtherLineSays
  <2>3. KeepsKeys(trie, trie')
    BY <2>1, <1>6 DEF KeepsKeys
  <2> QED BY <2>1, <2>2, <2>3, <1>6, <1>8, <1>11
<1>16. CASE l.predicate = RdfType
  <2> DEFINE x == [leaf |-> trie'.added[1], type |-> GetSeq(GetIn(trie', l.object))]
             S == [leaf: Nat, type: Nat]
  <2>1. /\ trie' = AddAll(<<l.subject>>) /\ tt' = Append(tt, x)
    BY <1>10, <1>16 DEF ReadLine
  <2>2. NewOf(l) = <<l.subject>> /\ Len(NewOf(l)) = 1 /\ NewOf(l)[1] = l.subject
    BY <1>16 DEF NewOf
  <2>3. PICK M : Reached(trie, L, NewOf(l), Len(NewOf(l)), trie', M)
    BY <2>1, <2>2, <1>10, <1>13, <1>16
  <2>4. /\ Tree(trie', M) /\ OnlyClassKeys(trie', elements, M, C, N)
        /\ \A y \in DOMAIN M : y \notin DOMAIN L => M[y] \notin Range(L)
        /\ \A y \in DOMAIN L : M[y] = L[y] /\ y \in DOMAIN M
        /\ C \subseteq Range(M) /\ KeepsKeys(trie, trie')
    BY <2>3, <1>14
  <2>5. GetSeq(GetIn(trie', l.object)) = N[l.object]
    <3> DEFINE o == l.object
    <3>1. o \in Uri
      BY <1>4
    <3> HIDE DEF o
    <3>2. GetSeq(GetIn(trie', o)) = N[o]
      <4>1. /\ SeqRange \in Nat /\ SeqRange > 0 /\ Tree(trie', M) /\ C \subseteq Range(M)
            /\ Numbers(N, C) /\ OnlyClassKeys(trie', elements, M, C, N)
        BY <2>4, <1>2, <1>8
      <4> QED BY <3>1, <4>1, ClassNumber
    <3> QED BY <3>2 DEF o
  <2>6. x.leaf \in DOMAIN M /\ M[x.leaf] = lines[next].subject /\ x.type = N[lines[next].object]
    <3>1. \A j \in 1..Len(NewOf(l)) : trie'.added[j] \in DOMAIN M /\ M[trie'.added[j]] = NewOf(l)[j]
      BY <2>3 DEF Reached
    <3>2. x.leaf = trie'.added[1] /\ x.type = N[l.object]
      BY <2>5
    <3>3. 1 \in 1..Len(NewOf(l))
      BY <2>2
    <3> HIDE DEF x
    <3> QED BY <3>1, <3>2, <3>3, <2>2
  <2>7. x \in S
    <3>1. N[l.object] \in Nat
      BY <1>4, <1>8 DEF Numbers
    <3>2. trie'.added[1] \in Nat
      <4>1. DOMAIN M = 1..Len(M) /\ Len(M) \in Nat
        BY <2>4, TreeLeaves
      <4>2. x.leaf = trie'.added[1]
        OBVIOUS
      <4> HIDE DEF x
      <4> QED BY <4>1, <4>2, <2>6
    <3> QED BY <3>1, <3>2, <2>5
  <2>8. tt \in Seq(S)
    <3> DEFINE A == [leaf: DOMAIN L, type: Nat]
    <3>1. DOMAIN L \subseteq Nat
      <4>1. DOMAIN L = 1..Len(L) /\ Len(L) \in Nat
        BY <1>6, TreeLeaves
      <4> QED BY <4>1
    <3>2. A \subseteq S
      BY <3>1
    <3>3. tt \in Seq(A)
      BY <1>6
    <3> HIDE DEF A, S
    <3> QED BY <3>2, <3>3, SeqInSet
  <2>9. \A u \in Range(M) : u \in Range(L) \/ u = lines[next].subject
    <3>1. \A u : u \in Range(M) <=> u \in Range(L) \/ \E j \in 1..Len(NewOf(l)) : NewOf(l)[j] = u
      BY <2>3 DEF Reached
    <3>2. \A j \in 1..Len(NewOf(l)) : NewOf(l)[j] = lines[next].subject
      BY <2>2
    <3> QED BY <3>1, <3>2
  <2>10. TypesSay(lines, Read2 \cup {next}, Append(tt, x), M, N)
    <3>1. lines[next].predicate = RdfType
      BY <1>16
    <3> HIDE DEF x, S, l
    <3> QED BY <3>1, <2>4, <2>6, <2>7, <2>8, <2>9, <1>2, <1>5, <1>6, <1>8, TypeLineSays
  <2> QED BY <2>1, <2>4, <2>10, <1>11
<1>17. CASE l.predicate \notin {RdfType, SubClassOf}
  <2>1. trie' = AddAll(<<l.subject, l.predicate, l.object, l.prov>>) /\ tt' = tt
    BY <1>17 DEF ReadLine
  <2>2. NewOf(l) = <<l.subject, l.predicate, l.object, l.prov>>
    BY <1>17 DEF NewOf
  <2>3. PICK M : Reached(trie, L, NewOf(l), Len(NewOf(l)), trie', M)
    BY <2>1, <2>2, <1>13, <1>17
  <2>4. /\ Tree(trie', M) /\ OnlyClassKeys(trie', elements, M, C, N)
        /\ \A y \in DOMAIN M : y \notin DOMAIN L => M[y] \notin Range(L)
        /\ \A y \in DOMAIN L : M[y] = L[y] /\ y \in DOMAIN M
        /\ KeepsKeys(trie, trie')
    BY <2>3, <1>14
  <2>5. TypesSay(lines, Read2 \cup {next}, tt, M, N)
    <3>1. lines[next].predicate # RdfType
      BY <1>17
    <3> HIDE DEF l
    <3> QED BY <3>1, <2>4, <1>6, <1>8, <1>12, OtherLineSays
  <2> QED BY <2>1, <2>4, <2>5, <1>11
<1> QED BY <1>15, <1>16, <1>17

-----------------------------------------------------------------------------
(* The keys of everything else *)

\* Those before i in a list that have the same type.
Before(type, i) == {j \in 1..(i - 1) : type[j] = type[i]}

LEMMA BeforeIs ==
    ASSUME NEW type, NEW i \in Nat, i > 0
    PROVE  /\ IsFiniteSet(Before(type, i)) /\ Cardinality(Before(type, i)) \in Nat
           /\ Cardinality(Before(type, i)) < i
           /\ \A j \in 1..(i - 1) : type[j] = type[i] =>
                  Cardinality(Before(type, j)) < Cardinality(Before(type, i))
<1>1. IsFiniteSet(1..(i - 1)) /\ Cardinality(1..(i - 1)) = i - 1
  BY FS_Interval
<1>2. Before(type, i) \in SUBSET (1..(i - 1))
  BY DEF Before
<1>3. IsFiniteSet(Before(type, i)) /\ Cardinality(Before(type, i)) <= i - 1
  BY <1>1, <1>2, FS_Subset
<1>4. Cardinality(Before(type, i)) \in Nat
  BY <1>3, FS_CardinalityType
<1>5. ASSUME NEW j \in 1..(i - 1), type[j] = type[i]
      PROVE  Cardinality(Before(type, j)) < Cardinality(Before(type, i))
  <2> DEFINE b == Before(type, j)
             c == Before(type, i)
  <2>1. b \cup {j} \in SUBSET c
    BY <1>5 DEF Before
  <2>2. j \notin b
    BY DEF Before
  <2>3. b \in SUBSET c
    BY <2>1
  <2>4. IsFiniteSet(c) /\ Cardinality(c) \in Nat
    BY <1>3, <1>4
  <2> HIDE DEF b, c
  <2>5. IsFiniteSet(b)
    BY <2>3, <2>4, FS_Subset
  <2>6. Cardinality(b) \in Nat /\ Cardinality(b \cup {j}) = Cardinality(b) + 1
    BY <2>2, <2>5, FS_CardinalityType, FS_AddElement
  <2>7. Cardinality(b \cup {j}) <= Cardinality(c)
    BY <2>1, <2>4, FS_Subset
  <2>8. Cardinality(b) < Cardinality(c)
    BY <2>4, <2>6, <2>7
  <2> QED BY <2>8 DEF b, c
<1> QED BY <1>1, <1>3, <1>4, <1>5

LEMMA KeysOfTypes ==
    ASSUME NEW m \in Nat, SeqRange \in Nat, m + 3 < SeqRange, NEW type,
           \A i \in 1..m : type[i] \in Nat,
           NEW k, k = [i \in 1..m |-> GetId(Cardinality(Before(type, i)) + 1, type[i])]
    PROVE  /\ k \in Seq(Nat \ {0}) /\ Len(k) = m /\ Once(k)
           /\ \A i \in 1..m : GetType(k[i]) = type[i]
<1> DEFINE c(i) == Cardinality(Before(type, i))
<1>1. ASSUME NEW i \in 1..m
      PROVE  /\ c(i) + 1 \in Nat /\ c(i) + 1 < SeqRange /\ c(i) + 1 # 0 /\ c(i) \in Nat
             /\ \A j \in 1..(i - 1) : type[j] = type[i] => c(j) < c(i)
  <2>1. /\ c(i) \in Nat /\ c(i) < i
        /\ \A j \in 1..(i - 1) : type[j] = type[i] => c(j) < c(i)
    BY BeforeIs
  <2> HIDE DEF c
  <2> QED BY <2>1
<1>2. \A i \in 1..m : k[i] = GetId(c(i) + 1, type[i])
  OBVIOUS
<1>3. k = [i \in 1..m |-> k[i]]
  OBVIOUS
<1> HIDE DEF c
<1>4. ASSUME NEW i \in 1..m
      PROVE  k[i] \in Nat \ {0} /\ GetSeq(k[i]) = c(i) + 1 /\ GetType(k[i]) = type[i]
  <2> DEFINE s == c(i) + 1
             a == type[i]
  <2>1. s \in Nat /\ s < SeqRange /\ s # 0 /\ a \in Nat /\ k[i] = GetId(s, a)
    BY <1>1, <1>2
  <2> HIDE DEF s, a
  <2>2. /\ GetId(s, a) \in Nat /\ GetId(s, a) # 0
        /\ GetSeq(GetId(s, a)) = s /\ GetType(GetId(s, a)) = a
    BY <2>1, KeyParts
  <2> QED BY <2>1, <2>2 DEF s, a
<1>5. k \in Seq(Nat \ {0}) /\ Len(k) = m
  <2>1. k \in [1..m -> Nat \ {0}]
    BY <1>3, <1>4
  <2> QED BY <2>1, FcnIsSeq
<1>6. ASSUME NEW i \in 1..m, NEW j \in 1..m, k[i] = k[j] PROVE i = j
  <2>1. c(i) + 1 = c(j) + 1 /\ type[i] = type[j]
    BY <1>4, <1>6
  <2>2. c(i) \in Nat /\ c(j) \in Nat
    BY <1>1
  <2>3. ~(i < j)
    <3>1. ASSUME i < j PROVE FALSE
      <4>1. i \in 1..(j - 1)
        BY <3>1
      <4> QED BY <4>1, <2>1, <2>2, <1>1
    <3> QED BY <3>1
  <2>4. ~(j < i)
    <3>1. ASSUME j < i PROVE FALSE
      <4>1. j \in 1..(i - 1)
        BY <3>1
      <4> QED BY <4>1, <2>1, <2>2, <1>1
    <3> QED BY <3>1
  <2> QED BY <2>3, <2>4
<1> QED BY <1>4, <1>5, <1>6 DEF Once

\* The type of a leaf is what tt says last of it.
LEMMA TypeOfLeafSaid ==
    ASSUME NEW A, tt \in Seq([leaf: A, type: Nat]), NEW leaf, NEW type, Says(tt, leaf, type)
    PROVE  TypeOfLeaf(leaf) = type
BY TypeOfLeafIs DEF Says

\* No line gives the type 1, that of the classes.
LEMMA SaidIs ==
    ASSUME NEW ls \in Seq(Line), NEW r, r \subseteq DOMAIN ls, NEW N, NEW C, Numbers(N, C),
           NEW u, NEW type, Said(ls, r, u, N, type)
    PROVE  type \in Nat /\ type # 1
<1>1. CASE type = Unclassified
  BY <1>1 DEF Unclassified
<1>2. CASE \E i \in r : type = N[ls[i].object]
  <2>1. PICK i \in r : type = N[ls[i].object]
    BY <1>2
  <2>2. ls[i] \in Line
    BY DEF Said
  <2>3. ls[i].object \in Uri
    BY <2>2 DEF Line
  <2>4. N[ls[i].object] \in Nat /\ (N[ls[i].object] >= 3 \/ N[ls[i].object] = 0)
    BY <2>3 DEF Numbers
  <2> QED BY <2>1, <2>4
<1> QED BY <1>1, <1>2 DEF Said

LEMMA MakeInverseIndexKeys ==
    ASSUME PrefixFree, IInv, KInv, MakeInverseIndex
    PROVE  KInv' /\ KeepsKeys(trie, trie')
<1>1. PICK L : Indexed(lines, Read1, Read2, trie, tt, quads, L)
  BY DEF IInv
<1> DEFINE S == {n \in WithLeaf : trie.id[trie.nodes[n].leaf] = 0}
           list == Pending
           m == Len(list)
           type == [i \in DOMAIN list |-> TypeOfLeaf(trie.nodes[list[i]].leaf)]
           before(i) == {j \in 1..(i - 1) : type[j] = type[i]}
           k == [i \in DOMAIN list |-> GetId(Cardinality(before(i)) + 1, type[i])]
           C == Cls(lines)
<1>2. /\ lines \in Inputs /\ ElementsOK(trie, elements) /\ pass = 2 /\ next = Len(lines) + 1
      /\ lines \in Seq(Line) /\ Len(lines) \in Nat /\ DOMAIN lines = 1..Len(lines)
      /\ SeqRange \in Nat /\ 4 * Len(lines) + 3 < SeqRange
  <2>1. /\ lines \in Inputs /\ ElementsOK(trie, elements)
        /\ pass = 2 /\ next > Len(lines) /\ next \in 1..(Len(lines) + 1)
    BY DEF IInv, MakeInverseIndex
  <2>2. /\ lines \in Seq(Line) /\ Len(lines) \in Nat /\ DOMAIN lines = 1..Len(lines)
        /\ SeqRange \in Nat /\ 4 * Len(lines) + 3 < SeqRange
    BY <2>1, Room
  <2> QED BY <2>1, <2>2
<1>3. Assign(list, k) /\ pass' = 3 /\ lines' = lines
  BY DEF MakeInverseIndex, AssignByType
<1>4. /\ Tree(trie, L) /\ tt \in Seq([leaf: DOMAIN L, type: Nat])
  BY <1>1 DEF Indexed
<1>5. Read1 = DOMAIN lines /\ Read2 = DOMAIN lines
  <2>1. (Len(lines) + 1) - 1 = Len(lines)
    BY <1>2
  <2> QED BY <2>1, <1>2 DEF Read1, Read2
<1>6. /\ L \in Seq(Uri) /\ Len(L) \in Nat /\ DOMAIN L = 1..Len(L)
      /\ \A i, j \in DOMAIN L : L[i] = L[j] => i = j
  BY <1>4, TreeLeaves
<1>7. PICK N : Half(lines, Read2, trie, elements, tt, L, N)
  <2>1. PICK L1, N : Tree(trie, L1) /\ Half(lines, Read2, trie, elements, tt, L1, N)
    BY <1>2 DEF KInv
  <2>2. L1 = L
    BY <2>1, <1>4, LeavesUnique
  <2> QED BY <2>1, <2>2
<1>8. /\ Numbers(N, C) /\ ClassKeys(trie, elements, L, C, N)
      /\ \A l \in DOMAIN L : L[l] \notin C => trie.id[l] = 0
      /\ \A l \in DOMAIN L : \E ty : Says(tt, l, ty) /\ Said(lines, DOMAIN lines, L[l], N, ty)
  BY <1>5, <1>7 DEF Half
<1>9. /\ Leafs(trie, list, L)
      /\ \A n : n \in S <=> \E i \in 1..m : list[i] = n
  <2>1. S \subseteq WithLeaf /\ list = Kept(Preorder, S)
    BY DEF Pending
  <2> HIDE DEF S
  <2> QED BY <2>1, <1>4, KeptLeafs
<1>10. /\ list \in Seq(DOMAIN trie.nodes) /\ m \in Nat /\ DOMAIN list = 1..m /\ m <= Len(L)
       /\ \A i \in 1..m : trie.nodes[list[i]].leaf \in DOMAIN L
       /\ \A i, j \in 1..m : trie.nodes[list[i]].leaf = trie.nodes[list[j]].leaf => i = j
  BY <1>9 DEF Leafs
<1>11. m + 3 < SeqRange
  <2>1. Len(L) <= 4 * Len(lines)
    <3>1. \A u : u \in Range(L) => IsAdded(lines, Read1, Read2, u)
      BY <1>1 DEF Indexed
    <3>2. Read1 \subseteq DOMAIN lines /\ Read2 \subseteq DOMAIN lines
      BY <1>5
    <3> QED BY <3>1, <3>2, <1>2, <1>6, LeavesFit
  <2> HIDE DEF m
  <2> QED BY <2>1, <1>2, <1>6, <1>10
<1>12. ASSUME NEW i \in 1..m
       PROVE  /\ type[i] \in Nat /\ type[i] # 1
              /\ Said(lines, DOMAIN lines, L[trie.nodes[list[i]].leaf], N, type[i])
  <2> DEFINE l == trie.nodes[list[i]].leaf
  <2>1. l \in DOMAIN L /\ type[i] = TypeOfLeaf(l)
    BY <1>10
  <2> HIDE DEF l, type
  <2>2. PICK ty : Says(tt, l, ty) /\ Said(lines, DOMAIN lines, L[l], N, ty)
    BY <2>1, <1>8
  <2>3. type[i] = ty
    BY <2>1, <2>2, <1>4, TypeOfLeafSaid
  <2>4. ty \in Nat /\ ty # 1
    <3>1. DOMAIN lines \subseteq DOMAIN lines
      OBVIOUS
    <3> QED BY <3>1, <2>2, <1>2, <1>8, SaidIs
  <2> QED BY <2>2, <2>3, <2>4 DEF l
<1>13. /\ k \in Seq(Nat \ {0}) /\ Len(k) = m /\ Once(k)
       /\ \A i \in 1..m : GetType(k[i]) = type[i]
  <2>1. k = [i \in 1..m |-> GetId(Cardinality(Before(type, i)) + 1, type[i])]
    <3> HIDE DEF list, type
    <3> QED BY <1>10 DEF Before
  <2>2. \A i \in 1..m : type[i] \in Nat
    BY <1>12
  <2> HIDE DEF list, k, m, type
  <2>3. m \in Nat /\ SeqRange \in Nat /\ m + 3 < SeqRange
    BY <1>2, <1>10, <1>11
  <2> HIDE DEF m
  <2> QED BY <2>1, <2>2, <2>3, KeysOfTypes
<1>14. \A i \in 1..m : type[i] = TypeOfLeaf(trie.nodes[list[i]].leaf)
  BY <1>10
<1>15. ASSUME NEW n \in S PROVE trie.id[trie.nodes[n].leaf] = 0
  OBVIOUS
<1>16. ASSUME NEW n \in DOMAIN trie.nodes, trie.nodes[n].leaf # NoLeaf,
              trie.id[trie.nodes[n].leaf] = 0
       PROVE  n \in S
  BY <1>16 DEF WithLeaf
<1> HIDE DEF list, k, type, S, C
<1>17. /\ Tree(trie', L) /\ trie'.nodes = trie.nodes
       /\ Rekeyed(trie.nodes, trie.id, trie'.id, list, k, L)
  <2>1. /\ Tree(trie, L) /\ list \in Seq(DOMAIN trie.nodes) /\ k \in Seq(Nat \ {0})
        /\ Len(k) = Len(list) /\ Assign(list, k) /\ ElementsOK(trie, elements)
    BY <1>2, <1>3, <1>4, <1>10, <1>13
  <2> QED BY <2>1, AssignKeeps
<1>18. /\ \A key \in DOMAIN elements : key \notin Range(k) =>
              key \in DOMAIN elements' /\ elements'[key] = elements[key]
       /\ \A i \in 1..m : k[i] \in DOMAIN elements' /\ elements'[k[i]] = list[i]
  BY <1>3, <1>13, AssignFiles
<1>19. PICK W : /\ KeyTree(trie.nodes, trie.uri_id, W, L)
                /\ \A n \in DOMAIN trie.nodes : trie.nodes[n].leaf \in DOMAIN L =>
                      W[n] = L[trie.nodes[n].leaf]
                /\ \A l \in DOMAIN L : /\ l # NoLeaf
                                       /\ \E n \in DOMAIN trie.nodes : trie.nodes[n].leaf = l
  BY <1>4, NodeOfLeaf
<1> DEFINE Given(l, i) == trie.nodes[list[i]].leaf = l /\ trie'.id[l] = k[i]
\* The classes keep their keys
<1>20. ASSUME NEW l \in DOMAIN L, L[l] \in C
       PROVE  /\ N[L[l]] \in Nat /\ N[L[l]] < SeqRange /\ trie'.id[l] = GetId(N[L[l]], 1)
              /\ GetType(trie'.id[l]) = 1 /\ GetSeq(trie'.id[l]) = N[L[l]]
              /\ LeadsTowards(trie', elements', trie'.id[l], L[l])
  <2> DEFINE u == L[l]
             key == GetId(N[u], 1)
  <2>1. u \in Uri /\ trie.id[l] = key /\ LeadsTowards(trie, elements, key, u)
    BY <1>6, <1>8, <1>20 DEF ClassKeys
  <2>2. N[u] \in Nat /\ N[u] >= 3 /\ N[u] < SeqRange /\ N[u] # 0
    <3>1. N[u] \in Nat /\ N[u] >= 3 /\ N[u] < SeqRange
      BY <2>1, <1>8, <1>20 DEF Numbers
    <3> HIDE DEF u
    <3> QED BY <3>1
  <2>3. key # 0 /\ GetType(key) = 1 /\ GetSeq(key) = N[u]
    <3> DEFINE s == N[u]
    <3>1. s \in Nat /\ s < SeqRange /\ s # 0 /\ 1 \in Nat
      BY <2>2
    <3> HIDE DEF s
    <3>2. GetId(s, 1) # 0 /\ GetType(GetId(s, 1)) = 1 /\ GetSeq(GetId(s, 1)) = s
      BY <3>1, <1>2, KeyParts
    <3> QED BY <3>2 DEF s
  <2> HIDE DEF u, key
  <2>4. trie'.id[l] = key
    <3>1. ASSUME NEW i \in 1..m, trie.nodes[list[i]].leaf = l PROVE FALSE
      <4>1. list[i] \in S
        BY <1>9
      <4> QED BY <4>1, <3>1, <2>1, <2>3, <1>15
    <3> QED BY <3>1, <2>1, <1>17 DEF Rekeyed
  <2>5. key \notin Range(k)
    <3>1. ASSUME NEW i \in 1..m, k[i] = key PROVE FALSE
      BY <3>1, <2>3, <1>12, <1>13
    <3>2. DOMAIN k = 1..m
      BY <1>13
    <3> QED BY <3>1, <3>2 DEF Range
  <2>6. LeadsTowards(trie', elements', key, u)
    <3>1. key \in DOMAIN elements' /\ elements'[key] = elements[key]
      BY <2>1, <2>5, <1>18 DEF LeadsTowards
    <3> QED BY <3>1, <2>1, <1>17 DEF LeadsTowards
  <2> QED BY <2>2, <2>3, <2>4, <2>6 DEF u, key
\* The others are given theirs
<1>21. ASSUME NEW l \in DOMAIN L, L[l] \notin C PROVE \E i \in 1..m : Given(l, i)
  <2>1. trie.id[l] = 0
    BY <1>8, <1>21
  <2>2. PICK n \in DOMAIN trie.nodes : trie.nodes[n].leaf = l
    BY <1>19
  <2>3. n \in S
    BY <2>1, <2>2, <1>16, <1>19
  <2>4. PICK j \in 1..m : list[j] = n
    BY <2>3, <1>9
  <2> QED BY <2>2, <2>4, <1>17 DEF Rekeyed
<1>22. ASSUME NEW l \in DOMAIN L, NEW i \in 1..m, Given(l, i)
       PROVE  /\ InstanceKey(lines, trie', elements', L[l], N, trie'.id[l])
              /\ GetType(trie'.id[l]) # 1
  <2> DEFINE key == trie'.id[l]
  <2>1. key = k[i] /\ trie.nodes[list[i]].leaf = l /\ list[i] \in DOMAIN trie.nodes
    BY <1>10, <1>22
  <2>2. key # 0
    BY <2>1, <1>13
  <2>3. GetType(key) = type[i] /\ type[i] # 1 /\ Said(lines, DOMAIN lines, L[l], N, type[i])
    BY <2>1, <1>12, <1>13
  <2> HIDE DEF key
  <2>4. LeadsTo(trie', elements', key, L[l])
    <3>1. key \in DOMAIN elements' /\ elements'[key] = list[i]
      BY <2>1, <1>18
    <3>2. W[list[i]] = L[l] /\ Worded(trie'.nodes, W)
      BY <2>1, <1>17, <1>19 DEF KeyTree
    <3> QED BY <3>1, <3>2 DEF LeadsTo
  <2>5. InstanceKey(lines, trie', elements', L[l], N, key)
    BY <2>2, <2>3, <2>4 DEF InstanceKey
  <2> QED BY <2>3, <2>5 DEF key
<1>23. ASSUME NEW l \in DOMAIN L, NEW n \in DOMAIN L, trie'.id[l] = trie'.id[n] PROVE l = n
  <2>1. CASE L[l] \in C /\ L[n] \in C
    <3>1. N[L[l]] = N[L[n]]
      BY <2>1, <1>20, <1>23
    <3>2. L[l] = L[n]
      BY <2>1, <3>1, <1>8 DEF Numbers
    <3> QED BY <3>2, <1>6
  <2>2. CASE L[l] \in C /\ L[n] \notin C
    BY <2>2, <1>20, <1>21, <1>22, <1>23
  <2>3. CASE L[l] \notin C /\ L[n] \in C
    BY <2>3, <1>20, <1>21, <1>22, <1>23
  <2>4. CASE L[l] \notin C /\ L[n] \notin C
    <3>1. PICK i \in 1..m : Given(l, i)
      BY <2>4, <1>21
    <3>2. PICK j \in 1..m : Given(n, j)
      BY <2>4, <1>21
    <3>3. i = j
      BY <3>1, <3>2, <1>13, <1>23 DEF Once
    <3> QED BY <3>1, <3>2, <3>3
  <2> QED BY <2>1, <2>2, <2>3, <2>4
<1>24. Whole(lines', trie', elements', L, N)
  <2>1. ClassKeys(trie', elements', L, C, N)
    BY <1>20 DEF ClassKeys
  <2>2. \A l \in DOMAIN L : L[l] \notin C => InstanceKey(lines, trie', elements', L[l], N, trie'.id[l])
    BY <1>21, <1>22
  <2> QED BY <2>1, <2>2, <1>3, <1>8, <1>23 DEF Whole, C
<1>25. pass' # 1 /\ pass' # 2
  BY <1>3
<1>26. KeepsKeys(trie, trie')
  <2>1. ASSUME NEW l \in DOMAIN L, trie.id[l] # 0 PROVE trie'.id[l] = trie.id[l]
    <3>1. ASSUME NEW i \in 1..m, trie.nodes[list[i]].leaf = l PROVE FALSE
      <4>1. list[i] \in S
        BY <1>9
      <4> QED BY <4>1, <3>1, <2>1, <1>15
    <3> QED BY <3>1, <1>17 DEF Rekeyed
  <2> QED BY <2>1, <1>4, <1>17 DEF KeepsKeys
<1> QED BY <1>17, <1>24, <1>25, <1>26 DEF KInv

-----------------------------------------------------------------------------
(* The keys in every state *)

\* KInv is inductive, and no step takes a leaf or a key from a URI.
LEMMA NextKInv ==
    ASSUME PrefixFree
    PROVE  IInv /\ KInv /\ [Next]_vars => KInv' /\ KeepsKeys(trie, trie')
<1> SUFFICES ASSUME IInv, KInv, [Next]_vars PROVE KInv' /\ KeepsKeys(trie, trie')
  OBVIOUS
<1>1. CASE ReadClasses
  BY <1>1, ReadClassesKeys
<1>2. CASE MakeInverseIndexTypes
  BY <1>2, MakeInverseIndexTypesKeys
<1>3. CASE ReadLine
  BY <1>3, ReadLineKeys
<1>4. CASE MakeInverseIndex
  BY <1>4, MakeInverseIndexKeys
<1>5. CASE UNCHANGED vars
  <2>1. /\ lines' = lines /\ pass' = pass /\ trie' = trie /\ elements' = elements
        /\ tt' = tt /\ Read2' = Read2
    BY <1>5 DEF vars, Read2
  <2>2. PICK L, N : /\ Tree(trie, L)
                    /\ pass = 1 => Blank(trie, elements, tt)
                    /\ pass = 2 => Half(lines, Read2, trie, elements, tt, L, N)
                    /\ pass = 3 => Whole(lines, trie, elements, L, N)
    BY DEF KInv
  <2>3. KInv'
    BY <2>1, <2>2 DEF KInv
  <2>4. KeepsKeys(trie, trie')
    BY <2>1, <2>2 DEF KeepsKeys
  <2> QED BY <2>3, <2>4
<1> QED BY <1>1, <1>2, <1>3, <1>4, <1>5 DEF Next

\* What the keys are in each pass.
THEOREM KeysInvariant == ASSUME PrefixFree PROVE Spec => [](IInv /\ KInv)
<1>1. Init => IInv /\ KInv
  BY InitIInv, InitKInv
<1>2. IInv /\ KInv /\ [Next]_vars => (IInv /\ KInv)'
  BY NextIInv, NextKInv
<1> QED BY <1>1, <1>2, PTL DEF Spec

\* A search finds the key in the leaf of the URI.
LEMMA KeyOf ==
    ASSUME NEW t, NEW L, Tree(t, L), NEW u \in Uri
    PROVE  /\ \A l \in DOMAIN L : L[l] = u => GetIn(t, u) = t.id[l]
           /\ u \notin Range(L) => GetIn(t, u) = 0
<1>1. u \in Seq(Char) /\ u # <<>>
  BY UriIs
<1>2. /\ \A l \in DOMAIN L : L[l] = u => GetIn(t, u) = t.id[l]
      /\ Absent(L, u) => GetIn(t, u) = 0
  BY <1>1, GetIs
<1>3. u \notin Range(L) => Absent(L, u)
  BY DEF Range, Absent
<1> QED BY <1>2, <1>3

\* What LoadData has built when it goes on to the templates.
Loaded(L, N) ==
    /\ Tree(trie, L) /\ Whole(lines, trie, elements, L, N)
    /\ \A u : u \in Added <=> u \in Range(L)
    /\ Classes = Cls(lines) /\ Cls(lines) \subseteq Range(L)
    /\ lines \in Seq(Line) /\ SeqRange \in Nat /\ SeqRange > 0
    /\ \A u \in Range(L) : \E l \in DOMAIN L : u \in Uri /\ L[l] = u /\ Get(u) = trie.id[l]
    /\ \A u \in Uri \ Range(L) : Get(u) = 0

LEMMA IsLoaded ==
    ASSUME IInv, KInv, pass = 3
    PROVE  \E L, N : Loaded(L, N)
<1>1. PICK L : Indexed(lines, Read1, Read2, trie, tt, quads, L)
  BY DEF IInv
<1>2. Tree(trie, L)
  BY <1>1 DEF Indexed
<1>3. PICK N : Whole(lines, trie, elements, L, N)
  <2>1. PICK M, N : Tree(trie, M) /\ Whole(lines, trie, elements, M, N)
    BY DEF KInv
  <2>2. M = L
    BY <2>1, <1>2, LeavesUnique
  <2> QED BY <2>1, <2>2
<1>4. \A u : u \in Added <=> u \in Range(L)
  BY <1>1, AddedIs
<1>5. Classes = Cls(lines) /\ Cls(lines) \subseteq Range(L)
  <2>1. Read1 = DOMAIN lines
    BY DEF Read1
  <2>2. Classes = Cls(lines)
    BY <2>1 DEF Classes, Cls
  <2>3. Classes \subseteq Added
    BY DEF Added
  <2> QED BY <2>2, <2>3, <1>4
<1>6. lines \in Seq(Line) /\ SeqRange \in Nat /\ SeqRange > 0
  <2>1. lines \in Inputs
    BY DEF IInv
  <2>2. lines \in Seq(Line) /\ Len(lines) \in Nat /\ SeqRange \in Nat
        /\ 4 * Len(lines) + 3 < SeqRange
    BY <2>1, Room
  <2> QED BY <2>2
<1>7. ASSUME NEW u \in Range(L)
      PROVE  \E l \in DOMAIN L : u \in Uri /\ L[l] = u /\ Get(u) = trie.id[l]
  <2>1. PICK l \in DOMAIN L : L[l] = u
    BY DEF Range
  <2>2. u \in Uri
    <3>1. L \in Seq(Uri)
      BY <1>2, TreeLeaves
    <3> QED BY <3>1, <2>1
  <2>3. Get(u) = trie.id[l]
    BY <2>1, <2>2, <1>2, KeyOf DEF Get
  <2> QED BY <2>1, <2>2, <2>3
<1>8. \A u \in Uri \ Range(L) : Get(u) = 0
  BY <1>2, KeyOf DEF Get
<1> QED BY <1>2, <1>3, <1>4, <1>5, <1>6, <1>7, <1>8 DEF Loaded

\* No key is 0.
LEMMA ClassKeyIs ==
    ASSUME NEW L, NEW N, Loaded(L, N), NEW l \in DOMAIN L, L[l] \in Cls(lines)
    PROVE  /\ trie.id[l] # 0 /\ GetType(trie.id[l]) = 1 /\ GetSeq(trie.id[l]) = N[L[l]]
           /\ LeadsTowards(trie, elements, trie.id[l], L[l])
<1>1. SeqRange \in Nat /\ Numbers(N, Cls(lines)) /\ ClassKeys(trie, elements, L, Cls(lines), N)
      /\ L \in Seq(Uri)
  <2>1. Tree(trie, L)
    BY DEF Loaded
  <2> QED BY <2>1, TreeLeaves DEF Loaded, Whole
<1>2. trie.id[l] = GetId(N[L[l]], 1) /\ LeadsTowards(trie, elements, trie.id[l], L[l])
  BY <1>1 DEF ClassKeys
<1> DEFINE s == N[L[l]]
<1>3. s \in Nat /\ s >= 3 /\ s < SeqRange
  <2>1. L[l] \in Uri
    BY <1>1
  <2> QED BY <2>1, <1>1 DEF Numbers
<1> HIDE DEF s
<1>4. s # 0 /\ 1 \in Nat
  BY <1>3
<1>5. GetId(s, 1) # 0 /\ GetType(GetId(s, 1)) = 1 /\ GetSeq(GetId(s, 1)) = s
  BY <1>1, <1>3, <1>4, KeyParts
<1> QED BY <1>2, <1>5 DEF s

-----------------------------------------------------------------------------
(* What the KeyManager is for *)

\* The tree, the keys and the pointers kept for types and quads stay well formed.
THEOREM TypesOK == ASSUME PrefixFree PROVE Spec => []KeyTypeOK
<1>1. IInv => KeyTypeOK
  <2> SUFFICES ASSUME IInv PROVE KeyTypeOK
    OBVIOUS
  <2>1. PICK L : Indexed(lines, Read1, Read2, trie, tt, quads, L)
    BY DEF IInv
  <2>2. /\ Tree(trie, L) /\ tt \in Seq([leaf: DOMAIN L, type: Nat])
        /\ QuadsBy(lines, {i \in Read2 : IsQuad(lines[i])}, quads, L)
    BY <2>1 DEF Indexed
  <2>3. quads \in Seq([1..4 -> DOMAIN L])
    BY <2>2 DEF QuadsBy
  <2>4. trie \in Trie
    BY <2>2 DEF Tree, Trie
  <2>5. DOMAIN L = DOMAIN trie.id
    <3>1. DOMAIN L = 1..Len(L) /\ Len(L) = Len(trie.id) /\ trie.id \in Seq(Nat)
      BY <2>2, TreeLeaves
    <3>2. DOMAIN trie.id = 1..Len(trie.id)
      BY <3>1
    <3> QED BY <3>1, <3>2
  <2> QED BY <2>2, <2>3, <2>4, <2>5 DEF IInv, ElementsOK, KeyTypeOK
<1> QED BY <1>1, IndexInvariant, PTL

\* A search finds the URIs that were added, each at one leaf of its own, and no
\* other, through all the splitting of nodes by Node::Add.
THEOREM SearchesAreExact == ASSUME PrefixFree PROVE Spec => []TrieExact
<1>1. IInv => TrieExact
  <2> SUFFICES ASSUME IInv PROVE TrieExact
    OBVIOUS
  <2>1. PICK L : Indexed(lines, Read1, Read2, trie, tt, quads, L)
    BY DEF IInv
  <2>2. Tree(trie, L)
    BY <2>1 DEF Indexed
  <2>3. \A i, j \in DOMAIN L : L[i] = L[j] => i = j
    BY <2>2, TreeLeaves
  <2>4. \A u : u \in Added <=> \E l \in DOMAIN L : L[l] = u
    BY <2>1, AddedIs DEF Range
  <2>5. \A u \in Uri : LeavesOf(u) = {l \in DOMAIN L : L[l] = u}
    BY <2>2, LeavesOfUri
  <2>6. Added \subseteq Uri
    <3>1. L \in Seq(Uri)
      BY <2>2, TreeLeaves
    <3> QED BY <3>1, <2>4
  <2>7. ASSUME NEW u \in Added
        PROVE  \E l \in DOMAIN L : L[l] = u /\ LeavesOf(u) = {l}
    <3>1. PICK l \in DOMAIN L : L[l] = u
      BY <2>4
    <3>2. LeavesOf(u) = {l}
      BY <3>1, <2>3, <2>5, <2>6
    <3> QED BY <3>1, <3>2
  <2>8. ASSUME NEW u \in Uri
        PROVE  Cardinality(LeavesOf(u)) = IF u \in Added THEN 1 ELSE 0
    <3>1. CASE u \in Added
      <4>1. PICK l : LeavesOf(u) = {l}
        BY <3>1, <2>7
      <4>2. Cardinality({l}) = 1
        BY FS_Singleton
      <4> QED BY <3>1, <4>1, <4>2
    <3>2. CASE u \notin Added
      <4>1. LeavesOf(u) = {}
        BY <3>2, <2>4, <2>5
      <4>2. Cardinality({}) = 0
        BY FS_EmptySet
      <4> QED BY <3>2, <4>1, <4>2
    <3> QED BY <3>1, <3>2
  <2>9. ASSUME NEW u \in Added, NEW v \in Added, u # v PROVE LeavesOf(u) # LeavesOf(v)
    <3>1. PICK l : L[l] = u /\ LeavesOf(u) = {l}
      BY <2>7
    <3>2. PICK m : L[m] = v /\ LeavesOf(v) = {m}
      BY <2>7
    <3> QED BY <3>1, <3>2, <2>9
  <2> QED BY <2>8, <2>9 DEF TrieExact
<1> QED BY <1>1, IndexInvariant, PTL

\* The pointers to leaves that are kept for a quad are those a search for its
\* URIs finds: neither a split nor the keys take a leaf from its URI.
THEOREM QuadsAreExact == ASSUME PrefixFree PROVE Spec => []QuadLeavesExact
<1>1. IInv => QuadLeavesExact
  <2> SUFFICES ASSUME IInv PROVE QuadLeavesExact
    OBVIOUS
  <2>1. PICK L : Indexed(lines, Read1, Read2, trie, tt, quads, L)
    BY DEF IInv
  <2> DEFINE read == {i \in Read2 : IsQuad(lines[i])}
  <2>2. Tree(trie, L) /\ QuadsBy(lines, read, quads, L)
    BY <2>1 DEF Indexed
  <2>3. \A i, j \in DOMAIN L : L[i] = L[j] => i = j
    BY <2>2, TreeLeaves
  <2>4. \A u \in Uri : LeavesOf(u) = {l \in DOMAIN L : L[l] = u}
    BY <2>2, LeavesOfUri
  <2>5. lines \in Seq(Line) /\ DOMAIN lines = 1..Len(lines) /\ \A i \in Read2 : i \in DOMAIN lines
    <3>1. lines \in Seq(Line) /\ DOMAIN lines = 1..Len(lines) /\ Len(lines) \in Nat
          /\ next \in 1..(Len(lines) + 1)
      BY Room DEF IInv
    <3> QED BY <3>1 DEF Read2
  <2>6. Len(quads) = Cardinality(read)
    BY <2>2 DEF QuadsBy
  <2>7. ASSUME NEW i \in read, NEW j \in 1..4
        PROVE  LET l == lines[i]
                   uris == <<l.subject, l.predicate, l.object, l.prov>>
               IN  {quads[Cardinality({h \in read : h <= i})][j]} = LeavesOf(uris[j])
    <3> DEFINE l == lines[i]
               uris == <<l.subject, l.predicate, l.object, l.prov>>
               k == Rank(read, i)
               leaf == quads[k][j]
    <3>1. NewOf(l) = uris
      BY DEF NewOf, IsQuad
    <3>2. uris[j] \in Uri
      <4>1. l \in Line
        BY <2>5
      <4>2. l.subject \in Uri /\ l.predicate \in Uri /\ l.object \in Uri /\ l.prov \in Uri
        BY <4>1 DEF Line
      <4> HIDE DEF l
      <4>3. uris \in [1..4 -> Uri]
        BY <4>2
      <4> HIDE DEF uris
      <4> QED BY <4>3
    <3> HIDE DEF read, uris, l
    <3>3. k \in 1..Len(quads) /\ L[leaf] = NewOf(l)[j] /\ quads \in Seq([1..4 -> DOMAIN L])
      BY <2>2 DEF QuadsBy, l
    <3> HIDE DEF k
    <3>4. leaf \in DOMAIN L
      <4> DEFINE A == [1..4 -> DOMAIN L]
      <4>1. quads[k] \in A
        <5> HIDE DEF A
        <5>1. quads \in Seq(A)
          BY <3>3 DEF A
        <5> QED BY <5>1, <3>3
      <4> QED BY <4>1
    <3> HIDE DEF leaf
    <3>5. L[leaf] = uris[j]
      BY <3>1, <3>3
    <3>6. LeavesOf(uris[j]) = {leaf}
      BY <3>2, <3>4, <3>5, <2>3, <2>4
    <3> QED BY <3>6 DEF leaf, k, uris, l, Rank
  <2> QED BY <2>6, <2>7 DEF QuadLeavesExact
<1> QED BY <1>1, IndexInvariant, PTL

\* After the load the URIs that were added have keys and nothing else has one, and
\* no two share a key, whatever the order of the lines: each is given once.
THEOREM KeysAreExact == ASSUME PrefixFree PROVE Spec => []KeysExact
<1>1. IInv /\ KInv => KeysExact
  <2> SUFFICES ASSUME IInv, KInv, pass = 3
               PROVE  /\ \A u \in Uri : Get(u) # 0 <=> u \in Added
                      /\ \A u, v \in Added : Get(u) = Get(v) => u = v
    BY DEF KeysExact
  <2>1. PICK L, N : Loaded(L, N)
    BY IsLoaded
  <2>2. /\ \A u : u \in Added <=> u \in Range(L)
        /\ \A u \in Range(L) : \E l \in DOMAIN L : u \in Uri /\ L[l] = u /\ Get(u) = trie.id[l]
        /\ \A u \in Uri \ Range(L) : Get(u) = 0
    BY <2>1 DEF Loaded
  <2>3. \A l, m \in DOMAIN L : trie.id[l] = trie.id[m] => l = m
    BY <2>1 DEF Loaded, Whole
  <2>4. ASSUME NEW l \in DOMAIN L PROVE trie.id[l] # 0
    <3>1. CASE L[l] \in Cls(lines)
      BY <2>1, <3>1, ClassKeyIs
    <3>2. CASE L[l] \notin Cls(lines)
      BY <2>1, <3>2 DEF Loaded, Whole, InstanceKey
    <3> QED BY <3>1, <3>2
  <2> QED BY <2>2, <2>3, <2>4
<1> QED BY <1>1, KeysInvariant, PTL

\* The key of every URI is in the map of its type and leads to its node, except
\* that the node of a class may have been split in the second pass.
THEOREM InversesAreExact == ASSUME PrefixFree PROVE Spec => []InverseExact
<1>1. IInv /\ KInv => InverseExact
  <2> SUFFICES ASSUME IInv, KInv, pass = 3, NEW u \in Added
               PROVE  /\ Get(u) \in DOMAIN elements
                      /\ u \notin Classes => GetUri(elements[Get(u)]) = u
                      /\ IsPrefix(GetUri(elements[Get(u)]), u)
    BY DEF InverseExact
  <2>1. PICK L, N : Loaded(L, N)
    BY IsLoaded
  <2>2. PICK l \in DOMAIN L : u \in Uri /\ L[l] = u /\ Get(u) = trie.id[l]
    BY <2>1 DEF Loaded
  <2>3. Classes = Cls(lines) /\ Tree(trie, L)
    BY <2>1 DEF Loaded
  <2>4. PICK V : KeyTree(trie.nodes, trie.uri_id, V, L)
    BY <2>3 DEF Tree
  <2> DEFINE key == trie.id[l]
             n == elements[key]
  <2>5. LeadsTowards(trie, elements, key, u) /\ (u \notin Classes => LeadsTo(trie, elements, key, u))
    <3>1. CASE u \in Classes
      BY <3>1, <2>1, <2>2, <2>3, ClassKeyIs
    <3>2. CASE u \notin Classes
      <4>1. LeadsTo(trie, elements, key, u)
        BY <3>2, <2>1, <2>2, <2>3 DEF Loaded, Whole, InstanceKey
      <4>2. Starts(u, u)
        <5>1. u \in Seq(Char)
          BY <2>2, UriIs
        <5> QED BY <5>1 DEF Starts
      <4> QED BY <4>1, <4>2 DEF LeadsTo, LeadsTowards
    <3> QED BY <3>1, <3>2
  <2> HIDE DEF key
  <2>6. key \in DOMAIN elements /\ n \in DOMAIN trie.nodes
    BY <2>5 DEF LeadsTowards, IInv, ElementsOK
  <2>7. ASSUME NEW W, Worded(trie.nodes, W) PROVE GetUri(n) = W[n] /\ W[n] \in Seq(Char)
    <3> HIDE DEF n
    <3>1. Linked(trie.nodes, trie.uri_id)
      BY <2>4 DEF KeyTree
    <3>2. n \in 0..Len(trie.nodes)
      BY <3>1, <2>6, <2>7, WordFacts
    <3> QED BY <3>1, <3>2, <2>6, <2>7, GetUriIs DEF Worded
  <2>8. IsPrefix(GetUri(n), u)
    <3>1. PICK W : Worded(trie.nodes, W) /\ Starts(W[n], u)
      BY <2>5 DEF LeadsTowards
    <3>2. GetUri(n) = W[n] /\ W[n] \in Seq(Char) /\ u \in Seq(Char)
      BY <3>1, <2>2, <2>7, UriIs
    <3> QED BY <3>1, <3>2, PrefixIsStart
  <2>9. u \notin Classes => GetUri(n) = u
    <3> SUFFICES ASSUME u \notin Classes PROVE GetUri(n) = u
      OBVIOUS
    <3>1. PICK W : Worded(trie.nodes, W) /\ W[n] = u
      BY <2>5 DEF LeadsTo
    <3> QED BY <3>1, <2>7
  <2> QED BY <2>2, <2>6, <2>8, <2>9 DEF key
<1> QED BY <1>1, KeysInvariant, PTL

\* What the lines say of u, as TypesExact puts it.
LEMMA TypeSaidIs ==
    ASSUME NEW L, NEW N, Loaded(L, N), NEW u, NEW type, Said(lines, DOMAIN lines, u, N, type)
    PROVE  type = IF TypeLines(u) = {} THEN Unclassified ELSE TypeSaid(u)
<1> DEFINE T == TypeLines(u)
<1>1. \A i : i \in T <=> i \in DOMAIN lines /\ IsTypeLine(lines[i], u)
  BY DEF TypeLines, IsTypeLine
<1>2. /\ lines \in Seq(Line) /\ Classes = Cls(lines) /\ Cls(lines) \subseteq Range(L)
      /\ Numbers(N, Cls(lines))
      /\ \A v \in Range(L) : \E l \in DOMAIN L : v \in Uri /\ L[l] = v /\ Get(v) = trie.id[l]
  BY DEF Loaded, Whole
<1> HIDE DEF T
<1>3. CASE T = {}
  BY <1>1, <1>3 DEF Said, T
<1>4. CASE T # {}
  <2>1. PICK i \in T : type = N[lines[i].object] /\ \A j \in T : j <= i
    BY <1>1, <1>4 DEF Said
  <2>2. Max(T) = i
    <3>1. T \subseteq Nat
      BY <1>1, <1>2
    <3>2. \E x \in T : \A y \in T : x >= y
      BY <2>1, <3>1
    <3>3. Max(T) \in T /\ \A y \in T : Max(T) >= y
      BY <3>2 DEF Max
    <3>4. Max(T) <= i /\ Max(T) >= i /\ i \in Nat /\ Max(T) \in Nat
      BY <2>1, <3>1, <3>3
    <3> QED BY <3>4
  <2> DEFINE c == lines[i].object
  <2>3. c \in Uri
    <3>1. i \in DOMAIN lines
      BY <1>1
    <3>2. lines[i] \in Line
      BY <3>1, <1>2
    <3> QED BY <3>2 DEF Line
  <2>4. TypeSaid(u) = IF c \in Classes THEN GetSeq(Get(c)) ELSE 0
    BY <2>2 DEF TypeSaid, T
  <2>5. type = N[c]
    BY <2>1
  <2> HIDE DEF c
  <2>6. CASE c \in Classes
    <3>1. PICK l \in DOMAIN L : L[l] = c /\ Get(c) = trie.id[l]
      BY <2>6, <1>2
    <3>2. GetSeq(trie.id[l]) = N[c]
      BY <3>1, <2>6, <1>2, ClassKeyIs
    <3> QED BY <3>1, <3>2, <2>4, <2>5, <2>6, <1>4 DEF T
  <2>7. CASE c \notin Classes
    <3>1. N[c] = 0
      BY <2>3, <2>7, <1>2 DEF Numbers
    <3> QED BY <3>1, <2>4, <2>5, <2>7, <1>4 DEF T
  <2> QED BY <2>6, <2>7
<1> QED BY <1>3, <1>4

\* The upper half of a key is the type the lines say: the last rdf:type line of a
\* URI wins over those before it, whenever its leaf was made.
THEOREM TypesAreExact == ASSUME PrefixFree PROVE Spec => []TypesExact
<1>1. IInv /\ KInv => TypesExact
  <2> SUFFICES ASSUME IInv, KInv, pass = 3, NEW u \in Added
               PROVE  GetType(Get(u)) = IF u \in Classes THEN 1
                                        ELSE IF TypeLines(u) = {} THEN Unclassified
                                        ELSE TypeSaid(u)
    BY DEF TypesExact
  <2>1. PICK L, N : Loaded(L, N)
    BY IsLoaded
  <2>2. PICK l \in DOMAIN L : L[l] = u /\ Get(u) = trie.id[l]
    BY <2>1 DEF Loaded
  <2>3. Classes = Cls(lines)
    BY <2>1 DEF Loaded
  <2>4. CASE u \in Classes
    BY <2>1, <2>2, <2>3, <2>4, ClassKeyIs
  <2>5. CASE u \notin Classes
    <3>1. Said(lines, DOMAIN lines, u, N, GetType(trie.id[l]))
      BY <2>1, <2>2, <2>3, <2>5 DEF Loaded, Whole, InstanceKey
    <3>2. GetType(trie.id[l]) = IF TypeLines(u) = {} THEN Unclassified ELSE TypeSaid(u)
      BY <3>1, <2>1, TypeSaidIs
    <3> QED BY <3>2, <2>2, <2>5
  <2> QED BY <2>4, <2>5
<1> QED BY <1>1, KeysInvariant, PTL

-----------------------------------------------------------------------------
(* The KeyManager as a dictionary *)

\* Two leaves never have the same key, in no pass.
LEMMA KeysApart ==
    ASSUME IInv, KInv
    PROVE  \E L : /\ Tree(trie, L)
                  /\ \A l, m \in DOMAIN L : trie.id[l] # 0 /\ trie.id[l] = trie.id[m] => l = m
<1>1. PICK L, N : /\ Tree(trie, L)
                  /\ pass = 1 => Blank(trie, elements, tt)
                  /\ pass = 2 => Half(lines, Read2, trie, elements, tt, L, N)
                  /\ pass = 3 => Whole(lines, trie, elements, L, N)
  BY DEF KInv
<1>2. /\ L \in Seq(Uri) /\ DOMAIN L = 1..Len(L) /\ DOMAIN trie.id = DOMAIN L
      /\ \A i, j \in DOMAIN L : L[i] = L[j] => i = j
  <2>1. /\ L \in Seq(Uri) /\ Len(L) \in Nat /\ DOMAIN L = 1..Len(L)
        /\ \A i, j \in DOMAIN L : L[i] = L[j] => i = j
        /\ trie.id \in Seq(Nat) /\ Len(trie.id) = Len(L)
    BY <1>1, TreeLeaves
  <2> QED BY <2>1
<1> SUFFICES ASSUME NEW l \in DOMAIN L, NEW m \in DOMAIN L,
                    trie.id[l] # 0, trie.id[l] = trie.id[m]
             PROVE  l = m
  BY <1>1
<1>3. pass = 1 \/ pass = 2 \/ pass = 3
  BY DEF IInv
<1>4. CASE pass = 1
  BY <1>1, <1>2, <1>4 DEF Blank
<1>5. CASE pass = 2
  <2> DEFINE C == Cls(lines)
  <2>1. /\ Numbers(N, C) /\ ClassKeys(trie, elements, L, C, N)
        /\ \A n \in DOMAIN L : L[n] \notin C => trie.id[n] = 0
    BY <1>1, <1>5 DEF Half
  <2>2. L[l] \in C /\ L[m] \in C
    BY <2>1
  <2>3. trie.id[l] = GetId(N[L[l]], 1) /\ trie.id[m] = GetId(N[L[m]], 1)
    BY <2>1, <2>2 DEF ClassKeys
  <2>4. ASSUME NEW n \in DOMAIN L, L[n] \in C PROVE GetSeq(GetId(N[L[n]], 1)) = N[L[n]]
    <3> DEFINE s == N[L[n]]
    <3>1. s \in Nat /\ s < SeqRange
      <4>1. L[n] \in Uri
        BY <1>2
      <4> QED BY <4>1, <2>1, <2>4 DEF Numbers
    <3> HIDE DEF s
    <3>2. SeqRange \in Nat /\ 1 \in Nat
      BY SeqAssumption
    <3>3. GetSeq(GetId(s, 1)) = s
      BY <3>1, <3>2, KeyParts
    <3> QED BY <3>3 DEF s
  <2>5. N[L[l]] = N[L[m]]
    BY <2>2, <2>3, <2>4
  <2>6. L[l] = L[m]
    <3>1. L[l] \in Uri /\ L[m] \in Uri
      BY <1>2
    <3> QED BY <3>1, <2>1, <2>2, <2>5 DEF Numbers
  <2> QED BY <2>6, <1>2
<1>6. CASE pass = 3
  BY <1>1, <1>6 DEF Whole
<1> QED BY <1>3, <1>4, <1>5, <1>6

\* The pairs the dictionary has for a tree.
NamedBy(t) == {[uri |-> u, key |-> GetIn(t, u)] : u \in {v \in Uri : GetIn(t, v) # 0}}

LEMMA NamedByIs ==
    ASSUME NEW t, NEW L, Tree(t, L)
    PROVE  \A a : a \in NamedBy(t) <=>
                     \E l \in DOMAIN L : t.id[l] # 0 /\ a = [uri |-> L[l], key |-> t.id[l]]
<1>1. L \in Seq(Uri) /\ \A l \in DOMAIN L : L[l] \in Uri
  <2>1. L \in Seq(Uri)
    BY TreeLeaves
  <2> QED BY <2>1
<1>2. ASSUME NEW a \in NamedBy(t)
      PROVE  \E l \in DOMAIN L : t.id[l] # 0 /\ a = [uri |-> L[l], key |-> t.id[l]]
  <2>1. PICK u \in Uri : GetIn(t, u) # 0 /\ a = [uri |-> u, key |-> GetIn(t, u)]
    BY DEF NamedBy
  <2>2. u \in Range(L)
    BY <2>1, KeyOf
  <2>3. PICK l \in DOMAIN L : L[l] = u
    BY <2>2 DEF Range
  <2>4. GetIn(t, u) = t.id[l]
    BY <2>3, KeyOf
  <2> QED BY <2>1, <2>3, <2>4
<1>3. ASSUME NEW l \in DOMAIN L, t.id[l] # 0
      PROVE  [uri |-> L[l], key |-> t.id[l]] \in NamedBy(t)
  <2>1. GetIn(t, L[l]) = t.id[l]
    BY <1>1, KeyOf
  <2> QED BY <2>1, <1>1, <1>3 DEF NamedBy
<1> QED BY <1>2, <1>3

\* Every pair has a key, and none has that of another.
LEMMA NamedIsGood ==
    ASSUME IInv, KInv
    PROVE  Named \subseteq [uri: Uri, key: Nat \ {0}] /\ Promise!OneToOne(Named)
<1>1. PICK L : /\ Tree(trie, L)
               /\ \A l, m \in DOMAIN L : trie.id[l] # 0 /\ trie.id[l] = trie.id[m] => l = m
  BY KeysApart
<1>2. Named = NamedBy(trie)
  BY DEF Named, NamedBy, Get
<1>3. \A a : a \in Named <=>
                \E l \in DOMAIN L : trie.id[l] # 0 /\ a = [uri |-> L[l], key |-> trie.id[l]]
  BY <1>1, <1>2, NamedByIs
<1>4. /\ \A l \in DOMAIN L : L[l] \in Uri /\ trie.id[l] \in Nat
      /\ \A l, m \in DOMAIN L : L[l] = L[m] => l = m
  <2>1. /\ L \in Seq(Uri) /\ Len(L) \in Nat /\ DOMAIN L = 1..Len(L)
        /\ \A i, j \in DOMAIN L : L[i] = L[j] => i = j
        /\ trie.id \in Seq(Nat) /\ Len(trie.id) = Len(L)
    BY <1>1, TreeLeaves
  <2> QED BY <2>1
<1> HIDE DEF Named
<1>5. Named \subseteq [uri: Uri, key: Nat \ {0}]
  BY <1>3, <1>4
<1>6. ASSUME NEW a \in Named, NEW b \in Named PROVE a.uri = b.uri <=> a.key = b.key
  <2>1. PICK l \in DOMAIN L : trie.id[l] # 0 /\ a = [uri |-> L[l], key |-> trie.id[l]]
    BY <1>3
  <2>2. PICK m \in DOMAIN L : trie.id[m] # 0 /\ b = [uri |-> L[m], key |-> trie.id[m]]
    BY <1>3
  <2>3. /\ a.uri = L[l] /\ a.key = trie.id[l] /\ b.uri = L[m] /\ b.key = trie.id[m]
    BY <2>1, <2>2
  <2> QED BY <2>1, <2>2, <2>3, <1>1, <1>4
<1> QED BY <1>5, <1>6 DEF Promise!OneToOne

\* A URI that has a key keeps it.
LEMMA NamedGrows ==
    ASSUME KeepsKeys(trie, trie')
    PROVE  Named \subseteq Named'
<1>1. PICK L, M : /\ Tree(trie, L) /\ Tree(trie', M)
                  /\ \A l \in DOMAIN L : /\ l \in DOMAIN M /\ M[l] = L[l]
                                         /\ trie.id[l] # 0 => trie'.id[l] = trie.id[l]
  BY DEF KeepsKeys
<1>2. Named = NamedBy(trie) /\ Named' = NamedBy(trie')
  BY DEF Named, NamedBy, Get
<1>3. \A a : a \in NamedBy(trie) <=>
                \E l \in DOMAIN L : trie.id[l] # 0 /\ a = [uri |-> L[l], key |-> trie.id[l]]
  BY <1>1, NamedByIs
<1>4. \A a : a \in NamedBy(trie') <=>
                \E l \in DOMAIN M : trie'.id[l] # 0 /\ a = [uri |-> M[l], key |-> trie'.id[l]]
  BY <1>1, NamedByIs
<1>5. ASSUME NEW a \in NamedBy(trie) PROVE a \in NamedBy(trie')
  <2>1. PICK l \in DOMAIN L : trie.id[l] # 0 /\ a = [uri |-> L[l], key |-> trie.id[l]]
    BY <1>3
  <2>2. l \in DOMAIN M /\ trie'.id[l] # 0 /\ a = [uri |-> M[l], key |-> trie'.id[l]]
    BY <2>1, <1>1
  <2> QED BY <2>2, <1>4
<1> QED BY <1>2, <1>5

LEMMA NothingNamed == Init => Promise!Init
<1> SUFFICES ASSUME Init PROVE Named = {}
  BY DEF Promise!Init
<1>1. trie = [nodes |-> <<>>, uri_id |-> <<>>, id |-> <<>>, added |-> <<>>]
  BY DEF Init
<1>2. Tree(trie, <<>>)
  BY <1>1, EmptyTree
<1>3. \A a : a \in NamedBy(trie) <=>
                \E l \in DOMAIN <<>> :
                    trie.id[l] # 0 /\ a = [uri |-> <<>>[l], key |-> trie.id[l]]
  BY <1>2, NamedByIs
<1>4. DOMAIN <<>> = {}
  OBVIOUS
<1>5. Named = NamedBy(trie)
  BY DEF Named, NamedBy, Get
<1> QED BY <1>3, <1>4, <1>5

\* LoadData implements the promise of the KeyManager to whoever holds a KEY_ID:
\* once a URI has a key it keeps it, through every split, and no two share one.
THEOREM KeyIndexImplementsDictionary == ASSUME PrefixFree PROVE Spec => ImplementsDictionary
<1> DEFINE Good == Named \subseteq [uri: Uri, key: Nat \ {0}] /\ Promise!OneToOne(Named)
<1>1. IInv /\ KInv => Good
  BY NamedIsGood
<1>2. IInv /\ KInv /\ [Next]_vars => Named \subseteq Named'
  BY NextKInv, NamedGrows
<1>3. Named \subseteq Named' /\ Good' => Promise!Next
  BY DEF Promise!Next, Promise!Assign, Promise!OneToOne
<1> HIDE DEF Good
<1>4. IInv /\ KInv /\ [Next]_vars /\ Good' => [Promise!Next]_Named
  BY <1>2, <1>3
<1> QED BY <1>1, <1>4, KeysInvariant, NothingNamed, PTL DEF Spec, ImplementsDictionary, Promise!Spec
=============================================================================
