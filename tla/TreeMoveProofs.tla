--------------------------- MODULE TreeMoveProofs ----------------------------
(***************************************************************************)
(* Theorems about copies, merges and moves of folders, for any trees of    *)
(* any depth, any texts that others bring and any number of their steps:   *)
(* nothing is lost wherever a request stops, and a success is complete.    *)
(***************************************************************************)
EXTENDS TreeMove, SequenceTheorems, TLAPS

-----------------------------------------------------------------------------
(* Paths: what the proofs need of prefixes, from their elements.           *)

Paths == Seq(Label)

\* A prefix is a path whose names are the first names of the other.
LEMMA PrefixMeans ==
  ASSUME NEW p \in Paths, NEW q \in Paths
  PROVE  IsPrefix(p, q) <=> Len(p) <= Len(q) /\ \A i \in 1..Len(p) : p[i] = q[i]
  <1>1. CASE Len(p) <= Len(q)
    <2>1. /\ SubSeq(q, 1, Len(p)) \in Seq(Label) /\ Len(SubSeq(q, 1, Len(p))) = Len(p)
          /\ \A i \in 1..Len(p) : SubSeq(q, 1, Len(p))[i] = q[i]
      <3>1. \A i \in 1..Len(p) : q[i] \in Label
        BY <1>1, ElementOfSeq DEF Paths
      <3>2. Len(p) \in Nat
        BY DEF Paths
      <3> QED
        BY <3>1, <3>2, SubSeqProperties
    <2>2. SubSeq(p, 1, Len(p)) = p
      BY SubSeqFull DEF Paths
    <2>3. (\A i \in 1..Len(p) : p[i] = q[i]) => p = SubSeq(q, 1, Len(p))
      <3> SUFFICES ASSUME \A i \in 1..Len(p) : p[i] = q[i]
                   PROVE  p = SubSeq(q, 1, Len(p))
        OBVIOUS
      <3>1. \A i \in 1..Len(p) : p[i] = SubSeq(q, 1, Len(p))[i]
        BY <2>1
      <3> QED
        BY <2>1, <3>1, SeqEqual DEF Paths
    <2>4. p = SubSeq(q, 1, Len(p)) => \A i \in 1..Len(p) : p[i] = q[i]
      BY <2>1
    <2> QED
      BY <1>1, <2>2, <2>3, <2>4 DEF IsPrefix
  <1>2. CASE ~(Len(p) <= Len(q))
    BY <1>2 DEF IsPrefix
  <1> QED
    BY <1>1, <1>2

\* Prefixes order paths: reflexively, transitively, and no two of one length are prefixes of one path.
LEMMA PrefixOrder ==
  ASSUME NEW p \in Paths, NEW q \in Paths, NEW r \in Paths
  PROVE  /\ Len(p) \in Nat
         /\ IsPrefix(p, p)
         /\ IsPrefix(<<>>, p)
         /\ IsPrefix(p, q) => Len(p) <= Len(q)
         /\ IsPrefix(p, q) /\ Len(p) = Len(q) => p = q
         /\ IsPrefix(p, q) /\ IsPrefix(q, r) => IsPrefix(p, r)
         /\ IsPrefix(p, r) /\ IsPrefix(q, r) /\ Len(p) <= Len(q) => IsPrefix(p, q)
         /\ IsPrefix(p, r) /\ IsPrefix(q, r) /\ Len(p) = Len(q) => p = q
  <1>1. Len(p) \in Nat /\ Len(q) \in Nat /\ Len(r) \in Nat
    BY DEF Paths
  <1>2. <<>> \in Paths /\ Len(<<>>) = 0
    BY EmptySeq DEF Paths
  <1>3. IsPrefix(p, p) /\ IsPrefix(<<>>, p)
    BY <1>1, <1>2, PrefixMeans
  <1>4. IsPrefix(p, q) => Len(p) <= Len(q)
    BY <1>1, PrefixMeans
  <1>5. ASSUME IsPrefix(p, q), Len(p) = Len(q)
        PROVE  p = q
    BY <1>1, <1>5, PrefixMeans, SeqEqual DEF Paths
  <1>6. ASSUME IsPrefix(p, q), IsPrefix(q, r)
        PROVE  IsPrefix(p, r)
    <2>1. /\ Len(p) <= Len(q) /\ \A i \in 1..Len(p) : p[i] = q[i]
          /\ Len(q) <= Len(r) /\ \A i \in 1..Len(q) : q[i] = r[i]
      BY <1>6, PrefixMeans
    <2>2. Len(p) <= Len(r) /\ \A i \in 1..Len(p) : p[i] = r[i]
      BY <1>1, <2>1
    <2> QED
      BY <2>2, PrefixMeans
  <1>7. ASSUME IsPrefix(p, r), IsPrefix(q, r), Len(p) <= Len(q)
        PROVE  IsPrefix(p, q)
    <2>1. /\ \A i \in 1..Len(p) : p[i] = r[i]
          /\ Len(q) <= Len(r) /\ \A i \in 1..Len(q) : q[i] = r[i]
      BY <1>7, PrefixMeans
    <2>2. \A i \in 1..Len(p) : p[i] = q[i]
      BY <1>1, <1>7, <2>1
    <2> QED
      BY <2>2, <1>7, PrefixMeans
  <1>8. ASSUME IsPrefix(p, r), IsPrefix(q, r), Len(p) = Len(q)
        PROVE  p = q
    <2>1. /\ \A i \in 1..Len(p) : p[i] = r[i]
          /\ \A i \in 1..Len(q) : q[i] = r[i]
      BY <1>8, PrefixMeans
    <2>2. \A i \in 1..Len(p) : p[i] = q[i]
      BY <1>1, <1>8, <2>1
    <2> QED
      BY <2>2, <1>8, SeqEqual DEF Paths
  <1> QED
    BY <1>1, <1>3, <1>4, <1>5, <1>6, <1>7, <1>8

\* What a path starts with.
LEMMA FirstNames ==
  ASSUME NEW q \in Paths, NEW n \in 0..Len(q)
  PROVE  /\ SubSeq(q, 1, n) \in Paths /\ Len(SubSeq(q, 1, n)) = n
         /\ IsPrefix(SubSeq(q, 1, n), q)
  <1> Len(q) \in Nat
    BY DEF Paths
  <1>1. \A i \in 1..n : q[i] \in Label
    BY ElementOfSeq DEF Paths
  <1>2. SubSeq(q, 1, n) \in Paths /\ Len(SubSeq(q, 1, n)) = n
        /\ \A i \in 1..n : SubSeq(q, 1, n)[i] = q[i]
    BY <1>1, SubSeqProperties DEF Paths
  <1>3. Len(SubSeq(q, 1, n)) <= Len(q)
    BY <1>2
  <1> QED
    BY <1>2, <1>3, PrefixMeans

\* The folder of an entry.
LEMMA FrontOf ==
  ASSUME NEW q \in Paths, q # <<>>
  PROVE  /\ Front(q) \in Paths /\ Len(q) \in Nat \ {0} /\ Len(Front(q)) = Len(q) - 1
         /\ IsPrefix(Front(q), q) /\ Front(q) = SubSeq(q, 1, Len(q) - 1)
         /\ \A p \in Paths : IsPrefix(p, q) /\ p # q => IsPrefix(p, Front(q))
  <1>1. Len(q) \in Nat \ {0}
    BY EmptySeq DEF Paths
  <1>2. Front(q) \in Paths /\ Len(Front(q)) = Len(q) - 1 /\ IsPrefix(Front(q), q)
    <2>1. Len(q) - 1 \in 0..Len(q)
      BY <1>1
    <2> QED
      BY <2>1, FirstNames DEF Front
  <1>3. ASSUME NEW p \in Paths, IsPrefix(p, q), p # q
        PROVE  IsPrefix(p, Front(q))
    <2>1. Len(p) \in Nat /\ Len(p) <= Len(q) /\ Len(p) # Len(q)
      BY <1>3, PrefixOrder
    <2> QED
      BY <1>1, <1>2, <1>3, <2>1, PrefixOrder
  <1> QED
    BY <1>1, <1>2, <1>3 DEF Front

\* A path below another is that one and the rest.
Suffix(p, q) == SubSeq(q, Len(p) + 1, Len(q))

\* What is below a path, and the path put before it again.
LEMMA Splitting ==
  ASSUME NEW p \in Paths, NEW q \in Paths
  PROVE  /\ Suffix(p, q) \in Paths
         /\ p \o q \in Paths /\ IsPrefix(p, p \o q) /\ Suffix(p, p \o q) = q
         /\ Len(p \o q) = Len(p) + Len(q)
         /\ IsPrefix(p, q) => p \o Suffix(p, q) = q
         /\ p \o <<>> = p
  <1>1. Len(p) \in Nat /\ Len(q) \in Nat
    BY DEF Paths
  <1>2. /\ Suffix(p, q) \in Paths
        /\ Len(Suffix(p, q)) = IF Len(p) + 1 <= Len(q) THEN Len(q) - Len(p) ELSE 0
        /\ \A i \in 1..(Len(q) - Len(p)) : Suffix(p, q)[i] = q[Len(p) + i]
    <2>1. \A i \in (Len(p) + 1)..Len(q) : q[i] \in Label
      BY <1>1, ElementOfSeq DEF Paths
    <2> QED
      BY <1>1, <2>1, SubSeqProperties DEF Paths, Suffix
  <1>3. /\ p \o q \in Paths /\ Len(p \o q) = Len(p) + Len(q)
        /\ \A i \in 1..(Len(p) + Len(q)) : (p \o q)[i] = IF i <= Len(p) THEN p[i] ELSE q[i - Len(p)]
    BY ConcatProperties DEF Paths
  <1>4. IsPrefix(p, p \o q)
    <2>1. Len(p) <= Len(p \o q) /\ \A i \in 1..Len(p) : p[i] = (p \o q)[i]
      BY <1>1, <1>3
    <2> QED
      BY <1>3, <2>1, PrefixMeans
  <1>5. Suffix(p, p \o q) = q
    <2>1. /\ Suffix(p, p \o q) \in Paths /\ Len(Suffix(p, p \o q)) = Len(q)
          /\ \A i \in 1..Len(q) : Suffix(p, p \o q)[i] = (p \o q)[Len(p) + i]
      <3>1. \A i \in (Len(p) + 1)..Len(p \o q) : (p \o q)[i] \in Label
        BY <1>1, <1>3, ElementOfSeq DEF Paths
      <3> QED
        BY <1>1, <1>3, <3>1, SubSeqProperties DEF Paths, Suffix
    <2>2. \A i \in 1..Len(q) : Suffix(p, p \o q)[i] = q[i]
      BY <1>1, <1>3, <2>1
    <2> QED
      BY <2>1, <2>2, SeqEqual DEF Paths
  <1>6. ASSUME IsPrefix(p, q)
        PROVE  p \o Suffix(p, q) = q
    <2>1. Len(p) <= Len(q) /\ \A i \in 1..Len(p) : p[i] = q[i]
      BY <1>6, PrefixMeans
    <2>2. Len(Suffix(p, q)) = Len(q) - Len(p)
      BY <1>1, <1>2, <2>1
    <2>3. /\ p \o Suffix(p, q) \in Paths /\ Len(p \o Suffix(p, q)) = Len(q)
          /\ \A i \in 1..Len(q) : (p \o Suffix(p, q))[i] =
               IF i <= Len(p) THEN p[i] ELSE Suffix(p, q)[i - Len(p)]
      <3>1. /\ p \o Suffix(p, q) \in Seq(Label) /\ Len(p \o Suffix(p, q)) = Len(p) + Len(Suffix(p, q))
            /\ \A i \in 1..(Len(p) + Len(Suffix(p, q))) : (p \o Suffix(p, q))[i] =
               IF i <= Len(p) THEN p[i] ELSE Suffix(p, q)[i - Len(p)]
        BY <1>2, ConcatProperties DEF Paths
      <3> QED
        BY <1>1, <2>1, <2>2, <3>1 DEF Paths
    <2>4. ASSUME NEW i \in 1..Len(q)
          PROVE  (p \o Suffix(p, q))[i] = q[i]
      <3>1. CASE i <= Len(p)
        <4>1. i \in 1..Len(p)
          BY <3>1, <1>1
        <4> QED
          BY <4>1, <3>1, <2>1, <2>3
      <3>2. CASE ~(i <= Len(p))
        <4>1. i - Len(p) \in 1..(Len(q) - Len(p)) /\ Len(p) + (i - Len(p)) = i
          BY <3>2, <1>1
        <4>2. Suffix(p, q)[i - Len(p)] = q[i]
          BY <4>1, <1>2
        <4> QED
          BY <4>2, <3>2, <2>3
      <3> QED
        BY <3>1, <3>2
    <2> QED
      BY <2>3, <2>4, SeqEqual DEF Paths
  <1>7. p \o <<>> = p
    BY ConcatEmptySeq DEF Paths
  <1> QED
    BY <1>2, <1>3, <1>4, <1>5, <1>6, <1>7

\* An entry of a folder.
LEMMA EntryOf ==
  ASSUME NEW p \in Paths, NEW n \in Label
  PROVE  /\ Append(p, n) \in Paths /\ Append(p, n) # <<>> /\ p \o <<n>> = Append(p, n)
         /\ Front(Append(p, n)) = p
  <1> DEFINE q == Append(p, n)
  <1>1. q \in Paths /\ q # <<>> /\ Len(q) = Len(p) + 1 /\ \A i \in 1..Len(p) : q[i] = p[i]
    BY AppendProperties DEF Paths
  <1>2. p \o <<n>> = q
    BY AppendIsConcat DEF Paths
  <1> HIDE DEF q
  <1>3. Len(p) \in Nat /\ Len(p) <= Len(q)
    BY <1>1 DEF Paths
  <1>4. Front(q) \in Paths /\ Len(Front(q)) = Len(p) /\ IsPrefix(Front(q), q)
    BY <1>1, <1>3, FrontOf
  <1>5. IsPrefix(p, q)
    BY <1>1, <1>3, PrefixMeans
  <1>6. Front(q) = p
    BY <1>1, <1>4, <1>5, PrefixOrder
  <1> QED
    BY <1>1, <1>2, <1>6 DEF q

-----------------------------------------------------------------------------
(* What is cut, taken and grafted.                                         *)

\* Whatever is above an entry of a tree is a folder.
LEMMA TreeAbove ==
  ASSUME NEW t, IsTree(t), NEW q \in DOMAIN t, NEW p \in Paths, IsPrefix(p, q), p # q
  PROVE  q \in Paths /\ p \in DOMAIN t /\ t[p] = Dir
  <1>1. q \in Paths
    BY DEF IsTree, Paths
  <1>2. Len(p) \in Nat /\ Len(q) \in Nat /\ Len(p) < Len(q)
    <2>1. Len(p) \in Nat /\ Len(q) \in Nat /\ Len(p) <= Len(q) /\ Len(p) # Len(q)
      BY <1>1, PrefixOrder
    <2> QED
      BY <2>1
  <1>3. SubSeq(q, 1, Len(p)) = p
    <2>1. Len(p) \in 0..Len(q)
      BY <1>2
    <2>2. /\ SubSeq(q, 1, Len(p)) \in Paths /\ Len(SubSeq(q, 1, Len(p))) = Len(p)
          /\ IsPrefix(SubSeq(q, 1, Len(p)), q)
      BY <1>1, <2>1, FirstNames
    <2> QED
      BY <1>1, <2>2, PrefixOrder
  <1>4. Len(p) \in 0..(Len(q) - 1)
    BY <1>2
  <1> QED
    BY <1>1, <1>3, <1>4 DEF IsTree

\* And what has folders above all entries is a tree.
LEMMA TreeWhen ==
  ASSUME NEW t, DOMAIN t \subseteq Paths,
         \A q \in DOMAIN t, p \in Paths : IsPrefix(p, q) /\ p # q => p \in DOMAIN t /\ t[p] = Dir
  PROVE  IsTree(t)
  <1> SUFFICES ASSUME NEW q \in DOMAIN t, NEW n \in 0..(Len(q) - 1)
               PROVE  SubSeq(q, 1, n) \in DOMAIN t /\ t[SubSeq(q, 1, n)] = Dir
    BY DEF IsTree, Paths
  <1>1. Len(q) \in Nat
    BY DEF Paths
  <1>2. n \in 0..Len(q) /\ n # Len(q)
    BY <1>1
  <1>3. SubSeq(q, 1, n) \in Paths /\ Len(SubSeq(q, 1, n)) = n /\ IsPrefix(SubSeq(q, 1, n), q)
    BY <1>2, FirstNames
  <1> QED
    BY <1>2, <1>3

\* What is left when an entry is cut off is a tree.
LEMMA CutOf ==
  ASSUME NEW t, IsTree(t), NEW p \in Paths
  PROVE  /\ IsTree(Cut(t, p))
         /\ DOMAIN Cut(t, p) \subseteq DOMAIN t
         /\ \A q \in DOMAIN t : q \in DOMAIN Cut(t, p) <=> ~IsPrefix(p, q)
         /\ \A q \in DOMAIN Cut(t, p) : Cut(t, p)[q] = t[q]
  <1>1. /\ DOMAIN Cut(t, p) \subseteq DOMAIN t
        /\ \A q \in DOMAIN t : q \in DOMAIN Cut(t, p) <=> ~IsPrefix(p, q)
        /\ \A q \in DOMAIN Cut(t, p) : Cut(t, p)[q] = t[q]
    BY DEF Cut, Below
  <1>2. DOMAIN Cut(t, p) \subseteq Paths
    BY <1>1 DEF IsTree, Paths
  <1>3. ASSUME NEW q \in DOMAIN Cut(t, p), NEW r \in Paths, IsPrefix(r, q), r # q
        PROVE  r \in DOMAIN Cut(t, p) /\ Cut(t, p)[r] = Dir
    <2>1. q \in DOMAIN t /\ q \in Paths /\ ~IsPrefix(p, q)
      BY <1>1, <1>2, <1>3
    <2>2. r \in DOMAIN t /\ t[r] = Dir
      BY <2>1, <1>3, TreeAbove
    <2>3. ~IsPrefix(p, r)
      BY <2>1, <1>3, PrefixOrder
    <2> QED
      BY <1>1, <2>2, <2>3
  <1>4. IsTree(Cut(t, p))
    BY <1>2, <1>3, TreeWhen
  <1> QED
    BY <1>1, <1>4

\* Prefixes of two paths below the same one.
LEMMA PrefixBelow ==
  ASSUME NEW p \in Paths, NEW q \in Paths, NEW r \in Paths, IsPrefix(q, r)
  PROVE  IsPrefix(p \o q, p \o r)
  <1>1. Len(p) \in Nat /\ Len(q) \in Nat /\ Len(r) \in Nat
    BY DEF Paths
  <1>2. /\ p \o q \in Paths /\ Len(p \o q) = Len(p) + Len(q)
        /\ \A i \in 1..(Len(p) + Len(q)) : (p \o q)[i] = IF i <= Len(p) THEN p[i] ELSE q[i - Len(p)]
    BY ConcatProperties DEF Paths
  <1>3. /\ p \o r \in Paths /\ Len(p \o r) = Len(p) + Len(r)
        /\ \A i \in 1..(Len(p) + Len(r)) : (p \o r)[i] = IF i <= Len(p) THEN p[i] ELSE r[i - Len(p)]
    BY ConcatProperties DEF Paths
  <1>4. Len(q) <= Len(r) /\ \A i \in 1..Len(q) : q[i] = r[i]
    BY PrefixMeans
  <1>5. Len(p \o q) <= Len(p \o r)
    BY <1>1, <1>2, <1>3, <1>4
  <1>6. \A i \in 1..Len(p \o q) : (p \o q)[i] = (p \o r)[i]
    BY <1>1, <1>2, <1>3, <1>4
  <1> QED
    BY <1>2, <1>3, <1>5, <1>6, PrefixMeans

\* What is below an entry is a tree.
LEMMA SubOf ==
  ASSUME NEW t, IsTree(t), NEW p \in Paths
  PROVE  /\ IsTree(Sub(t, p))
         /\ \A r \in Paths : r \in DOMAIN Sub(t, p) <=> p \o r \in DOMAIN t
         /\ \A r \in DOMAIN Sub(t, p) : r \in Paths /\ Sub(t, p)[r] = t[p \o r]
         /\ \A q \in DOMAIN t : IsPrefix(p, q) =>
              Suffix(p, q) \in DOMAIN Sub(t, p) /\ Sub(t, p)[Suffix(p, q)] = t[q]
         /\ p \in DOMAIN t => <<>> \in DOMAIN Sub(t, p)
  <1>1. DOMAIN t \subseteq Paths
    BY DEF IsTree, Paths
  <1>2. DOMAIN Sub(t, p) = {Suffix(p, q) : q \in {x \in DOMAIN t : IsPrefix(p, x)}}
    BY DEF Sub, Below, Suffix
  <1>3. ASSUME NEW q \in DOMAIN t, IsPrefix(p, q)
        PROVE  Suffix(p, q) \in DOMAIN Sub(t, p) /\ p \o Suffix(p, q) = q
    BY <1>1, <1>2, <1>3, Splitting
  <1>4. ASSUME NEW r \in DOMAIN Sub(t, p)
        PROVE  r \in Paths /\ p \o r \in DOMAIN t /\ Sub(t, p)[r] = t[p \o r]
    <2>1. PICK q \in DOMAIN t : IsPrefix(p, q) /\ r = Suffix(p, q)
      BY <1>2
    <2>2. r \in Paths /\ p \o r = q
      BY <1>1, <2>1, Splitting
    <2>3. Sub(t, p)[r] = t[p \o r]
      BY <1>4 DEF Sub, Below
    <2> QED
      BY <2>2, <2>3
  <1>5. ASSUME NEW r \in Paths, p \o r \in DOMAIN t
        PROVE  r \in DOMAIN Sub(t, p)
    <2>1. IsPrefix(p, p \o r) /\ Suffix(p, p \o r) = r
      BY Splitting
    <2> QED
      BY <1>5, <2>1, <1>3
  <1>6. ASSUME NEW r \in DOMAIN Sub(t, p), NEW s \in Paths, IsPrefix(s, r), s # r
        PROVE  s \in DOMAIN Sub(t, p) /\ Sub(t, p)[s] = Dir
    <2>1. r \in Paths /\ p \o r \in DOMAIN t
      BY <1>4
    <2>2. p \o s \in Paths /\ IsPrefix(p \o s, p \o r)
      BY <2>1, <1>6, PrefixBelow, Splitting
    <2>3. p \o s # p \o r
      <3>1. Suffix(p, p \o s) = s /\ Suffix(p, p \o r) = r
        BY <2>1, Splitting
      <3> QED
        BY <3>1, <1>6
    <2>4. p \o s \in DOMAIN t /\ t[p \o s] = Dir
      BY <2>1, <2>2, <2>3, TreeAbove
    <2>5. s \in DOMAIN Sub(t, p)
      BY <2>4, <1>5
    <2> QED
      BY <2>4, <2>5, <1>4
  <1>7. IsTree(Sub(t, p))
    <2>1. DOMAIN Sub(t, p) \subseteq Paths
      BY <1>4
    <2> QED
      BY <2>1, <1>6, TreeWhen
  <1>8. p \in DOMAIN t => <<>> \in DOMAIN Sub(t, p)
    <2>1. <<>> \in Paths /\ p \o <<>> = p
      BY EmptySeq, Splitting DEF Paths
    <2> QED
      BY <2>1, <1>5
  <1> QED
    BY <1>3, <1>4, <1>5, <1>7, <1>8

\* A tree put at a free name of a folder, or in the place of a file: it is all there, and
\* nothing else has changed.
LEMMA GraftOf ==
  ASSUME NEW t, IsTree(t), NEW s, IsTree(s), <<>> \in DOMAIN s,
         NEW p \in Paths, p # <<>>, Front(p) \in DOMAIN t, t[Front(p)] = Dir,
         p \in DOMAIN t => t[p] # Dir
  PROVE  /\ IsTree(Graft(t, p, s))
         /\ DOMAIN t \subseteq DOMAIN Graft(t, p, s)
         /\ \A q \in DOMAIN t : q # p => ~IsPrefix(p, q) /\ Graft(t, p, s)[q] = t[q]
         /\ \A r \in DOMAIN s : p \o r \in DOMAIN Graft(t, p, s) /\ Graft(t, p, s)[p \o r] = s[r]
         /\ \A q \in DOMAIN Graft(t, p, s) :
              \/ q \in DOMAIN t /\ ~IsPrefix(p, q) /\ Graft(t, p, s)[q] = t[q]
              \/ /\ IsPrefix(p, q) /\ Suffix(p, q) \in DOMAIN s
                 /\ Graft(t, p, s)[q] = s[Suffix(p, q)]
         /\ p \in DOMAIN Graft(t, p, s) /\ Graft(t, p, s)[p] = s[<<>>]
  <1> DEFINE g == Graft(t, p, s)
  <1>1. DOMAIN t \subseteq Paths /\ DOMAIN s \subseteq Paths
    BY DEF IsTree, Paths
  <1>2. DOMAIN g = DOMAIN t \cup {p \o r : r \in DOMAIN s}
    BY DEF Graft
  <1>3. \A q \in DOMAIN g : g[q] = IF IsPrefix(p, q) THEN s[Suffix(p, q)] ELSE t[q]
    BY DEF Graft, Suffix
  <1> HIDE DEF g
  <1>4. ASSUME NEW q \in DOMAIN t, q # p
        PROVE  ~IsPrefix(p, q) /\ g[q] = t[q]
    <2>1. ~IsPrefix(p, q)
      BY <1>4, TreeAbove
    <2> QED
      BY <2>1, <1>2, <1>3
  <1>5. ASSUME NEW r \in DOMAIN s
        PROVE  p \o r \in DOMAIN g /\ g[p \o r] = s[r]
    <2>1. r \in Paths /\ IsPrefix(p, p \o r) /\ Suffix(p, p \o r) = r
      BY <1>1, Splitting
    <2>2. p \o r \in DOMAIN g
      BY <1>2
    <2> QED
      BY <2>1, <2>2, <1>3
  <1>6. p \in DOMAIN g /\ g[p] = s[<<>>] /\ Suffix(p, p) = <<>>
    <2>1. <<>> \in Paths /\ p \o <<>> = p /\ Suffix(p, p \o <<>>) = <<>>
      BY EmptySeq, Splitting DEF Paths
    <2> QED
      BY <2>1, <1>5
  <1>7. ASSUME NEW q \in DOMAIN g
        PROVE  /\ q \in Paths
               /\ \/ q \in DOMAIN t /\ ~IsPrefix(p, q) /\ g[q] = t[q]
                  \/ IsPrefix(p, q) /\ Suffix(p, q) \in DOMAIN s /\ g[q] = s[Suffix(p, q)]
    <2>1. CASE q \in DOMAIN t /\ q # p
      BY <2>1, <1>1, <1>4
    <2>2. CASE q = p
      BY <2>2, <1>6, PrefixOrder
    <2>3. CASE q \notin DOMAIN t
      <3>1. PICK r \in DOMAIN s : q = p \o r
        BY <2>3, <1>2, <1>7
      <3>2. r \in Paths /\ q \in Paths /\ IsPrefix(p, q) /\ Suffix(p, q) = r
        BY <3>1, <1>1, Splitting
      <3> QED
        BY <3>1, <3>2, <1>3, <1>7
    <2> QED
      BY <2>1, <2>2, <2>3
  <1>8. ASSUME NEW q \in DOMAIN g, NEW r \in Paths, IsPrefix(r, q), r # q
        PROVE  r \in DOMAIN g /\ g[r] = Dir
    <2>0. q \in Paths
      BY <1>7
    <2>1. ASSUME NEW u \in DOMAIN t, IsPrefix(r, u), r # u
          PROVE  r \in DOMAIN g /\ g[r] = Dir
      <3>1. r \in DOMAIN t /\ t[r] = Dir
        BY <2>1, TreeAbove
      <3>2. r # p
        BY <3>1
      <3> QED
        BY <3>1, <3>2, <1>2, <1>4
    <2>2. CASE q \in DOMAIN t
      BY <2>1, <2>2, <1>8
    <2>3. CASE q \notin DOMAIN t /\ IsPrefix(p, r)
      <3>1. IsPrefix(p, q) /\ Suffix(p, q) \in DOMAIN s
        BY <2>3, <1>7
      <3>2. /\ Suffix(p, q) \in Paths /\ p \o Suffix(p, q) = q
            /\ Suffix(p, r) \in Paths /\ p \o Suffix(p, r) = r
            /\ Len(q) = Len(p) + Len(Suffix(p, q)) /\ Len(r) = Len(p) + Len(Suffix(p, r))
        <4>1. Suffix(p, q) \in Paths /\ p \o Suffix(p, q) = q
          BY <2>0, <3>1, Splitting
        <4>2. Suffix(p, r) \in Paths /\ p \o Suffix(p, r) = r
          BY <2>3, Splitting
        <4>3. Len(p \o Suffix(p, q)) = Len(p) + Len(Suffix(p, q))
          BY <4>1, Splitting
        <4>4. Len(p \o Suffix(p, r)) = Len(p) + Len(Suffix(p, r))
          BY <4>2, Splitting
        <4> QED
          BY <4>1, <4>2, <4>3, <4>4
      <3>3. Suffix(p, r) # Suffix(p, q)
        BY <3>2, <1>8
      <3>4. IsPrefix(Suffix(p, r), Suffix(p, q))
        <4>1. /\ Len(p) \in Nat /\ Len(q) \in Nat /\ Len(r) \in Nat
              /\ Len(Suffix(p, q)) \in Nat /\ Len(Suffix(p, r)) \in Nat
          BY <2>0, <3>2 DEF Paths
        <4>2. Len(r) <= Len(q) /\ \A i \in 1..Len(r) : r[i] = q[i]
          BY <2>0, <1>8, PrefixMeans
        <4>3. /\ \A i \in 1..(Len(p) + Len(Suffix(p, q))) : q[i] =
                   IF i <= Len(p) THEN p[i] ELSE Suffix(p, q)[i - Len(p)]
              /\ \A i \in 1..(Len(p) + Len(Suffix(p, r))) : r[i] =
                   IF i <= Len(p) THEN p[i] ELSE Suffix(p, r)[i - Len(p)]
          BY <3>2, ConcatProperties DEF Paths
        <4>4. ASSUME NEW i \in 1..Len(Suffix(p, r))
              PROVE  Suffix(p, r)[i] = Suffix(p, q)[i]
          <5>1. Len(p) + i \in 1..Len(r) /\ Len(p) + i \in 1..Len(q) /\ ~(Len(p) + i <= Len(p))
                /\ (Len(p) + i) - Len(p) = i
            BY <4>1, <4>2, <3>2
          <5>2. r[Len(p) + i] = Suffix(p, r)[i] /\ q[Len(p) + i] = Suffix(p, q)[i]
            BY <5>1, <4>3, <3>2
          <5> QED
            BY <5>1, <5>2, <4>2
        <4>5. Len(Suffix(p, r)) <= Len(Suffix(p, q))
          BY <4>1, <4>2, <3>2
        <4> QED
          BY <4>4, <4>5, <3>2, PrefixMeans
      <3>5. Suffix(p, r) \in DOMAIN s /\ s[Suffix(p, r)] = Dir
        BY <3>1, <3>2, <3>3, <3>4, TreeAbove
      <3> QED
        BY <3>2, <3>5, <1>5
    <2>4. CASE q \notin DOMAIN t /\ ~IsPrefix(p, r)
      <3>1. IsPrefix(p, q)
        BY <2>4, <1>7
      <3>2. IsPrefix(r, p) /\ r # p
        <4>1. Len(p) \in Nat /\ Len(r) \in Nat
          BY DEF Paths
        <4>2. ~(Len(p) <= Len(r))
          BY <2>0, <2>4, <3>1, <1>8, PrefixOrder
        <4>3. Len(r) <= Len(p)
          BY <4>1, <4>2
        <4> QED
          BY <2>0, <2>4, <3>1, <4>3, <1>8, PrefixOrder
      <3>3. IsPrefix(r, Front(p)) /\ Front(p) \in Paths
        BY <3>2, FrontOf
      <3>4. CASE r = Front(p)
        <4>1. Front(p) # p
          <5>1. Len(Front(p)) = Len(p) - 1 /\ Len(p) \in Nat
            BY FrontOf
          <5> QED
            BY <5>1
        <4> QED
          BY <3>4, <4>1, <1>2, <1>4
      <3>5. CASE r # Front(p)
        BY <3>3, <3>5, <2>1
      <3> QED
        BY <3>4, <3>5
    <2> QED
      BY <2>2, <2>3, <2>4
  <1>9. IsTree(g)
    <2>1. DOMAIN g \subseteq Paths
      BY <1>7
    <2> QED
      BY <2>1, <1>8, TreeWhen
  <1>10. DOMAIN t \subseteq DOMAIN g
    BY <1>2
  <1> QED
    BY <1>4, <1>5, <1>6, <1>7, <1>9, <1>10 DEF g

\* The names of a folder, and that whatever is below it is below one of them.
LEMMA NamesOf ==
  ASSUME NEW t, IsTree(t), NEW f \in Paths
  PROVE  /\ Names(t, f) \subseteq DOMAIN t
         /\ \A n \in Names(t, f) : n \in Paths /\ n # <<>> /\ Len(n) = Len(f) + 1 /\ IsPrefix(f, n)
                                   /\ Front(n) = f
         /\ \A q \in DOMAIN t : IsPrefix(f, q) /\ q # f => \E n \in Names(t, f) : IsPrefix(n, q)
  <1>1. DOMAIN t \subseteq Paths /\ Len(f) \in Nat
    BY DEF IsTree, Paths
  <1>2. ASSUME NEW n \in Names(t, f)
        PROVE  /\ n \in DOMAIN t /\ n \in Paths /\ n # <<>> /\ Len(n) = Len(f) + 1 /\ IsPrefix(f, n)
               /\ Front(n) = f
    <2>1. n \in DOMAIN t /\ n # <<>> /\ Front(n) = f
      BY <1>2 DEF Names
    <2>2. n \in Paths /\ Len(n) \in Nat /\ Len(f) = Len(n) - 1 /\ IsPrefix(f, n)
      BY <1>1, <2>1, FrontOf
    <2> QED
      BY <1>1, <2>1, <2>2
  <1>3. ASSUME NEW q \in DOMAIN t, IsPrefix(f, q), q # f
        PROVE  \E n \in Names(t, f) : IsPrefix(n, q)
    <2>1. q \in Paths /\ Len(q) \in Nat /\ Len(f) < Len(q)
      <3>1. q \in Paths
        BY <1>1
      <3>2. Len(f) <= Len(q) /\ Len(f) # Len(q) /\ Len(q) \in Nat
        BY <3>1, <1>3, PrefixOrder
      <3> QED
        BY <3>1, <3>2, <1>1
    <2>2. Len(f) + 1 \in 0..Len(q)
      BY <1>1, <2>1
    <2>3. PICK n \in Paths : Len(n) = Len(f) + 1 /\ IsPrefix(n, q)
      BY <2>1, <2>2, FirstNames
    <2>4. n \in DOMAIN t
      BY <2>1, <2>3, <1>3, TreeAbove
    <2>5. n # <<>>
      <3>1. Len(<<>>) = 0
        OBVIOUS
      <3> QED
        BY <3>1, <2>3, <1>1
    <2>6. Front(n) = f
      <3>1. Front(n) \in Paths /\ Len(Front(n)) = Len(n) - 1 /\ IsPrefix(Front(n), n)
        BY <2>5, FrontOf
      <3>2. IsPrefix(Front(n), q)
        BY <3>1, <2>1, <2>3, PrefixOrder
      <3>3. Len(Front(n)) = Len(f)
        BY <3>1, <2>3, <1>1
      <3> QED
        BY <3>1, <3>2, <3>3, <2>1, <1>3, PrefixOrder
    <2>7. n \in Names(t, f)
      BY <2>4, <2>5, <2>6 DEF Names
    <2> QED
      BY <2>3, <2>7
  <1> QED
    BY <1>2, <1>3

\* What is cut off is what is below.
LEMMA TextsCut ==
  ASSUME NEW t, IsTree(t), NEW p \in Paths, NEW x \in Texts(t)
  PROVE  x \in Texts(Cut(t, p)) \cup Texts(Sub(t, p))
  <1>1. PICK q \in DOMAIN t : x = t[q] /\ x # Dir
    BY DEF Texts
  <1>2. CASE IsPrefix(p, q)
    BY <1>1, <1>2, SubOf DEF Texts
  <1>3. CASE ~IsPrefix(p, q)
    BY <1>1, <1>3, CutOf DEF Texts
  <1> QED
    BY <1>2, <1>3

\* What a visitor makes of a tree: one file is there, is another, or is gone.
LEMMA VisitOf ==
  ASSUME NEW t, IsTree(t), NEW x, x # Dir \/ x = Nothing,
         NEW p \in Paths, MayPut(t, p), x = Nothing => p \in DOMAIN t
  PROVE  /\ IsTree(Touched(t, p, x)) /\ p # <<>>
         /\ p \in DOMAIN t => t[p] # Dir
         /\ \A q \in DOMAIN t : q # p => q \in DOMAIN Touched(t, p, x) /\ Touched(t, p, x)[q] = t[q]
         /\ \A q \in DOMAIN Touched(t, p, x) :
              \/ q \in DOMAIN t /\ q # p /\ Touched(t, p, x)[q] = t[q]
              \/ q = p /\ Touched(t, p, x)[q] = x /\ x # Nothing
         /\ x # Nothing => p \in DOMAIN Touched(t, p, x) /\ Touched(t, p, x)[p] = x
  <1> DEFINE new == Touched(t, p, x)
  <1>1. p \in Paths /\ p # <<>>
    BY DEF MayPut
  <1>2. Front(p) \in DOMAIN t /\ t[Front(p)] = Dir /\ (p \in DOMAIN t => t[p] # Dir)
    BY DEF MayPut
  <1>5. (x = Nothing => new = Cut(t, p)) /\ (x # Nothing => new = Graft(t, p, File(x)))
    BY DEF Touched
  <1> SUFFICES /\ IsTree(new) /\ p # <<>>
               /\ p \in DOMAIN t => t[p] # Dir
               /\ \A q \in DOMAIN t : q # p => q \in DOMAIN new /\ new[q] = t[q]
               /\ \A q \in DOMAIN new :
                    \/ q \in DOMAIN t /\ q # p /\ new[q] = t[q]
                    \/ q = p /\ new[q] = x /\ x # Nothing
               /\ x # Nothing => p \in DOMAIN new /\ new[p] = x
    OBVIOUS
  <1> HIDE DEF new
  <1>3. CASE x = Nothing
    <2>1. new = Cut(t, p) /\ p \in DOMAIN t
      BY <1>3, <1>5
    <2>2. ASSUME NEW q \in DOMAIN t
          PROVE  IsPrefix(p, q) <=> q = p
      <3>1. IsPrefix(p, q) /\ q # p => t[p] = Dir
        BY <1>1, TreeAbove
      <3>2. IsPrefix(p, p)
        BY <1>1, PrefixOrder
      <3> QED
        BY <3>1, <3>2, <2>1, <1>2
    <2> QED
      <3>1. /\ IsTree(Cut(t, p))
            /\ DOMAIN Cut(t, p) \subseteq DOMAIN t
            /\ \A q \in DOMAIN t : q \in DOMAIN Cut(t, p) <=> ~IsPrefix(p, q)
            /\ \A q \in DOMAIN Cut(t, p) : Cut(t, p)[q] = t[q]
        BY CutOf
      <3>2. /\ IsTree(new)
            /\ \A q \in DOMAIN t : q # p => q \in DOMAIN new /\ new[q] = t[q]
            /\ \A q \in DOMAIN new : q \in DOMAIN t /\ q # p /\ new[q] = t[q]
        BY <3>1, <2>1, <2>2
      <3> QED
        BY <3>2, <1>1, <1>2, <1>3
  <1>4. CASE x # Nothing
    <2> DEFINE s == File(x)
    <2>1. DOMAIN s = {<<>>} /\ s[<<>>] = x
      BY DEF File
    <2>2. IsTree(s)
      <3> SUFFICES ASSUME NEW q \in DOMAIN s
                   PROVE  q \in Seq(Label) /\ \A m \in 0..(Len(q) - 1) : FALSE
        BY DEF IsTree
      <3>1. q = <<>>
        BY <2>1
      <3> QED
        BY <3>1
    <2> HIDE DEF s
    <2>3. new = Graft(t, p, s)
      BY <1>4, <1>5 DEF s
    <2>0. <<>> \in DOMAIN s
      BY <2>1
    <2>4. /\ IsTree(Graft(t, p, s))
          /\ DOMAIN t \subseteq DOMAIN Graft(t, p, s)
          /\ \A q \in DOMAIN t : q # p => ~IsPrefix(p, q) /\ Graft(t, p, s)[q] = t[q]
          /\ \A q \in DOMAIN Graft(t, p, s) :
               \/ q \in DOMAIN t /\ ~IsPrefix(p, q) /\ Graft(t, p, s)[q] = t[q]
               \/ /\ IsPrefix(p, q) /\ Suffix(p, q) \in DOMAIN s
                  /\ Graft(t, p, s)[q] = s[Suffix(p, q)]
          /\ p \in DOMAIN Graft(t, p, s) /\ Graft(t, p, s)[p] = s[<<>>]
      BY <1>1, <1>2, <2>0, <2>2, GraftOf
    <2>5. ASSUME NEW q \in DOMAIN new
          PROVE  \/ q \in DOMAIN t /\ q # p /\ new[q] = t[q]
                 \/ q = p /\ new[q] = x
      <3>0. q \in Paths
        BY <2>3, <2>4 DEF IsTree, Paths
      <3>1. CASE q \in DOMAIN t /\ ~IsPrefix(p, q) /\ new[q] = t[q]
        BY <3>1, <1>1, PrefixOrder
      <3>2. CASE IsPrefix(p, q) /\ Suffix(p, q) \in DOMAIN s /\ new[q] = s[Suffix(p, q)]
        <4>1. Suffix(p, q) = <<>> /\ p \o Suffix(p, q) = q /\ p \o <<>> = p
          <5>1. p \o Suffix(p, q) = q /\ p \o <<>> = p
            BY <3>0, <3>2, <1>1, Splitting
          <5> QED
            BY <5>1, <3>2, <2>1
        <4> QED
          BY <4>1, <3>2, <2>1
      <3> QED
        BY <3>1, <3>2, <2>3, <2>4
    <2> QED
      <3>1. IsTree(new) /\ p \in DOMAIN new /\ new[p] = x
        BY <2>1, <2>3, <2>4
      <3>2. \A q \in DOMAIN t : q # p => q \in DOMAIN new /\ new[q] = t[q]
        BY <2>3, <2>4
      <3> QED
        BY <3>1, <3>2, <2>5, <1>1, <1>2, <1>4
  <1> QED
    BY <1>3, <1>4

\* Stacks: what lies below the top,
LEMMA StackTop ==
  ASSUME NEW S, NEW s \in Seq(S)
  PROVE  /\ Len(s) \in Nat /\ DOMAIN s = 1..Len(s)
         /\ s = <<>> <=> Len(s) = 0
         /\ s # <<>> =>
              /\ Len(s) \in 1..Len(s) /\ Last(s) = s[Len(s)] /\ Last(s) \in S
              /\ Front(s) \in Seq(S) /\ Len(Front(s)) = Len(s) - 1
              /\ \A i \in 1..(Len(s) - 1) : Front(s)[i] = s[i]
  <1>1. Len(s) \in Nat /\ DOMAIN s = 1..Len(s)
    BY LenProperties
  <1>2. s = <<>> <=> Len(s) = 0
    BY EmptySeq
  <1>3. ASSUME s # <<>>
        PROVE  /\ Len(s) \in 1..Len(s) /\ Last(s) = s[Len(s)] /\ Last(s) \in S
               /\ Front(s) \in Seq(S) /\ Len(Front(s)) = Len(s) - 1
               /\ \A i \in 1..(Len(s) - 1) : Front(s)[i] = s[i]
    <2>1. Len(s) \in 1..Len(s)
      BY <1>1, <1>2, <1>3
    <2>2. Last(s) = s[Len(s)] /\ Last(s) \in S
      BY <2>1, ElementOfSeq DEF Last
    <2>3. /\ Front(s) \in Seq(S) /\ Len(Front(s)) = Len(s) - 1
          /\ \A i \in 1..(Len(s) - 1) : Front(s)[i] = s[i]
      <3>1. \A i \in 1..(Len(s) - 1) : s[i] \in S
        BY <1>1, ElementOfSeq
      <3>2. 1 \in Int /\ Len(s) - 1 \in Int
        BY <1>1
      <3>3. /\ Front(s) \in Seq(S)
            /\ Len(Front(s)) = IF 1 <= Len(s) - 1 THEN (Len(s) - 1) - 1 + 1 ELSE 0
            /\ \A i \in 1..((Len(s) - 1) - 1 + 1) : Front(s)[i] = s[1 + i - 1]
        BY <3>1, <3>2, SubSeqProperties DEF Front
      <3>4. (Len(s) - 1) - 1 + 1 = Len(s) - 1 /\ \A i \in 1..(Len(s) - 1) : 1 + i - 1 = i
        BY <1>1
      <3>5. Len(Front(s)) = Len(s) - 1
        <4>1. Len(s) = 1 \/ 1 <= Len(s) - 1
          BY <1>1, <2>1
        <4>2. CASE Len(s) = 1
          BY <3>3, <4>2
        <4>3. CASE 1 <= Len(s) - 1
          <5>1. Len(Front(s)) = (Len(s) - 1) - 1 + 1
            BY <3>3, <4>3
          <5> QED
            BY <3>4, <5>1
        <4> QED
          BY <4>1, <4>2, <4>3
      <3> QED
        BY <3>3, <3>4, <3>5
    <2> QED
      BY <2>1, <2>2, <2>3
  <1> QED
    BY <1>1, <1>2, <1>3

\* and what is put on top.
LEMMA StackPush ==
  ASSUME NEW S, NEW s \in Seq(S), NEW e \in S
  PROVE  /\ Append(s, e) \in Seq(S) /\ Len(Append(s, e)) = Len(s) + 1 /\ Append(s, e) # <<>>
         /\ \A i \in 1..Len(s) : Append(s, e)[i] = s[i]
         /\ Append(s, e)[Len(s) + 1] = e
  BY AppendProperties

-----------------------------------------------------------------------------
(* Where a request is.  The folders that are merged lie one in the other,  *)
(* each is a folder of both trees, and what is left to be picked in them   *)
(* is apart from the entry at hand, whose folder is the innermost.         *)

Frame == [folder : Paths, names : SUBSET Paths]
Active ==
  doing \in {"inspecting", "renaming", "copying", "publishing", "comparing", "equating", "removing"}

AreTrees == IsTree(source) /\ IsTree(dest)

\* The folders that are merged, and the names that are left in them.
MergeShape ==
  /\ merging \in Seq(Frame)
  /\ \A i \in 1..Len(merging) :
       /\ Len(merging[i].folder) = i - 1
       /\ \A n \in merging[i].names : Len(n) = i /\ IsPrefix(merging[i].folder, n)
  /\ \A i \in 1..Len(merging), j \in 1..Len(merging) :
       i < j => \A n \in merging[i].names : ~IsPrefix(n, merging[j].folder)

IsFolder(t, p) == p \in DOMAIN t /\ t[p] = Dir

\* They stay folders: others only touch files, and the request what lies in them.
FoldersStay ==
  \A i \in 1..Len(merging) :
    IsFolder(source, merging[i].folder) /\ IsFolder(dest, merging[i].folder)

\* The entry at hand: first the folder that was asked for, then a name of a folder that is
\* merged, which is taken from the names that are left.
EntryShape ==
  Active =>
    /\ entry.from \in Paths /\ entry.to \in Paths
    /\ entry = [from |-> entry.from, to |-> entry.to, replaces |-> entry.replaces, looked |-> entry.looked]
    /\ merging = <<>> =>
         /\ doing = "inspecting" /\ entry.from = <<>>
         /\ IsFolder(source, <<>>) /\ IsFolder(dest, <<>>)
    /\ merging # <<>> =>
         /\ entry.from # <<>> /\ Front(entry.from) = Last(merging).folder
         /\ entry.to # <<>> /\ Front(entry.to) = Last(merging).folder
         /\ \A i \in 1..Len(merging) : \A n \in merging[i].names : ~IsPrefix(n, entry.from)
         /\ entry.replaces # Nothing => entry.replaces # Dir /\ asked.policy = "replace"
         /\ entry.from = entry.to \/ asked.policy = "rename"

\* What is published is a tree.
CopyShape == doing = "publishing" => IsTree(copy) /\ <<>> \in DOMAIN copy

\* The folders that are removed lie one in the other, from the entry downwards.
RemovalShape ==
  /\ Active /\ doing # "removing" => emptying = <<>>
  /\ doing = "picking" => emptying = <<>> /\ merging # <<>>
  /\ doing = "removing" =>
       /\ emptying \in Seq(Frame)
       /\ \A i \in 1..Len(emptying) :
            /\ IsPrefix(entry.from, emptying[i].folder)
            /\ Len(emptying[i].folder) = Len(entry.from) + i - 1
            /\ IsFolder(source, emptying[i].folder)
            /\ \A n \in emptying[i].names :
                 Len(n) = Len(entry.from) + i /\ IsPrefix(emptying[i].folder, n)

TreeShape == MergeShape /\ FoldersStay /\ EntryShape /\ CopyShape /\ RemovalShape
Placed    == AreTrees /\ (doing # "done" => TreeShape)

\* A step of others is about one path of one tree.
LEMMA VisitIs ==
  ASSUME AreTrees, Dir \notin Fresh, Visit
  PROVE  \E here \in BOOLEAN, x \in (Fresh \ known) \cup {Nothing}, p \in Paths :
           /\ Touch(here, p, x) /\ (x # Dir \/ x = Nothing)
           /\ MayPut(IF here THEN source ELSE dest, p)
           /\ x = Nothing => p \in DOMAIN (IF here THEN source ELSE dest)
  <1>1. PICK here \in BOOLEAN, x \in (Fresh \ known) \cup {Nothing}, p \in Places(source) \cup Places(dest) :
          Touch(here, p, x)
    BY Zenon DEF Visit
  <1>2. p \in Paths
    <2>1. ASSUME NEW t, IsTree(t), p \in Places(t)
          PROVE  p \in Paths
      <3>1. PICK q \in DOMAIN t, n \in Label : p = Append(q, n)
        BY <2>1 DEF Places
      <3>2. q \in Paths
        BY <2>1 DEF IsTree, Paths
      <3>3. Append(q, n) \in Paths
        BY <3>2, EntryOf
      <3> QED
        BY <3>1, <3>3, Zenon
    <2> QED
      BY <2>1, <1>1, Zenon DEF AreTrees
  <1>3. /\ MayPut(IF here THEN source ELSE dest, p)
        /\ x = Nothing => p \in DOMAIN (IF here THEN source ELSE dest)
    BY <1>1, Zenon DEF Touch
  <1> QED
    BY <1>1, <1>2, <1>3

\* What others do keeps every folder, and every tree a tree.
LEMMA VisitTrees ==
  ASSUME AreTrees, Dir \notin Fresh, Visit
  PROVE  /\ AreTrees'
         /\ \A f : IsFolder(source, f) => IsFolder(source, f)'
         /\ \A f : IsFolder(dest, f) => IsFolder(dest, f)'
  <1>1. PICK here \in BOOLEAN, x \in (Fresh \ known) \cup {Nothing}, p \in Paths :
           /\ Touch(here, p, x) /\ (x # Dir \/ x = Nothing)
           /\ MayPut(IF here THEN source ELSE dest, p)
           /\ x = Nothing => p \in DOMAIN (IF here THEN source ELSE dest)
    BY VisitIs
  <1>2. ASSUME NEW t, IsTree(t), MayPut(t, p), x = Nothing => p \in DOMAIN t
        PROVE  /\ IsTree(Touched(t, p, x))
               /\ \A f : IsFolder(t, f) => IsFolder(Touched(t, p, x), f)
    <2>1. /\ IsTree(Touched(t, p, x))
          /\ p \in DOMAIN t => t[p] # Dir
          /\ \A q \in DOMAIN t : q # p => q \in DOMAIN Touched(t, p, x) /\ Touched(t, p, x)[q] = t[q]
      BY <1>1, <1>2, VisitOf
    <2> QED
      BY <2>1 DEF IsFolder
  <1>3. CASE here
    <2>1. source' = Touched(source, p, x) /\ dest' = dest
      BY <1>1, <1>3 DEF Touch
    <2> QED
      BY <1>1, <1>2, <1>3, <2>1 DEF AreTrees, IsFolder
  <1>4. CASE ~here
    <2>1. source' = source /\ dest' = Touched(dest, p, x)
      BY <1>1, <1>4 DEF Touch
    <2> QED
      BY <1>1, <1>2, <1>4, <2>1 DEF AreTrees, IsFolder
  <1> QED
    BY <1>3, <1>4

\* What the shape says of each folder that is merged,
LEMMA MergedFolder ==
  ASSUME MergeShape, NEW i \in 1..Len(merging)
  PROVE  /\ merging[i] \in Frame /\ merging[i].folder \in Paths /\ Len(merging[i].folder) = i - 1
         /\ \A n \in merging[i].names : n \in Paths /\ Len(n) = i /\ IsPrefix(merging[i].folder, n)
         /\ Len(merging) \in Nat /\ i \in Nat
  <1>1. merging[i] \in Frame
    BY ElementOfSeq DEF MergeShape
  <1>2. merging[i].folder \in Paths /\ merging[i].names \subseteq Paths
    BY <1>1 DEF Frame
  <1>3. Len(merging) \in Nat
    BY LenProperties DEF MergeShape
  <1> QED
    BY <1>1, <1>2, <1>3 DEF MergeShape

\* and of the innermost one.
LEMMA Innermost ==
  ASSUME MergeShape, merging # <<>>
  PROVE  /\ Len(merging) \in 1..Len(merging) /\ Last(merging) = merging[Len(merging)]
         /\ Len(merging) \in Nat /\ Last(merging) \in Frame
         /\ Front(merging) \in Seq(Frame) /\ Len(Front(merging)) = Len(merging) - 1
         /\ \A i \in 1..(Len(merging) - 1) : Front(merging)[i] = merging[i]
  BY StackTop DEF MergeShape

\* The entry lies in the innermost folder, below which nothing is merged.
LEMMA EntryDepth ==
  ASSUME MergeShape, FoldersStay, EntryShape, Active, merging # <<>>
  PROVE  /\ entry.from \in Paths /\ Len(entry.from) = Len(merging) /\ entry.from # <<>>
         /\ entry.to \in Paths /\ Len(entry.to) = Len(merging) /\ entry.to # <<>>
         /\ IsFolder(dest, Front(entry.to))
         /\ \A i \in 1..Len(merging), p \in Paths :
              Len(p) >= Len(merging) => ~IsPrefix(p, merging[i].folder) /\ p # merging[i].folder
  <1>1. /\ Len(merging) \in 1..Len(merging) /\ Last(merging) = merging[Len(merging)] /\ Len(merging) \in Nat
    BY Innermost
  <1>2. Last(merging).folder \in Paths /\ Len(Last(merging).folder) = Len(merging) - 1
    BY <1>1, MergedFolder
  <1>3. /\ entry.from \in Paths /\ entry.from # <<>> /\ Front(entry.from) = Last(merging).folder
        /\ entry.to \in Paths /\ entry.to # <<>> /\ Front(entry.to) = Last(merging).folder
    BY DEF EntryShape
  <1>4. ASSUME NEW p \in Paths, p # <<>>, Front(p) = Last(merging).folder
        PROVE  Len(p) = Len(merging)
    <2>1. Len(p) \in Nat \ {0} /\ Len(Front(p)) = Len(p) - 1
      BY <1>4, FrontOf
    <2> QED
      BY <2>1, <1>1, <1>2, <1>4
  <1>5. IsFolder(dest, Front(entry.to))
    BY <1>1, <1>3 DEF FoldersStay
  <1>6. ASSUME NEW i \in 1..Len(merging), NEW p \in Paths, Len(p) >= Len(merging)
        PROVE  ~IsPrefix(p, merging[i].folder) /\ p # merging[i].folder
    <2>1. merging[i].folder \in Paths /\ Len(merging[i].folder) = i - 1 /\ i \in Nat
      BY MergedFolder
    <2>2. Len(p) \in Nat /\ ~(Len(p) <= Len(merging[i].folder))
      <3>1. Len(p) \in Nat
        BY DEF Paths
      <3> QED
        BY <3>1, <2>1, <1>1, <1>6
    <2> QED
      BY <2>1, <2>2, PrefixOrder
  <1> QED
    BY <1>3, <1>4, <1>5, <1>6

\* The steps of inspecting an entry.
LEMMA InspectShape == Placed /\ Inspect => Placed'
  <1> SUFFICES ASSUME Placed, Inspect, doing' # "done"
               PROVE  TreeShape'
    BY DEF Placed, Inspect, AreTrees
  <1> DEFINE p == entry.from
  <1>1. /\ doing = "inspecting" /\ Active /\ TreeShape /\ AreTrees
        /\ UNCHANGED <<source, dest, asked, copy, emptying>>
    BY DEF Inspect, Placed, Active
  <1>2. emptying = <<>> /\ CopyShape' /\ doing' \in {"picking", "renaming", "copying"}
    <2>1. doing' \in {"picking", "renaming", "copying"}
      BY Zenon DEF Inspect, Fail
    <2> QED
      BY <1>1, <2>1 DEF TreeShape, RemovalShape, CopyShape
  <1>3. /\ p \in Paths
        /\ entry = [from |-> p, to |-> entry.to, replaces |-> entry.replaces, looked |-> entry.looked]
    BY <1>1 DEF TreeShape, EntryShape
  <1>4. CASE /\ p \in DOMAIN source \cap DOMAIN dest /\ source[p] = Dir /\ dest[p] = Dir
             /\ merging' = Append(merging, [folder |-> p, names |-> Names(source, p)])
             /\ doing' = "picking" /\ UNCHANGED entry
    <2> DEFINE e == [folder |-> p, names |-> Names(source, p)]
    <2>1. /\ \A n \in Names(source, p) : n \in Paths /\ Len(n) = Len(p) + 1 /\ IsPrefix(p, n)
          /\ e \in Frame /\ e.folder = p /\ e.names = Names(source, p)
      BY <1>1, <1>3, NamesOf DEF AreTrees, Frame
    <2>2. Len(p) = Len(merging) /\ Len(merging) \in Nat
      <3>1. CASE merging = <<>>
        BY <1>1, <3>1 DEF TreeShape, EntryShape
      <3>2. CASE merging # <<>>
        BY <1>1, <3>2, EntryDepth, Innermost DEF TreeShape
      <3> QED
        BY <3>1, <3>2
    <2>3. /\ merging' \in Seq(Frame) /\ Len(merging') = Len(merging) + 1 /\ merging' # <<>>
          /\ \A i \in 1..Len(merging) : merging'[i] = merging[i]
          /\ merging'[Len(merging) + 1] = e
      <3>1. merging' = Append(merging, e)
        BY <1>4
      <3> HIDE DEF e
      <3>2. merging \in Seq(Frame) /\ e \in Frame
        BY <1>1, <2>1 DEF TreeShape, MergeShape
      <3> QED
        BY <3>1, <3>2, StackPush
    <2> HIDE DEF e
    <2>4. ASSUME NEW i \in 1..Len(merging), NEW n \in merging[i].names
          PROVE  ~IsPrefix(n, p)
      <3>1. merging # <<>>
        BY <2>2
      <3> QED
        BY <3>1, <1>1 DEF TreeShape, EntryShape
    <2>5. MergeShape'
      <3>1. ASSUME NEW i \in 1..Len(merging')
            PROVE  /\ Len(merging'[i].folder) = i - 1
                   /\ \A n \in merging'[i].names : Len(n) = i /\ IsPrefix(merging'[i].folder, n)
        <4>1. CASE i \in 1..Len(merging)
          BY <4>1, <2>3, <1>1 DEF TreeShape, MergeShape
        <4>2. CASE i = Len(merging) + 1
          BY <4>2, <2>1, <2>2, <2>3
        <4> QED
          BY <4>1, <4>2, <2>2, <2>3
      <3>2. ASSUME NEW i \in 1..Len(merging'), NEW j \in 1..Len(merging'), i < j,
                   NEW n \in merging'[i].names
            PROVE  ~IsPrefix(n, merging'[j].folder)
        <4>1. i \in 1..Len(merging) /\ merging'[i] = merging[i]
          BY <3>2, <2>2, <2>3
        <4>2. CASE j \in 1..Len(merging)
          BY <4>1, <4>2, <3>2, <2>3, <1>1 DEF TreeShape, MergeShape
        <4>3. CASE j = Len(merging) + 1
          BY <4>1, <4>3, <3>2, <2>1, <2>3, <2>4
        <4> QED
          BY <4>2, <4>3, <2>2, <2>3
      <3> QED
        BY <2>3, <3>1, <3>2 DEF MergeShape
    <2>6. FoldersStay'
      <3> SUFFICES ASSUME NEW i \in 1..Len(merging')
                   PROVE  IsFolder(source, merging'[i].folder) /\ IsFolder(dest, merging'[i].folder)
        BY <1>1 DEF FoldersStay, IsFolder
      <3>1. CASE i \in 1..Len(merging)
        BY <3>1, <2>3, <1>1 DEF TreeShape, FoldersStay
      <3>2. CASE i = Len(merging) + 1
        BY <3>2, <2>1, <2>3, <1>4 DEF IsFolder
      <3> QED
        BY <3>1, <3>2, <2>2, <2>3
    <2>7. EntryShape' /\ RemovalShape'
      BY <1>4, <1>1, <1>2, <2>3 DEF EntryShape, RemovalShape, Active
    <2> QED
      BY <2>5, <2>6, <2>7, <1>2 DEF TreeShape
  <1>5. CASE ~(p \in DOMAIN source \cap DOMAIN dest /\ source[p] = Dir /\ dest[p] = Dir) /\ UNCHANGED merging
    <2>1. merging # <<>>
      BY <1>1, <1>5 DEF TreeShape, EntryShape, IsFolder
    <2>2. MergeShape' /\ FoldersStay'
      BY <1>1, <1>5 DEF TreeShape, MergeShape, FoldersStay, IsFolder
    <2>3. RemovalShape'
      BY <1>1, <1>2, <1>5, <2>1 DEF RemovalShape
    <2>4. CASE doing' = "picking"
      BY <2>2, <2>3, <2>4, <1>2 DEF TreeShape, EntryShape, Active
    <2>5. CASE doing' # "picking"
      <3>1. /\ entry'.from = p /\ entry'.replaces \in {entry.replaces, dest[p]}
            /\ entry' = [from |-> entry'.from, to |-> entry'.to, replaces |-> entry'.replaces,
                         looked |-> entry'.looked]
            /\ \/ entry'.to = entry.to
               \/ asked.policy = "rename" /\ \E n \in Label : entry'.to = Append(Front(p), n)
            /\ entry'.replaces # entry.replaces => asked.policy = "replace" /\ dest[p] # Dir
        BY <1>3, <1>5, <2>5, Zenon DEF Inspect, Fail
      <3>2. p # <<>> /\ Front(p) = Last(merging).folder /\ Front(p) \in Paths
        <4>1. p # <<>> /\ Front(p) = Last(merging).folder
          BY <2>1, <1>1 DEF TreeShape, EntryShape
        <4> QED
          BY <4>1, <1>3, FrontOf
      <3>3. /\ entry'.to \in Paths /\ entry'.to # <<>> /\ Front(entry'.to) = Last(merging).folder
        <4>1. CASE entry'.to = entry.to
          BY <4>1, <2>1, <1>1 DEF TreeShape, EntryShape
        <4>2. ASSUME NEW n \in Label, entry'.to = Append(Front(p), n)
              PROVE  entry'.to \in Paths /\ entry'.to # <<>> /\ Front(entry'.to) = Last(merging).folder
          BY <4>2, <3>2, EntryOf
        <4> QED
          BY <4>1, <4>2, <3>1
      <3>4. entry'.replaces # Nothing => entry'.replaces # Dir /\ asked.policy = "replace"
        BY <3>1, <2>1, <1>1 DEF TreeShape, EntryShape
      <3>5. entry'.from = entry'.to \/ asked.policy = "rename"
        BY <3>1, <2>1, <1>1 DEF TreeShape, EntryShape
      <3>6. EntryShape'
        BY <3>1, <3>2, <3>3, <3>4, <3>5, <2>1, <1>1, <1>3, <1>5 DEF TreeShape, EntryShape
      <3> QED
        BY <2>2, <2>3, <3>6, <1>2 DEF TreeShape
    <2> QED
      BY <2>4, <2>5
  <1> QED
    BY <1>4, <1>5, <1>1 DEF Inspect, Fail

\* Cutting something off keeps the folders that are not below it,
LEMMA FolderCut ==
  ASSUME NEW t, IsTree(t), NEW p \in Paths, NEW f, IsFolder(t, f), ~IsPrefix(p, f)
  PROVE  IsFolder(Cut(t, p), f)
  BY CutOf DEF IsFolder

\* and the folders that are merged lie above the entry.
LEMMA MergedOutlive ==
  ASSUME Placed, doing # "done", Active, merging # <<>>, NEW p \in Paths, Len(p) >= Len(merging),
         NEW i \in 1..Len(merging)
  PROVE  IsFolder(Cut(source, p), merging[i].folder)
  <1>1. ~IsPrefix(p, merging[i].folder)
    BY EntryDepth DEF Placed, TreeShape
  <1>2. IsFolder(source, merging[i].folder)
    BY DEF Placed, TreeShape, FoldersStay
  <1> QED
    BY <1>1, <1>2, FolderCut DEF Placed, AreTrees

\* What is put into the destination lands on a free name of the innermost folder, or on the
\* file that may be replaced; everything else stays.
LEMMA Landing ==
  ASSUME Placed, doing # "done", Active, merging # <<>>, NEW s, IsTree(s), <<>> \in DOMAIN s,
         entry.to \in DOMAIN dest => entry.replaces # Nothing /\ dest[entry.to] = entry.replaces
  PROVE  /\ IsTree(Graft(dest, entry.to, s))
         /\ \A q \in DOMAIN dest : q # entry.to =>
              q \in DOMAIN Graft(dest, entry.to, s) /\ Graft(dest, entry.to, s)[q] = dest[q]
         /\ \A r \in DOMAIN s :
              /\ entry.to \o r \in DOMAIN Graft(dest, entry.to, s)
              /\ Graft(dest, entry.to, s)[entry.to \o r] = s[r]
         /\ \A q \in DOMAIN Graft(dest, entry.to, s) :
              \/ q \in DOMAIN dest /\ Graft(dest, entry.to, s)[q] = dest[q]
              \/ IsPrefix(entry.to, q)
         /\ \A f : IsFolder(dest, f) => IsFolder(Graft(dest, entry.to, s), f)
  <1>1. /\ entry.to \in Paths /\ entry.to # <<>> /\ IsFolder(dest, Front(entry.to))
    BY EntryDepth DEF Placed, TreeShape
  <1>2. entry.to \in DOMAIN dest => dest[entry.to] # Dir
    BY DEF Placed, TreeShape, EntryShape
  <1>3. IsTree(dest) /\ Front(entry.to) \in DOMAIN dest /\ dest[Front(entry.to)] = Dir
    BY <1>1 DEF Placed, AreTrees, IsFolder
  <1> DEFINE g == Graft(dest, entry.to, s)
  <1>4. /\ IsTree(g)
        /\ DOMAIN dest \subseteq DOMAIN g
        /\ \A q \in DOMAIN dest : q # entry.to => ~IsPrefix(entry.to, q) /\ g[q] = dest[q]
        /\ \A r \in DOMAIN s : entry.to \o r \in DOMAIN g /\ g[entry.to \o r] = s[r]
        /\ \A q \in DOMAIN g :
             \/ q \in DOMAIN dest /\ ~IsPrefix(entry.to, q) /\ g[q] = dest[q]
             \/ /\ IsPrefix(entry.to, q) /\ Suffix(entry.to, q) \in DOMAIN s
                /\ g[q] = s[Suffix(entry.to, q)]
    BY <1>1, <1>2, <1>3, GraftOf
  <1> HIDE DEF g
  <1>5. ASSUME NEW f, IsFolder(dest, f)
        PROVE  IsFolder(g, f)
    BY <1>2, <1>4, <1>5 DEF IsFolder
  <1>6. /\ \A q \in DOMAIN dest : q # entry.to => q \in DOMAIN g /\ g[q] = dest[q]
        /\ \A q \in DOMAIN g : (q \in DOMAIN dest /\ g[q] = dest[q]) \/ IsPrefix(entry.to, q)
    BY <1>4
  <1> QED
    BY <1>4, <1>5, <1>6 DEF g

\* The step that renames.
LEMMA RenameIs ==
  ASSUME Placed, Rename, dest' # dest \/ source' # source
  PROVE  /\ Active /\ merging # <<>> /\ doing # "done"
         /\ entry.from \in DOMAIN source /\ entry.to \notin DOMAIN dest
         /\ source' = Cut(source, entry.from) /\ dest' = Graft(dest, entry.to, Sub(source, entry.from))
         /\ IsTree(Sub(source, entry.from)) /\ <<>> \in DOMAIN Sub(source, entry.from)
  <1>1. /\ entry.from \in DOMAIN source /\ entry.to \notin DOMAIN dest
        /\ source' = Cut(source, entry.from) /\ dest' = Graft(dest, entry.to, Sub(source, entry.from))
    BY DEF Rename
  <1>2. Active /\ merging # <<>> /\ doing # "done"
    BY DEF Rename, Active, Placed, TreeShape, EntryShape
  <1>3. IsTree(source) /\ entry.from \in Paths
    BY <1>2 DEF Placed, AreTrees, TreeShape, EntryShape
  <1> QED
    BY <1>1, <1>2, <1>3, SubOf

\* A rename keeps the shape: it takes nothing that is merged, and puts a tree onto a free name.
LEMMA RenameShape == Placed /\ Rename => Placed'
  <1> SUFFICES ASSUME Placed, Rename
               PROVE  AreTrees' /\ (doing' # "done" => TreeShape')
    BY DEF Placed
  <1>1. /\ doing = "renaming" /\ doing # "done" /\ Active /\ merging # <<>>
        /\ AreTrees /\ TreeShape /\ UNCHANGED <<asked, merging, entry, copy, emptying>>
    BY DEF Rename, Active, Placed, TreeShape, EntryShape
  <1>2. doing' # "done" => doing' \in {"picking", "copying"}
    BY DEF Rename, Fail, Either
  <1>3. doing' # "done" => MergeShape' /\ EntryShape' /\ CopyShape' /\ RemovalShape'
    <2>1. MergeShape'
      BY <1>1 DEF TreeShape, MergeShape
    <2>2. doing' # "done" => EntryShape'
      BY <1>1, <1>2 DEF TreeShape, EntryShape, Active
    <2>3. doing' # "done" => CopyShape' /\ RemovalShape'
      BY <1>1, <1>2 DEF TreeShape, CopyShape, RemovalShape, Active
    <2> QED
      BY <2>1, <2>2, <2>3
  <1>4. CASE dest' = dest /\ source' = source
    <2>1. AreTrees' /\ FoldersStay'
      BY <1>1, <1>4 DEF AreTrees, TreeShape, FoldersStay, IsFolder
    <2> QED
      BY <2>1, <1>3 DEF TreeShape
  <1>5. CASE dest' # dest \/ source' # source
    <2>1. /\ entry.from \in DOMAIN source /\ entry.to \notin DOMAIN dest
          /\ source' = Cut(source, entry.from) /\ dest' = Graft(dest, entry.to, Sub(source, entry.from))
          /\ IsTree(Sub(source, entry.from)) /\ <<>> \in DOMAIN Sub(source, entry.from)
      BY <1>5, RenameIs
    <2>2. IsTree(dest') /\ \A f : IsFolder(dest, f) => IsFolder(dest', f)
      BY <2>1, <1>1, Landing
    <2>3. entry.from \in Paths /\ Len(entry.from) = Len(merging) /\ Len(merging) \in Nat
      BY <1>1, EntryDepth, Innermost DEF TreeShape
    <2>4. IsTree(source')
      BY <2>1, <2>3, <1>1, CutOf DEF AreTrees
    <2>5. \A i \in 1..Len(merging) : IsFolder(source', merging[i].folder)
      <3>1. Len(entry.from) >= Len(merging)
        BY <2>3
      <3> QED
        BY <3>1, <2>1, <2>3, <1>1, MergedOutlive
    <2>6. FoldersStay'
      BY <2>2, <2>5, <1>1 DEF FoldersStay, TreeShape, IsFolder
    <2> QED
      BY <2>2, <2>4, <2>6, <1>3 DEF AreTrees, TreeShape
  <1> QED
    BY <1>4, <1>5

\* The step that publishes.
LEMMA PublishIs ==
  ASSUME Placed, PublishTree
  PROVE  /\ Active /\ merging # <<>> /\ doing # "done" /\ IsTree(copy) /\ <<>> \in DOMAIN copy
         /\ \/ doing' = "done" /\ ending' = "failed" /\ UNCHANGED <<dest, given>>
            \/ /\ dest' = Graft(dest, entry.to, copy)
               /\ given' = given \cup ({entry.replaces} \ {Nothing})
               /\ entry.to \in DOMAIN dest => entry.replaces # Nothing /\ dest[entry.to] = entry.replaces
               /\ \/ doing' = (IF asked.move THEN "comparing" ELSE "picking") /\ ending' = ending
                  \/ doing' = "done" /\ ending' = "failed"
  <1>1. Active /\ merging # <<>> /\ doing # "done" /\ IsTree(copy) /\ <<>> \in DOMAIN copy
    BY DEF PublishTree, Active, Placed, TreeShape, EntryShape, CopyShape
  <1>2. \/ doing' = "done" /\ ending' = "failed" /\ UNCHANGED <<dest, given>>
        \/ /\ dest' = Graft(dest, entry.to, copy)
           /\ given' = given \cup ({entry.replaces} \ {Nothing})
           /\ entry.to \in DOMAIN dest => entry.replaces # Nothing /\ dest[entry.to] = entry.replaces
           /\ \/ doing' = (IF asked.move THEN "comparing" ELSE "picking") /\ ending' = ending
              \/ doing' = "done" /\ ending' = "failed"
    BY DEF PublishTree, Fail, Either
  <1> QED
    BY <1>1, <1>2

\* So does publishing a copy.
LEMMA PublishShape == Placed /\ PublishTree => Placed'
  <1> SUFFICES ASSUME Placed, PublishTree
               PROVE  AreTrees' /\ (doing' # "done" => TreeShape')
    BY DEF Placed
  <1>1. /\ doing = "publishing" /\ Active /\ merging # <<>> /\ doing # "done"
        /\ IsTree(copy) /\ <<>> \in DOMAIN copy
        /\ AreTrees /\ TreeShape /\ UNCHANGED <<source, asked, merging, entry, copy, emptying>>
    BY PublishIs DEF PublishTree, Placed
  <1>2. CASE doing' = "done" /\ UNCHANGED <<dest, given>>
    BY <1>1, <1>2 DEF AreTrees
  <1>3. CASE /\ dest' = Graft(dest, entry.to, copy)
             /\ entry.to \in DOMAIN dest => entry.replaces # Nothing /\ dest[entry.to] = entry.replaces
             /\ doing' \in {"comparing", "picking", "done"}
    <2>1. IsTree(dest') /\ \A f : IsFolder(dest, f) => IsFolder(dest', f)
      BY <1>1, <1>3, Landing
    <2>2. AreTrees' /\ MergeShape'
      BY <2>1, <1>1 DEF AreTrees, TreeShape, MergeShape
    <2>3. FoldersStay'
      BY <2>1, <1>1 DEF TreeShape, FoldersStay, IsFolder
    <2>4. EntryShape'
      BY <1>1, <1>3 DEF TreeShape, EntryShape, Active
    <2>5. CopyShape' /\ (doing' # "done" => RemovalShape')
      BY <1>1, <1>3 DEF TreeShape, CopyShape, RemovalShape, Active
    <2> QED
      BY <2>2, <2>3, <2>4, <2>5 DEF TreeShape
  <1> QED
    BY <1>2, <1>3, PublishIs

\* Reading the source and comparing change neither tree.
LEMMA ReadShape == Placed /\ (CopyTree \/ CompareTree \/ Equate \/ RemovalFails) => Placed'
  <1> SUFFICES ASSUME Placed, CopyTree \/ CompareTree \/ Equate \/ RemovalFails
               PROVE  AreTrees' /\ (doing' # "done" => TreeShape')
    BY DEF Placed
  <1>1. /\ Active /\ doing # "done" /\ merging # <<>> /\ AreTrees /\ TreeShape
        /\ UNCHANGED <<source, dest, asked, merging, entry, emptying>>
    BY DEF CopyTree, CompareTree, Equate, RemovalFails, Active, Placed, TreeShape, EntryShape
  <1>2. AreTrees' /\ MergeShape' /\ FoldersStay'
    BY <1>1 DEF AreTrees, TreeShape, MergeShape, FoldersStay, IsFolder
  <1>3. ASSUME doing' # "done"
        PROVE  /\ doing # "removing" /\ doing' \in {"publishing", "equating", "removing"}
               /\ doing' = "publishing" =>
                    entry.from \in DOMAIN source /\ copy' = Sub(source, entry.from)
    <2>1. CASE CopyTree
      BY <1>3, <2>1 DEF CopyTree, Fail
    <2>2. CASE CompareTree
      BY <1>3, <2>2 DEF CompareTree, Fail, Differs
    <2>3. CASE Equate
      BY <1>3, <2>3 DEF Equate, Fail, Differs
    <2>4. CASE RemovalFails
      BY <1>3, <2>4 DEF RemovalFails, Fail
    <2> QED
      BY <2>1, <2>2, <2>3, <2>4
  <1>4. ASSUME doing' # "done"
        PROVE  EntryShape' /\ CopyShape' /\ RemovalShape'
    <2>1. EntryShape'
      BY <1>1, <1>3, <1>4 DEF TreeShape, EntryShape, Active
    <2>2. CopyShape'
      BY <1>1, <1>3, <1>4, SubOf DEF TreeShape, CopyShape, EntryShape, AreTrees
    <2>3. emptying' = <<>>
      BY <1>1, <1>3, <1>4 DEF TreeShape, RemovalShape
    <2>4. <<>> \in Seq(Frame) /\ Len(<<>>) = 0
      BY EmptySeq
    <2> QED
      BY <2>1, <2>2, <2>3, <2>4, <1>3, <1>4 DEF RemovalShape, Active
  <1> QED
    BY <1>2, <1>4 DEF TreeShape

\* What is due to be removed: the entry itself, or a name of the innermost folder, below
\* which no folder has been opened.
LEMMA DueIs ==
  ASSUME Placed, doing = "removing", NEW p \in Due
  PROVE  /\ p \in Paths /\ IsPrefix(entry.from, p) /\ entry.from \in Paths
         /\ Len(p) = Len(entry.from) + Len(emptying) /\ Len(emptying) \in Nat /\ Len(entry.from) \in Nat
         /\ emptying \in Seq(Frame)
         /\ emptying = <<>> => p = entry.from
         /\ emptying # <<>> => p \in emptying[Len(emptying)].names
         /\ \A i \in 1..Len(emptying) :
              ~IsPrefix(p, emptying[i].folder) /\ p # emptying[i].folder
  <1>1. TreeShape /\ entry.from \in Paths /\ Len(entry.from) \in Nat
    <2>1. TreeShape /\ entry.from \in Paths
      BY DEF Placed, Active, TreeShape, EntryShape
    <2> QED
      BY <2>1 DEF Paths
  <1>2. /\ emptying \in Seq(Frame)
        /\ \A i \in 1..Len(emptying) :
             /\ IsPrefix(entry.from, emptying[i].folder)
             /\ Len(emptying[i].folder) = Len(entry.from) + i - 1
             /\ \A n \in emptying[i].names :
                  Len(n) = Len(entry.from) + i /\ IsPrefix(emptying[i].folder, n)
    BY <1>1 DEF TreeShape, RemovalShape
  <1>3. /\ Len(emptying) \in Nat
        /\ emptying = <<>> <=> Len(emptying) = 0
        /\ emptying # <<>> => Len(emptying) \in 1..Len(emptying) /\ Top = emptying[Len(emptying)]
    BY <1>2, StackTop DEF Top
  <1>4. \A i \in 1..Len(emptying) : emptying[i] \in Frame
    BY <1>2, ElementOfSeq
  <1>5. CASE emptying = <<>>
    BY <1>1, <1>2, <1>3, <1>5, PrefixOrder DEF Due
  <1>6. CASE emptying # <<>>
    <2> DEFINE f == emptying[Len(emptying)]
    <2>1. p \in f.names /\ f \in Frame /\ f.folder \in Paths /\ p \in Paths
      BY <1>3, <1>4, <1>6 DEF Due, Frame
    <2>2. IsPrefix(entry.from, f.folder) /\ IsPrefix(f.folder, p) /\ Len(p) = Len(entry.from) + Len(emptying)
      BY <1>2, <1>3, <1>6, <2>1
    <2>3. IsPrefix(entry.from, p)
      BY <2>1, <2>2, <1>1, PrefixOrder
    <2>4. ASSUME NEW i \in 1..Len(emptying)
          PROVE  ~IsPrefix(p, emptying[i].folder) /\ p # emptying[i].folder
      <3>1. emptying[i].folder \in Paths /\ Len(emptying[i].folder) = Len(entry.from) + i - 1
        BY <1>2, <1>4 DEF Frame
      <3>2. ~(Len(p) <= Len(emptying[i].folder))
        BY <3>1, <2>2, <1>1, <1>3
      <3> QED
        BY <3>1, <3>2, <2>1, PrefixOrder
    <2> QED
      BY <2>1, <2>2, <2>3, <2>4, <1>1, <1>2, <1>3, <1>6
  <1> QED
    BY <1>5, <1>6

\* What taking a name from the innermost folder leaves.
LEMMA RestIs ==
  ASSUME Placed, doing = "removing", NEW p \in Due, emptying # <<>>
  PROVE  /\ Rest(p) \in Seq(Frame) /\ Len(Rest(p)) = Len(emptying) /\ Rest(p) # <<>>
         /\ \A i \in 1..Len(emptying) :
              /\ Rest(p)[i].folder = emptying[i].folder
              /\ Rest(p)[i].names =
                   IF i = Len(emptying) THEN emptying[i].names \ {p} ELSE emptying[i].names
  <1>1. emptying \in Seq(Frame) /\ Len(emptying) \in Nat
    BY DueIs
  <1>2. /\ Len(emptying) \in 1..Len(emptying) /\ Top = emptying[Len(emptying)] /\ Top \in Frame
        /\ Front(emptying) \in Seq(Frame) /\ Len(Front(emptying)) = Len(emptying) - 1
        /\ \A i \in 1..(Len(emptying) - 1) : Front(emptying)[i] = emptying[i]
    BY <1>1, StackTop DEF Top
  <1> DEFINE e == [Top EXCEPT !.names = @ \ {p}]
  <1>3. e \in Frame /\ e.folder = Top.folder /\ e.names = Top.names \ {p}
    BY <1>2 DEF Frame
  <1> HIDE DEF e
  <1>4. Rest(p) = Append(Front(emptying), e)
    BY DEF Rest, e
  <1>5. /\ Rest(p) \in Seq(Frame) /\ Len(Rest(p)) = Len(Front(emptying)) + 1 /\ Rest(p) # <<>>
        /\ \A i \in 1..Len(Front(emptying)) : Rest(p)[i] = Front(emptying)[i]
        /\ Rest(p)[Len(Front(emptying)) + 1] = e
    BY <1>2, <1>3, <1>4, StackPush
  <1>6. ASSUME NEW i \in 1..Len(emptying)
        PROVE  /\ Rest(p)[i].folder = emptying[i].folder
               /\ Rest(p)[i].names =
                   IF i = Len(emptying) THEN emptying[i].names \ {p} ELSE emptying[i].names
    <2>1. CASE i = Len(emptying)
      BY <2>1, <1>1, <1>2, <1>3, <1>5
    <2>2. CASE i # Len(emptying)
      <3>1. i \in 1..(Len(emptying) - 1)
        BY <2>2, <1>1
      <3> QED
        BY <3>1, <2>2, <1>2, <1>5
    <2> QED
      BY <2>1, <2>2
  <1>7. Len(Front(emptying)) + 1 = Len(emptying)
    BY <1>1, <1>2
  <1> QED
    BY <1>5, <1>6, <1>7

\* Whatever a removal takes from the source, the folders that are merged outlive it.
LEMMA RemovalKeeps ==
  ASSUME Placed, doing = "removing", NEW p \in Paths, IsPrefix(entry.from, p),
         source' = Cut(source, p), UNCHANGED <<dest, asked, merging, entry, copy>>,
         doing' \in {"removing", "picking", "done"}
  PROVE  AreTrees' /\ MergeShape' /\ FoldersStay' /\ EntryShape' /\ CopyShape'
  <1>1. Active /\ merging # <<>> /\ TreeShape /\ AreTrees
    BY DEF Placed, Active, TreeShape, EntryShape
  <1>2. AreTrees'
    BY <1>1, CutOf DEF AreTrees
  <1>3. \A i \in 1..Len(merging) : IsFolder(source', merging[i].folder)
    <2>1. /\ entry.from \in Paths /\ Len(entry.from) = Len(merging)
      BY <1>1, EntryDepth DEF TreeShape
    <2>2. Len(p) >= Len(merging)
      <3>1. Len(entry.from) <= Len(p) /\ Len(p) \in Nat /\ Len(entry.from) \in Nat
        BY <2>1, PrefixOrder
      <3> QED
        BY <2>1, <3>1
    <2> QED
      BY <2>2, <1>1, MergedOutlive
  <1>4. FoldersStay'
    BY <1>1, <1>3 DEF TreeShape, FoldersStay, IsFolder
  <1>5. MergeShape' /\ EntryShape' /\ CopyShape'
    BY <1>1 DEF TreeShape, MergeShape, EntryShape, CopyShape, Active
  <1> QED
    BY <1>2, <1>4, <1>5

\* The two ways a removal takes an entry.
LEMMA RemoveEntryIs ==
  ASSUME RemoveEntry
  PROVE  \E p \in Due \cap DOMAIN source :
           \/ /\ source[p] # Dir /\ source' = Cut(source, p) /\ emptying' = Rest(p) /\ Removed
           \/ /\ source[p] = Dir /\ UNCHANGED <<source, doing, ending>>
              /\ emptying' = Append(Rest(p), [folder |-> p, names |-> Names(source, p)])
  BY Zenon DEF RemoveEntry

\* Removing a file, or opening a folder that is to be removed, keeps the shape,
LEMMA RemoveEntryShape == Placed /\ RemoveEntry => Placed'
  <1> SUFFICES ASSUME Placed, RemoveEntry
               PROVE  AreTrees' /\ (doing' # "done" => TreeShape')
    BY DEF Placed
  <1>1. PICK p \in Due \cap DOMAIN source :
           \/ /\ source[p] # Dir /\ source' = Cut(source, p) /\ emptying' = Rest(p) /\ Removed
           \/ /\ source[p] = Dir /\ UNCHANGED <<source, doing, ending>>
              /\ emptying' = Append(Rest(p), [folder |-> p, names |-> Names(source, p)])
    BY RemoveEntryIs
  <1>2. /\ doing = "removing" /\ doing # "done" /\ UNCHANGED <<dest, asked, merging, entry, copy>>
    BY DEF RemoveEntry
  <1>3. /\ p \in Paths /\ IsPrefix(entry.from, p) /\ entry.from \in Paths
        /\ Len(p) = Len(entry.from) + Len(emptying) /\ Len(emptying) \in Nat /\ Len(entry.from) \in Nat
        /\ emptying \in Seq(Frame)
        /\ emptying = <<>> => p = entry.from
        /\ \A i \in 1..Len(emptying) :
             ~IsPrefix(p, emptying[i].folder) /\ p # emptying[i].folder
    BY <1>1, <1>2, DueIs
  <1>4. AreTrees /\ TreeShape /\ merging # <<>>
    BY <1>2 DEF Placed, TreeShape, EntryShape, Active
  <1>5. \A i \in 1..Len(emptying) :
          /\ IsPrefix(entry.from, emptying[i].folder)
          /\ Len(emptying[i].folder) = Len(entry.from) + i - 1
          /\ IsFolder(source, emptying[i].folder)
          /\ \A n \in emptying[i].names :
               Len(n) = Len(entry.from) + i /\ IsPrefix(emptying[i].folder, n)
    BY <1>2, <1>4 DEF TreeShape, RemovalShape
  <1>6. CASE source[p] # Dir /\ source' = Cut(source, p) /\ emptying' = Rest(p) /\ Removed
    <2>1. doing' \in {"removing", "picking", "done"}
          /\ (emptying' = <<>> => doing' \in {"picking", "done"})
          /\ (emptying' # <<>> => doing' = "removing")
      BY <1>2, <1>6 DEF Removed, Either, Fail
    <2>2. AreTrees' /\ MergeShape' /\ FoldersStay' /\ EntryShape' /\ CopyShape'
      BY <1>2, <1>3, <1>6, <2>1, RemovalKeeps
    <2>3. CASE emptying = <<>>
      <3>1. emptying' = <<>>
        BY <1>6, <2>3 DEF Rest
      <3>2. doing' # "done" => RemovalShape'
        BY <3>1, <2>1, <1>2, <1>4 DEF RemovalShape, Active
      <3> QED
        BY <2>2, <3>2 DEF TreeShape
    <2>4. CASE emptying # <<>>
      <3>1. /\ emptying' \in Seq(Frame) /\ Len(emptying') = Len(emptying) /\ emptying' # <<>>
            /\ \A i \in 1..Len(emptying) :
                 emptying'[i].folder = emptying[i].folder /\ emptying'[i].names \subseteq emptying[i].names
        <4>1. /\ Rest(p) \in Seq(Frame) /\ Len(Rest(p)) = Len(emptying) /\ Rest(p) # <<>>
              /\ \A i \in 1..Len(emptying) :
                   /\ Rest(p)[i].folder = emptying[i].folder
                   /\ Rest(p)[i].names =
                        IF i = Len(emptying) THEN emptying[i].names \ {p} ELSE emptying[i].names
          BY <1>2, <2>4, RestIs
        <4> QED
          BY <4>1, <1>6
      <3>2. doing' = "removing"
        BY <3>1, <2>1
      <3>3. \A i \in 1..Len(emptying') : IsFolder(source', emptying'[i].folder)
        BY <3>1, <1>3, <1>4, <1>5, <1>6, FolderCut DEF AreTrees
      <3>4. RemovalShape'
        <4> SUFFICES ASSUME NEW i \in 1..Len(emptying')
                     PROVE  /\ IsPrefix(entry.from, emptying'[i].folder)
                            /\ Len(emptying'[i].folder) = Len(entry.from) + i - 1
                            /\ IsFolder(source', emptying'[i].folder)
                            /\ \A n \in emptying'[i].names :
                                 Len(n) = Len(entry.from) + i /\ IsPrefix(emptying'[i].folder, n)
          BY <1>2, <3>1, <3>2 DEF RemovalShape, Active, IsFolder
        <4> QED
          BY <1>5, <3>1, <3>3
      <3> QED
        BY <2>2, <3>4 DEF TreeShape
    <2> QED
      BY <2>3, <2>4
  <1>7. CASE /\ source[p] = Dir /\ UNCHANGED <<source, doing, ending>>
             /\ emptying' = Append(Rest(p), [folder |-> p, names |-> Names(source, p)])
    <2> DEFINE e == [folder |-> p, names |-> Names(source, p)]
    <2>1. /\ \A n \in Names(source, p) : n \in Paths /\ Len(n) = Len(p) + 1 /\ IsPrefix(p, n)
          /\ e \in Frame /\ e.folder = p /\ e.names = Names(source, p)
      BY <1>3, <1>4, NamesOf DEF AreTrees, Frame
    <2>2. /\ Rest(p) \in Seq(Frame) /\ Len(Rest(p)) = Len(emptying)
          /\ \A i \in 1..Len(emptying) :
                 Rest(p)[i].folder = emptying[i].folder /\ Rest(p)[i].names \subseteq emptying[i].names
      <3>1. CASE emptying = <<>>
        BY <3>1, <1>3 DEF Rest
      <3>2. CASE emptying # <<>>
        <4>1. /\ Rest(p) \in Seq(Frame) /\ Len(Rest(p)) = Len(emptying) /\ Rest(p) # <<>>
              /\ \A i \in 1..Len(emptying) :
                   /\ Rest(p)[i].folder = emptying[i].folder
                   /\ Rest(p)[i].names =
                        IF i = Len(emptying) THEN emptying[i].names \ {p} ELSE emptying[i].names
          BY <1>2, <3>2, RestIs
        <4> QED
          BY <4>1
      <3> QED
        BY <3>1, <3>2
    <2> HIDE DEF e
    <2>3. /\ emptying' \in Seq(Frame) /\ Len(emptying') = Len(emptying) + 1 /\ emptying' # <<>>
          /\ \A i \in 1..Len(emptying) : emptying'[i] = Rest(p)[i]
          /\ emptying'[Len(emptying) + 1] = e
      <3>1. emptying' = Append(Rest(p), e)
        BY <1>7 DEF e
      <3> QED
        BY <3>1, <2>1, <2>2, StackPush
    <2>4. AreTrees' /\ MergeShape' /\ FoldersStay' /\ EntryShape' /\ CopyShape'
      BY <1>2, <1>4, <1>7 DEF AreTrees, TreeShape, MergeShape, FoldersStay, EntryShape, CopyShape,
                              IsFolder, Active
    <2>5. RemovalShape'
      <3> SUFFICES ASSUME NEW i \in 1..Len(emptying')
                   PROVE  /\ IsPrefix(entry.from, emptying'[i].folder)
                          /\ Len(emptying'[i].folder) = Len(entry.from) + i - 1
                          /\ IsFolder(source, emptying'[i].folder)
                          /\ \A n \in emptying'[i].names :
                               Len(n) = Len(entry.from) + i /\ IsPrefix(emptying'[i].folder, n)
        BY <1>2, <1>7, <2>3 DEF RemovalShape, Active, IsFolder
      <3>1. CASE i \in 1..Len(emptying)
        BY <3>1, <1>5, <2>2, <2>3
      <3>2. CASE i = Len(emptying) + 1
        <4>1. emptying'[i].folder = p /\ emptying'[i].names = Names(source, p)
          BY <3>2, <2>1, <2>3
        <4>2. IsFolder(source, p)
          BY <1>1, <1>7 DEF IsFolder
        <4>3. Len(p) = Len(entry.from) + i - 1 /\ Len(p) + 1 = Len(entry.from) + i
          <5>1. /\ Len(p) = Len(entry.from) + Len(emptying)
                /\ Len(emptying) \in Nat /\ Len(entry.from) \in Nat
            BY <1>3
          <5>2. \A a \in Nat, b \in Nat : a + b = a + (b + 1) - 1 /\ (a + b) + 1 = a + (b + 1)
            OBVIOUS
          <5>3. i = Len(emptying) + 1
            BY <3>2
          <5> QED
            BY <5>1, <5>2, <5>3
        <4> QED
          BY <4>1, <4>2, <4>3, <1>3, <2>1
      <3> QED
        BY <3>1, <3>2, <1>3, <2>3
    <2> QED
      BY <2>4, <2>5 DEF TreeShape
  <1> QED
    BY <1>1, <1>6, <1>7

\* The folder that is removed is the innermost, and there is nothing in it.
LEMMA RemoveFolderIs ==
  ASSUME Placed, RemoveFolder
  PROVE  /\ doing = "removing" /\ emptying \in Seq(Frame) /\ emptying # <<>>
         /\ Len(emptying) \in 1..Len(emptying) /\ Top = emptying[Len(emptying)]
         /\ Top.folder \in Paths /\ IsPrefix(entry.from, Top.folder) /\ IsFolder(source, Top.folder)
         /\ entry.from \in Paths
         /\ Len(Top.folder) = Len(entry.from) + Len(emptying) - 1
         /\ Len(emptying) \in Nat /\ Len(entry.from) \in Nat
         /\ \A q \in DOMAIN source : IsPrefix(Top.folder, q) => q = Top.folder
         /\ source' = Cut(source, Top.folder) /\ emptying' = Front(emptying) /\ Removed
         /\ emptying' \in Seq(Frame) /\ Len(emptying') = Len(emptying) - 1
         /\ \A i \in 1..(Len(emptying) - 1) : emptying'[i] = emptying[i]
  <1>1. doing = "removing" /\ emptying # <<>> /\ source' = Cut(source, Top.folder)
        /\ emptying' = Front(emptying) /\ Removed /\ Names(source, Top.folder) = {}
    BY DEF RemoveFolder
  <1>2. /\ AreTrees /\ emptying \in Seq(Frame)
        /\ \A i \in 1..Len(emptying) :
             /\ IsPrefix(entry.from, emptying[i].folder)
             /\ Len(emptying[i].folder) = Len(entry.from) + i - 1
             /\ IsFolder(source, emptying[i].folder)
    BY <1>1 DEF Placed, TreeShape, RemovalShape
  <1>3. /\ Len(emptying) \in 1..Len(emptying) /\ Top = emptying[Len(emptying)] /\ Top \in Frame
        /\ emptying' \in Seq(Frame) /\ Len(emptying') = Len(emptying) - 1 /\ Len(emptying) \in Nat
        /\ \A i \in 1..(Len(emptying) - 1) : emptying'[i] = emptying[i]
    BY <1>1, <1>2, StackTop DEF Top
  <1>4. Top.folder \in Paths
    BY <1>3 DEF Frame
  <1>5. entry.from \in Paths /\ Len(entry.from) \in Nat
    <2>1. entry.from \in Paths
      BY <1>1 DEF Placed, TreeShape, EntryShape, Active
    <2> QED
      BY <2>1 DEF Paths
  <1>6. \A q \in DOMAIN source : IsPrefix(Top.folder, q) => q = Top.folder
    BY <1>1, <1>2, <1>4, NamesOf DEF AreTrees
  <1> QED
    BY <1>1, <1>2, <1>3, <1>4, <1>5, <1>6

\* and so does removing a folder that is empty by then.
LEMMA RemoveFolderShape == Placed /\ RemoveFolder => Placed'
  <1> SUFFICES ASSUME Placed, RemoveFolder
               PROVE  AreTrees' /\ (doing' # "done" => TreeShape')
    BY DEF Placed
  <1>1. /\ doing = "removing" /\ emptying \in Seq(Frame) /\ emptying # <<>>
        /\ Len(emptying) \in 1..Len(emptying) /\ Top = emptying[Len(emptying)]
        /\ Top.folder \in Paths /\ IsPrefix(entry.from, Top.folder)
        /\ Len(Top.folder) = Len(entry.from) + Len(emptying) - 1
        /\ Len(emptying) \in Nat /\ Len(entry.from) \in Nat
        /\ source' = Cut(source, Top.folder) /\ Removed
        /\ emptying' \in Seq(Frame) /\ Len(emptying') = Len(emptying) - 1
        /\ \A i \in 1..(Len(emptying) - 1) : emptying'[i] = emptying[i]
    BY RemoveFolderIs
  <1>2. UNCHANGED <<dest, asked, merging, entry, copy>>
    BY DEF RemoveFolder
  <1>3. doing' \in {"removing", "picking", "done"}
        /\ (emptying' = <<>> => doing' \in {"picking", "done"})
        /\ (emptying' # <<>> => doing' = "removing")
    BY <1>1 DEF Removed, Either, Fail
  <1>4. AreTrees' /\ MergeShape' /\ FoldersStay' /\ EntryShape' /\ CopyShape'
    BY <1>1, <1>2, <1>3, RemovalKeeps
  <1>5. AreTrees /\ TreeShape /\ merging # <<>>
    BY <1>1 DEF Placed, TreeShape, EntryShape, Active
  <1>6. ASSUME NEW i \in 1..Len(emptying')
        PROVE  /\ IsPrefix(entry.from, emptying'[i].folder)
               /\ Len(emptying'[i].folder) = Len(entry.from) + i - 1
               /\ IsFolder(source', emptying'[i].folder)
               /\ \A n \in emptying'[i].names :
                    Len(n) = Len(entry.from) + i /\ IsPrefix(emptying'[i].folder, n)
    <2>1. i \in 1..Len(emptying) /\ i < Len(emptying) /\ emptying'[i] = emptying[i]
      BY <1>1
    <2>2. /\ IsPrefix(entry.from, emptying[i].folder)
          /\ Len(emptying[i].folder) = Len(entry.from) + i - 1
          /\ IsFolder(source, emptying[i].folder)
          /\ \A n \in emptying[i].names :
               Len(n) = Len(entry.from) + i /\ IsPrefix(emptying[i].folder, n)
      BY <2>1, <1>1, <1>5 DEF TreeShape, RemovalShape
    <2>3. emptying[i].folder \in Paths
      <3>1. emptying[i] \in Frame
        BY <2>1, <1>1, ElementOfSeq
      <3> QED
        BY <3>1 DEF Frame
    <2>4. ~IsPrefix(Top.folder, emptying[i].folder)
      <3>1. ~(Len(Top.folder) <= Len(emptying[i].folder))
        BY <2>1, <2>2, <1>1
      <3> QED
        BY <3>1, <2>3, <1>1, PrefixOrder
    <2>5. IsFolder(source', emptying[i].folder)
      BY <2>2, <2>4, <1>1, <1>5, FolderCut DEF AreTrees
    <2> QED
      BY <2>1, <2>2, <2>5
  <1>7. doing' # "done" => RemovalShape'
    BY <1>1, <1>2, <1>3, <1>5, <1>6 DEF RemovalShape, Active, IsFolder
  <1> QED
    BY <1>4, <1>7 DEF TreeShape

\* Picking a name takes it from those that are left.
LEMMA PickIs ==
  ASSUME Placed, Pick
  PROVE  /\ doing = "picking" /\ merging # <<>> /\ doing' = "inspecting"
         /\ Last(merging) = merging[Len(merging)] /\ Len(merging) \in 1..Len(merging)
         /\ entry'.from \in Last(merging).names /\ entry'.to = entry'.from /\ entry'.replaces = Nothing
         /\ entry' = [from |-> entry'.from, to |-> entry'.to, replaces |-> entry'.replaces,
                      looked |-> entry'.looked]
         /\ entry'.from \in Paths /\ entry'.from # <<>> /\ Front(entry'.from) = Last(merging).folder
         /\ Len(entry'.from) = Len(merging)
         /\ merging' \in Seq(Frame) /\ merging' # <<>> /\ Len(merging') = Len(merging)
         /\ \A i \in 1..Len(merging) :
              /\ merging'[i].folder = merging[i].folder
              /\ merging'[i].names =
                   IF i = Len(merging) THEN merging[i].names \ {entry'.from} ELSE merging[i].names
  <1>1. /\ doing = "picking" /\ doing' = "inspecting" /\ merging # <<>> /\ MergeShape
    BY DEF Pick, Placed, TreeShape, RemovalShape
  <1>2. PICK p \in Last(merging).names :
          /\ entry' = [NoEntry EXCEPT !.from = p, !.to = p]
          /\ merging' = Append(Front(merging), [Last(merging) EXCEPT !.names = @ \ {p}])
    BY Zenon DEF Pick
  <1>3. /\ entry'.from = p /\ entry'.to = p /\ entry'.replaces = Nothing
        /\ entry' = [from |-> entry'.from, to |-> entry'.to, replaces |-> entry'.replaces,
                     looked |-> entry'.looked]
    BY <1>2 DEF NoEntry
  <1>4. /\ Len(merging) \in 1..Len(merging) /\ Last(merging) = merging[Len(merging)]
        /\ Len(merging) \in Nat /\ Last(merging) \in Frame
        /\ Front(merging) \in Seq(Frame) /\ Len(Front(merging)) = Len(merging) - 1
        /\ \A i \in 1..(Len(merging) - 1) : Front(merging)[i] = merging[i]
    BY <1>1, Innermost
  <1>5. /\ Last(merging).folder \in Paths /\ Len(Last(merging).folder) = Len(merging) - 1
        /\ p \in Paths /\ Len(p) = Len(merging) /\ IsPrefix(Last(merging).folder, p)
    BY <1>1, <1>2, <1>4, MergedFolder
  <1>6. p # <<>> /\ Front(p) = Last(merging).folder
    <2>1. p # <<>>
      <3>1. Len(<<>>) = 0
        OBVIOUS
      <3> QED
        BY <3>1, <1>4, <1>5
    <2>2. Front(p) \in Paths /\ Len(Front(p)) = Len(p) - 1 /\ IsPrefix(Front(p), p)
      BY <2>1, <1>5, FrontOf
    <2> QED
      BY <2>1, <2>2, <1>5, PrefixOrder
  <1> DEFINE e == [Last(merging) EXCEPT !.names = @ \ {p}]
  <1>7. e \in Frame /\ e.folder = Last(merging).folder /\ e.names = Last(merging).names \ {p}
    BY <1>4 DEF Frame
  <1>8. merging' = Append(Front(merging), e)
    BY <1>2
  <1> HIDE DEF e
  <1>9. /\ merging' \in Seq(Frame) /\ Len(merging') = Len(Front(merging)) + 1 /\ merging' # <<>>
        /\ \A i \in 1..Len(Front(merging)) : merging'[i] = Front(merging)[i]
        /\ merging'[Len(Front(merging)) + 1] = e
    BY <1>4, <1>7, <1>8, StackPush
  <1>10. ASSUME NEW i \in 1..Len(merging)
         PROVE  /\ merging'[i].folder = merging[i].folder
                /\ merging'[i].names =
                     IF i = Len(merging) THEN merging[i].names \ {p} ELSE merging[i].names
    <2>1. CASE i = Len(merging)
      BY <2>1, <1>4, <1>7, <1>9
    <2>2. CASE i # Len(merging)
      <3>1. i \in 1..(Len(merging) - 1)
        BY <2>2, <1>4
      <3> QED
        BY <3>1, <2>2, <1>4, <1>9
    <2> QED
      BY <2>1, <2>2
  <1>11. Len(merging') = Len(merging)
    BY <1>4, <1>9
  <1> QED
    BY <1>1, <1>2, <1>3, <1>4, <1>5, <1>6, <1>9, <1>10, <1>11

\* The next entry is a name of the innermost folder, which it leaves.
LEMMA PickShape == Placed /\ Pick => Placed'
  <1> SUFFICES ASSUME Placed, Pick
               PROVE  AreTrees' /\ TreeShape'
    BY DEF Placed
  <1>1. /\ doing = "picking" /\ merging # <<>> /\ doing' = "inspecting"
        /\ Last(merging) = merging[Len(merging)] /\ Len(merging) \in 1..Len(merging)
        /\ entry'.from \in Last(merging).names /\ entry'.to = entry'.from /\ entry'.replaces = Nothing
        /\ entry' = [from |-> entry'.from, to |-> entry'.to, replaces |-> entry'.replaces,
                     looked |-> entry'.looked]
        /\ entry'.from \in Paths /\ entry'.from # <<>> /\ Front(entry'.from) = Last(merging).folder
        /\ Len(entry'.from) = Len(merging)
        /\ merging' \in Seq(Frame) /\ merging' # <<>> /\ Len(merging') = Len(merging)
        /\ \A i \in 1..Len(merging) :
             /\ merging'[i].folder = merging[i].folder
             /\ merging'[i].names =
                  IF i = Len(merging) THEN merging[i].names \ {entry'.from} ELSE merging[i].names
    BY PickIs
  <1>2. AreTrees /\ TreeShape /\ UNCHANGED <<source, dest, asked, emptying>>
    BY <1>1 DEF Placed, Pick
  <1>3. \A i \in 1..Len(merging) : merging'[i].names \subseteq merging[i].names
    BY <1>1
  <1>4. AreTrees' /\ MergeShape'
    <2>1. AreTrees'
      BY <1>2 DEF AreTrees
    <2>2. MergeShape'
      BY <1>1, <1>2, <1>3 DEF TreeShape, MergeShape
    <2> QED
      BY <2>1, <2>2
  <1>5. FoldersStay'
    BY <1>1, <1>2 DEF TreeShape, FoldersStay, IsFolder
  <1>6. Last(merging') = merging'[Len(merging)]
    BY <1>1 DEF Last
  <1>7. ASSUME NEW i \in 1..Len(merging), NEW n \in merging'[i].names
        PROVE  ~IsPrefix(n, entry'.from)
    <2>1. n \in Paths /\ Len(n) = i /\ i \in Nat /\ n \in merging[i].names
      <3>1. n \in merging[i].names
        BY <1>3
      <3> QED
        BY <3>1, <1>2, MergedFolder DEF TreeShape
    <2>2. CASE i = Len(merging)
      <3>1. n # entry'.from
        BY <2>2, <1>1
      <3> QED
        BY <3>1, <2>1, <2>2, <1>1, PrefixOrder
    <2>3. CASE i # Len(merging)
      <3>1. i < Len(merging)
        BY <2>3, <1>1
      <3>2. ~IsPrefix(n, Front(entry'.from))
        BY <3>1, <2>1, <1>1, <1>2 DEF TreeShape, MergeShape
      <3>3. n # entry'.from
        BY <3>1, <2>1, <1>1
      <3> QED
        BY <3>2, <3>3, <2>1, <1>1, FrontOf
    <2> QED
      BY <2>2, <2>3
  <1>8. EntryShape'
    BY <1>1, <1>6, <1>7 DEF EntryShape
  <1>9. CopyShape' /\ RemovalShape'
    BY <1>1, <1>2 DEF TreeShape, CopyShape, RemovalShape, Active
  <1> QED
    BY <1>4, <1>5, <1>8, <1>9 DEF TreeShape

\* The end of a merge: the innermost folder goes when it is empty and is to be moved.
LEMMA EndMergeIs ==
  ASSUME Placed, EndMerge
  PROVE  /\ doing = "picking" /\ merging # <<>> /\ Last(merging).names = {} /\ emptying = <<>>
         /\ Last(merging) = merging[Len(merging)] /\ Len(merging) \in 1..Len(merging)
         /\ Len(merging) \in Nat
         /\ Last(merging).folder \in Paths /\ Len(Last(merging).folder) = Len(merging) - 1
         /\ IsFolder(source, Last(merging).folder)
         /\ \/ source' = source
            \/ /\ source' = Cut(source, Last(merging).folder)
               /\ \A q \in DOMAIN source : IsPrefix(Last(merging).folder, q) => source[q] = Dir
         /\ \/ doing' = "done" /\ ending' = "failed"
            \/ /\ merging' = Front(merging)
               /\ merging' \in Seq(Frame) /\ Len(merging') = Len(merging) - 1
               /\ \A i \in 1..(Len(merging) - 1) : merging'[i] = merging[i]
               /\ \/ merging' # <<>> /\ UNCHANGED <<doing, ending>>
                  \/ merging' = <<>> /\ doing' = "done" /\ ending' = "ok"
  <1>1. doing = "picking" /\ merging # <<>> /\ Last(merging).names = {} /\ emptying = <<>>
    BY DEF EndMerge, Placed, TreeShape, RemovalShape
  <1>2. AreTrees /\ MergeShape /\ FoldersStay
    BY <1>1 DEF Placed, TreeShape
  <1>3. /\ Len(merging) \in 1..Len(merging) /\ Last(merging) = merging[Len(merging)]
        /\ Len(merging) \in Nat
        /\ Front(merging) \in Seq(Frame) /\ Len(Front(merging)) = Len(merging) - 1
        /\ \A i \in 1..(Len(merging) - 1) : Front(merging)[i] = merging[i]
    BY <1>1, <1>2, Innermost
  <1>4. /\ Last(merging).folder \in Paths /\ Len(Last(merging).folder) = Len(merging) - 1
        /\ IsFolder(source, Last(merging).folder)
    BY <1>2, <1>3, MergedFolder DEF FoldersStay
  <1>5. Names(source, Last(merging).folder) = {} =>
          \A q \in DOMAIN source : IsPrefix(Last(merging).folder, q) => source[q] = Dir
    BY <1>2, <1>4, NamesOf DEF AreTrees, IsFolder
  <1>6. \/ source' = source
        \/ source' = Cut(source, Last(merging).folder) /\ Names(source, Last(merging).folder) = {}
    BY DEF EndMerge
  <1>7. \/ doing' = "done" /\ ending' = "failed"
        \/ /\ merging' = Front(merging)
           /\ \/ merging' # <<>> /\ UNCHANGED <<doing, ending>>
              \/ merging' = <<>> /\ doing' = "done" /\ ending' = "ok"
    BY DEF EndMerge, Fail
  <1> QED
    BY <1>1, <1>3, <1>4, <1>5, <1>6, <1>7

\* The folders around a merge that ends are still there.
LEMMA EndMergeShape == Placed /\ EndMerge => Placed'
  <1> SUFFICES ASSUME Placed, EndMerge
               PROVE  AreTrees' /\ (doing' # "done" => TreeShape')
    BY DEF Placed
  <1> DEFINE f == Last(merging).folder
  <1>1. /\ doing = "picking" /\ merging # <<>> /\ emptying = <<>>
        /\ Len(merging) \in Nat /\ f \in Paths /\ Len(f) = Len(merging) - 1
        /\ source' = source \/ source' = Cut(source, f)
        /\ doing' # "done" =>
             /\ merging' # <<>> /\ doing' = "picking"
             /\ merging' \in Seq(Frame) /\ Len(merging') = Len(merging) - 1
             /\ \A i \in 1..(Len(merging) - 1) : merging'[i] = merging[i]
    BY EndMergeIs
  <1>2. AreTrees /\ TreeShape /\ UNCHANGED <<dest, asked, entry, copy, emptying>>
    BY <1>1 DEF Placed, EndMerge
  <1> HIDE DEF f
  <1>3. AreTrees'
    BY <1>1, <1>2, CutOf DEF AreTrees
  <1>4. ASSUME doing' # "done"
        PROVE  TreeShape'
    <2>1. MergeShape'
      <3>1. \A i \in 1..Len(merging') : i \in 1..Len(merging) /\ merging'[i] = merging[i]
        BY <1>1, <1>4
      <3> QED
        BY <3>1, <1>1, <1>2, <1>4 DEF TreeShape, MergeShape
    <2>2. ASSUME NEW i \in 1..Len(merging')
          PROVE  IsFolder(source', merging'[i].folder) /\ IsFolder(dest, merging'[i].folder)
      <3>1. i \in 1..Len(merging) /\ i <= Len(merging) - 1 /\ merging'[i] = merging[i] /\ i \in Nat
        BY <1>1, <1>4
      <3>2. IsFolder(source, merging[i].folder) /\ IsFolder(dest, merging[i].folder)
        BY <3>1, <1>2 DEF TreeShape, FoldersStay
      <3>3. merging[i].folder \in Paths /\ Len(merging[i].folder) = i - 1
        BY <3>1, <1>2, MergedFolder DEF TreeShape
      <3>4. ~IsPrefix(f, merging[i].folder)
        <4>1. ~(Len(f) <= Len(merging[i].folder))
          BY <3>1, <3>3, <1>1
        <4> QED
          BY <4>1, <3>3, <1>1, PrefixOrder
      <3>5. IsFolder(Cut(source, f), merging[i].folder)
        BY <3>2, <3>4, <1>1, <1>2, FolderCut DEF AreTrees
      <3> QED
        BY <3>1, <3>2, <3>5, <1>1
    <2>3. FoldersStay'
      BY <2>2, <1>2 DEF FoldersStay, IsFolder
    <2>4. EntryShape' /\ CopyShape' /\ RemovalShape'
      BY <1>1, <1>2, <1>4 DEF EntryShape, CopyShape, RemovalShape, Active
    <2> QED
      BY <2>1, <2>3, <2>4 DEF TreeShape
  <1> QED
    BY <1>3, <1>4

\* Others take no folder away.
LEMMA VisitShape == Placed /\ Dir \notin Fresh /\ Visit => Placed'
  <1> SUFFICES ASSUME Placed, Dir \notin Fresh, Visit
               PROVE  AreTrees' /\ TreeShape'
    BY DEF Placed
  <1>1. /\ AreTrees /\ TreeShape /\ doing # "done"
        /\ UNCHANGED <<asked, doing, merging, entry, copy, emptying>>
    BY DEF Placed, Visit
  <1>2. /\ AreTrees'
        /\ \A f : IsFolder(source, f) => IsFolder(source, f)'
        /\ \A f : IsFolder(dest, f) => IsFolder(dest, f)'
    BY <1>1, VisitTrees
  <1>3. MergeShape' /\ CopyShape'
    BY <1>1 DEF TreeShape, MergeShape, CopyShape
  <1>4. FoldersStay'
    BY <1>1, <1>2 DEF TreeShape, FoldersStay, IsFolder
  <1>5. EntryShape'
    BY <1>1, <1>2 DEF TreeShape, EntryShape, Active, IsFolder
  <1>6. RemovalShape'
    BY <1>1, <1>2 DEF TreeShape, RemovalShape, Active, IsFolder
  <1> QED
    BY <1>2, <1>3, <1>4, <1>5, <1>6 DEF TreeShape

\* At first nothing is merged, and both folders are there.
LEMMA PlacedInit == TreeInit => Placed
  <1> SUFFICES ASSUME TreeInit
               PROVE  Placed
    OBVIOUS
  <1>1. /\ AreTrees /\ IsFolder(source, <<>>) /\ IsFolder(dest, <<>>)
    BY TreeAssumption DEF TreeInit, AreTrees, IsFolder
  <1>2. /\ doing = "inspecting" /\ merging = <<>> /\ emptying = <<>> /\ entry = NoEntry
    BY DEF TreeInit
  <1>3. <<>> \in Paths /\ merging \in Seq(Frame) /\ Len(merging) = 0
    BY <1>2, EmptySeq DEF Paths
  <1>4. MergeShape /\ FoldersStay
    BY <1>3 DEF MergeShape, FoldersStay
  <1>5. EntryShape
    BY <1>1, <1>2, <1>3 DEF EntryShape, NoEntry
  <1>6. CopyShape /\ RemovalShape
    BY <1>2 DEF CopyShape, RemovalShape
  <1> QED
    BY <1>1, <1>4, <1>5, <1>6 DEF Placed, TreeShape

\* Every step keeps the shape.
LEMMA PlacedStep == Placed /\ Dir \notin Fresh /\ [TreeNext]_treeVars => Placed'
  <1> SUFFICES ASSUME Placed, Dir \notin Fresh, [TreeNext]_treeVars
               PROVE  Placed'
    OBVIOUS
  <1>1. CASE UNCHANGED treeVars
    BY <1>1 DEF treeVars, Placed, AreTrees, TreeShape, MergeShape, FoldersStay, EntryShape, CopyShape,
                RemovalShape, Active, IsFolder
  <1> QED
    BY <1>1, InspectShape, RenameShape, ReadShape, PublishShape, RemoveEntryShape, RemoveFolderShape,
       PickShape, EndMergeShape, VisitShape DEF TreeNext

-----------------------------------------------------------------------------
(* Nothing is lost.  What a removal may still take without a look -- what  *)
(* is below the entry and not in a folder that it has listed, or is among  *)
(* the names that are left of one -- is in the destination, or was given   *)
(* up by others, or came too late to be compared.                          *)

Kept ==
  doing = "removing" =>
    \A q \in DOMAIN source :
      source[q] # Dir /\ Exposed(q) => source[q] \in Texts(dest) \cup given \cup late

Unfinished == doing # "done" => ending = "none"

SurvivalInv == Placed /\ Kept /\ TreeSurvives /\ Unfinished

\* What a step has to show.
LEMMA SurvivesWhen ==
  ASSUME TreeSurvives, UNCHANGED known, given \subseteq given', late \subseteq late',
         \A q \in DOMAIN source : source[q] # Dir =>
           source[q] \in Texts(source') \cup Texts(dest') \cup given' \cup late',
         \A q \in DOMAIN dest : dest[q] # Dir =>
           dest[q] \in Texts(source') \cup Texts(dest') \cup given' \cup late'
  PROVE  TreeSurvives'
  <1>1. ASSUME NEW x \in Texts(source) \cup Texts(dest)
        PROVE  x \in Texts(source') \cup Texts(dest') \cup given' \cup late'
    BY <1>1 DEF Texts
  <1>2. (known \subseteq Texts(source') \cup Texts(dest') \cup given' \cup late') => TreeSurvives'
    BY DEF TreeSurvives, Texts
  <1>3. known \subseteq Texts(source) \cup Texts(dest) \cup given \cup late
    BY DEF TreeSurvives
  <1> QED
    BY <1>1, <1>2, <1>3

\* Most steps touch neither tree.
LEMMA QuietSurvives ==
  ASSUME SurvivalInv, Inspect \/ CopyTree \/ CompareTree \/ Pick \/ RemovalFails
  PROVE  TreeSurvives' /\ Kept'
  <1>1. UNCHANGED <<source, dest, known, given, late>> /\ doing' # "removing"
    BY Zenon DEF Inspect, CopyTree, CompareTree, Pick, RemovalFails, Fail, Differs, histories
  <1>2. TreeSurvives'
    BY <1>1 DEF SurvivalInv, TreeSurvives, Texts
  <1> QED
    BY <1>1, <1>2 DEF Kept

\* A rename brings everything over.
LEMMA RenameSurvives ==
  ASSUME SurvivalInv, Rename
  PROVE  TreeSurvives' /\ Kept'
  <1>1. Kept' /\ UNCHANGED <<known, given, late>> /\ TreeSurvives /\ Placed
    BY DEF Rename, Fail, Either, Kept, histories, SurvivalInv
  <1>2. CASE dest' = dest /\ source' = source
    BY <1>1, <1>2 DEF TreeSurvives, Texts
  <1>3. CASE dest' # dest \/ source' # source
    <2>1. /\ Active /\ merging # <<>> /\ doing # "done" /\ entry.to \notin DOMAIN dest
          /\ source' = Cut(source, entry.from) /\ dest' = Graft(dest, entry.to, Sub(source, entry.from))
          /\ IsTree(Sub(source, entry.from)) /\ <<>> \in DOMAIN Sub(source, entry.from)
      BY <1>1, <1>3, RenameIs
    <2>2. /\ \A q \in DOMAIN dest : q # entry.to => q \in DOMAIN dest' /\ dest'[q] = dest[q]
          /\ \A r \in DOMAIN Sub(source, entry.from) :
               entry.to \o r \in DOMAIN dest' /\ dest'[entry.to \o r] = Sub(source, entry.from)[r]
      BY <1>1, <2>1, Landing
    <2>3. IsTree(source) /\ entry.from \in Paths
      BY <1>1, <2>1 DEF Placed, AreTrees, TreeShape, EntryShape
    <2>4. ASSUME NEW q \in DOMAIN source, source[q] # Dir
          PROVE  source[q] \in Texts(source') \cup Texts(dest')
      <3>1. source[q] \in Texts(Cut(source, entry.from)) \cup Texts(Sub(source, entry.from))
        <4>1. source[q] \in Texts(source)
          BY <2>4 DEF Texts
        <4> QED
          BY <4>1, <2>3, TextsCut
      <3>2. Texts(Sub(source, entry.from)) \subseteq Texts(dest')
        BY <2>2 DEF Texts
      <3> QED
        BY <3>1, <3>2, <2>1
    <2>5. ASSUME NEW q \in DOMAIN dest, dest[q] # Dir
          PROVE  dest[q] \in Texts(dest')
      BY <2>1, <2>2, <2>5 DEF Texts
    <2> QED
      BY <1>1, <2>4, <2>5, SurvivesWhen
  <1> QED
    BY <1>1, <1>2, <1>3

\* Publishing gives up at most the file that it may replace.
LEMMA PublishSurvives ==
  ASSUME SurvivalInv, PublishTree
  PROVE  TreeSurvives' /\ Kept'
  <1>1. Placed /\ TreeSurvives /\ UNCHANGED <<source, known, late>>
    BY DEF PublishTree, SurvivalInv
  <1>2. Kept'
    BY PublishIs DEF Kept, SurvivalInv
  <1>3. CASE UNCHANGED <<dest, given>>
    BY <1>1, <1>2, <1>3 DEF TreeSurvives, Texts
  <1>4. CASE /\ dest' = Graft(dest, entry.to, copy)
             /\ given' = given \cup ({entry.replaces} \ {Nothing})
             /\ entry.to \in DOMAIN dest => entry.replaces # Nothing /\ dest[entry.to] = entry.replaces
    <2>1. \A q \in DOMAIN dest : q # entry.to => q \in DOMAIN dest' /\ dest'[q] = dest[q]
      BY <1>1, <1>4, PublishIs, Landing
    <2>2. ASSUME NEW q \in DOMAIN dest, dest[q] # Dir
          PROVE  dest[q] \in Texts(dest') \cup given'
      BY <2>1, <2>2, <1>4 DEF Texts
    <2>3. \A q \in DOMAIN source : source[q] # Dir => source[q] \in Texts(source')
      BY <1>1 DEF Texts
    <2> QED
      BY <1>1, <1>2, <1>4, <2>2, <2>3, SurvivesWhen
  <1> QED
    BY <1>1, <1>3, <1>4, PublishIs

\* Once the two trees have been compared, everything below the entry has its like.
LEMMA EquateSurvives ==
  ASSUME SurvivalInv, Equate
  PROVE  TreeSurvives' /\ Kept'
  <1>1. /\ Placed /\ TreeSurvives /\ UNCHANGED <<source, dest, known, given, late, entry, emptying>>
        /\ doing' = "removing" => Sub(source, entry.from) = Sub(dest, entry.to)
        /\ doing = "equating"
    BY DEF Equate, SurvivalInv, histories, EqualTrees, Fail, Differs
  <1>2. TreeSurvives'
    BY <1>1 DEF TreeSurvives, Texts
  <1>3. IsTree(source) /\ IsTree(dest) /\ entry.from \in Paths /\ entry.to \in Paths
    BY <1>1 DEF Placed, AreTrees, TreeShape, EntryShape, Active
  <1>4. ASSUME doing' = "removing", NEW q \in DOMAIN source, source[q] # Dir, IsPrefix(entry.from, q)
        PROVE  source[q] \in Texts(dest)
    <2>1. /\ Suffix(entry.from, q) \in DOMAIN Sub(source, entry.from)
          /\ Sub(source, entry.from)[Suffix(entry.from, q)] = source[q]
      BY <1>3, <1>4, SubOf
    <2>2. /\ Suffix(entry.from, q) \in DOMAIN Sub(dest, entry.to)
          /\ Sub(dest, entry.to)[Suffix(entry.from, q)] = source[q]
      BY <2>1, <1>1, <1>4
    <2>3. /\ entry.to \o Suffix(entry.from, q) \in DOMAIN dest
          /\ dest[entry.to \o Suffix(entry.from, q)] = source[q]
      BY <2>2, <1>3, SubOf
    <2> QED
      BY <2>3, <1>4 DEF Texts
  <1>5. Kept'
    BY <1>1, <1>4 DEF Kept, Exposed, Texts
  <1> QED
    BY <1>2, <1>5

\* What is due may be taken, and what may be taken afterwards might have been before.
LEMMA DueIsExposed ==
  ASSUME Placed, doing = "removing", NEW p \in Due
  PROVE  Exposed(p)
  <1>1. /\ IsPrefix(entry.from, p) /\ emptying \in Seq(Frame)
        /\ emptying # <<>> => p \in emptying[Len(emptying)].names
    BY DueIs
  <1>2. /\ DOMAIN emptying = 1..Len(emptying)
        /\ emptying = <<>> => DOMAIN emptying = {}
        /\ emptying # <<>> => Len(emptying) \in DOMAIN emptying
    BY <1>1, StackTop
  <1> QED
    BY <1>1, <1>2 DEF Exposed

\* What a removal takes has its like, and what it takes no longer without a look stays out.
LEMMA RemoveEntrySurvives ==
  ASSUME SurvivalInv, RemoveEntry
  PROVE  TreeSurvives' /\ Kept'
  <1>1. PICK p \in Due \cap DOMAIN source :
           \/ /\ source[p] # Dir /\ source' = Cut(source, p) /\ emptying' = Rest(p) /\ Removed
           \/ /\ source[p] = Dir /\ UNCHANGED <<source, doing, ending>>
              /\ emptying' = Append(Rest(p), [folder |-> p, names |-> Names(source, p)])
    BY RemoveEntryIs
  <1>2. /\ doing = "removing" /\ UNCHANGED <<dest, entry, known, given, late>> /\ Placed /\ TreeSurvives
        /\ IsTree(source) /\ TreeShape
    BY DEF RemoveEntry, histories, SurvivalInv, Placed, AreTrees
  <1>3. /\ p \in Paths /\ IsPrefix(entry.from, p) /\ Exposed(p)
        /\ Len(emptying) \in Nat /\ emptying \in Seq(Frame) /\ DOMAIN emptying = 1..Len(emptying)
        /\ \A i \in 1..Len(emptying) : p # emptying[i].folder
    <2>1. Exposed(p)
      BY <1>1, <1>2, DueIsExposed
    <2>2. /\ p \in Paths /\ IsPrefix(entry.from, p) /\ Len(emptying) \in Nat /\ emptying \in Seq(Frame)
          /\ \A i \in 1..Len(emptying) : p # emptying[i].folder
      BY <1>1, <1>2, DueIs
    <2> QED
      BY <2>1, <2>2, StackTop
  <1>4. \A q \in DOMAIN source :
          source[q] # Dir /\ Exposed(q) => source[q] \in Texts(dest) \cup given \cup late
    BY <1>2 DEF SurvivalInv, Kept
  <1>5. CASE source[p] # Dir /\ source' = Cut(source, p) /\ emptying' = Rest(p) /\ Removed
    <2>1. ASSUME NEW q \in DOMAIN source, source[q] # Dir
          PROVE  source[q] \in Texts(source') \cup Texts(dest') \cup given' \cup late'
      <3>1. CASE IsPrefix(p, q)
        <4>1. q = p
          BY <3>1, <1>2, <1>3, <1>5, TreeAbove
        <4> QED
          BY <4>1, <2>1, <1>2, <1>3, <1>4
      <3>2. CASE ~IsPrefix(p, q)
        <4>1. q \in DOMAIN source' /\ source'[q] = source[q]
          BY <3>2, <1>2, <1>3, <1>5, CutOf
        <4> QED
          BY <4>1, <2>1 DEF Texts
      <3> QED
        BY <3>1, <3>2
    <2>2. TreeSurvives'
      <3>1. \A q \in DOMAIN dest : dest[q] # Dir => dest[q] \in Texts(dest')
        BY <1>2 DEF Texts
      <3> QED
        BY <3>1, <2>1, <1>2, SurvivesWhen
    <2>3. ASSUME doing' = "removing", NEW q \in DOMAIN source', Exposed(q)'
          PROVE  Exposed(q) /\ q \in DOMAIN source /\ source'[q] = source[q]
      <3>1. q \in DOMAIN source /\ source'[q] = source[q]
        BY <1>2, <1>3, <1>5, CutOf
      <3>2. emptying' # <<>>
        BY <2>3, <1>2, <1>5 DEF Removed, Either, Fail
      <3>3. emptying # <<>>
        BY <3>2, <1>5 DEF Rest
      <3>4. /\ emptying' \in Seq(Frame) /\ Len(emptying') = Len(emptying)
            /\ \A i \in 1..Len(emptying) :
                 emptying'[i].folder = emptying[i].folder /\ emptying'[i].names \subseteq emptying[i].names
        <4>1. /\ Rest(p) \in Seq(Frame) /\ Len(Rest(p)) = Len(emptying)
              /\ \A i \in 1..Len(emptying) :
                   /\ Rest(p)[i].folder = emptying[i].folder
                   /\ Rest(p)[i].names =
                        IF i = Len(emptying) THEN emptying[i].names \ {p} ELSE emptying[i].names
          BY <1>1, <1>2, <3>3, RestIs
        <4> QED
          BY <4>1, <1>5
      <3>5. DOMAIN emptying' = DOMAIN emptying
        BY <3>4, <1>3, StackTop
      <3>6. Exposed(q)
        BY <2>3, <3>4, <3>5, <1>2, <1>3 DEF Exposed
      <3> QED
        BY <3>1, <3>6
    <2>4. Kept'
      BY <2>3, <1>2, <1>4 DEF Kept, Texts
    <2> QED
      BY <2>2, <2>4
  <1>6. CASE /\ source[p] = Dir /\ UNCHANGED <<source, doing, ending>>
             /\ emptying' = Append(Rest(p), [folder |-> p, names |-> Names(source, p)])
    <2>1. TreeSurvives'
      BY <1>2, <1>6 DEF TreeSurvives, Texts
    <2> DEFINE e == [folder |-> p, names |-> Names(source, p)]
    <2>2. /\ e \in Frame /\ e.folder = p /\ e.names = Names(source, p)
          /\ \A n \in Names(source, p) : Front(n) = p /\ IsPrefix(p, n) /\ n \in Paths
      BY <1>2, <1>3, NamesOf DEF Frame
    <2>3. /\ Rest(p) \in Seq(Frame) /\ Len(Rest(p)) = Len(emptying)
          /\ \A i \in 1..Len(emptying) :
                 Rest(p)[i].folder = emptying[i].folder /\ Rest(p)[i].names \subseteq emptying[i].names
      <3>1. CASE emptying = <<>>
        BY <3>1, <1>3 DEF Rest
      <3>2. CASE emptying # <<>>
        <4>1. /\ Rest(p) \in Seq(Frame) /\ Len(Rest(p)) = Len(emptying)
              /\ \A i \in 1..Len(emptying) :
                   /\ Rest(p)[i].folder = emptying[i].folder
                   /\ Rest(p)[i].names =
                        IF i = Len(emptying) THEN emptying[i].names \ {p} ELSE emptying[i].names
          BY <1>1, <1>2, <3>2, RestIs
        <4> QED
          BY <4>1
      <3> QED
        BY <3>1, <3>2
    <2> HIDE DEF e
    <2>4. /\ emptying' \in Seq(Frame) /\ Len(emptying') = Len(emptying) + 1
          /\ \A i \in 1..Len(emptying) : emptying'[i] = Rest(p)[i]
          /\ emptying'[Len(emptying) + 1] = e
      <3>1. emptying' = Append(Rest(p), e)
        BY <1>6 DEF e
      <3> QED
        BY <3>1, <2>2, <2>3, StackPush
    <2>5. DOMAIN emptying' = 1..(Len(emptying) + 1)
      BY <2>4, StackTop
    <2>6. ASSUME NEW q \in DOMAIN source, Exposed(q)'
          PROVE  Exposed(q)
      <3>1. IsPrefix(entry.from, q)
        BY <2>6, <1>2 DEF Exposed
      <3>2. CASE \A i \in 1..(Len(emptying) + 1) : emptying'[i].folder # Front(q)
        <4>1. \A i \in 1..Len(emptying) :
                /\ i \in 1..(Len(emptying) + 1)
                /\ emptying'[i].folder = emptying[i].folder
          <5>1. \A i \in 1..Len(emptying) : i \in 1..(Len(emptying) + 1)
            BY <1>3
          <5> QED
            BY <5>1, <2>3, <2>4
        <4>2. \A i \in 1..Len(emptying) : emptying[i].folder # Front(q)
          BY <4>1, <3>2
        <4> QED
          BY <4>2, <3>1, <1>2, <1>3 DEF Exposed
      <3>3. ASSUME NEW i \in 1..(Len(emptying) + 1), q \in emptying'[i].names
            PROVE  Exposed(q)
        <4>1. CASE i \in 1..Len(emptying)
          <5>1. q \in emptying[i].names
            BY <4>1, <3>3, <2>3, <2>4
          <5> QED
            BY <5>1, <4>1, <3>1, <1>2, <1>3 DEF Exposed
        <4>2. CASE i = Len(emptying) + 1
          <5>1. Front(q) = p
            BY <4>2, <3>3, <2>2, <2>4
          <5> QED
            BY <5>1, <3>1, <1>2, <1>3 DEF Exposed
        <4> QED
          BY <4>1, <4>2, <1>3
      <3> QED
        BY <3>2, <3>3, <2>5, <2>6 DEF Exposed
    <2>7. Kept'
      BY <2>6, <1>2, <1>4, <1>6 DEF Kept, Texts
    <2> QED
      BY <2>1, <2>7
  <1> QED
    BY <1>1, <1>5, <1>6

\* A folder that is removed holds nothing.
LEMMA RemoveFolderSurvives ==
  ASSUME SurvivalInv, RemoveFolder
  PROVE  TreeSurvives' /\ Kept'
  <1>1. /\ doing = "removing" /\ emptying \in Seq(Frame) /\ Len(emptying) \in Nat
        /\ Top = emptying[Len(emptying)] /\ Len(emptying) \in 1..Len(emptying)
        /\ Top.folder \in Paths /\ IsFolder(source, Top.folder)
        /\ \A q \in DOMAIN source : IsPrefix(Top.folder, q) => q = Top.folder
        /\ source' = Cut(source, Top.folder)
        /\ emptying' \in Seq(Frame) /\ Len(emptying') = Len(emptying) - 1
        /\ \A i \in 1..(Len(emptying) - 1) : emptying'[i] = emptying[i]
    BY RemoveFolderIs DEF SurvivalInv
  <1>2. UNCHANGED <<dest, entry, known, given, late>> /\ IsTree(source) /\ TreeSurvives
    BY DEF RemoveFolder, histories, SurvivalInv, Placed, AreTrees
  <1>3. /\ \A q \in DOMAIN source : source[q] # Dir => q \in DOMAIN source' /\ source'[q] = source[q]
        /\ \A q \in DOMAIN source' : q \in DOMAIN source /\ source'[q] = source[q]
    BY <1>1, <1>2, CutOf DEF IsFolder
  <1>4. TreeSurvives'
    <2>1. \A q \in DOMAIN source : source[q] # Dir => source[q] \in Texts(source')
      BY <1>3 DEF Texts
    <2>2. \A q \in DOMAIN dest : dest[q] # Dir => dest[q] \in Texts(dest')
      BY <1>2 DEF Texts
    <2> QED
      BY <2>1, <2>2, <1>2, SurvivesWhen
  <1>5. DOMAIN emptying = 1..Len(emptying) /\ DOMAIN emptying' = 1..(Len(emptying) - 1)
    BY <1>1, StackTop
  <1>6. ASSUME doing' = "removing", NEW q \in DOMAIN source', source'[q] # Dir, Exposed(q)'
        PROVE  Exposed(q)
    <2>1. IsPrefix(entry.from, q)
      BY <1>2, <1>6 DEF Exposed
    <2>2. CASE \A i \in 1..(Len(emptying) - 1) : emptying'[i].folder # Front(q)
      <3>1. Top.folder # Front(q)
        <4>1. q \in Paths /\ q \in DOMAIN source /\ source[q] # Dir
          BY <1>2, <1>3, <1>6 DEF IsTree, Paths
        <4>2. ~IsPrefix(Top.folder, q)
          BY <4>1, <1>1 DEF IsFolder
        <4>3. CASE q = <<>>
          <5>1. Front(q) = <<>>
            <6>1. Len(<<>>) - 1 < 1
              OBVIOUS
            <6>2. SubSeq(<<>>, 1, Len(<<>>) - 1) = <<>>
              BY <6>1, SubSeqEmpty
            <6> QED
              BY <6>2, <4>3 DEF Front
          <5> QED
            BY <5>1, <4>1, <4>2, <4>3, PrefixOrder
        <4>4. CASE q # <<>>
          BY <4>1, <4>2, <4>4, FrontOf
        <4> QED
          BY <4>3, <4>4
      <3>2. \A i \in 1..Len(emptying) : emptying[i].folder # Front(q)
        <4>1. \A i \in 1..Len(emptying) : i = Len(emptying) \/ i \in 1..(Len(emptying) - 1)
          BY <1>1
        <4> QED
          BY <4>1, <3>1, <2>2, <1>1
      <3> QED
        BY <3>2, <2>1, <1>1, <1>5 DEF Exposed
    <2>3. ASSUME NEW i \in 1..(Len(emptying) - 1), q \in emptying'[i].names
          PROVE  Exposed(q)
      <3>1. i \in 1..Len(emptying) /\ q \in emptying[i].names
        BY <2>3, <1>1
      <3> QED
        BY <3>1, <2>1, <1>1, <1>5 DEF Exposed
    <2> QED
      BY <2>2, <2>3, <1>5, <1>6 DEF Exposed
  <1>7. Kept'
    <2>1. \A q \in DOMAIN source :
            source[q] # Dir /\ Exposed(q) => source[q] \in Texts(dest) \cup given \cup late
      BY <1>1 DEF SurvivalInv, Kept
    <2> QED
      BY <2>1, <1>2, <1>3, <1>6 DEF Kept, Texts
  <1> QED
    BY <1>4, <1>7

\* The end of a merge takes folders without texts.
LEMMA EndMergeSurvives ==
  ASSUME SurvivalInv, EndMerge
  PROVE  TreeSurvives' /\ Kept'
  <1>1. /\ doing = "picking" /\ Last(merging).folder \in Paths
        /\ \/ source' = source
           \/ /\ source' = Cut(source, Last(merging).folder)
              /\ \A q \in DOMAIN source : IsPrefix(Last(merging).folder, q) => source[q] = Dir
        /\ doing' # "removing"
    BY EndMergeIs DEF SurvivalInv
  <1>2. UNCHANGED <<dest, known, given, late>> /\ IsTree(source) /\ TreeSurvives
    BY DEF EndMerge, histories, SurvivalInv, Placed, AreTrees
  <1>3. \A q \in DOMAIN source : source[q] # Dir => source[q] \in Texts(source')
    BY <1>1, <1>2, CutOf DEF Texts
  <1>4. \A q \in DOMAIN dest : dest[q] # Dir => dest[q] \in Texts(dest')
    BY <1>2 DEF Texts
  <1> QED
    BY <1>1, <1>2, <1>3, <1>4, SurvivesWhen DEF Kept

\* Others give up what was the last of its kind, and what they bring to the part that a
\* removal may still take comes late.
LEMMA VisitSurvives ==
  ASSUME SurvivalInv, Dir \notin Fresh, Visit
  PROVE  TreeSurvives' /\ Kept'
  <1>1. PICK here \in BOOLEAN, x \in (Fresh \ known) \cup {Nothing}, p \in Paths :
           /\ Touch(here, p, x) /\ (x # Dir \/ x = Nothing)
           /\ MayPut(IF here THEN source ELSE dest, p)
           /\ x = Nothing => p \in DOMAIN (IF here THEN source ELSE dest)
    BY VisitIs DEF SurvivalInv, Placed
  <1> DEFINE t == IF here THEN source ELSE dest
             new == Touched(t, p, x)
             lost == IF p \in DOMAIN t THEN {t[p]} ELSE {}
  <1>2. /\ Placed /\ TreeSurvives /\ Kept /\ IsTree(t)
        /\ UNCHANGED <<doing, entry, emptying>>
    BY DEF SurvivalInv, Placed, AreTrees, Visit
  <1>3. /\ source' = (IF here THEN new ELSE source) /\ dest' = (IF here THEN dest ELSE new)
        /\ known' = known \cup ({x} \ {Nothing})
        /\ late' = IF here /\ Exposed(p) THEN late \cup ({x} \ {Nothing}) ELSE late
        /\ given' = given \cup {y \in lost : doing = "removing" \/ y \notin Texts(source') \cup Texts(dest')}
    BY <1>1 DEF Touch
  <1>11. IsTree(t) /\ MayPut(t, p) /\ (x = Nothing => p \in DOMAIN t) /\ (x # Dir \/ x = Nothing)
    BY <1>1, <1>2
  <1> HIDE DEF t
  <1>12. ASSUME NEW u, IsTree(u), MayPut(u, p), x = Nothing => p \in DOMAIN u, x # Dir \/ x = Nothing
         PROVE  /\ \A q \in DOMAIN u : q # p => q \in DOMAIN Touched(u, p, x) /\ Touched(u, p, x)[q] = u[q]
                /\ \A q \in DOMAIN Touched(u, p, x) :
                     \/ q \in DOMAIN u /\ q # p /\ Touched(u, p, x)[q] = u[q]
                     \/ q = p /\ Touched(u, p, x)[q] = x /\ x # Nothing
                /\ x # Nothing => p \in DOMAIN Touched(u, p, x) /\ Touched(u, p, x)[p] = x
    <2>1. \A q \in DOMAIN u : q # p => q \in DOMAIN Touched(u, p, x) /\ Touched(u, p, x)[q] = u[q]
      BY <1>12, VisitOf
    <2>2. \A q \in DOMAIN Touched(u, p, x) :
            \/ q \in DOMAIN u /\ q # p /\ Touched(u, p, x)[q] = u[q]
            \/ q = p /\ Touched(u, p, x)[q] = x /\ x # Nothing
      BY <1>12, VisitOf
    <2>3. x # Nothing => p \in DOMAIN Touched(u, p, x) /\ Touched(u, p, x)[p] = x
      BY <1>12, VisitOf
    <2> QED
      BY <2>1, <2>2, <2>3
  <1>4. /\ \A q \in DOMAIN t : q # p => q \in DOMAIN new /\ new[q] = t[q]
        /\ \A q \in DOMAIN new :
             \/ q \in DOMAIN t /\ q # p /\ new[q] = t[q]
             \/ q = p /\ new[q] = x /\ x # Nothing
        /\ x # Nothing => p \in DOMAIN new /\ new[p] = x
    BY <1>11, <1>12
  <1> HIDE DEF new
  <1>5. ASSUME NEW y \in Texts(t)
        PROVE  y \in Texts(new) \cup lost
    <2>1. PICK q \in DOMAIN t : t[q] = y /\ y # Dir
      BY <1>5 DEF Texts
    <2>2. CASE q = p
      BY <2>1, <2>2
    <2>3. CASE q # p
      BY <2>1, <2>3, <1>4 DEF Texts
    <2> QED
      BY <2>2, <2>3
  <1> HIDE DEF lost
  <1>6. \A y \in lost : y \in given' \cup Texts(source') \cup Texts(dest')
    BY <1>3
  <1>7. /\ Texts(source) \cup Texts(dest) \subseteq Texts(source') \cup Texts(dest') \cup given'
        /\ {x} \ {Nothing} \subseteq Texts(source') \cup Texts(dest')
    <2>1. {x} \ {Nothing} \subseteq Texts(new)
      BY <1>1, <1>4 DEF Texts
    <2>2. CASE here
      <3>1. source' = new /\ dest' = dest /\ t = source
        BY <2>2, <1>3 DEF t
      <3> QED
        BY <3>1, <2>1, <1>5, <1>6
    <2>3. CASE ~here
      <3>1. source' = source /\ dest' = new /\ t = dest
        BY <2>3, <1>3 DEF t
      <3> QED
        BY <3>1, <2>1, <1>5, <1>6
    <2> QED
      BY <2>2, <2>3
  <1>8. TreeSurvives'
    <2>1. known \subseteq Texts(source) \cup Texts(dest) \cup given \cup late
      BY <1>2 DEF TreeSurvives
    <2>2. given \subseteq given' /\ late \subseteq late'
      BY <1>3
    <2>3. known' \subseteq Texts(source') \cup Texts(dest') \cup given' \cup late'
      BY <2>1, <2>2, <1>3, <1>7
    <2>4. TreeSurvives' <=> (known' \subseteq Texts(source') \cup Texts(dest') \cup given' \cup late')
      BY DEF TreeSurvives, Texts
    <2> QED
      BY <2>3, <2>4
  <1>9. ASSUME doing = "removing", NEW q \in DOMAIN source', source'[q] # Dir, Exposed(q)
        PROVE  source'[q] \in Texts(dest') \cup given' \cup late'
    <2>1. lost \subseteq given'
      BY <1>3, <1>9
    <2>2. \A z \in DOMAIN source :
            source[z] # Dir /\ Exposed(z) => source[z] \in Texts(dest) \cup given \cup late
      BY <1>2, <1>9 DEF Kept
    <2>3. CASE here
      <3>1. source' = new /\ dest' = dest /\ t = source
        BY <2>3, <1>3 DEF t
      <3>2. CASE q \in DOMAIN t /\ new[q] = t[q]
        BY <3>1, <3>2, <2>2, <1>3, <1>9
      <3>3. CASE q = p /\ new[q] = x /\ x # Nothing
        BY <3>1, <3>3, <2>3, <1>3, <1>9
      <3> QED
        BY <3>1, <3>2, <3>3, <1>4, <1>9
    <2>4. CASE ~here
      <3>1. source' = source /\ dest' = new /\ t = dest
        BY <2>4, <1>3 DEF t
      <3>2. source[q] \in Texts(dest) \cup given \cup late
        BY <3>1, <2>2, <1>9
      <3>3. Texts(dest) \subseteq Texts(dest') \cup given'
        BY <3>1, <2>1, <1>5
      <3> QED
        BY <3>1, <3>2, <3>3, <1>3
    <2> QED
      BY <2>3, <2>4
  <1>10. Kept'
    <2>1. ASSUME doing' = "removing", NEW q \in DOMAIN source', source'[q] # Dir, Exposed(q)'
          PROVE  source'[q] \in Texts(dest') \cup given' \cup late'
      <3>1. Exposed(q) /\ doing = "removing"
        BY <2>1, <1>2 DEF Exposed
      <3> QED
        BY <3>1, <2>1, <1>9
    <2>2. (\A q \in DOMAIN source' : source'[q] # Dir /\ Exposed(q)' =>
             source'[q] \in Texts(dest') \cup given' \cup late') /\ doing' = "removing" => Kept'
      BY DEF Kept, Texts
    <2>3. doing' # "removing" => Kept'
      BY DEF Kept
    <2> QED
      BY <2>1, <2>2, <2>3
  <1> QED
    BY <1>8, <1>10

\* Whatever ends, ends by success or failure.
LEMMA UnfinishedStep == Unfinished /\ TreeNext => Unfinished'
  <1> SUFFICES ASSUME Unfinished, TreeNext, doing' # "done"
               PROVE  ending' = "none"
    BY DEF Unfinished
  <1>1. doing # "done" => ending = "none"
    BY DEF Unfinished
  <1>2. CASE Inspect \/ CopyTree \/ CompareTree \/ Equate \/ RemovalFails \/ Pick \/ Visit
    BY <1>1, <1>2, Zenon DEF Inspect, CopyTree, CompareTree, Equate, RemovalFails, Pick, Visit, Fail, Differs
  <1>3. CASE Rename
    BY <1>1, <1>3 DEF Rename, Fail, Either
  <1>4. CASE PublishTree
    BY <1>1, <1>4 DEF PublishTree, Fail, Either
  <1>5. CASE RemoveEntry
    BY <1>1, <1>5, RemoveEntryIs DEF RemoveEntry, Removed, Fail, Either
  <1>6. CASE RemoveFolder
    BY <1>1, <1>6 DEF RemoveFolder, Removed, Fail, Either
  <1>7. CASE EndMerge
    BY <1>1, <1>7 DEF EndMerge, Fail
  <1> QED
    BY <1>2, <1>3, <1>4, <1>5, <1>6, <1>7 DEF TreeNext

\* Every step keeps the texts, and what a removal may take known.
LEMMA SurvivalStep == SurvivalInv /\ [TreeNext]_treeVars => SurvivalInv'
  <1> SUFFICES ASSUME SurvivalInv, [TreeNext]_treeVars
               PROVE  SurvivalInv'
    OBVIOUS
  <1>0. Dir \notin Fresh
    BY TreeAssumption
  <1>1. Placed'
    BY <1>0, PlacedStep DEF SurvivalInv
  <1>2. CASE UNCHANGED treeVars
    <2>1. UNCHANGED <<source, dest, doing, entry, emptying, ending, known, given, late>>
      BY <1>2 DEF treeVars
    <2>2. TreeSurvives' /\ Unfinished'
      BY <2>1 DEF SurvivalInv, TreeSurvives, Texts, Unfinished
    <2>3. Kept'
      BY <2>1 DEF SurvivalInv, Kept, Texts, Exposed
    <2> QED
      BY <2>2, <2>3, <1>1 DEF SurvivalInv
  <1>3. CASE TreeNext
    <2>1. TreeSurvives' /\ Kept'
      BY <1>0, <1>3, QuietSurvives, RenameSurvives, PublishSurvives, EquateSurvives, RemoveEntrySurvives,
         RemoveFolderSurvives, EndMergeSurvives, VisitSurvives DEF TreeNext
    <2>2. Unfinished'
      BY <1>3, UnfinishedStep DEF SurvivalInv
    <2> QED
      BY <2>1, <2>2, <1>1 DEF SurvivalInv
  <1> QED
    BY <1>2, <1>3

\* At first there is nothing to lose.
LEMMA SurvivalInit == TreeInit => SurvivalInv
  <1> SUFFICES ASSUME TreeInit
               PROVE  SurvivalInv
    OBVIOUS
  <1>1. Placed
    BY PlacedInit
  <1>2. TreeSurvives /\ Kept /\ Unfinished
    BY DEF TreeInit, TreeSurvives, Kept, Unfinished
  <1> QED
    BY <1>1, <1>2 DEF SurvivalInv

\* Theorem: whatever the trees, and whatever others do meanwhile, a copy, a merge or a move
\* loses no text, wherever it stops.
THEOREM NoTextIsLost == TreeSpec => []TreeSurvives
  <1>1. TreeInit => SurvivalInv
    BY SurvivalInit
  <1>2. SurvivalInv /\ [TreeNext]_treeVars => SurvivalInv'
    BY SurvivalStep
  <1>3. SurvivalInv => TreeSurvives
    BY DEF SurvivalInv
  <1> QED
    BY <1>1, <1>2, <1>3, PTL DEF TreeSpec

-----------------------------------------------------------------------------
(* A success is complete.  A path is pending while it lies below a name    *)
(* that is left to be picked, or below the entry at hand until that has    *)
(* been published; what is not pending has been brought over, and in a     *)
(* move it is gone from the source.                                        *)

Untouched == doing \in {"inspecting", "renaming", "copying", "publishing"}
Checking  == doing \in {"comparing", "equating", "removing"}

Pending(q) ==
  \/ \E i \in 1..Len(merging) : \E n \in merging[i].names : IsPrefix(n, q)
  \/ Untouched /\ IsPrefix(entry.from, q)

\* No text there may be replaced any more.
Settled(q) == asked.policy = "replace" => ~Pending(q)

\* Each text of the source that nobody kept apart is still to be brought over, or it is where
\* nothing replaces it.
Accounted ==
  doing # "done" =>
    \A y \in original \ apart :
      \/ \E q \in DOMAIN source : source[q] = y /\ Pending(q)
      \/ \E q \in DOMAIN dest : dest[q] = y /\ Settled(q)

\* In a move, nothing else stays behind.
LeftBehind ==
  doing # "done" /\ asked.move =>
    \A q \in DOMAIN source : source[q] # Dir =>
      \/ source[q] \in apart \/ Pending(q)
      \/ Checking /\ IsPrefix(entry.from, q)

\* The staged copy holds what the source holds, but for what others have changed since.
Copied ==
  doing = "publishing" =>
    \A q \in DOMAIN source :
      source[q] # Dir /\ IsPrefix(entry.from, q) => source[q] \in apart \cup Texts(copy)

CompleteInv ==
  Placed /\ Unfinished /\ Accounted /\ LeftBehind /\ Copied /\ Dir \notin original /\ MergeIsComplete

\* Nothing that is left to be picked lies above the entry.
LEMMA NothingLeftAbove ==
  ASSUME Placed, doing # "done", Active, merging # <<>>, NEW q \in Paths, IsPrefix(entry.from, q),
         NEW i \in 1..Len(merging), NEW n \in merging[i].names
  PROVE  ~IsPrefix(n, q)
  <1>1. n \in Paths /\ Len(n) = i /\ i \in Nat /\ Len(merging) \in Nat
    BY MergedFolder DEF Placed, TreeShape
  <1>2. entry.from \in Paths /\ Len(entry.from) = Len(merging)
    BY EntryDepth DEF Placed, TreeShape
  <1>3. ~IsPrefix(n, entry.from)
    BY DEF Placed, TreeShape, EntryShape
  <1>4. Len(n) <= Len(entry.from)
    BY <1>1, <1>2
  <1> QED
    BY <1>1, <1>2, <1>3, <1>4, PrefixOrder

\* So where the entry lands, nothing replaces it.
LEMMA LandsSettled ==
  ASSUME Placed, doing # "done", Active, merging # <<>>, UNCHANGED <<merging, entry, asked>>, ~Untouched',
         NEW r \in Paths, NEW q, q = entry.to \o r
  PROVE  Settled(q)'
  <1> SUFFICES ASSUME asked.policy = "replace", Pending(q)'
               PROVE  FALSE
    BY DEF Settled
  <1>1. entry.from = entry.to /\ entry.to \in Paths
    BY DEF Placed, TreeShape, EntryShape
  <1>2. q \in Paths /\ IsPrefix(entry.from, q)
    BY <1>1, Splitting
  <1>3. \E i \in 1..Len(merging) : \E n \in merging[i].names : IsPrefix(n, q)
    BY DEF Pending
  <1> QED
    BY <1>2, <1>3, NothingLeftAbove

\* A step that touches neither tree has to leave no text pending no more, unless it is kept
\* apart, and none pending that was not.
LEMMA QuietAccounts ==
  ASSUME CompleteInv, doing # "done", UNCHANGED <<source, dest, asked, original>>, apart \subseteq apart',
         \A q \in Paths : Pending(q)' => Pending(q),
         \A q \in DOMAIN source : source[q] # Dir /\ Pending(q) => Pending(q)' \/ source[q] \in apart',
         Checking => Checking' /\ UNCHANGED entry
  PROVE  Accounted' /\ LeftBehind'
  <1>1. DOMAIN source \subseteq Paths /\ DOMAIN dest \subseteq Paths
    BY DEF CompleteInv, Placed, AreTrees, IsTree, Paths
  <1>2. Accounted'
    <2> SUFFICES ASSUME NEW y \in original \ apart'
                 PROVE  \/ \E q \in DOMAIN source : source[q] = y /\ Pending(q)'
                        \/ \E q \in DOMAIN dest : dest[q] = y /\ Settled(q)'
      BY DEF Accounted
    <2>1. y # Dir
      BY DEF CompleteInv
    <2>2. \/ \E q \in DOMAIN source : source[q] = y /\ Pending(q)
          \/ \E q \in DOMAIN dest : dest[q] = y /\ Settled(q)
      BY DEF CompleteInv, Accounted
    <2>3. ASSUME NEW q \in DOMAIN dest, Settled(q)
          PROVE  Settled(q)'
      BY <2>3, <1>1 DEF Settled
    <2> QED
      BY <2>1, <2>2, <2>3
  <1>3. LeftBehind'
    <2> SUFFICES ASSUME asked.move, NEW q \in DOMAIN source, source[q] # Dir
                 PROVE  \/ source[q] \in apart' \/ Pending(q)'
                        \/ Checking' /\ IsPrefix(entry'.from, q)
      BY DEF LeftBehind
    <2>1. \/ source[q] \in apart \/ Pending(q)
          \/ Checking /\ IsPrefix(entry.from, q)
      BY DEF CompleteInv, LeftBehind
    <2> QED
      BY <2>1
  <1> QED
    BY <1>2, <1>3

\* What is pending while the stack and the entry stay.
LEMMA PendingStays ==
  ASSUME UNCHANGED <<merging, entry>>, Untouched' = Untouched, NEW q
  PROVE  Pending(q)' <=> Pending(q)
  BY DEF Pending

\* Skipping keeps texts apart, and merging a folder makes its names those that are left.
LEMMA InspectAccounts ==
  ASSUME CompleteInv, Inspect
  PROVE  Accounted' /\ LeftBehind' /\ Copied'
  <1> DEFINE p == entry.from
  <1>1. /\ doing = "inspecting" /\ Untouched /\ Placed /\ AreTrees /\ TreeShape /\ p \in Paths
        /\ UNCHANGED <<source, dest, asked, original>> /\ ~Checking
    BY DEF Inspect, CompleteInv, Placed, TreeShape, EntryShape, Active, Untouched, Checking
  <1>2. CASE doing' = "done"
    BY <1>2 DEF Accounted, LeftBehind, Copied
  <1>3. CASE /\ p \in DOMAIN source \cap DOMAIN dest /\ source[p] = Dir /\ dest[p] = Dir
             /\ merging' = Append(merging, [folder |-> p, names |-> Names(source, p)])
             /\ doing' = "picking" /\ UNCHANGED <<entry, apart>>
    <2> DEFINE e == [folder |-> p, names |-> Names(source, p)]
    <2>1. /\ Names(source, p) \subseteq DOMAIN source
          /\ \A n \in Names(source, p) : n \in Paths /\ IsPrefix(p, n)
          /\ \A q \in DOMAIN source : IsPrefix(p, q) /\ q # p => \E n \in Names(source, p) : IsPrefix(n, q)
          /\ e \in Frame /\ e.names = Names(source, p)
      BY <1>1, NamesOf DEF AreTrees, Frame
    <2>2. merging \in Seq(Frame) /\ Len(merging) \in Nat
      BY <1>1, StackTop DEF TreeShape, MergeShape
    <2> HIDE DEF e
    <2>3. /\ Len(merging') = Len(merging) + 1
          /\ \A i \in 1..Len(merging) : merging'[i] = merging[i]
          /\ merging'[Len(merging) + 1] = e
      <3>1. merging' = Append(merging, e)
        BY <1>3 DEF e
      <3> QED
        BY <3>1, <2>1, <2>2, StackPush
    <2>4. ~Untouched' /\ ~Checking'
      BY <1>3 DEF Untouched, Checking
    <2>5. ASSUME NEW q \in Paths, Pending(q)'
          PROVE  Pending(q)
      <3>1. PICK i \in 1..(Len(merging) + 1) : \E n \in merging'[i].names : IsPrefix(n, q)
        BY <2>3, <2>4, <2>5 DEF Pending
      <3>2. CASE i \in 1..Len(merging)
        BY <3>1, <3>2, <2>3 DEF Pending
      <3>3. CASE i = Len(merging) + 1
        <4>1. PICK n \in Names(source, p) : IsPrefix(n, q)
          BY <3>1, <3>3, <2>1, <2>3
        <4>2. n \in Paths /\ IsPrefix(p, n)
          BY <2>1
        <4>3. IsPrefix(p, q)
          BY <4>1, <4>2, <2>5, <1>1, PrefixOrder
        <4> QED
          BY <4>3, <1>1 DEF Pending
      <3> QED
        BY <3>2, <3>3, <2>2
    <2>6. ASSUME NEW q \in DOMAIN source, source[q] # Dir, Pending(q)
          PROVE  Pending(q)'
      <3>1. CASE \E i \in 1..Len(merging) : \E n \in merging[i].names : IsPrefix(n, q)
        <4>1. PICK i \in 1..Len(merging) : \E n \in merging[i].names : IsPrefix(n, q)
          BY <3>1
        <4>2. i \in 1..Len(merging') /\ merging'[i] = merging[i]
          BY <2>2, <2>3
        <4> QED
          BY <4>1, <4>2 DEF Pending
      <3>2. CASE IsPrefix(p, q)
        <4>1. PICK n \in Names(source, p) : IsPrefix(n, q)
          BY <3>2, <2>1, <2>6, <1>3
        <4>2. Len(merging) + 1 \in 1..Len(merging') /\ n \in merging'[Len(merging) + 1].names
          BY <2>1, <2>2, <2>3
        <4> QED
          BY <4>1, <4>2 DEF Pending
      <3> QED
        BY <3>1, <3>2, <2>6 DEF Pending
    <2>7. Accounted' /\ LeftBehind'
      BY <2>5, <2>6, <1>1, <1>3, QuietAccounts
    <2> QED
      BY <2>7, <1>3 DEF Copied
  <1>4. CASE UNCHANGED <<merging, apart>> /\ entry'.from = p /\ doing' \in {"renaming", "copying"}
    <2>1. ASSUME NEW q
          PROVE  Pending(q)' <=> Pending(q)
      BY <1>1, <1>4 DEF Pending, Untouched
    <2>2. Accounted' /\ LeftBehind'
      BY <2>1, <1>1, <1>4, QuietAccounts
    <2> QED
      BY <2>2, <1>4 DEF Copied
  <1>5. CASE /\ UNCHANGED merging /\ doing' = "picking"
             /\ apart' = apart \cup Texts(Sub(source, p))
    <2>1. ASSUME NEW q, Pending(q)'
          PROVE  Pending(q)
      BY <2>1, <1>1, <1>5 DEF Pending, Untouched
    <2>2. ASSUME NEW q \in DOMAIN source, source[q] # Dir, Pending(q)
          PROVE  Pending(q)' \/ source[q] \in apart'
      <3>1. CASE IsPrefix(p, q)
        <4>1. source[q] \in Texts(Sub(source, p))
          BY <3>1, <2>2, <1>1, SubOf DEF Texts, AreTrees
        <4> QED
          BY <4>1, <1>5
      <3>2. CASE ~IsPrefix(p, q)
        BY <3>2, <2>2, <1>5 DEF Pending
      <3> QED
        BY <3>1, <3>2
    <2>3. Accounted' /\ LeftBehind'
      BY <2>1, <2>2, <1>1, <1>5, QuietAccounts
    <2> QED
      BY <2>3, <1>5 DEF Copied
  <1>6. \/ doing' = "done"
        \/ /\ p \in DOMAIN source \cap DOMAIN dest /\ source[p] = Dir /\ dest[p] = Dir
           /\ merging' = Append(merging, [folder |-> p, names |-> Names(source, p)])
           /\ doing' = "picking" /\ UNCHANGED <<entry, apart>>
        \/ UNCHANGED <<merging, apart>> /\ doing' \in {"renaming", "copying"}
           /\ \/ entry' = [entry EXCEPT !.looked = Look(source, p)]
              \/ \E to : entry' = [entry EXCEPT !.to = to, !.looked = Look(source, p)]
              \/ entry' = [entry EXCEPT !.replaces = dest[p], !.looked = Look(source, p)]
        \/ /\ UNCHANGED merging /\ doing' = "picking"
           /\ apart' = apart \cup Texts(Sub(source, p))
    BY Zenon DEF Inspect, Fail
  <1>7. entry = [from |-> p, to |-> entry.to, replaces |-> entry.replaces, looked |-> entry.looked]
    BY <1>1 DEF TreeShape, EntryShape, Active
  <1>8. (\/ entry' = [entry EXCEPT !.looked = Look(source, p)]
         \/ \E to : entry' = [entry EXCEPT !.to = to, !.looked = Look(source, p)]
         \/ entry' = [entry EXCEPT !.replaces = dest[p], !.looked = Look(source, p)])
        => entry'.from = p
    BY <1>7
  <1> QED
    BY <1>2, <1>3, <1>4, <1>5, <1>6, <1>8

\* Reading, comparing and picking: the same paths stay pending.
LEMMA ReadAccounts ==
  ASSUME CompleteInv, CopyTree \/ CompareTree \/ Equate \/ RemovalFails
  PROVE  Accounted' /\ LeftBehind' /\ Copied'
  <1>1. /\ UNCHANGED <<source, dest, asked, merging, entry, original, apart>> /\ doing # "done" /\ Placed
    BY DEF CopyTree, CompareTree, Equate, RemovalFails, histories, CompleteInv
  <1>2. CASE doing' = "done"
    BY <1>2 DEF Accounted, LeftBehind, Copied
  <1>3. CASE doing' # "done"
    <2>1. \/ Untouched /\ Untouched' /\ ~Checking /\ doing' = "publishing" /\ copy' = Sub(source, entry.from)
          \/ ~Untouched /\ ~Untouched' /\ Checking' /\ doing' # "publishing"
      BY <1>3, Zenon DEF CopyTree, CompareTree, Equate, RemovalFails, Fail, Differs, Untouched, Checking
    <2>2. ASSUME NEW q
          PROVE  Pending(q)' <=> Pending(q)
      BY <2>1, <1>1 DEF Pending
    <2>3. Accounted' /\ LeftBehind'
      BY <2>1, <2>2, <1>1, QuietAccounts
    <2>4. Copied'
      <3> SUFFICES ASSUME doing' = "publishing", NEW q \in DOMAIN source, source[q] # Dir,
                          IsPrefix(entry.from, q)
                   PROVE  source[q] \in Texts(copy')
        BY <1>1 DEF Copied, Texts
      <3>1. copy' = Sub(source, entry.from) /\ Untouched
        BY <2>1
      <3>2. IsTree(source) /\ entry.from \in Paths
        BY <3>1, <1>1 DEF Placed, AreTrees, TreeShape, EntryShape, Untouched, Active
      <3> QED
        BY <3>1, <3>2, SubOf DEF Texts
    <2> QED
      BY <2>3, <2>4
  <1> QED
    BY <1>2, <1>3

\* The entry that is picked was pending as a name, and is pending as the entry.
LEMMA PickAccounts ==
  ASSUME CompleteInv, Pick
  PROVE  Accounted' /\ LeftBehind' /\ Copied'
  <1>1. /\ doing = "picking" /\ doing' = "inspecting" /\ merging # <<>>
        /\ Last(merging) = merging[Len(merging)] /\ Len(merging) \in 1..Len(merging)
        /\ entry'.from \in Last(merging).names /\ Len(merging') = Len(merging)
        /\ \A i \in 1..Len(merging) :
             merging'[i].names =
               IF i = Len(merging) THEN merging[i].names \ {entry'.from} ELSE merging[i].names
    BY PickIs DEF CompleteInv
  <1>2. UNCHANGED <<source, dest, asked, original, apart>>
    BY DEF Pick, histories
  <1>3. ~Untouched /\ Untouched' /\ ~Checking
    BY <1>1 DEF Untouched, Checking
  <1>4. ASSUME NEW q
        PROVE  Pending(q)' <=> Pending(q)
    <2>1. ASSUME Pending(q)'
          PROVE  Pending(q)
      <3>1. \/ \E i \in 1..Len(merging) : \E n \in merging'[i].names : IsPrefix(n, q)
            \/ IsPrefix(entry'.from, q)
        BY <2>1, <1>1 DEF Pending
      <3>2. \A i \in 1..Len(merging) : merging'[i].names \subseteq merging[i].names
        BY <1>1
      <3> QED
        BY <3>1, <3>2, <1>1 DEF Pending
    <2>2. ASSUME Pending(q)
          PROVE  Pending(q)'
      <3>0. PICK i \in 1..Len(merging) : \E n \in merging[i].names : IsPrefix(n, q)
        BY <2>2, <1>3 DEF Pending
      <3>1. PICK n \in merging[i].names : IsPrefix(n, q)
        BY <3>0
      <3>2. CASE n = entry'.from
        BY <3>1, <3>2, <1>3 DEF Pending
      <3>3. CASE n # entry'.from
        <4>1. n \in merging'[i].names /\ i \in 1..Len(merging')
          BY <3>1, <3>3, <1>1
        <4> QED
          BY <4>1, <3>1 DEF Pending
      <3> QED
        BY <3>2, <3>3
    <2> QED
      BY <2>1, <2>2
  <1>5. Accounted' /\ LeftBehind'
    BY <1>1, <1>2, <1>3, <1>4, QuietAccounts
  <1> QED
    BY <1>1, <1>5 DEF Copied

\* What is renamed lands where nothing replaces it, and leaves nothing behind.
LEMMA RenameAccounts ==
  ASSUME CompleteInv, Rename
  PROVE  Accounted' /\ LeftBehind' /\ Copied'
  <1>1. /\ doing = "renaming" /\ doing # "done" /\ Untouched /\ ~Checking /\ Active /\ Placed
        /\ UNCHANGED <<asked, merging, entry, original, apart>>
    BY DEF Rename, histories, Untouched, Checking, Active, CompleteInv
  <1>2. CASE doing' = "done"
    BY <1>2 DEF Accounted, LeftBehind, Copied
  <1>3. CASE doing' = "copying" /\ UNCHANGED <<source, dest>>
    <2>1. ASSUME NEW q
          PROVE  Pending(q)' <=> Pending(q)
      BY <1>1, <1>3 DEF Pending, Untouched
    <2>2. Accounted' /\ LeftBehind'
      BY <2>1, <1>1, <1>3, QuietAccounts
    <2> QED
      BY <2>2, <1>3 DEF Copied
  <1>4. CASE doing' = "picking" /\ source' # source
    <2>1. /\ merging # <<>> /\ entry.to \notin DOMAIN dest
          /\ source' = Cut(source, entry.from) /\ dest' = Graft(dest, entry.to, Sub(source, entry.from))
          /\ IsTree(Sub(source, entry.from)) /\ <<>> \in DOMAIN Sub(source, entry.from)
      BY <1>1, <1>4, RenameIs
    <2>2. /\ \A q \in DOMAIN dest : q # entry.to => q \in DOMAIN dest' /\ dest'[q] = dest[q]
          /\ \A r \in DOMAIN Sub(source, entry.from) :
               entry.to \o r \in DOMAIN dest' /\ dest'[entry.to \o r] = Sub(source, entry.from)[r]
      BY <1>1, <2>1, Landing
    <2>3. IsTree(source) /\ DOMAIN source \subseteq Paths /\ entry.from \in Paths
      BY <1>1 DEF Placed, AreTrees, TreeShape, EntryShape, IsTree, Paths
    <2>4. ~Untouched' /\ ~Checking'
      BY <1>4 DEF Untouched, Checking
    <2>5. /\ \A q \in DOMAIN source : q \in DOMAIN source' <=> ~IsPrefix(entry.from, q)
          /\ \A q \in DOMAIN source' : q \in DOMAIN source /\ source'[q] = source[q]
      BY <2>1, <2>3, CutOf
    <2>6. ASSUME NEW q
          PROVE  (Pending(q)' => Pending(q)) /\ (Pending(q) => Pending(q)' \/ IsPrefix(entry.from, q))
      BY <1>1, <2>4 DEF Pending
    <2>7. Accounted'
      <3> SUFFICES ASSUME NEW y \in original \ apart
                   PROVE  \/ \E q \in DOMAIN source' : source'[q] = y /\ Pending(q)'
                          \/ \E q \in DOMAIN dest' : dest'[q] = y /\ Settled(q)'
        BY <1>1 DEF Accounted
      <3>1. ASSUME NEW q \in DOMAIN dest, dest[q] = y, Settled(q)
            PROVE  q \in DOMAIN dest' /\ dest'[q] = y /\ Settled(q)'
        BY <3>1, <1>1, <2>1, <2>2, <2>6 DEF Settled
      <3>2. ASSUME NEW q \in DOMAIN source, source[q] = y, Pending(q), ~IsPrefix(entry.from, q)
            PROVE  q \in DOMAIN source' /\ source'[q] = y /\ Pending(q)'
        BY <3>2, <2>5, <2>6
      <3>3. ASSUME NEW q \in DOMAIN source, source[q] = y, IsPrefix(entry.from, q)
            PROVE  \E z \in DOMAIN dest' : dest'[z] = y /\ Settled(z)'
        <4>1. /\ Suffix(entry.from, q) \in DOMAIN Sub(source, entry.from)
              /\ Sub(source, entry.from)[Suffix(entry.from, q)] = y
          BY <3>3, <2>3, SubOf
        <4>2. Suffix(entry.from, q) \in Paths
          BY <2>3, Splitting
        <4>0. PICK z : z = entry.to \o Suffix(entry.from, q)
          OBVIOUS
        <4>3. Settled(z)'
          BY <4>0, <4>2, <1>1, <2>1, <2>4, LandsSettled
        <4>4. z \in DOMAIN dest' /\ dest'[z] = y
          BY <4>0, <4>1, <2>2
        <4> QED
          BY <4>3, <4>4
      <3>4. \/ \E q \in DOMAIN source : source[q] = y /\ Pending(q)
            \/ \E q \in DOMAIN dest : dest[q] = y /\ Settled(q)
        BY <1>1 DEF CompleteInv, Accounted
      <3> QED
        BY <3>1, <3>2, <3>3, <3>4
    <2>8. LeftBehind'
      <3> SUFFICES ASSUME asked.move, NEW q \in DOMAIN source', source'[q] # Dir
                   PROVE  source'[q] \in apart \/ Pending(q)'
        BY <1>1 DEF LeftBehind
      <3>1. q \in DOMAIN source /\ source'[q] = source[q] /\ ~IsPrefix(entry.from, q)
        BY <2>5
      <3>2. source[q] \in apart \/ Pending(q)
        BY <3>1, <1>1 DEF CompleteInv, LeftBehind
      <3> QED
        BY <3>1, <3>2, <2>6
    <2> QED
      BY <2>7, <2>8, <1>4 DEF Copied
  <1>5. \/ doing' = "done"
        \/ doing' = "copying" /\ UNCHANGED <<source, dest>>
        \/ doing' = "picking" /\ entry.from \in DOMAIN source /\ source' = Cut(source, entry.from)
    BY DEF Rename, Fail, Either
  <1>6. entry.from \in DOMAIN source => entry.from \notin DOMAIN Cut(source, entry.from)
    <2>1. IsTree(source) /\ entry.from \in Paths
      BY <1>1 DEF Placed, AreTrees, TreeShape, EntryShape
    <2> QED
      BY <2>1, CutOf, PrefixOrder
  <1> QED
    BY <1>2, <1>3, <1>4, <1>5, <1>6

\* So does what is published, which replaces no text that was brought over.
LEMMA PublishAccounts ==
  ASSUME CompleteInv, PublishTree
  PROVE  Accounted' /\ LeftBehind' /\ Copied'
  <1>1. /\ doing = "publishing" /\ doing # "done" /\ Untouched /\ ~Checking /\ Active /\ Placed
        /\ merging # <<>> /\ IsTree(copy) /\ <<>> \in DOMAIN copy
        /\ UNCHANGED <<source, asked, merging, entry, original, apart>>
    BY PublishIs DEF PublishTree, Untouched, Checking, CompleteInv
  <1>2. CASE doing' = "done"
    BY <1>2 DEF Accounted, LeftBehind, Copied
  <1>3. CASE doing' # "done"
    <2>1. /\ dest' = Graft(dest, entry.to, copy)
          /\ entry.to \in DOMAIN dest => entry.replaces # Nothing /\ dest[entry.to] = entry.replaces
          /\ doing' = (IF asked.move THEN "comparing" ELSE "picking")
      BY <1>1, <1>3, PublishIs
    <2>2. /\ \A q \in DOMAIN dest : q # entry.to => q \in DOMAIN dest' /\ dest'[q] = dest[q]
          /\ \A r \in DOMAIN copy : entry.to \o r \in DOMAIN dest' /\ dest'[entry.to \o r] = copy[r]
      BY <1>1, <2>1, Landing
    <2>3. ~Untouched' /\ (asked.move => Checking') /\ doing' # "publishing"
      BY <2>1 DEF Untouched, Checking
    <2>4. ASSUME NEW q
          PROVE  (Pending(q)' => Pending(q)) /\ (Pending(q) => Pending(q)' \/ IsPrefix(entry.from, q))
      BY <1>1, <2>3 DEF Pending
    <2>5. Accounted'
      <3> SUFFICES ASSUME NEW y \in original \ apart
                   PROVE  \/ \E q \in DOMAIN source : source[q] = y /\ Pending(q)'
                          \/ \E q \in DOMAIN dest' : dest'[q] = y /\ Settled(q)'
        BY <1>1 DEF Accounted
      <3>1. ASSUME NEW q \in DOMAIN dest, dest[q] = y, Settled(q)
            PROVE  q \in DOMAIN dest' /\ dest'[q] = y /\ Settled(q)'
        <4>1. q # entry.to
          <5> SUFFICES ASSUME q = entry.to
                       PROVE  FALSE
            OBVIOUS
          <5>1. asked.policy = "replace" /\ entry.from = entry.to /\ entry.from \in Paths
            BY <1>1, <2>1 DEF Placed, TreeShape, EntryShape
          <5>2. Pending(q)
            BY <5>1, <1>1, PrefixOrder DEF Pending
          <5> QED
            BY <5>1, <5>2, <3>1 DEF Settled
        <4> QED
          BY <4>1, <3>1, <1>1, <2>2, <2>4 DEF Settled
      <3>2. ASSUME NEW q \in DOMAIN source, source[q] = y, IsPrefix(entry.from, q)
            PROVE  \E z \in DOMAIN dest' : dest'[z] = y /\ Settled(z)'
        <4>1. y # Dir
          BY DEF CompleteInv
        <4>2. y \in Texts(copy)
          BY <4>1, <3>2, <1>1 DEF CompleteInv, Copied
        <4>3. PICK r \in DOMAIN copy : copy[r] = y
          BY <4>2 DEF Texts
        <4>4. r \in Paths
          BY <1>1 DEF IsTree, Paths
        <4>0. PICK z : z = entry.to \o r
          OBVIOUS
        <4>5. Settled(z)'
          BY <4>0, <4>4, <1>1, <2>3, LandsSettled
        <4>6. z \in DOMAIN dest' /\ dest'[z] = y
          BY <4>0, <4>3, <2>2
        <4> QED
          BY <4>5, <4>6
      <3>3. \/ \E q \in DOMAIN source : source[q] = y /\ Pending(q)
            \/ \E q \in DOMAIN dest : dest[q] = y /\ Settled(q)
        BY <1>1 DEF CompleteInv, Accounted
      <3> QED
        BY <3>1, <3>2, <3>3, <2>4
    <2>6. LeftBehind'
      <3> SUFFICES ASSUME asked.move, NEW q \in DOMAIN source, source[q] # Dir
                   PROVE  \/ source[q] \in apart \/ Pending(q)'
                          \/ Checking' /\ IsPrefix(entry.from, q)
        BY <1>1 DEF LeftBehind
      <3>1. source[q] \in apart \/ Pending(q)
        BY <1>1 DEF CompleteInv, LeftBehind
      <3> QED
        BY <3>1, <2>3, <2>4
    <2> QED
      BY <2>5, <2>6, <2>3 DEF Copied
  <1> QED
    BY <1>2, <1>3

\* What is removed had been brought over, and when the removal ends nothing of it is left.
LEMMA RemovalAccounts ==
  ASSUME CompleteInv, doing = "removing", NEW p \in Paths, IsPrefix(entry.from, p),
         source' = Cut(source, p), UNCHANGED <<dest, asked, merging, entry, original, apart>>,
         doing' = "removing" \/ (doing' = "picking" /\ p = entry.from)
  PROVE  Accounted' /\ LeftBehind' /\ Copied'
  <1>1. /\ doing # "done" /\ ~Untouched /\ Checking /\ Active /\ Placed /\ AreTrees /\ TreeShape
        /\ ~Untouched'
    BY DEF Untouched, Checking, Active, CompleteInv, Placed
  <1>2. /\ IsTree(source) /\ DOMAIN source \subseteq Paths /\ entry.from \in Paths /\ merging # <<>>
    BY <1>1 DEF AreTrees, TreeShape, EntryShape, IsTree, Paths
  <1>3. /\ \A q \in DOMAIN source : q \in DOMAIN source' <=> ~IsPrefix(p, q)
        /\ \A q \in DOMAIN source' : q \in DOMAIN source /\ source'[q] = source[q]
    BY <1>2, CutOf
  <1>4. ASSUME NEW q
        PROVE  Pending(q)' <=> Pending(q)
    BY <1>1 DEF Pending
  <1>5. ASSUME NEW q \in DOMAIN source, Pending(q)
        PROVE  q \in DOMAIN source'
    <2>1. \E i \in 1..Len(merging) : \E n \in merging[i].names : IsPrefix(n, q)
      BY <1>5, <1>1 DEF Pending
    <2>2. ~IsPrefix(entry.from, q)
      BY <2>1, <1>1, <1>2, NothingLeftAbove
    <2>3. ~IsPrefix(p, q)
      BY <2>2, <1>2, PrefixOrder
    <2> QED
      BY <2>3, <1>3
  <1>6. Accounted'
    <2> SUFFICES ASSUME NEW y \in original \ apart
                 PROVE  \/ \E q \in DOMAIN source' : source'[q] = y /\ Pending(q)'
                        \/ \E q \in DOMAIN dest : dest[q] = y /\ Settled(q)'
      BY DEF Accounted
    <2>1. \/ \E q \in DOMAIN source : source[q] = y /\ Pending(q)
          \/ \E q \in DOMAIN dest : dest[q] = y /\ Settled(q)
      BY <1>1 DEF CompleteInv, Accounted
    <2> QED
      BY <2>1, <1>3, <1>4, <1>5 DEF Settled
  <1>7. LeftBehind'
    <2> SUFFICES ASSUME asked.move, NEW q \in DOMAIN source', source'[q] # Dir
                 PROVE  \/ source'[q] \in apart \/ Pending(q)'
                        \/ Checking' /\ IsPrefix(entry.from, q)
      BY DEF LeftBehind
    <2>1. q \in DOMAIN source /\ source'[q] = source[q] /\ ~IsPrefix(p, q)
      BY <1>3
    <2>2. \/ source[q] \in apart \/ Pending(q)
          \/ IsPrefix(entry.from, q)
      BY <2>1, <1>1 DEF CompleteInv, LeftBehind
    <2>3. doing' = "removing" => Checking'
      BY DEF Checking
    <2> QED
      BY <2>1, <2>2, <2>3, <1>4
  <1> QED
    BY <1>6, <1>7 DEF Copied

\* The steps of a removal.
LEMMA RemoveEntryAccounts ==
  ASSUME CompleteInv, RemoveEntry
  PROVE  Accounted' /\ LeftBehind' /\ Copied'
  <1>1. PICK p \in Due \cap DOMAIN source :
           \/ /\ source[p] # Dir /\ source' = Cut(source, p) /\ emptying' = Rest(p) /\ Removed
           \/ /\ source[p] = Dir /\ UNCHANGED <<source, doing, ending>>
              /\ emptying' = Append(Rest(p), [folder |-> p, names |-> Names(source, p)])
    BY RemoveEntryIs
  <1>2. /\ doing = "removing" /\ UNCHANGED <<dest, asked, merging, entry, original, apart>> /\ Placed
    BY DEF RemoveEntry, histories, CompleteInv
  <1>3. p \in Paths /\ IsPrefix(entry.from, p) /\ (emptying = <<>> => p = entry.from)
    BY <1>1, <1>2, DueIs
  <1>4. CASE doing' = "done"
    BY <1>4 DEF Accounted, LeftBehind, Copied
  <1>5. CASE doing' # "done" /\ source' = Cut(source, p) /\ emptying' = Rest(p) /\ Removed
    <2>1. doing' = "removing" \/ (doing' = "picking" /\ emptying' = <<>>)
      BY <1>2, <1>5 DEF Removed, Either, Fail
    <2>2. emptying' = <<>> => p = entry.from
      BY <1>1, <1>2, <1>3, <1>5, RestIs
    <2> QED
      BY <2>1, <2>2, <1>2, <1>3, <1>5, RemovalAccounts
  <1>6. CASE UNCHANGED <<source, doing>>
    <2>1. ASSUME NEW q
          PROVE  Pending(q)' <=> Pending(q)
      BY <1>2, <1>6 DEF Pending, Untouched
    <2>2. Checking' /\ doing # "done"
      BY <1>2, <1>6 DEF Checking
    <2>3. Accounted' /\ LeftBehind'
      BY <2>1, <2>2, <1>2, <1>6, QuietAccounts
    <2> QED
      BY <2>3, <1>2, <1>6 DEF Copied
  <1> QED
    BY <1>1, <1>4, <1>5, <1>6

\* The last folder to be removed is the entry itself.
LEMMA RemoveFolderAccounts ==
  ASSUME CompleteInv, RemoveFolder
  PROVE  Accounted' /\ LeftBehind' /\ Copied'
  <1>1. /\ doing = "removing" /\ Top.folder \in Paths /\ IsPrefix(entry.from, Top.folder)
        /\ entry.from \in Paths /\ Len(emptying) \in Nat /\ Len(entry.from) \in Nat
        /\ Len(Top.folder) = Len(entry.from) + Len(emptying) - 1
        /\ source' = Cut(source, Top.folder) /\ Removed
        /\ emptying' \in Seq(Frame) /\ Len(emptying') = Len(emptying) - 1
    BY RemoveFolderIs DEF CompleteInv
  <1>2. UNCHANGED <<dest, asked, merging, entry, original, apart>>
    BY DEF RemoveFolder, histories
  <1>3. CASE doing' = "done"
    BY <1>3 DEF Accounted, LeftBehind, Copied
  <1>4. CASE doing' # "done"
    <2>1. doing' = "removing" \/ (doing' = "picking" /\ emptying' = <<>>)
      BY <1>1, <1>4 DEF Removed, Either, Fail
    <2>2. emptying' = <<>> => Top.folder = entry.from
      <3>1. emptying' = <<>> => Len(emptying') = 0
        BY <1>1, StackTop
      <3> DEFINE l == Len(emptying')
                 n == Len(emptying)
                 f == Len(entry.from)
      <3>2. l = n - 1 /\ n \in Nat /\ f \in Nat /\ Len(Top.folder) = f + n - 1
        BY <1>1
      <3> HIDE DEF l, n, f
      <3>3. l = 0 => Len(Top.folder) = f
        BY <3>2
      <3>4. emptying' = <<>> => Len(Top.folder) = Len(entry.from)
        BY <3>1, <3>3 DEF l, f
      <3> QED
        BY <3>4, <1>1, PrefixOrder
    <2> QED
      BY <2>1, <2>2, <1>1, <1>2, RemovalAccounts
  <1> QED
    BY <1>3, <1>4

\* What ends a merge, or all of it, has no names left and takes no text.
LEMMA EndMergeAccounts ==
  ASSUME CompleteInv, EndMerge
  PROVE  /\ Accounted' /\ LeftBehind' /\ Copied'
         /\ ending' = "ok" => MergeIsComplete'
  <1>1. /\ doing = "picking" /\ merging # <<>> /\ Last(merging).names = {}
        /\ Last(merging) = merging[Len(merging)] /\ Len(merging) \in 1..Len(merging)
        /\ Len(merging) \in Nat /\ Last(merging).folder \in Paths
        /\ \/ source' = source
           \/ /\ source' = Cut(source, Last(merging).folder)
              /\ \A q \in DOMAIN source : IsPrefix(Last(merging).folder, q) => source[q] = Dir
        /\ \/ doing' = "done" /\ ending' = "failed"
           \/ /\ Len(merging') = Len(merging) - 1
              /\ \A i \in 1..(Len(merging) - 1) : merging'[i] = merging[i]
              /\ \/ merging' # <<>> /\ UNCHANGED <<doing, ending>>
                 \/ merging' = <<>> /\ doing' = "done" /\ ending' = "ok"
    BY EndMergeIs DEF CompleteInv
  <1>2. /\ UNCHANGED <<dest, asked, entry, original, apart>> /\ IsTree(source) /\ ending = "none"
        /\ ~Untouched /\ ~Checking
    BY <1>1 DEF EndMerge, histories, CompleteInv, Placed, AreTrees, Unfinished, Untouched, Checking
  <1>3. /\ \A q \in DOMAIN source : source[q] # Dir => q \in DOMAIN source' /\ source'[q] = source[q]
        /\ \A q \in DOMAIN source' : q \in DOMAIN source /\ source'[q] = source[q]
    BY <1>1, <1>2, CutOf
  <1>4. ASSUME NEW q, Pending(q)
        PROVE  \E i \in 1..(Len(merging) - 1) : \E n \in merging[i].names : IsPrefix(n, q)
    <2>1. PICK i \in 1..Len(merging) : \E n \in merging[i].names : IsPrefix(n, q)
      BY <1>2, <1>4 DEF Pending
    <2>2. i # Len(merging)
      BY <2>1, <1>1
    <2>3. i \in 1..(Len(merging) - 1)
      BY <2>2, <1>1
    <2> QED
      BY <2>1, <2>3
  <1>5. \A y \in original \ apart :
          \/ \E q \in DOMAIN source' : source'[q] = y /\ Pending(q)
          \/ \E q \in DOMAIN dest : dest[q] = y /\ Settled(q)
    <2>1. doing # "done" /\ Dir \notin original
      BY <1>1 DEF CompleteInv
    <2> QED
      BY <2>1, <1>3 DEF CompleteInv, Accounted
  <1>6. asked.move => \A q \in DOMAIN source' : source'[q] # Dir => source'[q] \in apart \/ Pending(q)
    BY <1>1, <1>2, <1>3 DEF CompleteInv, LeftBehind
  <1>7. CASE doing' # "done"
    <2>1. doing' = "picking" /\ ending' = "none"
      BY <1>1, <1>2, <1>7
    <2>2. ASSUME NEW q
          PROVE  Pending(q)' <=> Pending(q)
      <3>1. Pending(q)' <=> \E i \in 1..(Len(merging) - 1) : \E n \in merging'[i].names : IsPrefix(n, q)
        BY <1>1, <1>7, <2>1 DEF Pending, Untouched
      <3>2. \A i \in 1..(Len(merging) - 1) : merging'[i] = merging[i] /\ i \in 1..Len(merging)
        BY <1>1, <1>7
      <3> QED
        BY <3>1, <3>2, <1>4 DEF Pending
    <2>3. Accounted'
      BY <2>2, <1>2, <1>5 DEF Accounted, Settled
    <2>4. LeftBehind'
      BY <2>2, <1>2, <1>6 DEF LeftBehind
    <2> QED
      BY <2>1, <2>3, <2>4 DEF Copied
  <1>8. CASE doing' = "done"
    <2>1. Accounted' /\ LeftBehind' /\ Copied'
      BY <1>8 DEF Accounted, LeftBehind, Copied
    <2>2. ASSUME ending' = "ok"
          PROVE  MergeIsComplete'
      <3>1. Len(merging) = 1
        <4>1. merging' = <<>> /\ Len(merging') = Len(merging) - 1
          BY <1>1, <1>8, <2>2
        <4> QED
          BY <4>1, <1>1
      <3>2. \A q : ~Pending(q)
        BY <3>1, <1>4
      <3>3. original \ apart \subseteq Texts(dest)
        BY <3>2, <1>5 DEF CompleteInv, Texts
      <3>4. asked.move => \A q \in DOMAIN source' : source'[q] # Dir => source'[q] \in apart
        BY <3>2, <1>6
      <3>5. asked.move => Texts(source)' \subseteq apart
        BY <3>4 DEF Texts
      <3>6. Texts(dest)' = Texts(dest)
        BY <1>2 DEF Texts
      <3> QED
        BY <3>3, <3>5, <3>6, <1>2 DEF MergeIsComplete
    <2> QED
      BY <2>1, <2>2
  <1> QED
    BY <1>7, <1>8

\* What others change is kept apart.
LEMMA VisitAccounts ==
  ASSUME CompleteInv, Dir \notin Fresh, Visit
  PROVE  Accounted' /\ LeftBehind' /\ Copied'
  <1>1. PICK here \in BOOLEAN, x \in (Fresh \ known) \cup {Nothing}, p \in Paths :
           /\ Touch(here, p, x) /\ (x # Dir \/ x = Nothing)
           /\ MayPut(IF here THEN source ELSE dest, p)
           /\ x = Nothing => p \in DOMAIN (IF here THEN source ELSE dest)
    BY VisitIs DEF CompleteInv, Placed
  <1>2. /\ AreTrees /\ doing # "done"
        /\ UNCHANGED <<asked, doing, merging, entry, copy, original>>
    BY DEF CompleteInv, Placed, Visit
  <1>3. ASSUME NEW t, IsTree(t), MayPut(t, p), x = Nothing => p \in DOMAIN t
        PROVE  /\ \A q \in DOMAIN t : q # p => q \in DOMAIN Touched(t, p, x) /\ Touched(t, p, x)[q] = t[q]
               /\ \A q \in DOMAIN Touched(t, p, x) :
                    \/ q \in DOMAIN t /\ q # p /\ Touched(t, p, x)[q] = t[q]
                    \/ q = p /\ Touched(t, p, x)[q] = x /\ x # Nothing
    <2>1. \A q \in DOMAIN t : q # p => q \in DOMAIN Touched(t, p, x) /\ Touched(t, p, x)[q] = t[q]
      BY <1>1, <1>3, VisitOf
    <2>2. \A q \in DOMAIN Touched(t, p, x) :
            \/ q \in DOMAIN t /\ q # p /\ Touched(t, p, x)[q] = t[q]
            \/ q = p /\ Touched(t, p, x)[q] = x /\ x # Nothing
      BY <1>1, <1>3, VisitOf
    <2> QED
      BY <2>1, <2>2
  <1>4. /\ apart \subseteq apart'
        /\ \A q \in DOMAIN source : (q \in DOMAIN source' /\ source'[q] = source[q]) \/ source[q] \in apart'
        /\ \A q \in DOMAIN dest : (q \in DOMAIN dest' /\ dest'[q] = dest[q]) \/ dest[q] \in apart'
        /\ \A q \in DOMAIN source' : (q \in DOMAIN source /\ source'[q] = source[q]) \/ source'[q] \in apart'
    <2>1. CASE here
      <3>1. /\ source' = Touched(source, p, x) /\ dest' = dest
            /\ apart' = apart \cup (IF p \in DOMAIN source THEN {source[p]} ELSE {}) \cup ({x} \ {Nothing})
        BY <1>1, <2>1 DEF Touch
      <3> QED
        BY <3>1, <2>1, <1>1, <1>2, <1>3 DEF AreTrees
    <2>2. CASE ~here
      <3>1. /\ source' = source /\ dest' = Touched(dest, p, x)
            /\ apart' = apart \cup (IF p \in DOMAIN dest THEN {dest[p]} ELSE {}) \cup {}
        BY <1>1, <2>2 DEF Touch
      <3> QED
        BY <3>1, <2>2, <1>1, <1>2, <1>3 DEF AreTrees
    <2> QED
      BY <2>1, <2>2
  <1>5. ASSUME NEW q
        PROVE  (Pending(q)' <=> Pending(q)) /\ (Settled(q)' <=> Settled(q))
    BY <1>2 DEF Pending, Settled, Untouched
  <1>6. Checking' = Checking
    BY <1>2 DEF Checking
  <1>7. Accounted'
    <2> SUFFICES ASSUME NEW y \in original \ apart'
                 PROVE  \/ \E q \in DOMAIN source' : source'[q] = y /\ Pending(q)'
                        \/ \E q \in DOMAIN dest' : dest'[q] = y /\ Settled(q)'
      BY <1>2 DEF Accounted
    <2>1. \/ \E q \in DOMAIN source : source[q] = y /\ Pending(q)
          \/ \E q \in DOMAIN dest : dest[q] = y /\ Settled(q)
      BY <1>2, <1>4 DEF CompleteInv, Accounted
    <2> QED
      BY <2>1, <1>4, <1>5
  <1>8. LeftBehind'
    <2> SUFFICES ASSUME asked.move, NEW q \in DOMAIN source', source'[q] # Dir
                 PROVE  \/ source'[q] \in apart' \/ Pending(q)'
                        \/ Checking' /\ IsPrefix(entry.from, q)
      BY <1>2 DEF LeftBehind
    <2>1. CASE q \in DOMAIN source /\ source'[q] = source[q]
      <3>1. \/ source[q] \in apart \/ Pending(q)
            \/ Checking /\ IsPrefix(entry.from, q)
        BY <2>1, <1>2 DEF CompleteInv, LeftBehind
      <3> QED
        BY <3>1, <2>1, <1>4, <1>5, <1>6
    <2> QED
      BY <2>1, <1>4
  <1>9. Copied'
    <2> SUFFICES ASSUME doing = "publishing", NEW q \in DOMAIN source', source'[q] # Dir,
                        IsPrefix(entry.from, q)
                 PROVE  source'[q] \in apart' \cup Texts(copy)
      BY <1>2 DEF Copied, Texts
    <2>1. CASE q \in DOMAIN source /\ source'[q] = source[q]
      BY <2>1, <1>4 DEF CompleteInv, Copied
    <2> QED
      BY <2>1, <1>4
  <1> QED
    BY <1>7, <1>8, <1>9

\* Only the end of the last merge is a success.
LEMMA SuccessIsEndMerge ==
  ASSUME CompleteInv, TreeNext, ending' = "ok"
  PROVE  EndMerge
  <1>1. doing # "done" => ending # "ok"
    BY DEF CompleteInv, Unfinished
  <1>2. CASE Inspect \/ CopyTree \/ CompareTree \/ Equate \/ RemovalFails \/ Pick \/ Visit
    BY <1>1, <1>2, Zenon DEF Inspect, CopyTree, CompareTree, Equate, RemovalFails, Pick, Visit, Fail, Differs
  <1>3. CASE Rename
    BY <1>1, <1>3 DEF Rename, Fail, Either
  <1>4. CASE PublishTree
    BY <1>1, <1>4 DEF PublishTree, Fail, Either
  <1>5. CASE RemoveEntry
    BY <1>1, <1>5, RemoveEntryIs DEF RemoveEntry, Removed, Fail, Either
  <1>6. CASE RemoveFolder
    BY <1>1, <1>6 DEF RemoveFolder, Removed, Fail, Either
  <1> QED
    BY <1>2, <1>3, <1>4, <1>5, <1>6 DEF TreeNext

\* At first everything is pending.
LEMMA CompleteInit == TreeInit => CompleteInv
  <1> SUFFICES ASSUME TreeInit
               PROVE  CompleteInv
    OBVIOUS
  <1>1. Placed
    BY PlacedInit
  <1>2. doing = "inspecting" /\ entry.from = <<>> /\ original = Texts(source) /\ ending = "none"
    BY DEF TreeInit, NoEntry
  <1>3. \A q \in DOMAIN source : Pending(q)
    BY <1>1, <1>2, PrefixOrder DEF Pending, Untouched, Placed, AreTrees, IsTree, Paths
  <1>4. Accounted /\ Dir \notin original
    BY <1>2, <1>3 DEF Accounted, Texts
  <1>5. LeftBehind /\ Copied
    BY <1>2, <1>3 DEF LeftBehind, Copied
  <1>6. Unfinished /\ MergeIsComplete
    BY <1>2 DEF Unfinished, MergeIsComplete
  <1> QED
    BY <1>1, <1>4, <1>5, <1>6 DEF CompleteInv

\* Every step keeps the account.
LEMMA CompleteStep == CompleteInv /\ [TreeNext]_treeVars => CompleteInv'
  <1> SUFFICES ASSUME CompleteInv, [TreeNext]_treeVars
               PROVE  CompleteInv'
    OBVIOUS
  <1>1. Dir \notin Fresh
    BY TreeAssumption
  <1>2. Placed'
    BY <1>1, PlacedStep DEF CompleteInv
  <1>3. CASE UNCHANGED treeVars
    <2>1. UNCHANGED <<source, dest, asked, doing, merging, entry, copy, ending, original, apart>>
      BY <1>3 DEF treeVars
    <2>2. Unfinished' /\ (Dir \notin original)' /\ MergeIsComplete'
      BY <2>1 DEF CompleteInv, Unfinished, MergeIsComplete, Texts
    <2>3. ASSUME NEW q
          PROVE  (Pending(q)' <=> Pending(q)) /\ (Settled(q)' <=> Settled(q))
      BY <2>1 DEF Pending, Settled, Untouched
    <2>4. Accounted' /\ LeftBehind' /\ Copied'
      BY <2>1, <2>3 DEF CompleteInv, Accounted, LeftBehind, Copied, Checking, Texts
    <2> QED
      BY <2>2, <2>4, <1>2 DEF CompleteInv
  <1>4. CASE TreeNext
    <2>1. Accounted' /\ LeftBehind' /\ Copied'
      BY <1>1, <1>4, InspectAccounts, RenameAccounts, ReadAccounts, PublishAccounts, RemoveEntryAccounts,
         RemoveFolderAccounts, PickAccounts, EndMergeAccounts, VisitAccounts DEF TreeNext
    <2>2. Unfinished'
      BY <1>4, UnfinishedStep DEF CompleteInv
    <2>3. MergeIsComplete'
      <3>1. CASE ending' = "ok"
        BY <3>1, <1>4, SuccessIsEndMerge, EndMergeAccounts
      <3>2. CASE ending' # "ok"
        BY <3>2 DEF MergeIsComplete
      <3> QED
        BY <3>1, <3>2
    <2>4. UNCHANGED original
      BY <1>4 DEF TreeNext, Inspect, Rename, CopyTree, PublishTree, CompareTree, Equate, RemoveEntry,
                  RemoveFolder, RemovalFails, Pick, EndMerge, Visit, histories
    <2>5. (Dir \notin original)'
      BY <2>4 DEF CompleteInv
    <2> QED
      BY <2>1, <2>2, <2>3, <2>5, <1>2 DEF CompleteInv
  <1> QED
    BY <1>3, <1>4

\* Theorem: a request that reports success has brought over every text that was not skipped
\* or touched by others, and a move has left nothing else behind.
THEOREM SuccessIsComplete == TreeSpec => []MergeIsComplete
  <1>1. TreeInit => CompleteInv
    BY CompleteInit
  <1>2. CompleteInv /\ [TreeNext]_treeVars => CompleteInv'
    BY CompleteStep
  <1>3. CompleteInv => MergeIsComplete
    BY DEF CompleteInv
  <1> QED
    BY <1>1, <1>2, <1>3, PTL DEF TreeSpec
=============================================================================
