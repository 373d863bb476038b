-------------------------- MODULE WlrootsGlueProofs --------------------------
(***************************************************************************)
(* Theorems of WlrootsGlue, for any pointers, surfaces and listeners of    *)
(* the host, and any number of initialisations.                            *)
(***************************************************************************)
EXTENDS WlrootsGlue, SequenceTheorems, FiniteSetTheorems, TLAPS

(***************************************************************************)
(* The inductive invariant.                                                *)
(***************************************************************************)
Listeners == HostListeners \cup GlueListeners
Links == [next : [Nodes -> Nodes \cup {NULL}],
          prev : [Nodes -> Nodes \cup {NULL}],
          corrupt : BOOLEAN]

(* Nothing ever tangles the backend's signal. *)
TypeInv ==
  /\ links \in Links
  /\ live \subseteq Heads /\ Backend \in live
  /\ up \in BOOLEAN /\ inits \in 0 .. MaxInits /\ (up => inits > 0)
  /\ attached \in [Heads -> Seq(Listeners)]
  /\ tangled \subseteq (Heads \ {Backend}) \cup ({"pointer", "commit"} \X (1 .. inits))

(* The listeners a head may have: those of the host, and of the glue the   *)
(* one of its kind, in the memory the glue has now.                        *)
KindOf(head) ==
  IF head = Backend THEN "new_input" ELSE IF head \in Pointers THEN "pointer" ELSE "commit"
May(head) == HostListeners \cup (IF up THEN {Glue(KindOf(head))} ELSE {})

OnlyOnce(l) ==
  \A a, b \in Heads : \A j \in DOMAIN attached[a], k \in DOMAIN attached[b] :
    attached[a][j] = l /\ attached[b][k] = l => a = b /\ j = k

(* Every listener that is not tangled is attached once at most, and one of *)
(* the glue is tangled exactly if the signals it is attached to are.       *)
AttachedInv ==
  /\ \A h \in Heads \ live : attached[h] = <<>>
  /\ \A h \in Heads : Elements(attached[h]) \subseteq May(h)
  /\ up => Glue("new_input") \in Elements(attached[Backend])
  /\ \A l \in Listeners \ tangled : OnlyOnce(l)
  /\ \A h \in Heads : \A g \in Elements(attached[h]) \cap GlueListeners :
       g \in tangled <=> h \in tangled

(* The k-th place of a ring is that of the k-th listener, and the places   *)
(* before the first and behind the last are that of the head.              *)
Place(head, seq, k) == IF k \in 1 .. Len(seq) THEN seq[k] ELSE head

Ring(ls, head, seq) ==
  \A k \in 0 .. Len(seq) :
    /\ ls.next[Place(head, seq, k)] = Place(head, seq, k + 1)
    /\ ls.prev[Place(head, seq, k + 1)] = Place(head, seq, k)

RingNodes(head, seq) == {head} \cup Elements(seq)

Around(head) == RingNodes(head, attached[head])

(* The listeners the glue may still add to a signal without tangling it.   *)
(* They may keep links of an object that is gone, whose address is another *)
(* object's by now.                                                        *)
Loose == {g \in GlueListeners \ tangled :
            ~IsAttached(g) /\ (g[2] > inits \/ (up /\ g[2] = inits))}

(* No other memory leads into R, whatever other rings have become, ...     *)
Clear(ls, mem, R, loose) ==
  \A x \in mem \ (R \cup loose) : ls.next[x] \notin R /\ ls.prev[x] \notin R

(* ... nor to a loose listener g, ...                                      *)
Alone(ls, mem, g) ==
  /\ ls.next[g] \in Heads \cup {g, NULL} /\ ls.prev[g] \in Heads \cup {g, NULL}
  /\ \A x \in mem : x # g => ls.next[x] # g /\ ls.prev[x] # g

(* ... and to a listener l of the host only the links that it answers, and *)
(* only while it is attached.                                              *)
Answered(ls, mem, l, on) ==
  \A x \in mem : /\ ls.next[x] = l => ls.prev[l] = x /\ on
                 /\ ls.prev[x] = l => ls.next[l] = x /\ on

Orderly(ls, mem, heads) ==
  /\ \A h \in heads \ tangled : Ring(ls, h, attached[h])
  /\ \A h \in Heads \ tangled : Clear(ls, mem, Around(h), Loose)
  /\ \A g \in Loose : Alone(ls, mem, g)
  /\ \A l \in HostListeners : Answered(ls, mem, l, IsAttached(l))

LinksInv ==
  /\ tangled = {} => Defined
  /\ Defined => Orderly(links, Memory, live)

IInv == TypeInv /\ AttachedInv /\ LinksInv

(***************************************************************************)
(* Sequences that lose elements.  Without numbers the positions that stay  *)
(* by how many stay up to them, which is one to one.                       *)
(***************************************************************************)
Rank(kept, k) == Cardinality({j \in kept : j <= k})

LEMMA CountUpTo ==
  ASSUME NEW n \in Nat PROVE IsFiniteSet(1 .. n) /\ Cardinality(1 .. n) = n
  BY FS_Interval

LEMMA Ranks ==
  ASSUME NEW n \in Nat, NEW kept \in SUBSET (1 .. n)
  PROVE  /\ IsFiniteSet(kept) /\ Cardinality(kept) \in Nat
         /\ \A k \in kept : Rank(kept, k) \in 1 .. Cardinality(kept)
         /\ \A j, k \in kept : Rank(kept, j) = Rank(kept, k) => j = k
         /\ \A i \in 1 .. Cardinality(kept) : \E k \in kept : Rank(kept, k) = i
<1> DEFINE c == Cardinality(kept)
           upTo(k) == {j \in kept : j <= k}
<1>1. IsFiniteSet(kept) /\ c \in Nat
  <2>1. IsFiniteSet(1 .. n)
    BY FS_Interval
  <2> QED
    BY <2>1, FS_Subset, FS_CardinalityType
<1>2. ASSUME NEW k \in kept
      PROVE  /\ IsFiniteSet(upTo(k)) /\ upTo(k) \in SUBSET kept
             /\ Rank(kept, k) = Cardinality(upTo(k))
             /\ Rank(kept, k) \in 1 .. c
  <2>1. IsFiniteSet(upTo(k)) /\ upTo(k) \in SUBSET kept
    BY <1>1, FS_Subset
  <2>2. k \in upTo(k)
    OBVIOUS
  <2>3. Cardinality(upTo(k)) \in Nat /\ Cardinality(upTo(k)) <= c
    <3> HIDE DEF upTo
    <3> QED
      BY <1>1, <2>1, FS_Subset, FS_CardinalityType
  <2>4. Cardinality(upTo(k)) # 0
    <3> HIDE DEF upTo
    <3> QED
      BY <2>1, <2>2, FS_EmptySet
  <2>5. Rank(kept, k) = Cardinality(upTo(k))
    BY DEF Rank
  <2> HIDE DEF upTo, c
  <2> QED
    BY <1>1, <2>1, <2>3, <2>4, <2>5
<1>3. ASSUME NEW j \in kept, NEW k \in kept, j < k
      PROVE  Rank(kept, j) # Rank(kept, k)
  <2>0. \A x \in kept : x \in Int
    OBVIOUS
  <2>1. upTo(j) \in SUBSET upTo(k)
    <3>1. \A x \in kept : x <= j => x <= k
      BY <1>3, <2>0
    <3> QED
      BY <3>1
  <2>6. k \in upTo(k) /\ k \notin upTo(j)
    BY <1>3, <2>0
  <2>2. upTo(j) # upTo(k)
    BY <2>6
  <2>3. IsFiniteSet(upTo(k))
    BY <1>2
  <2> HIDE DEF upTo
  <2>4. Cardinality(upTo(k)) # Cardinality(upTo(j))
    BY <2>1, <2>2, <2>3, FS_Subset
  <2> QED
    BY <1>2, <2>4
<1>4. \A j, k \in kept : Rank(kept, j) = Rank(kept, k) => j = k
  BY <1>3
<1> DEFINE f == [k \in kept |-> Rank(kept, k)]
<1>5. f \in Injection(kept, 1 .. c)
  <2>1. f \in [kept -> 1 .. c]
    BY <1>2
  <2> QED
    BY <1>4, <2>1 DEF Injection, IsInjective
<1>6. f \in Surjection(kept, 1 .. c)
  <2>1. IsFiniteSet(1 .. c) /\ Cardinality(1 .. c) = c
    BY <1>1, FS_Interval
  <2> HIDE DEF f
  <2> QED
    BY <1>5, <2>1, FS_Injection
<1>7. \A i \in 1 .. c : \E k \in kept : Rank(kept, k) = i
  BY <1>6 DEF Surjection
<1> QED
  BY <1>1, <1>2, <1>4, <1>7

(* The elements that are not gone stay, each from a place of its own.      *)
LEMMA WithoutPlaces ==
  ASSUME NEW S, NEW seq \in Seq(S), NEW gone
  PROVE  /\ Without(seq, gone) \in Seq(S)
         /\ \E pos \in [1 .. Len(Without(seq, gone)) -> 1 .. Len(seq)] :
              /\ \A i \in 1 .. Len(Without(seq, gone)) :
                   Without(seq, gone)[i] = seq[pos[i]] /\ seq[pos[i]] \notin gone
              /\ \A i, j \in 1 .. Len(Without(seq, gone)) : pos[i] = pos[j] => i = j
              /\ \A k \in 1 .. Len(seq) :
                   seq[k] \notin gone => \E i \in 1 .. Len(Without(seq, gone)) : pos[i] = k
<1> DEFINE kept == {k \in DOMAIN seq : seq[k] \notin gone}
           c == Cardinality(kept)
           pos == [i \in 1 .. c |-> CHOOSE k \in kept : Rank(kept, k) = i]
           w == Without(seq, gone)
<1>1. Len(seq) \in Nat /\ DOMAIN seq = 1 .. Len(seq) /\ \A k \in 1 .. Len(seq) : seq[k] \in S
  BY LenProperties, ElementOfSeq
<1>2. kept \in SUBSET (1 .. Len(seq))
  BY <1>1
<1>3. \A k \in 1 .. Len(seq) : seq[k] \notin gone => k \in kept
  BY <1>1
<1>4. \A k \in kept : seq[k] \notin gone
  OBVIOUS
<1>5. w = [i \in 1 .. c |-> seq[CHOOSE k \in kept : Rank(kept, k) = i]]
  BY DEF Without, Rank
<1> HIDE DEF kept, w
<1>6. /\ c \in Nat
      /\ \A k \in kept : Rank(kept, k) \in 1 .. c
      /\ \A j, k \in kept : Rank(kept, j) = Rank(kept, k) => j = k
      /\ \A i \in 1 .. c : \E k \in kept : Rank(kept, k) = i
  <2> DEFINE n == Len(seq)
  <2>1. n \in Nat /\ kept \in SUBSET (1 .. n)
    BY <1>1, <1>2
  <2> HIDE DEF n
  <2> QED
    BY <2>1, Ranks
<1>7. ASSUME NEW i \in 1 .. c
      PROVE  pos[i] \in kept /\ Rank(kept, pos[i]) = i
  <2>1. \E k \in kept : Rank(kept, k) = i
    BY <1>6
  <2>2. pos[i] = CHOOSE k \in kept : Rank(kept, k) = i
    OBVIOUS
  <2> HIDE DEF pos, c
  <2> QED
    BY <2>1, <2>2
<1>8. w = [i \in 1 .. c |-> seq[pos[i]]]
  BY <1>5
<1>9. ASSUME NEW k \in kept PROVE Rank(kept, k) \in 1 .. c /\ pos[Rank(kept, k)] = k
  <2>1. Rank(kept, k) \in 1 .. c
    BY <1>6
  <2>2. pos[Rank(kept, k)] \in kept /\ Rank(kept, pos[Rank(kept, k)]) = Rank(kept, k)
    BY <2>1, <1>7
  <2> HIDE DEF pos, c
  <2> QED
    BY <1>6, <2>1, <2>2
<1>10. pos \in [1 .. c -> 1 .. Len(seq)]
  BY <1>2, <1>7
<1> HIDE DEF pos, c
<1>11. w \in [1 .. c -> S]
  BY <1>1, <1>8, <1>10
<1>12. w \in Seq(S) /\ Len(w) = c
  BY <1>6, <1>11
<1>13. \A i \in 1 .. c : w[i] = seq[pos[i]] /\ seq[pos[i]] \notin gone
  BY <1>4, <1>7, <1>8
<1>14. \A i, j \in 1 .. c : pos[i] = pos[j] => i = j
  BY <1>7
<1>15. \A k \in 1 .. Len(seq) : seq[k] \notin gone => \E i \in 1 .. c : pos[i] = k
  BY <1>3, <1>9
<1> QED
  BY <1>10, <1>12, <1>13, <1>14, <1>15 DEF w

LEMMA WithoutElements ==
  ASSUME NEW S, NEW seq \in Seq(S), NEW gone
  PROVE  Elements(Without(seq, gone)) = Elements(seq) \ gone
<1> DEFINE w == Without(seq, gone)
<1>1. w \in Seq(S) /\ DOMAIN w = 1 .. Len(w) /\ DOMAIN seq = 1 .. Len(seq)
  BY WithoutPlaces, LenProperties
<1> HIDE DEF w
<1>2. PICK pos \in [1 .. Len(w) -> 1 .. Len(seq)] :
        /\ \A i \in 1 .. Len(w) : w[i] = seq[pos[i]] /\ seq[pos[i]] \notin gone
        /\ \A k \in 1 .. Len(seq) : seq[k] \notin gone => \E i \in 1 .. Len(w) : pos[i] = k
  BY WithoutPlaces DEF w
<1>3. Elements(w) \subseteq Elements(seq) \ gone
  BY <1>1, <1>2 DEF Elements
<1>4. Elements(seq) \ gone \subseteq Elements(w)
  <2>1. SUFFICES ASSUME NEW k \in 1 .. Len(seq), seq[k] \notin gone
                 PROVE  seq[k] \in Elements(w)
    BY <1>1 DEF Elements
  <2>2. PICK i \in 1 .. Len(w) : pos[i] = k
    BY <1>2, <2>1
  <2>3. w[i] = seq[k]
    BY <1>2, <2>2
  <2> QED
    BY <1>1, <2>3 DEF Elements
<1> QED
  BY <1>3, <1>4 DEF w

(* Nothing changes if nothing is gone, ...                                 *)
LEMMA WithoutNone ==
  ASSUME NEW S, NEW seq \in Seq(S), NEW gone, Elements(seq) \cap gone = {}
  PROVE  Without(seq, gone) = seq
<1> DEFINE n == Len(seq)
           kept == {k \in DOMAIN seq : seq[k] \notin gone}
<1>1. n \in Nat /\ DOMAIN seq = 1 .. n /\ seq \in [1 .. n -> S]
  BY LenProperties
<1>2. kept = 1 .. n
  BY <1>1 DEF Elements
<1>3. Without(seq, gone)
        = [i \in 1 .. Cardinality(kept) |-> seq[CHOOSE k \in kept : Rank(kept, k) = i]]
  BY DEF Without, Rank
<1> HIDE DEF kept, n
<1>4. Cardinality(1 .. n) = n
  BY <1>1, FS_Interval
<1>5. ASSUME NEW k \in 1 .. n PROVE Rank(1 .. n, k) = k
  <2>1. {j \in 1 .. n : j <= k} = 1 .. k /\ k \in Nat
    BY <1>1
  <2>2. Cardinality(1 .. k) = k
    BY <2>1, CountUpTo
  <2> QED
    BY <2>1, <2>2 DEF Rank
<1> DEFINE at(i) == CHOOSE k \in 1 .. n : Rank(1 .. n, k) = i
<1>6. ASSUME NEW i \in 1 .. n PROVE at(i) = i
  BY <1>5
<1>7. Without(seq, gone) = [i \in 1 .. n |-> seq[at(i)]]
  BY <1>2, <1>3, <1>4
<1> HIDE DEF at
<1>8. Without(seq, gone) = [i \in 1 .. n |-> seq[i]]
  BY <1>6, <1>7
<1>9. seq = [i \in 1 .. n |-> seq[i]]
  BY <1>1
<1> QED
  BY <1>8, <1>9

(* ... and if one element is, those behind it move up.                     *)
LEMMA WithoutOne ==
  ASSUME NEW S, NEW seq \in Seq(S), NEW gone, NEW m \in 1 .. Len(seq),
         \A k \in 1 .. Len(seq) : seq[k] \in gone <=> k = m
  PROVE  Without(seq, gone)
         = [i \in 1 .. Len(seq) - 1 |-> IF i < m THEN seq[i] ELSE seq[i + 1]]
<1> DEFINE n == Len(seq)
           kept == {k \in DOMAIN seq : seq[k] \notin gone}
<1>1. n \in Nat /\ DOMAIN seq = 1 .. n /\ m \in 1 .. n
  BY LenProperties
<1>2. kept = (1 .. n) \ {m}
  BY <1>1
<1> DEFINE at(i) == CHOOSE k \in kept : Rank(kept, k) = i
<1>3. Without(seq, gone) = [i \in 1 .. Cardinality(kept) |-> seq[at(i)]]
  BY DEF Without, Rank
<1> HIDE DEF kept, n
<1>4. Cardinality(kept) = n - 1
  <2>1. IsFiniteSet(1 .. n) /\ Cardinality(1 .. n) = n
    BY <1>1, FS_Interval
  <2> QED
    BY <1>1, <1>2, <2>1, FS_RemoveElement
<1>5. ASSUME NEW k \in kept PROVE Rank(kept, k) = IF k < m THEN k ELSE k - 1
  <2>0. k \in 1 .. n /\ k # m /\ k \in Nat /\ m \in Nat
    BY <1>1, <1>2
  <2>1. IsFiniteSet(1 .. k) /\ Cardinality(1 .. k) = k
    BY <2>0, CountUpTo
  <2>2. {j \in kept : j <= k} = (1 .. k) \ {m}
    BY <1>1, <1>2
  <2>3. Cardinality((1 .. k) \ {m}) = IF m \in 1 .. k THEN k - 1 ELSE k
    BY <2>1, FS_RemoveElement
  <2>4. m \in 1 .. k <=> ~(k < m)
    BY <1>1, <2>0
  <2> QED
    BY <2>2, <2>3, <2>4 DEF Rank
<1>6. ASSUME NEW i \in 1 .. n - 1
      PROVE  at(i) = IF i < m THEN i ELSE i + 1
  <2> DEFINE p == IF i < m THEN i ELSE i + 1
  <2>1. p \in kept
    BY <1>1, <1>2
  <2>2. Rank(kept, p) = i
    BY <1>1, <1>5, <2>1
  <2>3. \A k \in kept : Rank(kept, k) = i => k = p
    BY <1>1, <1>2, <1>5
  <2> HIDE DEF p
  <2>4. at(i) = p
    BY <2>1, <2>2, <2>3
  <2> QED
    BY <2>4 DEF p
<1> HIDE DEF at
<1>7. \A i \in 1 .. n - 1 : seq[at(i)] = IF i < m THEN seq[i] ELSE seq[i + 1]
  BY <1>6
<1> QED
  BY <1>3, <1>4, <1>7 DEF n

(***************************************************************************)
(* What the list operations write.                                         *)
(***************************************************************************)
LEMMA InsertWrites ==
  ASSUME NEW ls \in Links, NEW tail \in Nodes, NEW e \in Nodes, ls.next[tail] \in Nodes
  PROVE  LET L == Insert(ls, tail, e)
             behind == IF e = tail THEN e ELSE ls.next[tail]
         IN  /\ L \in Links /\ L.corrupt = ls.corrupt
             /\ \A x \in Nodes :
                  L.next[x] = IF x = tail THEN e ELSE IF x = e THEN ls.next[tail] ELSE ls.next[x]
             /\ \A x \in Nodes :
                  L.prev[x] = IF x = behind THEN e ELSE IF x = e THEN tail ELSE ls.prev[x]
<1> DEFINE L == Insert(ls, tail, e)
           pulled == [ls EXCEPT !.prev[e] = tail, !.next[e] = ls.next[tail]]
           pushed == [pulled EXCEPT !.next[tail] = e]
           behind == IF e = tail THEN e ELSE ls.next[tail]
<1>0. /\ ls.next \in [Nodes -> Nodes \cup {NULL}] /\ ls.prev \in [Nodes -> Nodes \cup {NULL}]
      /\ ls.corrupt \in BOOLEAN
      /\ ls = [next |-> ls.next, prev |-> ls.prev, corrupt |-> ls.corrupt]
  BY DEF Links
<1>1. /\ pulled.next = [ls.next EXCEPT ![e] = ls.next[tail]]
      /\ pulled.prev = [ls.prev EXCEPT ![e] = tail]
      /\ pulled.corrupt = ls.corrupt
      /\ pulled \in Links
  BY <1>0 DEF Links
<1>2. /\ pulled.next \in [Nodes -> Nodes \cup {NULL}]
      /\ pulled.prev \in [Nodes -> Nodes \cup {NULL}]
      /\ \A x \in Nodes : pulled.next[x] = IF x = e THEN ls.next[tail] ELSE ls.next[x]
      /\ \A x \in Nodes : pulled.prev[x] = IF x = e THEN tail ELSE ls.prev[x]
  BY <1>0, <1>1
<1> HIDE DEF pulled
<1>3. /\ pushed.next = [pulled.next EXCEPT ![tail] = e]
      /\ pushed.prev = pulled.prev /\ pushed.corrupt = pulled.corrupt
      /\ pushed \in Links
  BY <1>1, <1>2 DEF Links
<1>4. /\ pushed.next \in [Nodes -> Nodes \cup {NULL}]
      /\ \A x \in Nodes : pushed.next[x] = IF x = tail THEN e ELSE pulled.next[x]
  BY <1>2, <1>3
<1>5. pushed.next[e] = behind /\ behind \in Nodes
  BY <1>2, <1>4
<1>6. L = [pushed EXCEPT !.prev[pushed.next[e]] = e]
  BY DEF Insert, pulled
<1> HIDE DEF pushed, L, behind
<1>7. /\ L.next = pushed.next /\ L.corrupt = pushed.corrupt
      /\ L.prev = [pushed.prev EXCEPT ![behind] = e]
      /\ L \in Links
  BY <1>2, <1>3, <1>5, <1>6 DEF Links
<1>8. \A x \in Nodes :
        L.next[x] = IF x = tail THEN e ELSE IF x = e THEN ls.next[tail] ELSE ls.next[x]
  BY <1>2, <1>4, <1>7
<1>9. \A x \in Nodes :
        L.prev[x] = IF x = behind THEN e ELSE IF x = e THEN tail ELSE ls.prev[x]
  <2>1. \A x \in Nodes : L.prev[x] = IF x = behind THEN e ELSE pulled.prev[x]
    BY <1>2, <1>3, <1>7
  <2> QED
    BY <1>2, <2>1
<1>10. L \in Links /\ L.corrupt = ls.corrupt
  BY <1>1, <1>3, <1>7
<1> QED
  BY <1>8, <1>9, <1>10 DEF L, behind

LEMMA AddWrites ==
  ASSUME NEW ls \in Links, ~ls.corrupt, NEW head \in Nodes, NEW e \in Nodes,
         NEW mem \in SUBSET Nodes
  PROVE  LET L == SignalAdd(ls, head, e, mem)
             tail == ls.prev[head]
             next == ls.next[tail]
             behind == IF e = tail THEN e ELSE next
         IN  /\ L \in Links
             /\ ~L.corrupt <=> tail \in mem /\ next \in mem
             /\ ~L.corrupt =>
                  /\ \A x \in Nodes :
                       L.next[x] = IF x = tail THEN e ELSE IF x = e THEN next ELSE ls.next[x]
                  /\ \A x \in Nodes :
                       L.prev[x] = IF x = behind THEN e ELSE IF x = e THEN tail ELSE ls.prev[x]
<1> DEFINE L == SignalAdd(ls, head, e, mem)
           tail == ls.prev[head]
<1>1. CASE tail \in mem /\ ls.next[tail] \in mem
  <2>1. L = Insert(ls, tail, e)
    BY <1>1 DEF SignalAdd
  <2>2. tail \in Nodes /\ ls.next[tail] \in Nodes
    BY <1>1
  <2> HIDE DEF L, tail
  <2>3. L \in Links /\ ~L.corrupt
    BY <2>1, <2>2, InsertWrites
  <2>4. \A x \in Nodes :
          L.next[x] = IF x = tail THEN e ELSE IF x = e THEN ls.next[tail] ELSE ls.next[x]
    BY <2>1, <2>2, InsertWrites
  <2>5. \A x \in Nodes :
          L.prev[x] = IF x = (IF e = tail THEN e ELSE ls.next[tail])
                      THEN e ELSE IF x = e THEN tail ELSE ls.prev[x]
    BY <2>1, <2>2, InsertWrites
  <2> QED
    BY <1>1, <2>3, <2>4, <2>5 DEF L, tail
<1>2. CASE ~(tail \in mem /\ ls.next[tail] \in mem)
  <2>1. L = [ls EXCEPT !.corrupt = TRUE]
    BY <1>2 DEF SignalAdd
  <2>2. L \in Links /\ L.corrupt = TRUE
    BY <2>1 DEF Links
  <2> QED
    BY <1>2, <2>2
<1> QED
  BY <1>1, <1>2

LEMMA RemoveWrites ==
  ASSUME NEW ls \in Links, ~ls.corrupt, NEW e \in Nodes, NEW mem \in SUBSET Nodes
  PROVE  LET L == Remove(ls, e, mem)
             before == ls.prev[e]
             after == ls.next[e]
         IN  /\ L \in Links
             /\ ~L.corrupt <=> before \in mem /\ after \in mem
             /\ ~L.corrupt =>
                  /\ \A x \in Nodes :
                       L.next[x] = IF x = e THEN NULL ELSE IF x = before THEN after ELSE ls.next[x]
                  /\ \A x \in Nodes :
                       L.prev[x] = IF x = e THEN NULL ELSE IF x = after THEN before ELSE ls.prev[x]
<1> DEFINE L == Remove(ls, e, mem)
           before == ls.prev[e]
           after == ls.next[e]
<1>0. /\ ls.next \in [Nodes -> Nodes \cup {NULL}] /\ ls.prev \in [Nodes -> Nodes \cup {NULL}]
      /\ ls.corrupt \in BOOLEAN
      /\ ls = [next |-> ls.next, prev |-> ls.prev, corrupt |-> ls.corrupt]
  BY DEF Links
<1>1. CASE before \in mem /\ after \in mem
  <2>1. L = [ls EXCEPT !.next = [@ EXCEPT ![before] = after, ![e] = NULL],
                       !.prev = [@ EXCEPT ![after] = before, ![e] = NULL]]
    BY <1>1 DEF Remove
  <2>2. before \in Nodes /\ after \in Nodes
    BY <1>1
  <2> HIDE DEF L, before, after
  <2>3. /\ L.next = [ls.next EXCEPT ![before] = after, ![e] = NULL]
        /\ L.prev = [ls.prev EXCEPT ![after] = before, ![e] = NULL]
        /\ L.corrupt = ls.corrupt
        /\ L = [next |-> L.next, prev |-> L.prev, corrupt |-> L.corrupt]
    BY <1>0, <2>1
  <2>4. L.next \in [Nodes -> Nodes \cup {NULL}] /\ L.prev \in [Nodes -> Nodes \cup {NULL}]
    BY <1>0, <2>2, <2>3
  <2>5. \A x \in Nodes :
          L.next[x] = IF x = e THEN NULL ELSE IF x = before THEN after ELSE ls.next[x]
    BY <1>0, <2>2, <2>3
  <2>6. \A x \in Nodes :
          L.prev[x] = IF x = e THEN NULL ELSE IF x = after THEN before ELSE ls.prev[x]
    BY <1>0, <2>2, <2>3
  <2>7. L \in Links /\ ~L.corrupt
    BY <1>0, <2>3, <2>4 DEF Links
  <2> QED
    BY <1>1, <2>5, <2>6, <2>7 DEF L, before, after
<1>2. CASE ~(before \in mem /\ after \in mem)
  <2>1. L = [ls EXCEPT !.corrupt = TRUE]
    BY <1>2 DEF Remove
  <2>2. L \in Links /\ L.corrupt = TRUE
    BY <2>1 DEF Links
  <2> QED
    BY <1>2, <2>2
<1> QED
  BY <1>1, <1>2

LEMMA EmptyWrites ==
  ASSUME NEW ls \in Links, NEW head \in Nodes
  PROVE  LET L == Empty(ls, head)
         IN  /\ L \in Links /\ L.corrupt = ls.corrupt
             /\ \A x \in Nodes : L.next[x] = IF x = head THEN head ELSE ls.next[x]
             /\ \A x \in Nodes : L.prev[x] = IF x = head THEN head ELSE ls.prev[x]
<1> DEFINE L == Empty(ls, head)
<1>0. /\ ls.next \in [Nodes -> Nodes \cup {NULL}] /\ ls.prev \in [Nodes -> Nodes \cup {NULL}]
      /\ ls.corrupt \in BOOLEAN
      /\ ls = [next |-> ls.next, prev |-> ls.prev, corrupt |-> ls.corrupt]
  BY DEF Links
<1>1. /\ L.next = [ls.next EXCEPT ![head] = head]
      /\ L.prev = [ls.prev EXCEPT ![head] = head]
      /\ L.corrupt = ls.corrupt
      /\ L \in Links
  BY <1>0 DEF Empty, Links
<1> HIDE DEF L
<1>2. \A x \in Nodes : L.next[x] = IF x = head THEN head ELSE ls.next[x]
  BY <1>0, <1>1
<1>3. \A x \in Nodes : L.prev[x] = IF x = head THEN head ELSE ls.prev[x]
  BY <1>0, <1>1
<1> QED
  BY <1>1, <1>2, <1>3 DEF L

(***************************************************************************)
(* Rings.                                                                  *)
(***************************************************************************)

(* A head and its listeners, each on the ring once.                        *)
Distinct(head, seq) ==
  /\ head \notin Elements(seq)
  /\ \A j, k \in DOMAIN seq : seq[j] = seq[k] => j = k

LEMMA Places ==
  ASSUME NEW head \in Nodes, NEW seq \in Seq(Nodes)
  PROVE  /\ Len(seq) \in Nat /\ DOMAIN seq = 1 .. Len(seq)
         /\ Place(head, seq, 0) = head /\ Place(head, seq, Len(seq) + 1) = head
         /\ \A k \in 1 .. Len(seq) : Place(head, seq, k) = seq[k]
         /\ \A k \in 0 .. Len(seq) + 1 : Place(head, seq, k) \in RingNodes(head, seq)
         /\ RingNodes(head, seq) \subseteq Nodes
         /\ Distinct(head, seq) =>
              \A j, k \in 0 .. Len(seq) : Place(head, seq, j) = Place(head, seq, k) => j = k
<1>1. /\ Len(seq) \in Nat /\ DOMAIN seq = 1 .. Len(seq)
      /\ \A k \in 1 .. Len(seq) : seq[k] \in Nodes
  BY LenProperties, ElementOfSeq
<1>2. /\ Place(head, seq, 0) = head /\ Place(head, seq, Len(seq) + 1) = head
      /\ \A k \in 1 .. Len(seq) : Place(head, seq, k) = seq[k]
  BY <1>1 DEF Place
<1>3. /\ \A k \in 0 .. Len(seq) + 1 : Place(head, seq, k) \in RingNodes(head, seq)
      /\ RingNodes(head, seq) \subseteq Nodes
  BY <1>1 DEF Place, RingNodes, Elements
<1>4. ASSUME Distinct(head, seq), NEW j \in 0 .. Len(seq), NEW k \in 0 .. Len(seq),
             Place(head, seq, j) = Place(head, seq, k)
      PROVE  j = k
  <2>1. \A i \in 1 .. Len(seq) : seq[i] # head
    BY <1>1, <1>4 DEF Distinct, Elements
  <2>2. \A i \in 0 .. Len(seq) : i = 0 \/ i \in 1 .. Len(seq)
    BY <1>1
  <2>3. CASE j = 0 \/ k = 0
    BY <1>2, <1>4, <2>1, <2>2, <2>3
  <2>4. CASE j \in 1 .. Len(seq) /\ k \in 1 .. Len(seq)
    BY <1>1, <1>2, <1>4, <2>4 DEF Distinct
  <2> QED
    BY <2>2, <2>3, <2>4
<1> QED
  BY <1>1, <1>2, <1>3, <1>4

(* A ring does not change with links of other nodes. *)
LEMMA RingSame ==
  ASSUME NEW head \in Nodes, NEW seq \in Seq(Nodes), NEW ls, NEW L,
         Ring(ls, head, seq),
         \A x \in RingNodes(head, seq) : L.next[x] = ls.next[x] /\ L.prev[x] = ls.prev[x]
  PROVE  Ring(L, head, seq)
<1>1. SUFFICES ASSUME NEW k \in 0 .. Len(seq)
               PROVE  /\ L.next[Place(head, seq, k)] = Place(head, seq, k + 1)
                      /\ L.prev[Place(head, seq, k + 1)] = Place(head, seq, k)
  BY DEF Ring
<1>2. Place(head, seq, k) \in RingNodes(head, seq) /\ Place(head, seq, k + 1) \in RingNodes(head, seq)
  <2>1. k \in 0 .. Len(seq) + 1 /\ k + 1 \in 0 .. Len(seq) + 1
    BY Places
  <2> QED
    BY <2>1, Places
<1> QED
  BY <1>2 DEF Ring

(* The tail of a ring is its last place, and what follows it the head.     *)
LEMMA RingTail ==
  ASSUME NEW head \in Nodes, NEW seq \in Seq(Nodes), NEW ls, Ring(ls, head, seq)
  PROVE  /\ ls.prev[head] = Place(head, seq, Len(seq))
         /\ ls.next[ls.prev[head]] = head
         /\ ls.prev[head] \in RingNodes(head, seq)
<1>1. Len(seq) \in 0 .. Len(seq) /\ Len(seq) \in 0 .. Len(seq) + 1
  BY Places
<1> QED
  BY <1>1, Places DEF Ring

(* wl_signal_add puts a new listener at the end of a ring, and writes no   *)
(* other links.                                                            *)
LEMMA RingAdd ==
  ASSUME NEW ls \in Links, ~ls.corrupt, NEW head \in Nodes, NEW seq \in Seq(Nodes),
         Ring(ls, head, seq), Distinct(head, seq),
         NEW mem \in SUBSET Nodes, RingNodes(head, seq) \subseteq mem,
         NEW e \in Nodes, e \notin RingNodes(head, seq)
  PROVE  LET L == SignalAdd(ls, head, e, mem)
         IN  /\ L \in Links /\ ~L.corrupt
             /\ Ring(L, head, Append(seq, e))
             /\ \A x \in Nodes : x \notin RingNodes(head, seq) /\ x # e =>
                  L.next[x] = ls.next[x] /\ L.prev[x] = ls.prev[x]
<1> DEFINE L == SignalAdd(ls, head, e, mem)
           n == Len(seq)
           tail == ls.prev[head]
           more == Append(seq, e)
           P(k) == Place(head, seq, k)
           Q(k) == Place(head, more, k)
<1>1. /\ tail = P(n) /\ ls.next[tail] = head
      /\ tail \in RingNodes(head, seq) /\ head \in RingNodes(head, seq)
  BY RingTail DEF RingNodes
<1>2. tail # e /\ head # e /\ tail \in Nodes
  BY <1>1
<1>3. L \in Links /\ ~L.corrupt
  BY <1>1, AddWrites
<1>4. \A x \in Nodes : L.next[x] = IF x = tail THEN e ELSE IF x = e THEN head ELSE ls.next[x]
  BY <1>1, <1>3, AddWrites
<1>5. \A x \in Nodes : L.prev[x] = IF x = head THEN e ELSE IF x = e THEN tail ELSE ls.prev[x]
  BY <1>1, <1>2, <1>3, AddWrites
<1>6. \A x \in Nodes : x \notin RingNodes(head, seq) /\ x # e =>
        L.next[x] = ls.next[x] /\ L.prev[x] = ls.prev[x]
  BY <1>1, <1>4, <1>5
<1>7. /\ n \in Nat /\ \A k \in 1 .. n : P(k) = seq[k]
      /\ P(0) = head
      /\ \A k \in 0 .. n : P(k) \in RingNodes(head, seq) /\ P(k) \in Nodes
      /\ \A j, k \in 0 .. n : P(j) = P(k) => j = k
  BY Places
<1>8. more \in Seq(Nodes) /\ Len(more) = n + 1 /\ more[n + 1] = e /\ \A k \in 1 .. n : more[k] = seq[k]
  BY <1>7
<1>9. /\ \A k \in 0 .. n : Q(k) = P(k)
      /\ Q(n + 1) = e /\ Q(n + 2) = head
  <2> HIDE DEF P, n, more
  <2>1. /\ Q(0) = head /\ Q(Len(more) + 1) = head
        /\ \A k \in 1 .. Len(more) : Q(k) = more[k]
    BY <1>8, Places
  <2> HIDE DEF Q
  <2>2. n + 1 \in 1 .. Len(more) /\ Len(more) + 1 = n + 2 /\ 1 .. n \subseteq 1 .. Len(more)
    BY <1>7, <1>8
  <2>3. \A k \in 0 .. n : k = 0 \/ k \in 1 .. n
    BY <1>7
  <2> QED
    BY <2>1, <2>2, <2>3, <1>7, <1>8
<1>10. \A k \in 0 .. n : ls.next[P(k)] = P(k + 1) /\ ls.prev[P(k + 1)] = P(k)
  BY DEF Ring
<1> HIDE DEF P, Q, n, more, L, tail
<1>11. ASSUME NEW k \in 0 .. n + 1
       PROVE  L.next[Q(k)] = Q(k + 1) /\ L.prev[Q(k + 1)] = Q(k)
  <2>1. CASE k < n
    <3>1. k \in 0 .. n /\ k + 1 \in 0 .. n /\ n \in 0 .. n /\ 0 \in 0 .. n /\ k # n /\ k + 1 # 0
      BY <1>7, <2>1
    <3>2. /\ P(k) # tail /\ P(k + 1) # head /\ P(k) # e /\ P(k + 1) # e
          /\ P(k) \in Nodes /\ P(k + 1) \in Nodes
      BY <3>1, <1>1, <1>7
    <3>3. L.next[P(k)] = P(k + 1) /\ L.prev[P(k + 1)] = P(k)
      BY <3>1, <3>2, <1>4, <1>5, <1>10
    <3> QED
      BY <3>1, <3>3, <1>9
  <2>2. CASE k = n
    <3>1. Q(k) = tail /\ Q(k + 1) = e
      BY <2>2, <1>1, <1>7, <1>9
    <3> QED
      BY <3>1, <1>2, <1>4, <1>5
  <2>3. CASE k = n + 1
    <3>1. Q(k) = e /\ Q(k + 1) = head
      BY <2>3, <1>7, <1>9
    <3> QED
      BY <3>1, <1>2, <1>4, <1>5
  <2> QED
    BY <2>1, <2>2, <2>3, <1>7
<1>12. Ring(L, head, more)
  BY <1>8, <1>11 DEF Ring, Q
<1> QED
  BY <1>3, <1>6, <1>12 DEF L, more

(* wl_list_remove closes a ring behind a listener.                         *)
LEMMA RingRemove ==
  ASSUME NEW ls \in Links, ~ls.corrupt, NEW head \in Nodes, NEW seq \in Seq(Nodes),
         Ring(ls, head, seq), Distinct(head, seq),
         NEW mem \in SUBSET Nodes, RingNodes(head, seq) \subseteq mem,
         NEW m \in 1 .. Len(seq)
  PROVE  LET L == Remove(ls, seq[m], mem)
             rest == [i \in 1 .. Len(seq) - 1 |-> IF i < m THEN seq[i] ELSE seq[i + 1]]
         IN  /\ L \in Links /\ ~L.corrupt
             /\ Ring(L, head, rest)
             /\ \A x \in Nodes : x \notin RingNodes(head, seq) =>
                  L.next[x] = ls.next[x] /\ L.prev[x] = ls.prev[x]
             /\ L.next[seq[m]] = NULL /\ L.prev[seq[m]] = NULL
<1> DEFINE n == Len(seq)
           e == seq[m]
           L == Remove(ls, e, mem)
           rest == [i \in 1 .. n - 1 |-> IF i < m THEN seq[i] ELSE seq[i + 1]]
           P(k) == Place(head, seq, k)
           Q(k) == Place(head, rest, k)
<1>1. /\ n \in Nat /\ m \in 1 .. n /\ \A k \in 1 .. n : P(k) = seq[k]
      /\ P(0) = head /\ P(n + 1) = head
      /\ \A k \in 0 .. n + 1 : P(k) \in RingNodes(head, seq) /\ P(k) \in Nodes /\ P(k) \in mem
      /\ \A j, k \in 0 .. n : P(j) = P(k) => j = k
  BY Places
<1>2. \A k \in 0 .. n : ls.next[P(k)] = P(k + 1) /\ ls.prev[P(k + 1)] = P(k)
  BY DEF Ring
<1>3. e = P(m) /\ e \in Nodes /\ e \in RingNodes(head, seq)
  <2>1. m \in 0 .. n + 1
    BY <1>1
  <2> QED
    BY <2>1, <1>1
<1> HIDE DEF e
<1>4. Len(rest) = n - 1 /\ rest \in Seq(Nodes)
  <2>1. n - 1 \in Nat /\ \A i \in 1 .. n - 1 : rest[i] \in Nodes
    <3>1. \A i \in 1 .. n : seq[i] \in Nodes
      BY ElementOfSeq
    <3> QED
      BY <1>1, <3>1
  <2>2. rest \in [1 .. n - 1 -> Nodes]
    BY <2>1
  <2> HIDE DEF rest
  <2> QED
    BY <2>1, <2>2
<1>5. \A k \in 0 .. n : Q(k) = IF k < m THEN P(k) ELSE P(k + 1)
  <2>1. Q(0) = head /\ Q(n) = head /\ \A k \in 1 .. n - 1 : Q(k) = rest[k]
    <3>1. Len(rest) + 1 = n
      BY <1>1, <1>4
    <3> HIDE DEF rest
    <3> QED
      BY <1>4, <3>1, Places
  <2>2. \A k \in 1 .. n - 1 : rest[k] = IF k < m THEN seq[k] ELSE seq[k + 1]
    OBVIOUS
  <2> HIDE DEF rest, Q, P
  <2>3. TAKE k \in 0 .. n
  <2>4. CASE k = 0
    BY <1>1, <2>1, <2>4
  <2>5. CASE k = n
    BY <1>1, <2>1, <2>5
  <2>6. CASE k \in 1 .. n - 1
    <3>1. k \in 1 .. n /\ k + 1 \in 1 .. n
      BY <1>1, <2>6
    <3> QED
      BY <1>1, <2>1, <2>2, <2>6, <3>1
  <2> QED
    BY <1>1, <2>4, <2>5, <2>6
<1> HIDE DEF P, Q, n, L, rest
<1>6. m - 1 \in 0 .. n /\ m \in 0 .. n /\ m + 1 \in 0 .. n + 1
  BY <1>1
<1>7. ls.prev[e] = P(m - 1) /\ ls.next[e] = P(m + 1)
  <2>1. P((m - 1) + 1) = e
    BY <1>1, <1>3
  <2> QED
    BY <1>2, <1>3, <1>6, <2>1
<1>8. P(m - 1) \in mem /\ P(m + 1) \in mem
  BY <1>1, <1>6
<1>9. L \in Links /\ ~L.corrupt
  BY <1>3, <1>7, <1>8, RemoveWrites DEF L
<1>10. \A x \in Nodes : L.next[x] = IF x = e THEN NULL ELSE IF x = P(m - 1) THEN P(m + 1) ELSE ls.next[x]
  BY <1>3, <1>7, <1>9, RemoveWrites DEF L
<1>11. \A x \in Nodes : L.prev[x] = IF x = e THEN NULL ELSE IF x = P(m + 1) THEN P(m - 1) ELSE ls.prev[x]
  BY <1>3, <1>7, <1>9, RemoveWrites DEF L
<1>12. \A x \in Nodes : x \notin RingNodes(head, seq) =>
         L.next[x] = ls.next[x] /\ L.prev[x] = ls.prev[x]
  <2>1. P(m - 1) \in RingNodes(head, seq) /\ P(m + 1) \in RingNodes(head, seq)
    BY <1>1, <1>6
  <2> QED
    BY <2>1, <1>3, <1>10, <1>11
<1>13. ASSUME NEW j \in 1 .. n + 1, NEW k \in 1 .. n + 1, P(j) = P(k) PROVE j = k
  <2>1. \A i \in 1 .. n + 1 : i \in 1 .. n \/ i = n + 1
    BY <1>1
  <2>2. \A i \in 1 .. n : P(i) # P(n + 1)
    <3>1. \A i \in 1 .. n : i \in 0 .. n /\ i # 0
      BY <1>1
    <3>2. 0 \in 0 .. n
      BY <1>1
    <3> QED
      BY <1>1, <3>1, <3>2
  <2>3. \A i \in 1 .. n : i \in 0 .. n
    BY <1>1
  <2> QED
    BY <1>1, <1>13, <2>1, <2>2, <2>3
<1>14. ASSUME NEW k \in 0 .. n - 1
       PROVE  L.next[Q(k)] = Q(k + 1) /\ L.prev[Q(k + 1)] = Q(k)
  <2>0. k \in 0 .. n /\ k + 1 \in 0 .. n /\ k + 1 \in 1 .. n + 1 /\ k \in Int /\ m \in Int /\ n \in Int
    BY <1>1
  <2>1. CASE k + 1 < m
    <3>1. Q(k) = P(k) /\ Q(k + 1) = P(k + 1)
      BY <2>0, <2>1, <1>5
    <3>2. P(k) # e /\ P(k) # P(m - 1)
      BY <2>0, <2>1, <1>1, <1>3, <1>6
    <3>3. P(k + 1) # e /\ P(k + 1) # P(m + 1)
      <4>1. m \in 1 .. n + 1 /\ m + 1 \in 1 .. n + 1
        BY <1>1
      <4> QED
        BY <4>1, <2>0, <2>1, <1>3, <1>13
    <3>4. P(k) \in Nodes /\ P(k + 1) \in Nodes
      BY <1>1, <2>0
    <3> QED
      BY <2>0, <3>1, <3>2, <3>3, <3>4, <1>2, <1>10, <1>11
  <2>2. CASE k = m - 1
    <3>1. k < m /\ ~(k + 1 < m) /\ (k + 1) + 1 = m + 1
      BY <2>0, <2>2
    <3>2. Q(k) = P(m - 1) /\ Q(k + 1) = P(m + 1)
      BY <2>0, <2>2, <3>1, <1>5
    <3>3. P(m - 1) # e /\ P(m + 1) # e
      <4>1. m \in 1 .. n + 1 /\ m + 1 \in 1 .. n + 1 /\ m # m + 1 /\ m # m - 1
        BY <1>1
      <4>2. P(m + 1) # e
        BY <4>1, <1>3, <1>13
      <4>3. P(m - 1) # e
        BY <4>1, <1>1, <1>3, <1>6
      <4> QED
        BY <4>2, <4>3
    <3>4. P(m - 1) \in Nodes /\ P(m + 1) \in Nodes
      BY <1>8
    <3> QED
      BY <3>2, <3>3, <3>4, <1>10, <1>11
  <2>3. CASE k >= m
    <3>1. ~(k < m) /\ ~(k + 1 < m) /\ k + 1 \in 0 .. n /\ (k + 1) + 1 \in 1 .. n + 1
      BY <2>0, <2>3
    <3>2. Q(k) = P(k + 1) /\ Q(k + 1) = P((k + 1) + 1)
      BY <2>0, <3>1, <1>5
    <3>3. P(k + 1) # e /\ P(k + 1) # P(m - 1)
      <4>1. k + 1 # m /\ k + 1 # m - 1
        BY <2>0, <2>3
      <4> QED
        BY <4>1, <3>1, <1>1, <1>3, <1>6
    <3>4. P((k + 1) + 1) # e /\ P((k + 1) + 1) # P(m + 1)
      <4>1. m \in 1 .. n + 1 /\ m + 1 \in 1 .. n + 1 /\ (k + 1) + 1 # m /\ (k + 1) + 1 # m + 1
        BY <1>1, <2>0, <2>3
      <4> QED
        BY <4>1, <3>1, <1>3, <1>13
    <3>5. P(k + 1) \in Nodes /\ P((k + 1) + 1) \in Nodes
      <4>1. k + 1 \in 0 .. n + 1 /\ (k + 1) + 1 \in 0 .. n + 1
        BY <1>1, <3>1
      <4> QED
        BY <4>1, <1>1
    <3> QED
      BY <3>1, <3>2, <3>3, <3>4, <3>5, <1>2, <1>10, <1>11
  <2> QED
    BY <2>0, <2>1, <2>2, <2>3
<1>15. Ring(L, head, rest)
  <2>1. \A k \in 0 .. Len(rest) : L.next[Q(k)] = Q(k + 1) /\ L.prev[Q(k + 1)] = Q(k)
    BY <1>4, <1>14 DEF rest
  <2> QED
    BY <2>1 DEF Ring, Q
<1>16. L.next[e] = NULL /\ L.prev[e] = NULL
  BY <1>3, <1>10, <1>11
<1> QED
  BY <1>9, <1>12, <1>15, <1>16 DEF L, rest, e, n

(***************************************************************************)
(* What the invariant says of the nodes.                                   *)
(***************************************************************************)
LEMMA Sets ==
  /\ Heads \subseteq Nodes /\ Listeners \subseteq Nodes /\ NULL \notin Nodes
  /\ Backend \in Heads
  /\ Heads \cap Listeners = {} /\ HostListeners \cap GlueListeners = {}
  /\ HostListeners \subseteq Listeners /\ GlueListeners \subseteq Listeners
  BY GlueAssumption DEF Heads, Nodes, Listeners

LEMMA GlueInListeners ==
  ASSUME NEW kind \in Kinds, NEW i \in 1 .. MaxInits
  PROVE  <<kind, i>> \in GlueListeners
  BY DEF GlueListeners

LEMMA ElementIn ==
  ASSUME NEW S, NEW seq \in Seq(S)
  PROVE  /\ Elements(seq) \subseteq S
         /\ DOMAIN seq = 1 .. Len(seq) /\ Len(seq) \in Nat
         /\ \A k \in DOMAIN seq : seq[k] \in Elements(seq)
         /\ \A x \in Elements(seq) : \E k \in DOMAIN seq : seq[k] = x
  BY ElementOfSeq, LenProperties DEF Elements

LEMMA OnceElements ==
  ASSUME NEW l, OnlyOnce(l), NEW a \in Heads, NEW b \in Heads,
         l \in Elements(attached[a]), l \in Elements(attached[b])
  PROVE  a = b
  BY DEF OnlyOnce, Elements

LEMMA Facts ==
  ASSUME TypeInv, AttachedInv
  PROVE  /\ Memory \subseteq Nodes /\ HostListeners \subseteq Memory /\ live \subseteq Memory
         /\ up => \A kind \in Kinds : Glue(kind) \in GlueListeners /\ Glue(kind) \in Memory
         /\ \A h \in Heads : /\ attached[h] \in Seq(Nodes)
                             /\ Elements(attached[h]) \subseteq Listeners
                             /\ Elements(attached[h]) \subseteq Memory
                             /\ Around(h) \subseteq Nodes /\ Around(h) \cap Heads = {h}
         /\ \A h \in live : Around(h) \subseteq Memory
         /\ \A h \in Heads \ tangled :
              /\ Elements(attached[h]) \cap tangled = {}
              /\ Distinct(h, attached[h])
              /\ \A b \in Heads \ {h} : Elements(attached[h]) \cap Elements(attached[b]) = {}
         /\ Loose \subseteq GlueListeners
         /\ Heads \cap tangled \subseteq Heads \ {Backend} /\ HostListeners \cap tangled = {}
         /\ Backend \in Heads \ tangled
<1> USE DEF TypeInv
<1>1. up => \A kind \in Kinds : Glue(kind) \in GlueListeners /\ Glue(kind) \in Memory
  <2>1. SUFFICES ASSUME up, NEW kind \in Kinds
                 PROVE  Glue(kind) \in GlueListeners /\ Glue(kind) \in Memory
    OBVIOUS
  <2>2. inits \in 1 .. MaxInits
    BY <2>1, GlueAssumption
  <2> QED
    BY <2>1, <2>2, GlueInListeners DEF Glue, Memory
<1>2. Memory \subseteq Nodes
  <2>1. CASE up
    <3>1. Kinds \X {inits} \subseteq GlueListeners
      BY <1>1, <2>1 DEF Glue
    <3> QED
      BY <3>1, Sets, <2>1 DEF Memory, Listeners
  <2>2. CASE ~up
    BY <2>2, Sets DEF Memory, Listeners
  <2> QED
    BY <2>1, <2>2
<1>3. ASSUME NEW h \in Heads
      PROVE  /\ attached[h] \in Seq(Nodes) /\ Elements(attached[h]) \subseteq Listeners
             /\ Elements(attached[h]) \subseteq Memory
             /\ h \notin Elements(attached[h])
             /\ Around(h) \subseteq Nodes /\ Around(h) \cap Heads = {h}
  <2>1. attached[h] \in Seq(Listeners)
    OBVIOUS
  <2>2. attached[h] \in Seq(Nodes)
    BY <2>1, Sets, SeqMonotonic
  <2>3. Elements(attached[h]) \subseteq Listeners
    BY <2>1, ElementIn
  <2>4. May(h) \subseteq Memory
    <3>1. KindOf(h) \in Kinds
      BY DEF KindOf, Kinds
    <3> QED
      BY <3>1, <1>1 DEF May, Memory
  <2> QED
    BY <2>2, <2>3, <2>4, Sets DEF AttachedInv, Around, RingNodes
<1>4. \A h \in live : Around(h) \subseteq Memory
  BY <1>3 DEF Around, RingNodes, Memory
<1>5. HostListeners \cap tangled = {}
  <2>1. HostListeners \cap Heads = {} /\ HostListeners \cap GlueListeners = {}
    BY Sets
  <2>2. {"pointer", "commit"} \X (1 .. inits) \subseteq GlueListeners
    BY GlueAssumption DEF GlueListeners, Kinds
  <2> QED
    BY <2>1, <2>2
<1>6. Backend \in Heads \ tangled
  <2>1. Backend \notin {"pointer", "commit"} \X (1 .. inits)
    <3>1. {"pointer", "commit"} \X (1 .. inits) \subseteq GlueListeners
      BY GlueAssumption DEF GlueListeners, Kinds
    <3> QED
      BY <3>1, Sets
  <2> QED
    BY <2>1, Sets
<1>7. ASSUME NEW h \in Heads \ tangled
      PROVE  Elements(attached[h]) \cap tangled = {}
  BY <1>3, <1>5 DEF AttachedInv, Listeners
<1>8. ASSUME NEW h \in Heads \ tangled, NEW l \in Elements(attached[h])
      PROVE  OnlyOnce(l)
  BY <1>3, <1>7 DEF AttachedInv
<1>9. ASSUME NEW h \in Heads \ tangled PROVE Distinct(h, attached[h])
  <2>1. ASSUME NEW j \in DOMAIN attached[h], NEW k \in DOMAIN attached[h],
               attached[h][j] = attached[h][k]
        PROVE  j = k
    <3>1. attached[h][j] \in Elements(attached[h])
      BY DEF Elements
    <3> QED
      BY <2>1, <3>1, <1>8 DEF OnlyOnce
  <2> QED
    BY <2>1, <1>3 DEF Distinct
<1>10. ASSUME NEW h \in Heads \ tangled, NEW b \in Heads \ {h}
       PROVE  Elements(attached[h]) \cap Elements(attached[b]) = {}
  BY <1>8, OnceElements
<1>11. Loose \subseteq GlueListeners
  BY DEF Loose
<1>12. HostListeners \subseteq Memory /\ live \subseteq Memory
  BY DEF Memory
<1>13. Heads \cap tangled \subseteq Heads \ {Backend}
  BY <1>6
<1> QED
  BY <1>1, <1>2, <1>3, <1>4, <1>5, <1>6, <1>7, <1>9, <1>10, <1>11, <1>12, <1>13

(***************************************************************************)
(* Attaching and detaching.                                                *)
(***************************************************************************)
LEMMA AttachEffects ==
  ASSUME TypeInv, NEW head \in Heads, NEW e \in Listeners, Attach(head, e)
  PROVE  /\ attached' \in [Heads -> Seq(Listeners)]
         /\ attached'[head] = Append(attached[head], e)
         /\ \A h \in Heads \ {head} : attached'[h] = attached[h]
         /\ Elements(attached'[head]) = Elements(attached[head]) \cup {e}
         /\ \A l : IsAttached(l)' <=> IsAttached(l) \/ l = e
         /\ \A l : OnlyOnce(l) /\ (l = e => ~IsAttached(e)) => OnlyOnce(l)'
<1>1. /\ attached \in [Heads -> Seq(Listeners)]
      /\ attached' = [attached EXCEPT ![head] = Append(@, e)]
  BY DEF TypeInv, Attach
<1>2. attached'[head] = Append(attached[head], e) /\ \A h \in Heads \ {head} : attached'[h] = attached[h]
  BY <1>1
<1>3. attached' \in [Heads -> Seq(Listeners)]
  BY <1>1
<1> DEFINE s == attached[head]
           t == attached'[head]
<1>4. /\ s \in Seq(Listeners) /\ Len(s) \in Nat /\ DOMAIN s = 1 .. Len(s)
      /\ DOMAIN t = 1 .. Len(s) + 1
      /\ t[Len(s) + 1] = e /\ \A k \in 1 .. Len(s) : t[k] = s[k]
  <2>1. s \in Seq(Listeners) /\ t = Append(s, e)
    BY <1>1, <1>2
  <2> HIDE DEF s, t
  <2> QED
    BY <2>1, LenProperties
<1>5. \A k \in DOMAIN t : k \in DOMAIN s \/ k = Len(s) + 1
  BY <1>4
<1>6. Elements(t) = Elements(s) \cup {e}
  <2>1. Elements(t) \subseteq Elements(s) \cup {e}
    BY <1>4, <1>5 DEF Elements
  <2>2. Elements(s) \cup {e} \subseteq Elements(t)
    <3>1. Len(s) + 1 \in DOMAIN t /\ \A k \in DOMAIN s : k \in DOMAIN t
      BY <1>4
    <3> QED
      BY <3>1, <1>4 DEF Elements
  <2> QED
    BY <2>1, <2>2
<1>7. \A l : IsAttached(l)' <=> IsAttached(l) \/ l = e
  BY <1>2, <1>6 DEF IsAttached, SignalsOf
<1>8. ASSUME NEW l, OnlyOnce(l), l = e => ~IsAttached(e)
      PROVE  OnlyOnce(l)'
  <2>1. SUFFICES ASSUME NEW a \in Heads, NEW b \in Heads,
                        NEW j \in DOMAIN attached'[a], NEW k \in DOMAIN attached'[b],
                        attached'[a][j] = l, attached'[b][k] = l
                 PROVE  a = b /\ j = k
    BY DEF OnlyOnce
  <2>2. CASE l = e
    <3>1. \A h \in Heads : \A i \in DOMAIN attached[h] : attached[h][i] # e
      BY <1>8, <2>2 DEF IsAttached, SignalsOf, Elements
    <3>2. ASSUME NEW h \in Heads, NEW i \in DOMAIN attached'[h], attached'[h][i] = e
          PROVE  h = head /\ i = Len(s) + 1
      <4>1. h = head
        BY <1>2, <3>1, <3>2
      <4> QED
        BY <4>1, <3>1, <3>2, <1>4, <1>5
    <3> QED
      BY <2>1, <2>2, <3>2
  <2>3. CASE l # e
    <3>1. ASSUME NEW h \in Heads, NEW i \in DOMAIN attached'[h], attached'[h][i] = l
          PROVE  i \in DOMAIN attached[h] /\ attached[h][i] = l
      <4>1. CASE h = head
        <5>1. i # Len(s) + 1
          BY <4>1, <3>1, <2>3, <1>4
        <5> QED
          BY <4>1, <5>1, <3>1, <1>4, <1>5
      <4> QED
        BY <4>1, <3>1, <1>2
    <3> QED
      BY <2>1, <3>1, <1>8 DEF OnlyOnce
  <2> QED
    BY <2>2, <2>3
<1> QED
  BY <1>2, <1>3, <1>6, <1>7, <1>8

LEMMA DetachEffects ==
  ASSUME TypeInv, NEW gone, Detach(gone)
  PROVE  /\ attached' \in [Heads -> Seq(Listeners)]
         /\ \A h \in Heads : Elements(attached'[h]) = Elements(attached[h]) \ gone
         /\ \A h \in Heads : Elements(attached[h]) \cap gone = {} => attached'[h] = attached[h]
         /\ \A l : IsAttached(l)' <=> IsAttached(l) /\ l \notin gone
         /\ \A l : OnlyOnce(l) => OnlyOnce(l)'
<1>1. /\ attached \in [Heads -> Seq(Listeners)]
      /\ attached' = [h \in Heads |-> Without(attached[h], gone)]
  BY DEF TypeInv, Detach
<1>2. \A h \in Heads : attached'[h] = Without(attached[h], gone) /\ attached[h] \in Seq(Listeners)
  BY <1>1
<1>3. \A h \in Heads : attached'[h] \in Seq(Listeners)
  BY <1>2, WithoutPlaces
<1>4. attached' \in [Heads -> Seq(Listeners)]
  BY <1>1, <1>3
<1>5. \A h \in Heads : Elements(attached'[h]) = Elements(attached[h]) \ gone
  BY <1>2, WithoutElements
<1>6. \A h \in Heads : Elements(attached[h]) \cap gone = {} => attached'[h] = attached[h]
  BY <1>2, WithoutNone
<1>7. \A l : IsAttached(l)' <=> IsAttached(l) /\ l \notin gone
  BY <1>5 DEF IsAttached, SignalsOf
<1>9. ASSUME NEW h \in Heads
      PROVE  \E pos \in [1 .. Len(attached'[h]) -> 1 .. Len(attached[h])] :
               /\ \A i \in 1 .. Len(attached'[h]) : attached'[h][i] = attached[h][pos[i]]
               /\ \A i, m \in 1 .. Len(attached'[h]) : pos[i] = pos[m] => i = m
  <2> DEFINE w == Without(attached[h], gone)
  <2>1. attached'[h] = w /\ attached[h] \in Seq(Listeners)
    BY <1>2
  <2>2. PICK pos \in [1 .. Len(w) -> 1 .. Len(attached[h])] :
          /\ \A i \in 1 .. Len(w) : w[i] = attached[h][pos[i]]
          /\ \A i, m \in 1 .. Len(w) : pos[i] = pos[m] => i = m
    BY <2>1, WithoutPlaces
  <2> QED
    BY <2>1, <2>2
<1>8. ASSUME NEW l, OnlyOnce(l)
      PROVE  OnlyOnce(l)'
  <2>1. SUFFICES ASSUME NEW a \in Heads, NEW b \in Heads,
                        NEW j \in DOMAIN attached'[a], NEW k \in DOMAIN attached'[b],
                        attached'[a][j] = l, attached'[b][k] = l
                 PROVE  a = b /\ j = k
    BY DEF OnlyOnce
  <2>2. /\ DOMAIN attached'[a] = 1 .. Len(attached'[a]) /\ DOMAIN attached[a] = 1 .. Len(attached[a])
        /\ DOMAIN attached'[b] = 1 .. Len(attached'[b]) /\ DOMAIN attached[b] = 1 .. Len(attached[b])
    BY <1>2, <1>3, LenProperties
  <2>3. PICK p \in [1 .. Len(attached'[a]) -> 1 .. Len(attached[a])] :
          /\ \A i \in 1 .. Len(attached'[a]) : attached'[a][i] = attached[a][p[i]]
          /\ \A i, m \in 1 .. Len(attached'[a]) : p[i] = p[m] => i = m
    BY <1>9
  <2>4. PICK q \in [1 .. Len(attached'[b]) -> 1 .. Len(attached[b])] :
          \A i \in 1 .. Len(attached'[b]) : attached'[b][i] = attached[b][q[i]]
    BY <1>9
  <2>5. a = b
    <3>1. p[j] \in DOMAIN attached[a] /\ q[k] \in DOMAIN attached[b]
      BY <2>2, <2>3, <2>4
    <3>2. attached[a][p[j]] = l /\ attached[b][q[k]] = l
      BY <2>1, <2>2, <2>3, <2>4
    <3> QED
      BY <3>1, <3>2, <1>8 DEF OnlyOnce
  <2>6. j = k
    <3>1. p[j] \in DOMAIN attached[a] /\ p[k] \in DOMAIN attached[a]
      BY <2>2, <2>3, <2>5
    <3>2. attached[a][p[j]] = l /\ attached[a][p[k]] = l
      BY <2>1, <2>2, <2>3, <2>5
    <3>3. p[j] = p[k]
      BY <3>1, <3>2, <1>8 DEF OnlyOnce
    <3> QED
      BY <2>2, <2>3, <2>5, <3>3
  <2> QED
    BY <2>5, <2>6
<1> QED
  BY <1>4, <1>5, <1>6, <1>7, <1>8

(***************************************************************************)
(* Nodes outside a ring.                                                   *)
(***************************************************************************)
LEMMA RingLinks ==
  ASSUME NEW head \in Nodes, NEW seq \in Seq(Nodes), NEW ls, Ring(ls, head, seq),
         NEW x \in RingNodes(head, seq)
  PROVE  ls.next[x] \in RingNodes(head, seq) /\ ls.prev[x] \in RingNodes(head, seq)
<1> DEFINE n == Len(seq)
           P(k) == Place(head, seq, k)
<1>1. /\ n \in Nat /\ P(0) = head /\ P(n + 1) = head
      /\ \A k \in 0 .. n + 1 : P(k) \in RingNodes(head, seq)
      /\ \A k \in 1 .. n : P(k) = seq[k]
      /\ DOMAIN seq = 1 .. n
  BY Places
<1>2. \A k \in 0 .. n : ls.next[P(k)] = P(k + 1) /\ ls.prev[P(k + 1)] = P(k)
  BY DEF Ring
<1>3. \E k \in 0 .. n : P(k) = x
  <2>1. CASE x = head
    BY <2>1, <1>1
  <2>2. CASE x \in Elements(seq)
    <3>1. PICK k \in 1 .. n : seq[k] = x
      BY <2>2, <1>1 DEF Elements
    <3> QED
      BY <3>1, <1>1
  <2> QED
    BY <2>1, <2>2 DEF RingNodes
<1>4. \E k \in 1 .. n + 1 : P(k) = x
  <2>1. PICK k \in 0 .. n : P(k) = x
    BY <1>3
  <2>2. CASE k = 0
    <3>1. n + 1 \in 1 .. n + 1
      BY <1>1
    <3> QED
      BY <2>1, <2>2, <3>1, <1>1
  <2>3. CASE k # 0
    <3>1. k \in 1 .. n + 1
      BY <2>3, <1>1
    <3> QED
      BY <2>1, <3>1
  <2> QED
    BY <2>2, <2>3
<1> HIDE DEF P, n
<1>5. ls.next[x] \in RingNodes(head, seq)
  <2>1. PICK k \in 0 .. n : P(k) = x
    BY <1>3
  <2>2. k + 1 \in 0 .. n + 1
    BY <1>1
  <2> QED
    BY <2>1, <2>2, <1>1, <1>2
<1>6. ls.prev[x] \in RingNodes(head, seq)
  <2>1. PICK k \in 1 .. n + 1 : P(k) = x
    BY <1>4
  <2>2. k - 1 \in 0 .. n /\ k - 1 \in 0 .. n + 1 /\ (k - 1) + 1 = k
    BY <1>1
  <2> QED
    BY <2>1, <2>2, <1>1, <1>2
<1> QED
  BY <1>5, <1>6

Same(ls, L, R) == \A x \in R : L.next[x] = ls.next[x] /\ L.prev[x] = ls.prev[x]

(* Where nothing leads into a ring R, an operation elsewhere changes none  *)
(* of its links, and afterwards nothing leads into it; ...                 *)
LEMMA AddOutside ==
  ASSUME NEW ls \in Links, ~ls.corrupt, NEW mem \in SUBSET Nodes, NEW R \in SUBSET Nodes,
         NEW loose, Clear(ls, mem, R, loose),
         NEW head \in mem \ (R \cup loose), NEW e \in Nodes \ R,
         ls.prev[head] \notin loose,
         ~SignalAdd(ls, head, e, mem).corrupt
  PROVE  LET L == SignalAdd(ls, head, e, mem)
         IN  /\ Clear(L, mem, R, loose \ {e})
             /\ Same(ls, L, R)
<1> DEFINE L == SignalAdd(ls, head, e, mem)
           tail == ls.prev[head]
           next == ls.next[tail]
           behind == IF e = tail THEN e ELSE next
<1>1. /\ tail \in mem /\ next \in mem
      /\ \A x \in Nodes : L.next[x] = IF x = tail THEN e ELSE IF x = e THEN next ELSE ls.next[x]
      /\ \A x \in Nodes : L.prev[x] = IF x = behind THEN e ELSE IF x = e THEN tail ELSE ls.prev[x]
  BY AddWrites
<1>2. tail \notin R /\ next \notin R /\ behind \notin R
  BY <1>1 DEF Clear
<1> HIDE DEF L, tail, next, behind
<1>3. \A x \in Nodes : x \in R => L.next[x] = ls.next[x] /\ L.prev[x] = ls.prev[x]
  BY <1>1, <1>2
<1>4. ASSUME NEW x \in mem \ (R \cup (loose \ {e})) PROVE L.next[x] \notin R /\ L.prev[x] \notin R
  <2>1. CASE x = e
    BY <2>1, <1>1, <1>2
  <2>2. CASE x # e
    <3>1. ls.next[x] \notin R /\ ls.prev[x] \notin R
      BY <2>2 DEF Clear
    <3> QED
      BY <3>1, <2>2, <1>1
  <2> QED
    BY <2>1, <2>2
<1> QED
  BY <1>3, <1>4 DEF Clear, Same, L

LEMMA RemoveOutside ==
  ASSUME NEW ls \in Links, ~ls.corrupt, NEW mem \in SUBSET Nodes, NEW R \in SUBSET Nodes,
         NEW loose, Clear(ls, mem, R, loose),
         NEW e \in mem \ (R \cup loose),
         ~Remove(ls, e, mem).corrupt
  PROVE  LET L == Remove(ls, e, mem)
         IN  /\ Clear(L, mem, R, loose)
             /\ Same(ls, L, R)
<1> DEFINE L == Remove(ls, e, mem)
           before == ls.prev[e]
           after == ls.next[e]
<1>1. /\ before \in mem /\ after \in mem
      /\ \A x \in Nodes : L.next[x] = IF x = e THEN NULL ELSE IF x = before THEN after ELSE ls.next[x]
      /\ \A x \in Nodes : L.prev[x] = IF x = e THEN NULL ELSE IF x = after THEN before ELSE ls.prev[x]
  BY RemoveWrites
<1>2. before \notin R /\ after \notin R /\ NULL \notin R
  BY Sets DEF Clear
<1> HIDE DEF L, before, after
<1>3. \A x \in Nodes : x \in R => L.next[x] = ls.next[x] /\ L.prev[x] = ls.prev[x]
  BY <1>1, <1>2
<1>4. \A x \in mem \ (R \cup loose) : L.next[x] \notin R /\ L.prev[x] \notin R
  BY <1>1, <1>2 DEF Clear
<1> QED
  BY <1>3, <1>4 DEF Clear, Same, L

(* ... a loose listener stays alone, unless it is the one that is added;   *)
LEMMA AddAlone ==
  ASSUME NEW ls \in Links, ~ls.corrupt, NEW mem \in SUBSET Nodes,
         NEW head \in mem, NEW e \in Nodes, NEW g \in Nodes, g # e, g # head,
         Alone(ls, mem, g), ~SignalAdd(ls, head, e, mem).corrupt
  PROVE  Alone(SignalAdd(ls, head, e, mem), mem, g)
<1> DEFINE L == SignalAdd(ls, head, e, mem)
           tail == ls.prev[head]
           next == ls.next[tail]
           behind == IF e = tail THEN e ELSE next
<1>1. /\ tail \in mem /\ next \in mem
      /\ \A x \in Nodes : L.next[x] = IF x = tail THEN e ELSE IF x = e THEN next ELSE ls.next[x]
      /\ \A x \in Nodes : L.prev[x] = IF x = behind THEN e ELSE IF x = e THEN tail ELSE ls.prev[x]
  BY AddWrites
<1>2. tail # g /\ next # g /\ behind # g
  BY <1>1 DEF Alone
<1> HIDE DEF L, tail, next, behind
<1>3. L.next[g] = ls.next[g] /\ L.prev[g] = ls.prev[g]
  BY <1>1, <1>2
<1>4. \A x \in mem : x # g => L.next[x] # g /\ L.prev[x] # g
  BY <1>1, <1>2 DEF Alone
<1> QED
  BY <1>3, <1>4 DEF Alone, L

LEMMA RemoveAlone ==
  ASSUME NEW ls \in Links, ~ls.corrupt, NEW mem \in SUBSET Nodes,
         NEW e \in mem, NEW g \in Nodes, g # e,
         Alone(ls, mem, g), ~Remove(ls, e, mem).corrupt
  PROVE  Alone(Remove(ls, e, mem), mem, g)
<1> DEFINE L == Remove(ls, e, mem)
           before == ls.prev[e]
           after == ls.next[e]
<1>1. /\ before \in mem /\ after \in mem
      /\ \A x \in Nodes : L.next[x] = IF x = e THEN NULL ELSE IF x = before THEN after ELSE ls.next[x]
      /\ \A x \in Nodes : L.prev[x] = IF x = e THEN NULL ELSE IF x = after THEN before ELSE ls.prev[x]
  BY RemoveWrites
<1>2. before # g /\ after # g /\ NULL # g
  BY Sets DEF Alone
<1> HIDE DEF L, before, after
<1>3. L.next[g] = ls.next[g] /\ L.prev[g] = ls.prev[g]
  BY <1>1, <1>2
<1>4. \A x \in mem : x # g => L.next[x] # g /\ L.prev[x] # g
  BY <1>1, <1>2 DEF Alone
<1> QED
  BY <1>3, <1>4 DEF Alone, L

(* ... and a listener of the host keeps being answered.                    *)
LEMMA AddAnswered ==
  ASSUME NEW ls \in Links, ~ls.corrupt, NEW mem \in SUBSET Nodes,
         NEW head \in mem, NEW e \in mem, NEW l \in mem, NEW on \in BOOLEAN,
         Answered(ls, mem, l, on), l = e => ~on,
         ~SignalAdd(ls, head, e, mem).corrupt
  PROVE  Answered(SignalAdd(ls, head, e, mem), mem, l, on \/ l = e)
<1> DEFINE L == SignalAdd(ls, head, e, mem)
           tail == ls.prev[head]
           next == ls.next[tail]
           behind == IF e = tail THEN e ELSE next
<1>1. /\ tail \in mem /\ next \in mem
      /\ \A x \in Nodes : L.next[x] = IF x = tail THEN e ELSE IF x = e THEN next ELSE ls.next[x]
      /\ \A x \in Nodes : L.prev[x] = IF x = behind THEN e ELSE IF x = e THEN tail ELSE ls.prev[x]
  BY AddWrites
<1>2. /\ ls.prev[head] = tail /\ ls.next[tail] = next
      /\ behind = IF e = tail THEN e ELSE next
  OBVIOUS
<1> HIDE DEF L, tail, next, behind
<1>3. \A x \in mem : /\ ls.next[x] = l => ls.prev[l] = x /\ on
                     /\ ls.prev[x] = l => ls.next[l] = x /\ on
  BY DEF Answered
<1>4. ASSUME NEW x \in mem, L.next[x] = l
      PROVE  L.prev[l] = x /\ (on \/ l = e)
  BY <1>1, <1>2, <1>3, <1>4
<1>5. ASSUME NEW x \in mem, L.prev[x] = l
      PROVE  L.next[l] = x /\ (on \/ l = e)
  BY <1>1, <1>2, <1>3, <1>5
<1> QED
  BY <1>4, <1>5 DEF Answered, L

LEMMA RemoveAnswered ==
  ASSUME NEW ls \in Links, ~ls.corrupt, NEW mem \in SUBSET Nodes,
         NEW e \in mem, NEW l \in mem, NEW on \in BOOLEAN,
         Answered(ls, mem, l, on),
         ~Remove(ls, e, mem).corrupt
  PROVE  Answered(Remove(ls, e, mem), mem, l, on /\ l # e)
<1> DEFINE L == Remove(ls, e, mem)
           before == ls.prev[e]
           after == ls.next[e]
<1>1. /\ before \in mem /\ after \in mem
      /\ \A x \in Nodes : L.next[x] = IF x = e THEN NULL ELSE IF x = before THEN after ELSE ls.next[x]
      /\ \A x \in Nodes : L.prev[x] = IF x = e THEN NULL ELSE IF x = after THEN before ELSE ls.prev[x]
  BY RemoveWrites
<1>2. ls.prev[e] = before /\ ls.next[e] = after /\ l # NULL
  BY Sets
<1> HIDE DEF L, before, after
<1>3. \A x \in mem : /\ ls.next[x] = l => ls.prev[l] = x /\ on
                     /\ ls.prev[x] = l => ls.next[l] = x /\ on
  BY DEF Answered
<1>4. ASSUME NEW x \in mem, L.next[x] = l
      PROVE  L.prev[l] = x /\ on /\ l # e
  BY <1>1, <1>2, <1>3, <1>4
<1>5. ASSUME NEW x \in mem, L.prev[x] = l
      PROVE  L.next[l] = x /\ on /\ l # e
  BY <1>1, <1>2, <1>3, <1>5
<1> QED
  BY <1>4, <1>5 DEF Answered, L

(***************************************************************************)
(* Adding a listener, taking one off, and a new object.                    *)
(***************************************************************************)

(* A listener that is not attached and not tangled joins the ring of head; *)
(* any other tangles the signals it is on, head among them.  All the other *)
(* rings stay as they are.                                                 *)
LEMMA AddOrderly ==
  ASSUME TypeInv, AttachedInv, NEW ls \in Links, ~ls.corrupt,
         NEW mem \in SUBSET Nodes, NEW heads \in SUBSET Heads,
         HostListeners \subseteq mem, \A h \in heads : Around(h) \subseteq mem,
         Orderly(ls, mem, heads),
         NEW head \in heads, NEW e \in Listeners, e \in mem,
         \/ ~IsAttached(e) /\ e \in HostListeners \cup Loose
         \/ SignalsOf(e) \cup {head} \subseteq tangled' /\ e \in GlueListeners,
         tangled \subseteq tangled', Loose' = Loose \ {e},
         links' = SignalAdd(ls, head, e, mem), Attach(head, e)
  PROVE  /\ links' \in Links /\ (tangled' = {} => Defined')
         /\ Defined' =>
              /\ \A h \in heads \ tangled' : Ring(links', h, attached'[h])
              /\ \A h \in Heads \ tangled' : Clear(links', mem, Around(h)', Loose')
              /\ \A g \in Loose' : Alone(links', mem, g)
              /\ \A l \in HostListeners : Answered(links', mem, l, IsAttached(l)')
<1> DEFINE L == SignalAdd(ls, head, e, mem)
           tail == ls.prev[head]
           next == ls.next[tail]
<1>0. ls \in Links /\ ~ls.corrupt /\ mem \in SUBSET Nodes
  OBVIOUS
<1>1. /\ head \in Heads /\ head \in Nodes /\ head \in mem /\ e \in Nodes /\ e \notin Heads
      /\ head \notin Listeners /\ Loose \subseteq Listeners /\ Loose \subseteq Nodes
  BY Facts, Sets DEF Around, RingNodes
<1>2. /\ attached'[head] = Append(attached[head], e)
      /\ \A h \in Heads \ {head} : attached'[h] = attached[h]
      /\ Elements(attached'[head]) = Elements(attached[head]) \cup {e}
      /\ \A l : IsAttached(l)' <=> IsAttached(l) \/ l = e
  BY <1>1, AttachEffects
<1>3. /\ \A h \in Heads \ tangled : Clear(ls, mem, Around(h), Loose)
      /\ \A h \in heads \ tangled : Ring(ls, h, attached[h])
      /\ \A g \in Loose : Alone(ls, mem, g)
      /\ \A l \in HostListeners : Answered(ls, mem, l, IsAttached(l))
  BY DEF Orderly
<1>4. L \in Links
  BY <1>1, AddWrites
<1>5. ASSUME tangled' = {} PROVE ~L.corrupt
  <2> DEFINE seq == attached[head]
  <2>1. Ring(ls, head, seq) /\ seq \in Seq(Nodes) /\ RingNodes(head, seq) \subseteq mem
    BY <1>1, <1>3, <1>5, Facts DEF Around
  <2> HIDE DEF seq
  <2>2. tail \in mem /\ next \in mem
    BY <1>1, <2>1, RingTail
  <2> QED
    BY <1>1, <2>2, AddWrites
<1>6. SUFFICES ASSUME ~L.corrupt
               PROVE  /\ \A h \in heads \ tangled' : Ring(L, h, attached'[h])
                      /\ \A h \in Heads \ tangled' : Clear(L, mem, Around(h)', Loose \ {e})
                      /\ \A g \in Loose \ {e} : Alone(L, mem, g)
                      /\ \A l \in HostListeners : Answered(L, mem, l, IsAttached(l)')
  BY <1>4, <1>5 DEF Defined
<1>7. tail \in mem /\ next \in mem
  BY <1>1, <1>6, AddWrites
<1>8. tail \notin Loose
  BY <1>1, <1>3 DEF Alone
<1>9. ASSUME NEW h \in Heads \ tangled', h # head
      PROVE  /\ Around(h)' = Around(h) /\ attached'[h] = attached[h]
             /\ Clear(L, mem, Around(h), Loose \ {e})
             /\ Same(ls, L, Around(h))
  <2>1. attached'[h] = attached[h] /\ Around(h)' = Around(h)
    BY <1>2, <1>9 DEF Around, RingNodes
  <2>2. e \notin Elements(attached[h])
    BY <1>9 DEF SignalsOf, IsAttached
  <2>3. Around(h) \in SUBSET Nodes /\ head \notin Around(h) /\ e \notin Around(h)
    BY <1>1, <1>9, <2>2, Facts DEF Around, RingNodes
  <2>4. /\ Clear(ls, mem, Around(h), Loose) /\ head \in mem \ (Around(h) \cup Loose)
        /\ e \in Nodes \ Around(h)
    BY <1>1, <1>3, <1>9, <2>3
  <2>5. ~SignalAdd(ls, head, e, mem).corrupt /\ ls.prev[head] \notin Loose
    BY <1>6, <1>8
  <2>6. Clear(SignalAdd(ls, head, e, mem), mem, Around(h), Loose \ {e})
    BY ONLY <1>0, <2>3, <2>4, <2>5, AddOutside
  <2>7. Same(ls, SignalAdd(ls, head, e, mem), Around(h))
    BY ONLY <1>0, <2>3, <2>4, <2>5, AddOutside
  <2> QED
    BY <2>1, <2>6, <2>7
<1>10. ASSUME NEW h \in heads \ tangled', h # head
       PROVE  Ring(L, h, attached'[h])
  <2>1. /\ h \in Heads \ tangled' /\ h \in Nodes /\ attached[h] \in Seq(Nodes)
        /\ Ring(ls, h, attached[h])
    BY <1>3, Facts, Sets
  <2>2. /\ attached'[h] = attached[h]
        /\ \A x \in RingNodes(h, attached[h]) : L.next[x] = ls.next[x] /\ L.prev[x] = ls.prev[x]
    BY <1>9, <1>10, <2>1 DEF Around, Same
  <2> HIDE DEF L
  <2> QED
    BY <2>1, <2>2, RingSame
<1>11. ASSUME head \notin tangled'
       PROVE  Ring(L, head, attached'[head]) /\ Clear(L, mem, Around(head)', Loose \ {e})
  <2> DEFINE seq == attached[head]
  <2>1. ~IsAttached(e) /\ e \in HostListeners \cup Loose
    BY <1>11
  <2>2. \A x \in mem : x # e => ls.next[x] # e /\ ls.prev[x] # e
    BY <1>3, <2>1 DEF Alone, Answered
  <2>3. /\ Ring(ls, head, seq) /\ seq \in Seq(Nodes) /\ RingNodes(head, seq) \subseteq mem
        /\ Distinct(head, seq) /\ Clear(ls, mem, RingNodes(head, seq), Loose)
    BY <1>1, <1>3, <1>11, Facts DEF Around
  <2>4. e \notin RingNodes(head, seq)
    BY <1>1, <2>1 DEF RingNodes, IsAttached, SignalsOf
  <2>5. Around(head)' = RingNodes(head, seq) \cup {e}
    BY <1>2 DEF Around, RingNodes
  <2> HIDE DEF seq
  <2>6. /\ ls \in Links /\ ~ls.corrupt /\ mem \in SUBSET Nodes /\ head \in Nodes /\ e \in Nodes
        /\ Ring(ls, head, seq) /\ seq \in Seq(Nodes) /\ RingNodes(head, seq) \subseteq mem
        /\ Distinct(head, seq) /\ e \notin RingNodes(head, seq)
    BY <1>1, <2>3, <2>4
  <2>7. Ring(SignalAdd(ls, head, e, mem), head, Append(seq, e))
    BY ONLY <2>6, RingAdd
  <2>8. \A x \in Nodes : x \notin RingNodes(head, seq) /\ x # e =>
          /\ SignalAdd(ls, head, e, mem).next[x] = ls.next[x]
          /\ SignalAdd(ls, head, e, mem).prev[x] = ls.prev[x]
    BY ONLY <2>6, RingAdd
  <2>9. Clear(L, mem, RingNodes(head, seq) \cup {e}, Loose \ {e})
    BY <2>2, <2>3, <2>8 DEF Clear
  <2> QED
    BY <1>2, <2>5, <2>7, <2>9 DEF seq
<1>12. ASSUME NEW g \in Loose \ {e} PROVE Alone(L, mem, g)
  <2>1. g \in Nodes /\ g # head /\ Alone(ls, mem, g)
    BY <1>1, <1>3
  <2> QED
    BY <1>1, <1>6, <2>1, AddAlone
<1>13. ASSUME NEW l \in HostListeners PROVE Answered(L, mem, l, IsAttached(l)')
  <2> DEFINE on == IsAttached(l)
  <2>1. Answered(ls, mem, l, on) /\ l \in mem /\ on \in BOOLEAN
    BY <1>3 DEF IsAttached
  <2>2. l = e => ~on
    BY Sets
  <2>3. IsAttached(l)' <=> on \/ l = e
    BY <1>2
  <2> HIDE DEF on
  <2>4. Answered(L, mem, l, on \/ l = e)
    BY <1>1, <1>6, <2>1, <2>2, AddAnswered
  <2> QED
    BY <2>3, <2>4 DEF Answered
<1> HIDE DEF L
<1>14. \A h \in heads \ tangled' : Ring(L, h, attached'[h])
  BY <1>10, <1>11
<1>15. \A h \in Heads \ tangled' : Clear(L, mem, Around(h)', Loose \ {e})
  BY <1>9, <1>11
<1> QED
  BY <1>12, <1>13, <1>14, <1>15

(* A listener that is taken off leaves the ring of its signal closed, if   *)
(* that is no ring already, and the others as they are.                    *)
LEMMA RemoveOrderly ==
  ASSUME TypeInv, AttachedInv, Defined, Orderly(links, Memory, live),
         NEW head \in live, NEW e \in Elements(attached[head]), e \notin tangled,
         NEW gone, e \in gone, gone \cap HostListeners \subseteq {e},
         tangled \subseteq tangled',
         \A h \in Heads \ tangled' : Elements(attached[h]) \cap gone \subseteq {e},
         links' = Remove(links, e, Memory), Detach(gone)
  PROVE  /\ links' \in Links /\ (head \notin tangled => Defined')
         /\ Defined' =>
              /\ \A h \in live \ tangled' : Ring(links', h, attached'[h])
              /\ \A h \in Heads \ tangled' : Clear(links', Memory, Around(h)', Loose)
              /\ \A g \in Loose : Alone(links', Memory, g)
              /\ \A l \in HostListeners : Answered(links', Memory, l, IsAttached(l)')
<1> DEFINE L == Remove(links, e, Memory)
<1>1. /\ links \in Links /\ ~links.corrupt /\ Memory \in SUBSET Nodes
      /\ head \in Heads /\ head \in Nodes /\ live \subseteq Heads
      /\ e \in Listeners /\ e \in Memory /\ e \in Nodes /\ e \notin Heads
      /\ Loose \subseteq Nodes
  BY Facts, Sets DEF TypeInv, Defined
<1>2. /\ \A h \in Heads : Elements(attached'[h]) = Elements(attached[h]) \ gone
      /\ \A h \in Heads : Elements(attached[h]) \cap gone = {} => attached'[h] = attached[h]
      /\ \A h \in Heads : attached'[h] = Without(attached[h], gone)
      /\ \A l : IsAttached(l)' <=> IsAttached(l) /\ l \notin gone
  <2>1. \A h \in Heads : attached'[h] = Without(attached[h], gone)
    BY DEF Detach
  <2> QED
    BY <2>1, DetachEffects
<1>3. /\ \A h \in Heads \ tangled : Clear(links, Memory, Around(h), Loose)
      /\ \A h \in live \ tangled : Ring(links, h, attached[h])
      /\ \A g \in Loose : Alone(links, Memory, g)
      /\ \A l \in HostListeners : Answered(links, Memory, l, IsAttached(l))
  BY DEF Orderly
<1>4. e \notin Loose
  BY <1>1 DEF Loose, IsAttached, SignalsOf
<1>5. L \in Links
  BY <1>1, RemoveWrites
<1>6. ASSUME NEW h \in Heads \ tangled', h # head
      PROVE  /\ attached'[h] = attached[h] /\ Around(h)' = Around(h) /\ e \notin Around(h)
  <2>1. OnlyOnce(e)
    BY <1>1 DEF AttachedInv
  <2>2. e \notin Elements(attached[h])
    BY <1>1, <1>6, <2>1, OnceElements
  <2>3. attached'[h] = attached[h]
    BY <1>2, <1>6, <2>2
  <2> QED
    BY <1>1, <2>2, <2>3 DEF Around, RingNodes
<1>7. ASSUME head \notin tangled
      PROVE  /\ ~L.corrupt /\ L.next[e] = NULL /\ L.prev[e] = NULL
             /\ head \notin tangled' => Ring(L, head, attached'[head])
             /\ \A x \in Nodes : x \notin Around(head) =>
                  L.next[x] = links.next[x] /\ L.prev[x] = links.prev[x]
  <2> DEFINE seq == attached[head]
  <2>1. /\ Ring(links, head, seq) /\ seq \in Seq(Nodes) /\ RingNodes(head, seq) \subseteq Memory
        /\ Distinct(head, seq) /\ Around(head) = RingNodes(head, seq)
    BY <1>1, <1>3, <1>7, Facts DEF Around
  <2>2. PICK m \in 1 .. Len(seq) : seq[m] = e
    BY <2>1, ElementIn
  <2>3. DOMAIN seq = 1 .. Len(seq) /\ \A k \in DOMAIN seq : seq[k] \in Elements(seq)
    BY <2>1, ElementIn
  <2>4. attached'[head] = Without(seq, gone)
    BY <1>1, <1>2
  <2>5. head \notin tangled' => \A k \in 1 .. Len(seq) : seq[k] \in gone <=> k = m
    BY <1>1, <2>1, <2>2, <2>3 DEF Distinct
  <2> HIDE DEF seq
  <2> DEFINE rest == [i \in 1 .. Len(seq) - 1 |-> IF i < m THEN seq[i] ELSE seq[i + 1]]
  <2>6. head \notin tangled' => Without(seq, gone) = rest
    BY <2>1, <2>5, WithoutOne
  <2>7. /\ links \in Links /\ ~links.corrupt /\ Memory \in SUBSET Nodes /\ head \in Nodes
        /\ Ring(links, head, seq) /\ seq \in Seq(Nodes) /\ RingNodes(head, seq) \subseteq Memory
        /\ Distinct(head, seq) /\ m \in 1 .. Len(seq)
    BY <1>1, <2>1
  <2>8. ~Remove(links, seq[m], Memory).corrupt /\ Ring(Remove(links, seq[m], Memory), head, rest)
    BY ONLY <2>7, RingRemove
  <2>9. /\ Remove(links, seq[m], Memory).next[seq[m]] = NULL
        /\ Remove(links, seq[m], Memory).prev[seq[m]] = NULL
    BY ONLY <2>7, RingRemove
  <2>10. /\ \A x \in Nodes : x \notin RingNodes(head, seq) =>
              Remove(links, seq[m], Memory).next[x] = links.next[x]
         /\ \A x \in Nodes : x \notin RingNodes(head, seq) =>
              Remove(links, seq[m], Memory).prev[x] = links.prev[x]
    <3>1. seq[m] \in RingNodes(head, seq) /\ seq[m] = e
      BY <2>2, <2>3 DEF RingNodes
    <3>2. links.prev[e] \in RingNodes(head, seq) /\ links.next[e] \in RingNodes(head, seq)
      BY ONLY <3>1, <2>7, RingLinks
    <3> QED
      BY <1>1, <2>8, <3>1, <3>2, RemoveWrites
  <2> HIDE DEF rest
  <2> QED
    BY <2>1, <2>2, <2>4, <2>6, <2>8, <2>9, <2>10
<1>8. SUFFICES ASSUME ~L.corrupt
               PROVE  /\ \A h \in live \ tangled' : Ring(L, h, attached'[h])
                      /\ \A h \in Heads \ tangled' : Clear(L, Memory, Around(h)', Loose)
                      /\ \A g \in Loose : Alone(L, Memory, g)
                      /\ \A l \in HostListeners : Answered(L, Memory, l, IsAttached(l)')
  BY <1>5, <1>7 DEF Defined
<1>9. ASSUME NEW h \in Heads \ tangled', h # head
      PROVE  Clear(L, Memory, Around(h), Loose) /\ Same(links, L, Around(h))
  <2>1. /\ Around(h) \in SUBSET Nodes /\ Clear(links, Memory, Around(h), Loose)
        /\ e \in Memory \ (Around(h) \cup Loose)
    BY <1>1, <1>3, <1>4, <1>6, <1>9, Facts
  <2>2. ~Remove(links, e, Memory).corrupt
    BY <1>8
  <2>3. Clear(Remove(links, e, Memory), Memory, Around(h), Loose)
    BY ONLY <1>1, <2>1, <2>2, RemoveOutside
  <2>4. Same(links, Remove(links, e, Memory), Around(h))
    BY ONLY <1>1, <2>1, <2>2, RemoveOutside
  <2> QED
    BY <2>3, <2>4
<1>10. ASSUME NEW h \in live \ tangled', h # head PROVE Ring(L, h, attached'[h])
  <2>1. /\ h \in Heads \ tangled' /\ h \in Nodes /\ attached[h] \in Seq(Nodes)
        /\ Ring(links, h, attached[h])
    BY <1>1, <1>3, Facts, Sets
  <2>2. /\ attached'[h] = attached[h]
        /\ \A x \in RingNodes(h, attached[h]) : L.next[x] = links.next[x] /\ L.prev[x] = links.prev[x]
    BY <1>6, <1>9, <1>10, <2>1 DEF Around, Same
  <2> HIDE DEF L
  <2> QED
    BY <2>1, <2>2, RingSame
<1>11. ASSUME head \notin tangled' PROVE Clear(L, Memory, Around(head)', Loose)
  <2>1. Around(head)' \subseteq Around(head) /\ e \notin Around(head)' /\ NULL \notin Around(head)'
    BY <1>1, <1>2, Facts, Sets DEF Around, RingNodes
  <2>2. Clear(links, Memory, Around(head), Loose)
    BY <1>1, <1>3, <1>11
  <2> HIDE DEF L
  <2>3. ASSUME NEW x \in Memory \ (Around(head)' \cup Loose)
        PROVE  L.next[x] \notin Around(head)' /\ L.prev[x] \notin Around(head)'
    <3>1. CASE x = e
      BY <3>1, <1>7, <1>11, <2>1
    <3>2. CASE x # e
      <4>1. head \in Around(head)'
        BY DEF Around, RingNodes
      <4>2. \A y \in Elements(attached[head]) : y \in Around(head)' \/ y = e
        BY <1>1, <1>2, <1>11 DEF Around, RingNodes
      <4>3. x \notin Around(head)
        BY <3>2, <4>1, <4>2 DEF Around, RingNodes
      <4> QED
        BY <1>1, <1>7, <1>11, <2>1, <2>2, <4>3 DEF Clear
    <3> QED
      BY <3>1, <3>2
  <2> QED
    BY <2>3 DEF Clear
<1>12. ASSUME NEW g \in Loose PROVE Alone(L, Memory, g)
  <2>1. g \in Nodes /\ g # e /\ Alone(links, Memory, g)
    BY <1>1, <1>3, <1>4
  <2> QED
    BY <1>1, <1>8, <2>1, RemoveAlone
<1>13. ASSUME NEW l \in HostListeners PROVE Answered(L, Memory, l, IsAttached(l)')
  <2> DEFINE on == IsAttached(l)
  <2>1. Answered(links, Memory, l, on) /\ l \in Memory /\ on \in BOOLEAN
    BY <1>3, Facts DEF IsAttached
  <2>2. IsAttached(l)' <=> on /\ l # e
    BY <1>2
  <2> HIDE DEF on
  <2>3. Answered(L, Memory, l, on /\ l # e)
    BY <1>1, <1>8, <2>1, RemoveAnswered
  <2> QED
    BY <2>2, <2>3 DEF Answered
<1> HIDE DEF L
<1>14. \A h \in live \ tangled' : Ring(L, h, attached'[h])
  BY <1>7, <1>10
<1>15. \A h \in Heads \ tangled' : Clear(L, Memory, Around(h)', Loose)
  BY <1>6, <1>9, <1>11
<1> QED
  BY <1>12, <1>13, <1>14, <1>15

(* The signal of a new object is a ring of its own.                        *)
LEMMA EmptyOrderly ==
  ASSUME IInv, Defined, NEW p \in Heads \ live
  PROVE  LET L == Empty(links, p)
             mem == Memory \cup {p}
         IN  /\ L \in Links /\ ~L.corrupt /\ mem \in SUBSET Nodes
             /\ Orderly(L, mem, live \cup {p})
             /\ \A h \in live \cup {p} : Around(h) \subseteq mem
<1> DEFINE L == Empty(links, p)
           mem == Memory \cup {p}
<1>1. /\ TypeInv /\ AttachedInv /\ links \in Links /\ ~links.corrupt
      /\ \A h \in Heads \ tangled : Clear(links, Memory, Around(h), Loose)
      /\ \A h \in live \ tangled : Ring(links, h, attached[h])
      /\ \A g \in Loose : Alone(links, Memory, g)
      /\ \A l \in HostListeners : Answered(links, Memory, l, IsAttached(l))
      /\ live \subseteq Heads
  BY DEF IInv, TypeInv, LinksInv, Orderly, Defined
<1>2. /\ Memory \in SUBSET Nodes /\ HostListeners \subseteq Memory
      /\ \A h \in Heads : attached[h] \in Seq(Nodes) /\ Around(h) \subseteq Nodes /\ Around(h) \cap Heads = {h}
      /\ \A h \in live : Around(h) \subseteq Memory
      /\ Loose \subseteq Nodes /\ Loose \cap Heads = {}
  BY <1>1, Facts, Sets
<1>3. p \in Nodes /\ p \notin Memory /\ p \notin HostListeners /\ p # NULL
  <2>1. p \in Nodes /\ p \notin Listeners
    BY <1>1, Sets
  <2>2. up => \A kind \in Kinds : Glue(kind) \in GlueListeners
    BY <1>1, Facts
  <2>3. p \notin Kinds \X {inits} \/ ~up
    BY <2>1, <2>2 DEF Listeners, Glue
  <2> QED
    BY <2>1, <2>3, Sets DEF Memory, Listeners
<1>4. /\ L \in Links /\ ~L.corrupt
      /\ \A x \in Nodes : L.next[x] = IF x = p THEN p ELSE links.next[x]
      /\ \A x \in Nodes : L.prev[x] = IF x = p THEN p ELSE links.prev[x]
  BY <1>1, <1>3, EmptyWrites
<1> HIDE DEF L
<1>5. ASSUME NEW h \in live \ tangled PROVE Ring(L, h, attached[h])
  <2>1. h \in Nodes /\ attached[h] \in Seq(Nodes) /\ Ring(links, h, attached[h])
    BY <1>1, <1>2, Sets
  <2>2. \A x \in RingNodes(h, attached[h]) : x \in Nodes /\ x # p
    BY <1>2, <1>3 DEF Around
  <2>3. \A x \in RingNodes(h, attached[h]) : L.next[x] = links.next[x] /\ L.prev[x] = links.prev[x]
    BY <2>2, <1>4
  <2> QED
    BY <2>1, <2>3, RingSame
<1>6. Ring(L, p, attached[p]) /\ Around(p) = {p}
  <2>1. attached[p] = <<>>
    BY <1>1 DEF AttachedInv
  <2>2. L.next[p] = p /\ L.prev[p] = p
    BY <1>3, <1>4
  <2>3. \A k \in 0 .. 0 : k = 0
    OBVIOUS
  <2>4. Len(<<>>) = 0 /\ Place(p, <<>>, 0) = p /\ Place(p, <<>>, 0 + 1) = p
    BY DEF Place
  <2>5. Ring(L, p, <<>>)
    BY <2>2, <2>3, <2>4 DEF Ring
  <2>6. Elements(<<>>) = {}
    BY DEF Elements
  <2> QED
    BY <2>1, <2>5, <2>6 DEF RingNodes, Around
<1>7. ASSUME NEW h \in Heads \ tangled PROVE Clear(L, mem, Around(h), Loose)
  <2>1. Clear(links, Memory, Around(h), Loose)
    BY <1>1
  <2>2. ASSUME NEW x \in mem \ (Around(h) \cup Loose)
        PROVE  L.next[x] \notin Around(h) /\ L.prev[x] \notin Around(h)
    <3>1. CASE x = p
      BY <3>1, <1>3, <1>4
    <3>2. CASE x \in Memory
      BY <3>2, <1>2, <1>3, <1>4, <2>1 DEF Clear
    <3> QED
      BY <3>1, <3>2
  <2> QED
    BY <2>2 DEF Clear
<1>8. ASSUME NEW g \in Loose PROVE Alone(L, mem, g)
  <2>1. Alone(links, Memory, g) /\ g \in Nodes /\ g # p
    BY <1>1, <1>2
  <2>2. L.next[g] = links.next[g] /\ L.prev[g] = links.prev[g]
    BY <1>4, <2>1
  <2>3. \A x \in mem : x # g => L.next[x] # g /\ L.prev[x] # g
    BY <1>2, <1>3, <1>4, <2>1 DEF Alone
  <2> QED
    BY <2>1, <2>2, <2>3 DEF Alone
<1>9. ASSUME NEW l \in HostListeners
      PROVE  Answered(L, mem, l, IsAttached(l))
  <2>1. l # p /\ l \in Nodes
    BY <1>3, Sets
  <2>2. Answered(links, Memory, l, IsAttached(l))
    BY <1>1
  <2>3. ASSUME NEW x \in mem
        PROVE  /\ L.next[x] = l => L.prev[l] = x /\ IsAttached(l)
               /\ L.prev[x] = l => L.next[l] = x /\ IsAttached(l)
    <3>1. CASE x = p
      BY <3>1, <2>1, <1>3, <1>4
    <3>2. CASE x \in Memory
      <4>1. L.next[x] = links.next[x] /\ L.prev[x] = links.prev[x]
        BY <3>2, <1>2, <1>3, <1>4
      <4>2. L.next[l] = links.next[l] /\ L.prev[l] = links.prev[l]
        BY <2>1, <1>4
      <4> QED
        BY <3>2, <4>1, <4>2, <2>2 DEF Answered
    <3> QED
      BY <3>1, <3>2
  <2> QED
    BY <2>3 DEF Answered
<1>10. \A h \in live \cup {p} : Around(h) \subseteq mem
  BY <1>2, <1>6
<1>11. Orderly(L, mem, live \cup {p})
  <2> HIDE DEF mem
  <2> QED
    BY <1>5, <1>6, <1>7, <1>8, <1>9 DEF Orderly
<1> QED
  BY <1>2, <1>3, <1>4, <1>10, <1>11 DEF L

(***************************************************************************)
(* The steps.                                                              *)
(***************************************************************************)
LEMMA GlueFacts ==
  ASSUME TypeInv, AttachedInv
  PROVE  /\ inits \in Nat /\ (up => inits \in 1 .. MaxInits)
         /\ \A g \in GlueListeners : g[2] \in Nat
         /\ \A h \in Heads : KindOf(h) \in Kinds
         /\ \A kind \in Kinds : Glue(kind)[1] = kind /\ Glue(kind)[2] = inits
         /\ \A h \in Heads : \A g \in Elements(attached[h]) \cap GlueListeners :
              up /\ g = Glue(KindOf(h))
         /\ up => Backend \notin SignalsOf(Glue("pointer")) \cup SignalsOf(Glue("commit"))
         /\ up => Glue("new_input") \notin tangled
<1>1. \A h \in Heads : \A g \in Elements(attached[h]) \cap GlueListeners :
        up /\ g = Glue(KindOf(h))
  BY Sets DEF AttachedInv, May
<1>2. \A h \in Heads : KindOf(h) \in Kinds
  BY DEF KindOf, Kinds
<1>3. \A kind \in Kinds : Glue(kind)[1] = kind /\ Glue(kind)[2] = inits
  BY DEF Glue
<1>4. inits \in Nat /\ (up => inits \in 1 .. MaxInits)
  BY GlueAssumption DEF TypeInv
<1>5. \A g \in GlueListeners : g[2] \in Nat
  BY GlueAssumption DEF GlueListeners
<1>6. ASSUME up, NEW kind \in {"pointer", "commit"} PROVE Backend \notin SignalsOf(Glue(kind))
  <2>1. Glue(kind) \in GlueListeners /\ kind \in Kinds
    BY <1>4, <1>6, GlueInListeners DEF Glue, Kinds
  <2>2. KindOf(Backend) = "new_input" /\ "new_input" \in Kinds
    BY DEF KindOf, Kinds
  <2>3. Glue(kind) # Glue("new_input")
    BY <1>6 DEF Glue
  <2> QED
    BY <1>1, <2>1, <2>2, <2>3, Sets DEF SignalsOf
<1>7. ASSUME up PROVE Glue("new_input") \notin tangled
  <2>1. Glue("new_input") \in GlueListeners
    BY <1>4, <1>7, GlueInListeners DEF Glue, Kinds
  <2>2. Glue("new_input") \notin {"pointer", "commit"} \X (1 .. inits)
    BY DEF Glue
  <2> QED
    BY <2>1, <2>2, Sets DEF TypeInv
<1> QED
  BY <1>1, <1>2, <1>3, <1>4, <1>5, <1>6, <1>7

(* A listener is attached: the host's, or the glue's to a signal of its    *)
(* kind.  One that gets or is tangled tangles the signals it is on.        *)
LEMMA AttachKeeps ==
  ASSUME TypeInv, AttachedInv, NEW head \in Heads, NEW e \in Listeners, Attach(head, e),
         head \in live', live \subseteq live',
         e \in HostListeners \/ (up' /\ e = Glue(KindOf(head))' /\ e \in GlueListeners),
         \/ up' = up /\ inits' = inits
         \/ ~up /\ head = Backend /\ e \in GlueListeners,
         \/ /\ tangled' = tangled /\ ~IsAttached(e)
            /\ e \in GlueListeners => e \notin tangled /\ head \notin tangled
         \/ /\ tangled' = tangled \cup SignalsOf(e) \cup {head, e}
            /\ e \in GlueListeners
  PROVE  AttachedInv'
<1>1. /\ attached'[head] = Append(attached[head], e)
      /\ \A h \in Heads \ {head} : attached'[h] = attached[h]
      /\ Elements(attached'[head]) = Elements(attached[head]) \cup {e}
      /\ \A l : OnlyOnce(l) /\ (l = e => ~IsAttached(e)) => OnlyOnce(l)'
  BY AttachEffects
<1>2. \A h \in Heads : Elements(attached'[h]) = Elements(attached[h]) \cup (IF h = head THEN {e} ELSE {})
  BY <1>1
<1>3. \A h \in Heads \ live' : attached'[h] = <<>>
  BY <1>1 DEF AttachedInv
<1>4. ASSUME NEW h \in Heads PROVE May(h) \subseteq May(h)'
  <2>1. KindOf(h)' = KindOf(h)
    BY DEF KindOf
  <2> QED
    BY <2>1 DEF May, Glue
<1>5. ASSUME NEW h \in Heads PROVE Elements(attached'[h]) \subseteq May(h)'
  <2>1. e \in May(head)'
    BY DEF May
  <2> QED
    BY <1>2, <1>4, <1>5, <2>1 DEF AttachedInv
<1>6. ASSUME up' PROVE Glue("new_input")' \in Elements(attached'[Backend])
  <2>1. CASE up' = up /\ inits' = inits
    BY <2>1, <1>2, <1>6, Sets DEF AttachedInv, Glue
  <2>2. CASE ~up /\ head = Backend /\ e \in GlueListeners
    <3>1. KindOf(Backend)' = "new_input" /\ e \notin HostListeners
      BY <2>2, Sets DEF KindOf
    <3> QED
      BY <1>2, <2>2, <3>1
  <2> QED
    BY <2>1, <2>2
<1>7. ASSUME NEW l \in Listeners \ tangled' PROVE OnlyOnce(l)'
  BY <1>1, <1>7 DEF AttachedInv
<1>8. ASSUME NEW h \in Heads, NEW g \in Elements(attached'[h]) \cap GlueListeners
      PROVE  g \in tangled' <=> h \in tangled'
  <2>1. g \notin Heads /\ h \notin Listeners
    BY <1>8, Sets
  <2>2. g # e => g \in Elements(attached[h])
    BY <1>2, <1>8
  <2>3. CASE tangled' = tangled /\ ~IsAttached(e)
             /\ (e \in GlueListeners => e \notin tangled /\ head \notin tangled)
    <3>1. CASE g = e
      <4>1. h = head
        BY <3>1, <2>3, <1>2, <1>8 DEF IsAttached, SignalsOf
      <4> QED
        BY <4>1, <3>1, <2>3, <1>8
    <3>2. CASE g # e
      BY <3>2, <2>2, <2>3, <1>8 DEF AttachedInv
    <3> QED
      BY <3>1, <3>2
  <2>4. CASE tangled' = tangled \cup SignalsOf(e) \cup {head, e} /\ e \in GlueListeners
    <3>1. CASE g = e
      BY <3>1, <2>4, <1>2, <1>8 DEF SignalsOf
    <3>2. CASE g # e
      <4>1. g \in tangled <=> h \in tangled
        BY <3>2, <2>2, <1>8 DEF AttachedInv
      <4>2. g \notin SignalsOf(e)
        BY <2>1 DEF SignalsOf
      <4>3. up /\ g = Glue(KindOf(h))
        BY <3>2, <2>2, <1>8, GlueFacts
      <4>4. h \notin SignalsOf(e)
        BY <4>3, <3>2, <2>4, <1>8, GlueFacts DEF SignalsOf
      <4>5. h # head
        <5>1. KindOf(head)' = KindOf(head) /\ e \notin HostListeners
          BY <2>4, Sets DEF KindOf
        <5>2. e = Glue(KindOf(head))
          BY <5>1, <4>3 DEF Glue
        <5> QED
          BY <5>2, <4>3, <3>2
      <4>6. h # e /\ g # head
        BY <1>8, <2>1
      <4> QED
        BY <4>1, <4>2, <4>4, <4>5, <4>6, <3>2, <2>4
    <3> QED
      BY <3>1, <3>2
  <2> QED
    BY <2>3, <2>4
<1> QED
  BY <1>3, <1>5, <1>6, <1>7, <1>8 DEF AttachedInv

LEMMA GlueInitKeeps ==
  ASSUME IInv, GlueInit PROVE IInv'
<1> DEFINE e == <<"new_input", inits + 1>>
<1>1. /\ TypeInv /\ AttachedInv /\ Orderly(links, Memory, live)
      /\ links \in Links /\ ~links.corrupt /\ ~up /\ inits \in Nat /\ inits + 1 \in 1 .. MaxInits
      /\ Backend \in live /\ live \subseteq Heads /\ attached \in [Heads -> Seq(Listeners)]
      /\ tangled \subseteq (Heads \ {Backend}) \cup ({"pointer", "commit"} \X (1 .. inits))
      /\ up' /\ inits' = inits + 1 /\ live' = live /\ tangled' = tangled
      /\ links' = SignalAdd(links, Backend, e, Memory) /\ Attach(Backend, e)
  BY GlueAssumption DEF IInv, LinksInv, GlueInit, Defined, TypeInv
<1>2. e \in GlueListeners /\ e \in Listeners /\ e \in Nodes /\ Backend \in Heads /\ Backend \in Nodes
  BY <1>1, GlueInListeners, Sets DEF Kinds
<1>3. \A g \in GlueListeners : ~IsAttached(g)
  BY <1>1, GlueFacts DEF IsAttached, SignalsOf
<1>4. ASSUME NEW g \in GlueListeners, g[2] = inits + 1 PROVE g \in Loose
  <2>1. g \notin {"pointer", "commit"} \X (1 .. inits)
    BY <1>1, <1>4
  <2>2. g \notin Heads
    BY Sets
  <2> QED
    BY <1>1, <1>3, <1>4, <2>1, <2>2 DEF Loose
<1>5. /\ Memory \subseteq Nodes /\ HostListeners \subseteq Memory
      /\ \A h \in live : Around(h) \subseteq Memory
      /\ Backend \notin tangled /\ attached[Backend] \in Seq(Nodes)
  BY <1>1, Facts
<1>6. Memory' = Memory \cup (Kinds \X {inits + 1})
  BY <1>1 DEF Memory
<1>7. Kinds \X {inits + 1} \subseteq Loose
  <2>1. \A x \in Kinds \X {inits + 1} : x \in GlueListeners /\ x[2] = inits + 1
    BY <1>1 DEF GlueListeners
  <2> QED
    BY <1>4, <2>1
<1>8. Memory' \subseteq Nodes /\ e \in Memory' /\ Memory \subseteq Memory'
  BY <1>2, <1>5, <1>6, <1>7, Sets DEF Loose, Kinds
<1>9. Orderly(links, Memory', live)
  <2>1. \A x \in Memory' : x \in Memory \/ x \in Loose
    BY <1>6, <1>7
  <2>2. \A h \in live \ tangled : Ring(links, h, attached[h])
    BY <1>1 DEF Orderly
  <2>3. \A h \in Heads \ tangled : Clear(links, Memory', Around(h), Loose)
    BY <1>1, <2>1 DEF Orderly, Clear
  <2>4. \A g \in Loose : Alone(links, Memory, g) /\ g \notin Heads /\ g # NULL /\ g \notin HostListeners
    BY <1>1, Sets DEF Orderly, Loose
  <2>5. ASSUME NEW g \in Loose PROVE Alone(links, Memory', g)
    <3>1. ASSUME NEW x \in Memory', x # g PROVE links.next[x] # g /\ links.prev[x] # g
      BY <2>1, <2>4, <3>1 DEF Alone
    <3> QED
      BY <2>4, <3>1 DEF Alone
  <2>6. ASSUME NEW l \in HostListeners PROVE Answered(links, Memory', l, IsAttached(l))
    <3>1. Answered(links, Memory, l, IsAttached(l)) /\ l \notin Heads /\ l # NULL /\ l \notin Loose
      BY <1>1, <2>4, Sets DEF Orderly
    <3>2. \A x \in Memory' : x \notin Memory => links.next[x] # l /\ links.prev[x] # l
      BY <2>1, <2>4, <3>1 DEF Alone
    <3> QED
      BY <3>1, <3>2 DEF Answered
  <2> QED
    BY <2>2, <2>3, <2>5, <2>6 DEF Orderly
<1>10. links' = SignalAdd(links, Backend, e, Memory')
  <2> DEFINE seq == attached[Backend]
  <2>1. Ring(links, Backend, seq) /\ seq \in Seq(Nodes) /\ RingNodes(Backend, seq) \subseteq Memory
    BY <1>1, <1>5 DEF Orderly, Around
  <2> HIDE DEF seq
  <2>2. links.next[links.prev[Backend]] = Backend /\ links.prev[Backend] \in Memory /\ Backend \in Memory
    BY <1>2, <2>1, RingTail DEF RingNodes
  <2> QED
    BY <1>1, <1>8, <2>2 DEF SignalAdd
<1>11. Loose' = Loose \ {e}
  <2>1. \A l : IsAttached(l)' <=> IsAttached(l) \/ l = e
    BY <1>1, <1>2, AttachEffects
  <2>2. \A g \in GlueListeners : g[2] \in Nat
    BY <1>1, GlueFacts
  <2>3. \A g \in GlueListeners : g[2] > inits' \/ (up' /\ g[2] = inits') <=>
                                 g[2] > inits \/ (up /\ g[2] = inits)
    BY <1>1, <2>2
  <2>4. Loose' = {g \in GlueListeners \ tangled' :
                    ~IsAttached(g)' /\ (g[2] > inits' \/ (up' /\ g[2] = inits'))}
    BY DEF Loose
  <2> QED
    BY <1>1, <2>1, <2>3, <2>4 DEF Loose
<1>12. AttachedInv'
  <2>1. KindOf(Backend)' = "new_input"
    BY DEF KindOf
  <2>2. e = Glue(KindOf(Backend))'
    BY <1>1, <2>1 DEF Glue
  <2>3. e \notin tangled
    BY <1>2, <1>4, <1>1 DEF Loose
  <2>4. ~IsAttached(e)
    BY <1>2, <1>3
  <2> HIDE DEF e
  <2> QED
    BY <1>1, <1>2, <1>5, <2>2, <2>3, <2>4, AttachKeeps
<1>13. TypeInv' /\ LinksInv'
  <2>1. e \in Loose /\ ~IsAttached(e)
    BY <1>2, <1>3, <1>4
  <2>2. attached' \in [Heads -> Seq(Listeners)]
    BY <1>1, <1>2, AttachEffects
  <2> HIDE DEF e
  <2>3. /\ links' \in Links /\ (tangled' = {} => Defined')
        /\ Defined' =>
              /\ \A h \in live \ tangled' : Ring(links', h, attached'[h])
              /\ \A h \in Heads \ tangled' : Clear(links', Memory', Around(h)', Loose')
              /\ \A g \in Loose' : Alone(links', Memory', g)
              /\ \A l \in HostListeners : Answered(links', Memory', l, IsAttached(l)')
    BY <1>1, <1>2, <1>5, <1>8, <1>9, <1>10, <1>11, <2>1, AddOrderly
  <2>4. TypeInv'
    <3>1. inits' \in 0 .. MaxInits /\ inits' > 0
      BY <1>1
    <3>2. {"pointer", "commit"} \X (1 .. inits) \subseteq {"pointer", "commit"} \X (1 .. inits')
      BY <1>1
    <3> QED
      BY <1>1, <2>2, <2>3, <3>1, <3>2 DEF TypeInv
  <2> QED
    BY <1>1, <2>3, <2>4 DEF LinksInv, Orderly
<1> QED
  BY <1>12, <1>13 DEF IInv

LEMMA GlueCleanupKeeps ==
  ASSUME IInv, GlueCleanup PROVE IInv'
<1> DEFINE e == Glue("new_input")
           gone == Kinds \X {inits}
<1>1. /\ TypeInv /\ AttachedInv /\ Defined /\ Orderly(links, Memory, live)
      /\ up /\ inits \in 1 .. MaxInits
      /\ live' = live /\ inits' = inits /\ up' = FALSE
      /\ links' = Remove(links, e, Memory) /\ Detach(gone)
      /\ tangled' = tangled \cup SignalsOf(Glue("pointer")) \cup SignalsOf(Glue("commit"))
  BY GlueFacts DEF IInv, LinksInv, GlueCleanup, RemoveListeners, TypeInv
<1>2. /\ Backend \in live /\ Backend \in Heads /\ live \subseteq Heads
      /\ e \in Elements(attached[Backend]) /\ e \in gone /\ e \notin tangled
      /\ gone \cap HostListeners = {} /\ tangled \subseteq tangled'
      /\ Backend \notin tangled /\ Backend \notin tangled'
      /\ tangled' \subseteq tangled \cup (Heads \ {Backend})
  <2>1. gone \subseteq GlueListeners
    BY <1>1 DEF GlueListeners
  <2>2. e \in gone
    BY DEF Glue, Kinds
  <2>3. e \notin tangled /\ Backend \notin tangled /\ Backend \notin tangled'
    BY <1>1, GlueFacts, Facts
  <2> QED
    BY <1>1, <2>1, <2>2, <2>3, Sets DEF TypeInv, AttachedInv, SignalsOf
<1>3. ASSUME NEW h \in Heads
      PROVE  /\ Elements(attached[h]) \subseteq HostListeners \cup {Glue(KindOf(h))}
             /\ Glue(KindOf(h)) \in gone
  BY <1>1, GlueFacts DEF AttachedInv, May, Glue
<1>4. \A h \in Heads \ tangled' : Elements(attached[h]) \cap gone \subseteq {e}
  <2>1. SUFFICES ASSUME NEW h \in Heads \ tangled', NEW x \in Elements(attached[h]) \cap gone
                 PROVE  x = e
    OBVIOUS
  <2>2. x = Glue(KindOf(h))
    BY <1>2, <1>3
  <2>3. h \notin SignalsOf(Glue("pointer")) /\ h \notin SignalsOf(Glue("commit"))
    BY <1>1
  <2> QED
    BY <2>2, <2>3 DEF KindOf, SignalsOf
<1>5. /\ attached' \in [Heads -> Seq(Listeners)]
      /\ \A h \in Heads : Elements(attached'[h]) = Elements(attached[h]) \ gone
      /\ \A h \in Heads : Elements(attached[h]) \cap gone = {} => attached'[h] = attached[h]
      /\ \A l : IsAttached(l)' <=> IsAttached(l) /\ l \notin gone
      /\ \A l : OnlyOnce(l) => OnlyOnce(l)'
  BY <1>1, DetachEffects
<1>6. /\ links' \in Links /\ Defined'
      /\ \A h \in live \ tangled' : Ring(links', h, attached'[h])
      /\ \A h \in Heads \ tangled' : Clear(links', Memory, Around(h)', Loose)
      /\ \A g \in Loose : Alone(links', Memory, g)
      /\ \A l \in HostListeners : Answered(links', Memory, l, IsAttached(l)')
  <2> HIDE DEF e, gone
  <2> QED
    BY <1>1, <1>2, <1>4, RemoveOrderly
<1>7. Memory' \subseteq Memory /\ Memory' \cap GlueListeners = {}
  <2>1. Memory' = live \cup HostListeners
    BY <1>1 DEF Memory
  <2> QED
    BY <2>1, <1>2, Sets DEF Memory
<1>8. /\ Loose' \subseteq Loose
      /\ \A g \in Loose : g \notin Loose' => g \notin Memory'
  <2>1. Loose' = {g \in GlueListeners \ tangled' : ~IsAttached(g)' /\ g[2] > inits}
    BY <1>1 DEF Loose
  <2>2. \A g \in GlueListeners : g \notin Heads /\ (g \in gone => g[2] = inits) /\ g[2] \in Nat
    BY <1>1, GlueFacts, Sets
  <2>3. \A g \in GlueListeners : g \in tangled' <=> g \in tangled
    BY <1>2, <2>2
  <2>4. \A g \in Loose' : g[2] > inits /\ g \notin gone /\ ~IsAttached(g)
    BY <1>1, <1>5, <2>1, <2>2
  <2> QED
    BY <1>7, <2>1, <2>3, <2>4 DEF Loose
<1>9. TypeInv'
  BY <1>1, <1>2, <1>5, <1>6 DEF TypeInv
<1>10. AttachedInv'
  <2>1. \A h \in Heads \ live' : attached'[h] = <<>>
    <3>1. Elements(<<>>) = {}
      BY DEF Elements
    <3> QED
      BY <1>1, <1>5, <3>1 DEF AttachedInv
  <2>2. \A h \in Heads : Elements(attached'[h]) \subseteq HostListeners
    BY <1>3, <1>5
  <2>3. \A h \in Heads : HostListeners \subseteq May(h)'
    BY DEF May
  <2>4. \A l \in Listeners \ tangled' : OnlyOnce(l)'
    BY <1>1, <1>2, <1>5 DEF AttachedInv
  <2>5. \A h \in Heads : Elements(attached'[h]) \cap GlueListeners = {}
    BY <2>2, Sets
  <2> QED
    BY <1>1, <2>1, <2>2, <2>3, <2>4, <2>5 DEF AttachedInv
<1>11. LinksInv'
  <2>1. \A h \in Heads \ tangled' : Clear(links', Memory', Around(h)', Loose')
    BY <1>6, <1>7, <1>8 DEF Clear
  <2>2. \A g \in Loose' : Alone(links', Memory', g)
    BY <1>6, <1>7, <1>8 DEF Alone
  <2>3. \A l \in HostListeners : Answered(links', Memory', l, IsAttached(l)')
    BY <1>6, <1>7 DEF Answered
  <2> QED
    BY <1>1, <1>6, <2>1, <2>2, <2>3 DEF LinksInv, Orderly
<1> QED
  BY <1>9, <1>10, <1>11 DEF IInv

LEMMA GlueAddsKeeps ==
  ASSUME IInv, up, NEW head \in Heads \ {Backend}, NEW ls \in Links, ~ls.corrupt,
         GlueAdds(head, Glue(KindOf(head)), ls),
         UNCHANGED <<up, inits>>, live' = live \cup {head},
         Orderly(ls, Memory \cup {head}, live \cup {head}),
         \A h \in live \cup {head} : Around(h) \subseteq Memory \cup {head}
  PROVE  IInv'
<1> DEFINE e == Glue(KindOf(head))
           mem == Memory \cup {head}
           heads == live \cup {head}
<1>1. /\ TypeInv /\ AttachedInv /\ live \subseteq Heads /\ head \in Heads /\ head \in heads
      /\ heads \subseteq Heads /\ head \in Nodes /\ inits \in 1 .. MaxInits
  BY GlueFacts, Sets DEF IInv, TypeInv
<1>2. /\ e \in GlueListeners /\ e \in Listeners /\ e \in Memory /\ e[2] = inits
      /\ e[1] \in {"pointer", "commit"} /\ e = <<e[1], inits>>
  <2>1. KindOf(head) \in Kinds /\ KindOf(head) \in {"pointer", "commit"}
    BY DEF KindOf, Kinds
  <2> QED
    BY <1>1, <2>1, Facts, Sets DEF Glue
<1>3. Memory \subseteq Nodes /\ mem \subseteq Nodes /\ HostListeners \subseteq mem /\ e \in mem
  BY <1>1, <1>2, Facts
<1>4. Backend \notin SignalsOf(e)
  BY <1>1, GlueFacts DEF KindOf
<1>5. /\ links' = SignalAdd(ls, head, e, mem) /\ Attach(head, e)
      /\ \/ tangled' = tangled \cup SignalsOf(e) \cup {head, e}
         \/ ~IsAttached(e) /\ e \notin tangled /\ head \notin tangled /\ tangled' = tangled
  BY DEF GlueAdds, Link
<1> HIDE DEF e
<1>6. Memory' = mem
  BY DEF Memory
<1>7. /\ attached' \in [Heads -> Seq(Listeners)]
      /\ \A l : IsAttached(l)' <=> IsAttached(l) \/ l = e
  BY <1>1, <1>2, <1>5, AttachEffects
<1>8. Loose' = Loose \ {e}
  <2>1. \A g \in GlueListeners : g \notin Heads
    BY Sets
  <2>2. \A g \in GlueListeners : g # e => (g \in tangled' <=> g \in tangled)
    BY <1>1, <1>5, <2>1 DEF SignalsOf
  <2>3. Loose' = {g \in GlueListeners \ tangled' :
                    ~IsAttached(g)' /\ (g[2] > inits \/ (up /\ g[2] = inits))}
    BY DEF Loose
  <2> QED
    BY <1>7, <2>2, <2>3 DEF Loose
<1>9. AttachedInv'
  <2>1. e = Glue(KindOf(head))'
    BY DEF e, Glue, KindOf
  <2> QED
    BY <1>1, <1>2, <1>5, <2>1, AttachKeeps
<1>10. e \in Loose \/ IsAttached(e) \/ e \in tangled
  BY <1>2 DEF Loose
<1>11. /\ links' \in Links /\ (tangled' = {} => Defined')
       /\ Defined' =>
            /\ \A h \in heads \ tangled' : Ring(links', h, attached'[h])
            /\ \A h \in Heads \ tangled' : Clear(links', mem, Around(h)', Loose')
            /\ \A g \in Loose' : Alone(links', mem, g)
            /\ \A l \in HostListeners : Answered(links', mem, l, IsAttached(l)')
  <2>1. tangled \subseteq tangled'
    BY <1>5
  <2>2. \/ ~IsAttached(e) /\ e \in HostListeners \cup Loose
        \/ SignalsOf(e) \cup {head} \subseteq tangled' /\ e \in GlueListeners
    BY <1>2, <1>5, <1>10
  <2> HIDE DEF mem, heads
  <2>3. /\ mem \in SUBSET Nodes /\ heads \in SUBSET Heads /\ head \in heads
        /\ Orderly(ls, mem, heads) /\ \A h \in heads : Around(h) \subseteq mem
    BY <1>1, <1>3 DEF mem, heads
  <2> QED
    BY <1>1, <1>2, <1>3, <1>5, <1>8, <2>1, <2>2, <2>3, AddOrderly
<1>12. TypeInv'
  <2>1. tangled' \subseteq tangled \cup (Heads \ {Backend}) \cup {e}
    BY <1>4, <1>5 DEF SignalsOf
  <2>2. e \in {"pointer", "commit"} \X (1 .. inits)
    BY <1>1, <1>2
  <2> QED
    BY <1>1, <1>7, <1>11, <2>1, <2>2 DEF TypeInv
<1>13. LinksInv'
  BY <1>6, <1>11 DEF LinksInv, Orderly
<1> QED
  BY <1>9, <1>12, <1>13 DEF IInv

LEMMA SameKeeps ==
  ASSUME IInv, UNCHANGED <<links, live, up, inits, attached, tangled>> PROVE IInv'
<1>1. \A h \in Heads : KindOf(h)' = KindOf(h) /\ May(h)' = May(h)
  BY DEF KindOf, May, Glue
<1>2. TypeInv'
  BY DEF IInv, TypeInv
<1>3. AttachedInv'
  <2>1. \A l : OnlyOnce(l)' <=> OnlyOnce(l)
    BY DEF OnlyOnce
  <2>2. Glue("new_input")' = Glue("new_input")
    BY DEF Glue
  <2> QED
    BY <1>1, <2>1, <2>2 DEF IInv, AttachedInv
<1>4. LinksInv'
  <2>1. Memory' = Memory /\ Loose' = Loose /\ \A h : Around(h)' = Around(h)
    BY DEF Memory, Loose, IsAttached, SignalsOf, Around, RingNodes
  <2>2. \A l : IsAttached(l)' = IsAttached(l)
    BY DEF IsAttached, SignalsOf
  <2> QED
    BY <2>1, <2>2 DEF IInv, LinksInv, Orderly, Defined
<1> QED
  BY <1>2, <1>3, <1>4 DEF IInv

LEMMA EmptyKeeps ==
  ASSUME IInv, Defined, NEW p \in Heads \ live, live' = live \cup {p},
         links' = Empty(links, p), UNCHANGED <<up, inits, attached, tangled>>
  PROVE  IInv'
<1> DEFINE mem == Memory \cup {p}
           heads == live \cup {p}
<1>1. /\ TypeInv /\ AttachedInv
      /\ links' \in Links /\ ~links'.corrupt /\ Orderly(links', mem, heads)
  BY EmptyOrderly DEF IInv
<1>2. Memory' = mem /\ Loose' = Loose /\ \A h : Around(h)' = Around(h)
  BY DEF Memory, Loose, IsAttached, SignalsOf, Around, RingNodes
<1>3. \A l : IsAttached(l)' = IsAttached(l)
  BY DEF IsAttached, SignalsOf
<1>4. TypeInv'
  BY <1>1 DEF TypeInv
<1>5. AttachedInv'
  <2>1. \A l : OnlyOnce(l)' <=> OnlyOnce(l)
    BY DEF OnlyOnce
  <2>2. \A h \in Heads : May(h)' = May(h)
    BY DEF May, Glue, KindOf
  <2>3. Glue("new_input")' = Glue("new_input")
    BY DEF Glue
  <2> QED
    BY <1>1, <2>1, <2>2, <2>3 DEF AttachedInv
<1>6. LinksInv'
  <2> HIDE DEF mem
  <2> QED
    BY <1>1, <1>2, <1>3 DEF LinksInv, Orderly, Defined
<1> QED
  BY <1>4, <1>5, <1>6 DEF IInv

LEMMA PlugPointerKeeps ==
  ASSUME IInv, NEW p \in Pointers, PlugPointer(p) PROVE IInv'
<1>1. /\ p \in Heads \ live /\ p # Backend /\ Defined /\ KindOf(p) = "pointer"
      /\ live' = live \cup {p} /\ UNCHANGED <<up, inits>>
  BY GlueAssumption DEF PlugPointer, Heads, KindOf
<1>2. CASE up
  <2> DEFINE ls == Empty(links, p)
  <2>1. GlueAdds(p, Glue(KindOf(p)), ls)
    BY <1>1, <1>2 DEF PlugPointer
  <2>2. /\ ls \in Links /\ ~ls.corrupt
        /\ Orderly(ls, Memory \cup {p}, live \cup {p})
        /\ \A h \in live \cup {p} : Around(h) \subseteq Memory \cup {p}
    BY <1>1, EmptyOrderly
  <2> HIDE DEF ls
  <2> QED
    BY <1>1, <1>2, <2>1, <2>2, GlueAddsKeeps
<1>3. CASE ~up
  BY <1>1, <1>3, EmptyKeeps DEF PlugPointer
<1> QED
  BY <1>2, <1>3

LEMMA CreateSurfaceKeeps ==
  ASSUME IInv, NEW s \in Surfaces, CreateSurface(s) PROVE IInv'
  BY EmptyKeeps DEF CreateSurface, Heads

LEMMA RegisterSurfaceKeeps ==
  ASSUME IInv, NEW s \in Surfaces, RegisterSurface(s) PROVE IInv'
<1>1. /\ s \in Heads \ {Backend} /\ s \in live /\ Defined /\ KindOf(s) = "commit"
      /\ live' = live /\ UNCHANGED <<up, inits>>
  BY GlueAssumption DEF RegisterSurface, Heads, KindOf
<1>2. CASE up
  <2>1. GlueAdds(s, Glue(KindOf(s)), links)
    BY <1>1, <1>2 DEF RegisterSurface
  <2>2. /\ TypeInv /\ AttachedInv /\ links \in Links /\ ~links.corrupt
        /\ Orderly(links, Memory, live)
    BY <1>1 DEF IInv, TypeInv, LinksInv, Defined
  <2>3. /\ live' = live \cup {s} /\ live \cup {s} = live /\ Memory \cup {s} = Memory
    BY <1>1 DEF Memory
  <2>4. \A h \in live : Around(h) \subseteq Memory
    BY <2>2, Facts
  <2> QED
    BY <1>1, <1>2, <2>1, <2>2, <2>3, <2>4, GlueAddsKeeps
<1>3. CASE ~up
  BY <1>1, <1>3, SameKeeps DEF RegisterSurface
<1> QED
  BY <1>2, <1>3

LEMMA UnregisterSurfaceKeeps ==
  ASSUME IInv, NEW s \in Surfaces, UnregisterSurface(s) PROVE IInv'
  BY SameKeeps DEF UnregisterSurface

LEMMA HostAddKeeps ==
  ASSUME IInv, NEW l \in HostListeners, NEW head \in Heads, HostAdd(head, l) PROVE IInv'
<1>1. /\ TypeInv /\ AttachedInv /\ Orderly(links, Memory, live)
      /\ links \in Links /\ ~links.corrupt /\ head \in live /\ live \subseteq Heads
      /\ ~IsAttached(l) /\ links' = SignalAdd(links, head, l, Memory) /\ Attach(head, l)
      /\ UNCHANGED <<live, up, inits, tangled>>
  BY DEF IInv, TypeInv, LinksInv, HostAdd, Defined
<1>2. /\ l \in Listeners /\ l \notin GlueListeners /\ l \in Memory
      /\ HostListeners \subseteq Memory /\ Memory \subseteq Nodes
      /\ \A h \in live : Around(h) \subseteq Memory
  BY <1>1, Facts, Sets
<1>3. /\ attached' \in [Heads -> Seq(Listeners)]
      /\ \A x : IsAttached(x)' <=> IsAttached(x) \/ x = l
  BY <1>1, <1>2, AttachEffects
<1>4. Loose' = Loose \ {l} /\ Memory' = Memory
  BY <1>1, <1>2, <1>3 DEF Loose, Memory
<1>5. AttachedInv'
  BY <1>1, <1>2, AttachKeeps
<1>6. /\ links' \in Links /\ (tangled' = {} => Defined')
      /\ Defined' =>
           /\ \A h \in live \ tangled' : Ring(links', h, attached'[h])
           /\ \A h \in Heads \ tangled' : Clear(links', Memory, Around(h)', Loose')
           /\ \A g \in Loose' : Alone(links', Memory, g)
           /\ \A x \in HostListeners : Answered(links', Memory, x, IsAttached(x)')
  BY <1>1, <1>2, <1>4, AddOrderly
<1>7. TypeInv'
  BY <1>1, <1>3, <1>6 DEF TypeInv
<1>8. LinksInv'
  BY <1>1, <1>4, <1>6 DEF LinksInv, Orderly
<1> QED
  BY <1>5, <1>7, <1>8 DEF IInv

LEMMA HostRemoveKeeps ==
  ASSUME IInv, NEW l \in HostListeners, HostRemove(l) PROVE IInv'
<1>1. /\ TypeInv /\ AttachedInv /\ Defined /\ Orderly(links, Memory, live)
      /\ IsAttached(l) /\ links' = Remove(links, l, Memory) /\ Detach({l})
      /\ UNCHANGED <<live, up, inits, tangled>> /\ live \subseteq Heads
  BY DEF IInv, TypeInv, LinksInv, HostRemove
<1>2. /\ l \in Listeners /\ l \notin GlueListeners /\ l \notin tangled
      /\ Elements(<<>>) = {}
  BY <1>1, Facts, Sets DEF Elements
<1>3. PICK head \in live : l \in Elements(attached[head])
  BY <1>1, <1>2 DEF IsAttached, SignalsOf, AttachedInv
<1>4. /\ attached' \in [Heads -> Seq(Listeners)]
      /\ \A h \in Heads : Elements(attached'[h]) = Elements(attached[h]) \ {l}
      /\ \A h \in Heads : Elements(attached[h]) \cap {l} = {} => attached'[h] = attached[h]
      /\ \A x : IsAttached(x)' <=> IsAttached(x) /\ x \notin {l}
      /\ \A x : OnlyOnce(x) => OnlyOnce(x)'
  BY <1>1, DetachEffects
<1>5. Loose' = Loose /\ Memory' = Memory
  BY <1>1, <1>2, <1>4 DEF Loose, Memory
<1>6. /\ links' \in Links /\ (head \notin tangled => Defined')
      /\ Defined' =>
           /\ \A h \in live \ tangled' : Ring(links', h, attached'[h])
           /\ \A h \in Heads \ tangled' : Clear(links', Memory, Around(h)', Loose)
           /\ \A g \in Loose : Alone(links', Memory, g)
           /\ \A x \in HostListeners : Answered(links', Memory, x, IsAttached(x)')
  BY <1>1, <1>2, <1>3, RemoveOrderly
<1>7. TypeInv'
  BY <1>1, <1>4, <1>6 DEF TypeInv
<1>8. AttachedInv'
  <2>1. ASSUME NEW h \in Heads \ live' PROVE attached'[h] = <<>>
    BY <1>1, <1>2, <1>4 DEF AttachedInv
  <2>2. \A h : May(h)' = May(h)
    BY <1>1 DEF May, Glue, KindOf
  <2>3. \A h \in Heads : Elements(attached'[h]) \subseteq May(h)'
    BY <1>1, <1>4, <2>2 DEF AttachedInv
  <2>4. up' => Glue("new_input")' \in Elements(attached'[Backend])
    <3>1. Glue("new_input")' = Glue("new_input") /\ "new_input" \in Kinds
      BY <1>1 DEF Glue, Kinds
    <3>2. up => Glue("new_input") \in GlueListeners
      BY <1>1, <3>1, Facts
    <3> QED
      BY <1>1, <1>2, <1>4, <3>1, <3>2, Sets DEF AttachedInv
  <2>5. \A x \in Listeners \ tangled' : OnlyOnce(x)'
    BY <1>1, <1>4 DEF AttachedInv
  <2>6. \A h \in Heads : \A g \in Elements(attached'[h]) \cap GlueListeners :
          g \in tangled' <=> h \in tangled'
    BY <1>1, <1>4 DEF AttachedInv
  <2> QED
    BY <2>1, <2>3, <2>4, <2>5, <2>6 DEF AttachedInv
<1>9. LinksInv'
  BY <1>1, <1>5, <1>6 DEF LinksInv, Orderly
<1> QED
  BY <1>7, <1>8, <1>9 DEF IInv

(* An object is destroyed.  Its head leaves the memory, and a listener of  *)
(* the glue that it alone had is loose again, with links that lead nowhere *)
(* but to itself and to that head.                                         *)
LEMMA DestroyKeeps ==
  ASSUME IInv, NEW head \in Pointers \cup Surfaces, Destroy(head) PROVE IInv'
<1> DEFINE seq == attached[head]
<1>1. /\ TypeInv /\ AttachedInv /\ Defined /\ Orderly(links, Memory, live)
      /\ head \in live /\ head \in Heads /\ head # Backend /\ live \subseteq Heads
      /\ attached \in [Heads -> Seq(Listeners)]
      /\ Elements(seq) \cap HostListeners = {}
      /\ live' = live \ {head} /\ attached' = [attached EXCEPT ![head] = <<>>]
      /\ UNCHANGED <<links, up, inits, tangled>>
  BY GlueAssumption DEF IInv, TypeInv, LinksInv, Destroy, Heads
<1>2. /\ attached'[head] = <<>> /\ Elements(<<>>) = {} /\ DOMAIN <<>> = {}
      /\ \A h \in Heads \ {head} : attached'[h] = attached[h]
      /\ attached' \in [Heads -> Seq(Listeners)]
  BY <1>1 DEF Elements
<1>3. /\ Elements(seq) \subseteq GlueListeners
      /\ \A g \in Elements(seq) : up /\ g = Glue(KindOf(head)) /\ g[2] = inits
  BY <1>1, Facts, GlueFacts DEF Listeners
<1>4. /\ Memory' \subseteq Memory /\ head \notin Memory' /\ Memory \subseteq Nodes
      /\ head \notin Listeners /\ HostListeners \subseteq Memory
      /\ Loose \subseteq GlueListeners
  <2>1. Memory' = live' \cup HostListeners \cup (IF up THEN Kinds \X {inits} ELSE {})
    BY <1>1 DEF Memory
  <2>2. up => Kinds \X {inits} \subseteq GlueListeners
    <3>1. up => inits \in 1 .. MaxInits
      BY <1>1, GlueFacts
    <3> QED
      BY <3>1 DEF GlueListeners
  <2>3. head \notin Listeners /\ GlueListeners \subseteq Listeners /\ HostListeners \subseteq Listeners
    BY <1>1, Sets
  <2>4. Memory \subseteq Nodes /\ HostListeners \subseteq Memory /\ Loose \subseteq GlueListeners
    BY <1>1, Facts
  <2> QED
    BY <1>1, <2>1, <2>2, <2>3, <2>4 DEF Memory
<1>5. TypeInv'
  BY <1>1, <1>2 DEF TypeInv
<1>6. AttachedInv'
  <2>1. \A h \in Heads \ live' : attached'[h] = <<>>
    BY <1>1, <1>2 DEF AttachedInv
  <2>2. \A h \in Heads : Elements(attached'[h]) \subseteq Elements(attached[h])
    BY <1>2
  <2>3. \A h : May(h)' = May(h)
    BY <1>1 DEF May, Glue, KindOf
  <2>4. up' => Glue("new_input")' \in Elements(attached'[Backend])
    <3>1. Backend \in Heads \ {head} /\ Glue("new_input")' = Glue("new_input")
      BY <1>1, Sets DEF Glue
    <3> QED
      BY <1>1, <1>2, <3>1 DEF AttachedInv
  <2>5. ASSUME NEW l \in Listeners \ tangled' PROVE OnlyOnce(l)'
    <3>1. OnlyOnce(l)
      BY <1>1 DEF AttachedInv
    <3>2. \A h \in Heads : \A j \in DOMAIN attached'[h] :
            j \in DOMAIN attached[h] /\ attached'[h][j] = attached[h][j]
      BY <1>2
    <3> QED
      BY <3>1, <3>2 DEF OnlyOnce
  <2>6. \A h \in Heads : \A g \in Elements(attached'[h]) \cap GlueListeners :
          g \in tangled' <=> h \in tangled'
    BY <1>1, <2>2 DEF AttachedInv
  <2>7. \A h \in Heads : Elements(attached'[h]) \subseteq May(h)'
    BY <1>1, <2>2, <2>3 DEF AttachedInv
  <2> QED
    BY <2>1, <2>4, <2>5, <2>6, <2>7 DEF AttachedInv
<1>7. ASSUME NEW l, l \notin Elements(seq) PROVE IsAttached(l)' = IsAttached(l)
  BY <1>1, <1>2, <1>7 DEF IsAttached, SignalsOf
<1>8. /\ Loose \subseteq Loose'
      /\ \A g \in Loose' : g \in GlueListeners /\ (g \notin Loose => g \in Elements(seq) /\ g \notin tangled)
      /\ \A g \in Elements(seq) : g \notin tangled => g \in Loose'
  <2>1. Loose' = {g \in GlueListeners \ tangled :
                    ~IsAttached(g)' /\ (g[2] > inits \/ (up /\ g[2] = inits))}
    BY <1>1 DEF Loose
  <2>2. \A g : g \in Elements(seq) => IsAttached(g)
    BY <1>1 DEF IsAttached, SignalsOf
  <2>3. ASSUME NEW g \in Elements(seq), g \notin tangled PROVE ~IsAttached(g)'
    <3>1. OnlyOnce(g)
      BY <1>1, <1>3, <2>3, Sets DEF AttachedInv
    <3>2. \A h \in Heads \ {head} : g \notin Elements(attached[h])
      BY <1>1, <2>3, <3>1, OnceElements
    <3> QED
      BY <1>2, <3>2 DEF IsAttached, SignalsOf
  <2>4. Loose \subseteq Loose'
    BY <1>7, <2>1, <2>2 DEF Loose
  <2>5. ASSUME NEW g \in Loose', g \notin Loose PROVE g \in Elements(seq)
    BY <1>7, <2>1, <2>5 DEF Loose
  <2>6. \A g \in Elements(seq) : g \notin tangled => g \in Loose'
    BY <1>3, <2>1, <2>3
  <2> HIDE DEF seq
  <2> QED
    BY <2>1, <2>4, <2>5, <2>6
<1>9. ASSUME NEW h \in Heads \ tangled PROVE Clear(links, Memory', Around(h)', Loose')
  <2>1. Clear(links, Memory, Around(h), Loose)
    BY <1>1 DEF Orderly
  <2>2. Around(h)' = IF h = head THEN {h} ELSE Around(h)
    BY <1>2 DEF Around, RingNodes
  <2>3. CASE h # head
    BY <2>1, <2>2, <2>3, <1>4, <1>8 DEF Clear
  <2>4. CASE h = head
    <3>1. Elements(seq) \subseteq Loose'
      BY <1>1, <1>3, <1>8, <2>4 DEF AttachedInv
    <3>2. head \in Around(head) /\ Around(head) = {head} \cup Elements(seq)
      BY DEF Around, RingNodes
    <3> QED
      BY <2>1, <2>2, <2>4, <3>1, <3>2, <1>4, <1>8 DEF Clear
  <2> QED
    BY <2>3, <2>4
<1>10. ASSUME NEW g \in Loose' PROVE Alone(links, Memory', g)
  <2>1. CASE g \in Loose
    BY <2>1, <1>1, <1>4 DEF Orderly, Alone
  <2>2. CASE g \notin Loose
    <3>1. g \in Elements(seq) /\ g \notin tangled /\ g \in GlueListeners
      BY <1>8, <2>2
    <3>2. head \notin tangled /\ Elements(seq) = {g}
      BY <1>1, <1>3, <3>1 DEF AttachedInv
    <3>3. Around(head) = {head, g} /\ Around(head) = RingNodes(head, seq)
      BY <3>2 DEF Around, RingNodes
    <3>4. /\ Ring(links, head, seq) /\ seq \in Seq(Nodes) /\ head \in Nodes
          /\ Clear(links, Memory, Around(head), Loose)
      BY <1>1, <3>2, Facts, Sets DEF Orderly
    <3> HIDE DEF seq
    <3>5. links.next[g] \in {head, g} /\ links.prev[g] \in {head, g}
      BY <3>3, <3>4, RingLinks
    <3>6. ASSUME NEW x \in Memory', x # g PROVE links.next[x] # g /\ links.prev[x] # g
      <4>1. CASE x \in Loose
        <5>1. Alone(links, Memory, x)
          BY <4>1, <1>1 DEF Orderly
        <5>2. g \notin Heads /\ g # NULL
          BY <3>1, Sets
        <5> QED
          BY <5>1, <5>2, <3>6 DEF Alone
      <4>2. CASE x \notin Loose
        BY <4>2, <3>3, <3>4, <3>6, <1>4 DEF Clear
      <4> QED
        BY <4>1, <4>2
    <3> QED
      BY <1>1, <3>5, <3>6 DEF Alone
  <2> QED
    BY <2>1, <2>2
<1>11. ASSUME NEW l \in HostListeners PROVE Answered(links, Memory', l, IsAttached(l)')
  <2>1. IsAttached(l)' = IsAttached(l)
    BY <1>1, <1>7
  <2> QED
    BY <1>1, <1>4, <2>1 DEF Orderly, Answered
<1>12. ASSUME NEW h \in live' \ tangled PROVE Ring(links, h, attached'[h])
  BY <1>1, <1>2 DEF Orderly
<1>13. LinksInv'
  BY <1>1, <1>9, <1>10, <1>11, <1>12 DEF LinksInv, Orderly, Defined
<1> QED
  BY <1>5, <1>6, <1>13 DEF IInv

(***************************************************************************)
(* The invariant holds, and what it says of signals.                       *)
(***************************************************************************)
LEMMA Initial == Init => IInv
<1> SUFFICES ASSUME Init PROVE IInv
  OBVIOUS
<1>1. /\ live = {Backend} /\ up = FALSE /\ inits = 0 /\ tangled = {}
      /\ attached = [h \in Heads |-> <<>>]
      /\ links = [next |-> [n \in Nodes |-> IF n = Backend THEN n ELSE NULL],
                  prev |-> [n \in Nodes |-> IF n = Backend THEN n ELSE NULL],
                  corrupt |-> FALSE]
  BY DEF Init
<1>2. links \in Links
  BY <1>1 DEF Links
<1>3. \A n \in Nodes : /\ links.next[n] = IF n = Backend THEN n ELSE NULL
                       /\ links.prev[n] = IF n = Backend THEN n ELSE NULL
  BY <1>1
<1>4. /\ \A h \in Heads : attached[h] = <<>>
      /\ Elements(<<>>) = {} /\ DOMAIN <<>> = {} /\ <<>> \in Seq(Listeners)
      /\ Backend \in Heads /\ Backend \in Nodes /\ Backend \notin Listeners /\ NULL \notin Nodes
  BY <1>1, Sets DEF Elements
<1>5. TypeInv
  <2>1. MaxInits \in Nat /\ 0 \in 0 .. MaxInits
    BY GlueAssumption
  <2>2. attached \in [Heads -> Seq(Listeners)]
    BY <1>1, <1>4
  <2> QED
    BY <1>1, <1>2, <1>4, <2>1, <2>2 DEF TypeInv
<1>6. AttachedInv
  BY <1>1, <1>4 DEF AttachedInv, OnlyOnce
<1>7. Ring(links, Backend, <<>>)
  <2>1. links.next[Backend] = Backend /\ links.prev[Backend] = Backend
    BY <1>3, <1>4
  <2>2. Len(<<>>) = 0 /\ Place(Backend, <<>>, 0) = Backend /\ Place(Backend, <<>>, 0 + 1) = Backend
    BY DEF Place
  <2>3. \A k \in 0 .. 0 : k = 0
    OBVIOUS
  <2> QED
    BY <2>1, <2>2, <2>3 DEF Ring
<1>8. Memory \subseteq Nodes /\ Loose \subseteq GlueListeners
  BY <1>5, <1>6, Facts
<1>9. \A x \in Memory : /\ links.next[x] = IF x = Backend THEN x ELSE NULL
                        /\ links.prev[x] = IF x = Backend THEN x ELSE NULL
  BY <1>3, <1>8
<1>10. ASSUME NEW h \in Heads PROVE Clear(links, Memory, Around(h), Loose)
  <2>1. Around(h) = {h} /\ h # NULL
    BY <1>4, Sets DEF Around, RingNodes
  <2> QED
    BY <1>9, <2>1 DEF Clear
<1>11. ASSUME NEW g \in Loose PROVE Alone(links, Memory, g)
  <2>1. g \in Nodes /\ g # Backend /\ g # NULL
    BY <1>4, <1>8, Sets
  <2> QED
    BY <1>3, <1>9, <2>1 DEF Alone
<1>12. ASSUME NEW l \in HostListeners PROVE Answered(links, Memory, l, IsAttached(l))
  <2>1. l \in Nodes /\ l # Backend /\ l # NULL
    BY <1>4, Sets
  <2> QED
    BY <1>9, <2>1 DEF Answered
<1>13. LinksInv
  BY <1>1, <1>4, <1>7, <1>10, <1>11, <1>12 DEF LinksInv, Orderly, Defined
<1> QED
  BY <1>5, <1>6, <1>13 DEF IInv

LEMMA Inductive == IInv /\ [Next]_vars => IInv'
<1> SUFFICES ASSUME IInv, [Next]_vars PROVE IInv'
  OBVIOUS
<1>1. CASE GlueInit
  BY <1>1, GlueInitKeeps
<1>2. CASE GlueCleanup
  BY <1>2, GlueCleanupKeeps
<1>3. ASSUME NEW p \in Pointers, PlugPointer(p) PROVE IInv'
  BY <1>3, PlugPointerKeeps
<1>4. ASSUME NEW s \in Surfaces, RegisterSurface(s) PROVE IInv'
  BY <1>4, RegisterSurfaceKeeps
<1>5. ASSUME NEW s \in Surfaces, UnregisterSurface(s) PROVE IInv'
  BY <1>5, UnregisterSurfaceKeeps
<1>6. ASSUME NEW s \in Surfaces, CreateSurface(s) PROVE IInv'
  BY <1>6, CreateSurfaceKeeps
<1>7. ASSUME NEW h \in Pointers \cup Surfaces, Destroy(h) PROVE IInv'
  BY <1>7, DestroyKeeps
<1>8. ASSUME NEW l \in HostListeners, HostRemove(l) PROVE IInv'
  BY <1>8, HostRemoveKeeps
<1>9. ASSUME NEW l \in HostListeners, NEW h \in Heads, HostAdd(h, l) PROVE IInv'
  BY <1>9, HostAddKeeps
<1>10. CASE Undefined \/ UNCHANGED vars
  BY <1>10, SameKeeps DEF Undefined, vars
<1> QED
  BY <1>1, <1>2, <1>3, <1>4, <1>5, <1>6, <1>7, <1>8, <1>9, <1>10 DEF Next

(* compositor/wlroots_glue.c: every signal that is not tangled is a ring   *)
(* of what is attached to it, which nothing else leads into.               *)
THEOREM Invariance == Spec => []IInv
<1>1. Init => IInv
  BY Initial
<1>2. IInv /\ [Next]_vars => IInv'
  BY Inductive
<1> QED
  BY <1>1, <1>2, PTL DEF Spec

(* A ring notifies its listeners and comes back, in both directions.       *)
LEMMA RingNotifies ==
  ASSUME NEW head \in Nodes, NEW seq \in Seq(Nodes), Ring(links, head, seq)
  PROVE  Notifies(head, seq)
<1> DEFINE ring == <<head>> \o seq
           after == seq \o <<head>>
           n == Len(seq)
<1>1. n \in Nat /\ <<head>> \in Seq(Nodes) /\ Len(<<head>>) = 1 /\ <<head>>[1] = head
  BY LenProperties
<1>2. /\ ring \in Seq(Nodes) /\ Len(ring) = n + 1 /\ DOMAIN ring = 1 .. n + 1
      /\ \A k \in 1 .. n + 1 : ring[k] = IF k <= 1 THEN <<head>>[k] ELSE seq[k - 1]
  BY <1>1, ConcatProperties, LenProperties
<1>3. \A k \in 1 .. n + 1 : after[k] = IF k <= n THEN seq[k] ELSE <<head>>[k - n]
  BY <1>1, ConcatProperties
<1> HIDE DEF ring, after, n
<1>4. ASSUME NEW k \in 1 .. n + 1
      PROVE  ring[k] = Place(head, seq, k - 1) /\ after[k] = Place(head, seq, k)
  <2>1. ring[k] = Place(head, seq, k - 1)
    <3>1. CASE k = 1
      BY <3>1, <1>1, <1>2 DEF Place
    <3>2. CASE k # 1
      <4>1. ~(k <= 1) /\ k - 1 \in 1 .. Len(seq)
        BY <3>2, <1>1 DEF n
      <4> QED
        BY <4>1, <1>2 DEF Place
    <3> QED
      BY <3>1, <3>2
  <2>2. after[k] = Place(head, seq, k)
    <3>1. CASE k = n + 1
      <4>1. ~(k <= n) /\ k - n = 1 /\ k \notin 1 .. Len(seq)
        BY <3>1, <1>1 DEF n
      <4> QED
        BY <4>1, <1>1, <1>3 DEF Place
    <3>2. CASE k # n + 1
      <4>1. k <= n /\ k \in 1 .. Len(seq)
        BY <3>2, <1>1 DEF n
      <4> QED
        BY <4>1, <1>3 DEF Place
    <3> QED
      BY <3>1, <3>2
  <2> QED
    BY <2>1, <2>2
<1>5. ASSUME NEW k \in 1 .. n + 1
      PROVE  links.next[ring[k]] = after[k] /\ links.prev[after[k]] = ring[k]
  <2>1. k - 1 \in 0 .. Len(seq) /\ (k - 1) + 1 = k
    BY <1>1 DEF n
  <2>2. /\ links.next[Place(head, seq, k - 1)] = Place(head, seq, (k - 1) + 1)
        /\ links.prev[Place(head, seq, (k - 1) + 1)] = Place(head, seq, k - 1)
    BY <2>1 DEF Ring
  <2> QED
    BY <2>1, <2>2, <1>4
<1> QED
  BY <1>2, <1>5 DEF Notifies, ring, after

(* compositor/wlroots_glue.c: adding a listener of the glue that is on a   *)
(* signal already, or freeing it there, ruins no signal but those it is on *)
(* and those it is added to later; every other one of an object that       *)
(* exists notifies what is attached to it, and before the first such case  *)
(* no list operation touches memory that is freed.                         *)
THEOREM SignalsSafety == Spec => []SignalsSoundUnlessTangled
<1>1. IInv => SignalsSoundUnlessTangled
  <2>1. SUFFICES ASSUME IInv
                 PROVE  /\ tangled = {} => Defined
                        /\ Defined => \A h \in live \ tangled : Notifies(h, attached[h])
    BY DEF SignalsSoundUnlessTangled
  <2>2. /\ TypeInv /\ AttachedInv /\ live \subseteq Heads /\ (tangled = {} => Defined)
        /\ Defined => \A h \in live \ tangled : Ring(links, h, attached[h])
    BY <2>1 DEF IInv, TypeInv, LinksInv, Orderly
  <2>3. \A h \in live : h \in Nodes /\ attached[h] \in Seq(Nodes)
    BY <2>2, Facts, Sets
  <2> QED
    BY <2>2, <2>3, RingNotifies
<1> QED
  BY <1>1, Invariance, PTL

(* compositor/wlroots_glue.c: the backend's new_input signal never gets    *)
(* tangled, so it notifies what is attached to it, whatever becomes of the *)
(* signals of pointers and surfaces.                                       *)
THEOREM HotplugSafety == Spec => []HotplugSound
<1>1. IInv => HotplugSound
  <2>1. SUFFICES ASSUME IInv, Defined PROVE Notifies(Backend, attached[Backend])
    BY DEF HotplugSound
  <2>2. TypeInv /\ AttachedInv /\ Backend \in live
    BY <2>1 DEF IInv, TypeInv
  <2>3. Ring(links, Backend, attached[Backend])
    BY <2>1, <2>2, Facts DEF IInv, LinksInv, Orderly
  <2>4. Backend \in Nodes /\ attached[Backend] \in Seq(Nodes)
    BY <2>2, Facts, Sets
  <2> QED
    BY <2>3, <2>4, RingNotifies
<1> QED
  BY <1>1, Invariance, PTL

=============================================================================
