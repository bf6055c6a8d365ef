----------------------------- MODULE DocumentsProofs -----------------------------
(***************************************************************************)
(* Theorems about what is read and written while it streams: the call of a *)
(* model, the document its answer is written as, and the documents that    *)
(* come apart on the far side.                                             *)
(***************************************************************************)
EXTENDS ProviderStream, DocumentStream, SequenceTheorems, FiniteSetTheorems, NaturalsInduction, WellFoundedInduction, TLAPS

\* What stands in for induction here: a set of numbers that is not empty has a
\* least member, so the least counterexample of a claim is at hand.
LEMMA LeastOfNats == ASSUME NEW T, T \subseteq Nat, T # {} PROVE \E m \in T : \A k \in T : m <= k
<1>1. PICK m \in T : \A k \in T : ~(<<k, m>> \in OpToRel(<, Nat))
  BY NatLessThanWellFounded, WFMin
<1>2. \A k \in T : ~(k < m)
  BY <1>1 DEF OpToRel
<1>3. QED
  BY <1>2

\* What is made of a list place by place: the message of a call, what is announced of it at
\* its end, a list of parts with its texts joined, and what is written of it at the end; the
\* scanner behind a list of bytes, and the attributes of a tag.  A place makes something of
\* what the places before it came to.
place(list, s, i, sofar) ==
  LET f == s.node[s.order[i]]
      extended == IF isPart(f) THEN Append(sofar, partOf(f)) ELSE sofar
      announced == IF s.order[i] \in sofar.s.announced THEN sofar ELSE Announced(sofar, s.order[i])
      wrote == IF i <= s.sent THEN sofar ELSE wroteRest(sofar, s.parts[i])
  IN CASE list = "message" -> extended
       [] list = "told" -> announced
       [] list = "joined" -> joined(sofar, s[i])
       [] list = "rest" -> wrote
       [] list = "scanned" -> feed(sofar, s[i])
       [] list = "attributes" -> sofar \o attribute(s[i])
Places(list, s, first, f, k) == f = [i \in 0 .. k |-> IF i = 0 THEN first ELSE place(list, s, i, f[i - 1])]

\* There is a function that goes through a list place by place.
LEMMA PlaceByPlace ==
  ASSUME NEW list, NEW s, NEW first, NEW n \in Nat
  PROVE  \E f : Places(list, s, first, f, n)
<1> DEFINE T == {k \in 0 .. n : ~\E f : Places(list, s, first, f, k)}
<1>1. CASE T = {}
  <2>1. n \notin T /\ n \in 0 .. n
    BY <1>1
  <2>2. QED
    BY <2>1
<1>2. CASE T # {}
  <2>1. T \subseteq Nat /\ \A k \in T : k \in 0 .. n /\ ~\E f : Places(list, s, first, f, k)
    OBVIOUS
  <2>2. \A k \in 0 .. n : k \notin T => \E f : Places(list, s, first, f, k)
    OBVIOUS
  <2> HIDE DEF T
  <2>3. PICK k \in T : \A j \in T : k <= j
    BY <1>2, <2>1, LeastOfNats
  <2>4. CASE k = 0
    <3> DEFINE g == [i \in 0 .. 0 |-> first]
    <3>1. g = [i \in 0 .. 0 |-> IF i = 0 THEN first ELSE place(list, s, i, g[i - 1])]
      OBVIOUS
    <3>2. Places(list, s, first, g, k)
      BY <2>4, <3>1 DEF Places
    <3>3. QED
      BY <2>1, <2>3, <3>2
  <2>5. CASE k # 0
    <3>1. k - 1 \in 0 .. n /\ k \in Nat /\ k \in 1 .. n /\ ~(k <= k - 1)
      BY <2>1, <2>3, <2>5
    <3>2. PICK f : Places(list, s, first, f, k - 1)
      BY <2>2, <2>3, <3>1
    <3> DEFINE h(i) == IF i = 0 THEN first ELSE place(list, s, i, f[i - 1])
    <3>3. f = [i \in 0 .. k - 1 |-> h(i)]
      BY <3>2 DEF Places
    <3> DEFINE g == [i \in 0 .. k |-> IF i < k THEN f[i] ELSE place(list, s, k, f[k - 1])]
    <3>4. ASSUME NEW i \in 0 .. k PROVE g[i] = IF i = 0 THEN first ELSE place(list, s, i, g[i - 1])
      <4>1. CASE i = 0
        <5>1. 0 \in 0 .. k - 1 /\ 0 < k /\ h(0) = first
          BY <3>1
        <5>2. g[0] = f[0]
          BY <3>1, <5>1
        <5> HIDE DEF h, g
        <5>3. f[0] = first
          BY <3>3, <5>1
        <5>4. QED
          BY <4>1, <5>2, <5>3
      <4>2. CASE i # 0
        <5>1. i - 1 \in 0 .. k /\ i - 1 < k /\ i - 1 \in 0 .. k - 1 /\ h(i) = place(list, s, i, f[i - 1])
          BY <3>1, <4>2
        <5>2. g[i - 1] = f[i - 1] /\ (i < k => g[i] = f[i]) /\ (i = k => g[i] = place(list, s, k, f[k - 1]))
          BY <3>1, <5>1
        <5> HIDE DEF h, g
        <5>3. CASE i < k
          <6>1. i \in 0 .. k - 1
            BY <3>1, <5>3
          <6>2. f[i] = h(i)
            BY <3>3, <6>1
          <6>3. QED
            BY <4>2, <5>1, <5>2, <5>3, <6>2
        <5>4. CASE i = k
          BY <4>2, <5>2, <5>4
        <5>5. QED
          BY <3>1, <5>3, <5>4
      <4>3. QED
        BY <4>1, <4>2
    <3>5. g = [i \in 0 .. k |-> g[i]]
      OBVIOUS
    <3> HIDE DEF g, h
    <3>6. g = [i \in 0 .. k |-> IF i = 0 THEN first ELSE place(list, s, i, g[i - 1])]
      BY <3>4, <3>5
    <3>7. Places(list, s, first, g, k)
      BY <3>6 DEF Places
    <3>8. QED
      BY <2>1, <2>3, <3>7
  <2>6. QED
    BY <2>4, <2>5
<1>3. QED
  BY <1>1, <1>2

\* Step by step.
LEMMA PlaceSteps ==
  ASSUME NEW list, NEW s, NEW first, NEW n \in Nat, NEW f, Places(list, s, first, f, n)
  PROVE  f[0] = first /\ \A i \in 1 .. n : f[i] = place(list, s, i, f[i - 1])
<1> DEFINE h(i) == IF i = 0 THEN first ELSE place(list, s, i, f[i - 1])
<1>1. f = [i \in 0 .. n |-> h(i)]
  BY DEF Places
<1>2. h(0) = first /\ \A i \in 1 .. n : h(i) = place(list, s, i, f[i - 1]) /\ i \in 0 .. n
  OBVIOUS
<1>3. 0 \in 0 .. n
  OBVIOUS
<1> HIDE DEF h
<1>4. \A i \in 0 .. n : f[i] = h(i)
  BY <1>1
<1>5. QED
  BY <1>2, <1>3, <1>4

(* The stream of a model call **********************************************)

\* The streamed strings, the parts of a message and the state of a decoder.
FieldRec == [kind : Kinds, value : Seq(Int), done : BOOLEAN, revs : Seq(Seq(Int)), blob : BOOLEAN]
PartRec  == [kind : Kinds, text : Seq(Int), blob : BOOLEAN]
CallRec  ==
  [order : Seq(Nat), node : Seq(FieldRec), key : [ItemKeys -> Nat], think : Nat, text : Nat,
   announced : SUBSET Nat, details : BOOLEAN, parts : Seq(PartRec), got : SUBSET Nat,
   torn : BOOLEAN, saw : BOOLEAN, err : BOOLEAN, failure : BOOLEAN]

\* What a field holds, one by one.
LEMMA HeldIs ==
  ASSUME NEW f \in FieldRec
  PROVE  \A x : x \in held(f) <=> \/ \E i \in 1 .. Len(f.value) : x = f.value[i]
                                  \/ \E r \in 1 .. Len(f.revs) : \E i \in 1 .. Len(f.revs[r]) : x = f.revs[r][i]
<1>1. f.value \in Seq(Int) /\ f.revs \in Seq(Seq(Int))
  BY DEF FieldRec
<1>2. DOMAIN f.value = 1 .. Len(f.value) /\ DOMAIN f.revs = 1 .. Len(f.revs)
      /\ \A r \in 1 .. Len(f.revs) : f.revs[r] \in Seq(Int) /\ DOMAIN f.revs[r] = 1 .. Len(f.revs[r])
  BY <1>1
<1>3. \A x : x \in held(f) <=> \E t \in {f.value} \cup Range(f.revs) : \E i \in DOMAIN t : x = t[i]
  BY DEF held, pieces
<1>4. \A t : t \in Range(f.revs) <=> \E r \in 1 .. Len(f.revs) : t = f.revs[r]
  BY <1>2 DEF Range
<1>5. ASSUME NEW x, x \in held(f)
      PROVE  \/ \E i \in 1 .. Len(f.value) : x = f.value[i]
             \/ \E r \in 1 .. Len(f.revs) : \E i \in 1 .. Len(f.revs[r]) : x = f.revs[r][i]
  <2>1. PICK t \in {f.value} \cup Range(f.revs) : \E i \in DOMAIN t : x = t[i]
    BY <1>3, <1>5
  <2>2. CASE t = f.value
    BY <1>2, <2>1, <2>2
  <2>3. CASE t \in Range(f.revs)
    <3>1. PICK r \in 1 .. Len(f.revs) : t = f.revs[r]
      BY <1>4, <2>3
    <3>2. DOMAIN t = 1 .. Len(f.revs[r])
      BY <1>2, <3>1
    <3>3. QED
      BY <2>1, <3>1, <3>2
  <2>4. QED
    BY <2>1, <2>2, <2>3
<1>6. ASSUME NEW x, NEW i \in 1 .. Len(f.value), x = f.value[i] PROVE x \in held(f)
  BY <1>2, <1>3, <1>6
<1>7. ASSUME NEW x, NEW r \in 1 .. Len(f.revs), NEW i \in 1 .. Len(f.revs[r]), x = f.revs[r][i] PROVE x \in held(f)
  <2>1. f.revs[r] \in Range(f.revs) /\ i \in DOMAIN f.revs[r]
    BY <1>2, <1>4, <1>7
  <2>2. QED
    BY <1>3, <1>7, <2>1
<1>8. QED
  BY <1>5, <1>6, <1>7

\* The types of a field.
LEMMA FieldTypes ==
  ASSUME NEW f \in FieldRec
  PROVE  /\ f.value \in Seq(Int) /\ f.revs \in Seq(Seq(Int)) /\ f.kind \in Kinds /\ f.done \in BOOLEAN /\ f.blob \in BOOLEAN
         /\ Len(f.value) \in Nat /\ Len(f.revs) \in Nat
  BY DEF FieldRec

\* One more of a sequence.
LEMMA OneMore ==
  ASSUME NEW S, NEW s \in Seq(S), NEW x \in S
  PROVE  /\ Append(s, x) \in Seq(S) /\ Len(Append(s, x)) = Len(s) + 1 /\ Append(s, x)[Len(s) + 1] = x
         /\ \A i \in 1 .. Len(s) : Append(s, x)[i] = s[i]
         /\ \A i \in 1 .. Len(s) + 1 : i = Len(s) + 1 \/ i \in 1 .. Len(s)
         /\ Len(s) + 1 \in 1 .. Len(s) + 1 /\ \A i \in 1 .. Len(s) : i \in 1 .. Len(s) + 1
  OBVIOUS

\* The three ways a field changes: a piece more, its end, and an end that says otherwise.
LEMMA PieceHeld ==
  ASSUME NEW f \in FieldRec, NEW piece \in Int
  PROVE  Append1(f, piece) \in FieldRec /\ held(Append1(f, piece)) = held(f) \cup {piece}
<1> DEFINE g == Append1(f, piece)
           v == Append(f.value, piece)
           r == IF f.done THEN Append(f.revs, f.value) ELSE f.revs
<1>1. f.value \in Seq(Int) /\ f.revs \in Seq(Seq(Int)) /\ f.kind \in Kinds /\ f.done \in BOOLEAN /\ f.blob \in BOOLEAN
  BY FieldTypes
<1>2. g = [f EXCEPT !.value = v, !.done = FALSE, !.revs = r]
  BY DEF Append1
<1>3. /\ v \in Seq(Int) /\ Len(v) = Len(f.value) + 1 /\ v[Len(f.value) + 1] = piece
      /\ \A i \in 1 .. Len(f.value) : v[i] = f.value[i]
      /\ \A i \in 1 .. Len(v) : i = Len(v) \/ i \in 1 .. Len(f.value)
      /\ Len(v) \in 1 .. Len(v) /\ \A i \in 1 .. Len(f.value) : i \in 1 .. Len(v)
  BY <1>1, OneMore
<1>4. /\ r \in Seq(Seq(Int)) /\ \A i \in 1 .. Len(f.revs) : i \in 1 .. Len(r) /\ r[i] = f.revs[i]
      /\ \A i \in 1 .. Len(r) : r[i] = f.value \/ (i \in 1 .. Len(f.revs) /\ r[i] = f.revs[i])
  <2>1. CASE f.done
    <3>1. r = Append(f.revs, f.value)
      BY <2>1
    <3> HIDE DEF r
    <3>2. QED
      BY <1>1, <3>1, OneMore
  <2>2. CASE ~f.done
    BY <1>1, <2>2
  <2>3. QED
    BY <2>1, <2>2
<1> HIDE DEF v, r, g
<1>5. g \in FieldRec /\ g.value = v /\ g.revs = r
  BY <1>1, <1>2, <1>3, <1>4 DEF FieldRec
<1>6. ASSUME NEW x \in held(g) PROVE x \in held(f) \cup {piece}
  <2>1. \/ \E i \in 1 .. Len(v) : x = v[i]
        \/ \E j \in 1 .. Len(r) : \E i \in 1 .. Len(r[j]) : x = r[j][i]
    BY <1>5, <1>6, HeldIs
  <2>2. CASE \E i \in 1 .. Len(v) : x = v[i]
    BY <1>3, <2>2, HeldIs
  <2>3. CASE \E j \in 1 .. Len(r) : \E i \in 1 .. Len(r[j]) : x = r[j][i]
    BY <1>4, <2>3, HeldIs
  <2>4. QED
    BY <2>1, <2>2, <2>3
<1>7. ASSUME NEW x \in held(f) \cup {piece} PROVE x \in held(g)
  <2>1. CASE x = piece
    BY <1>3, <1>5, <2>1, HeldIs
  <2>2. CASE x \in held(f)
    <3>1. \/ \E i \in 1 .. Len(f.value) : x = f.value[i]
          \/ \E j \in 1 .. Len(f.revs) : \E i \in 1 .. Len(f.revs[j]) : x = f.revs[j][i]
      BY <2>2, HeldIs
    <3>2. CASE \E i \in 1 .. Len(f.value) : x = f.value[i]
      BY <1>3, <1>5, <3>2, HeldIs
    <3>3. CASE \E j \in 1 .. Len(f.revs) : \E i \in 1 .. Len(f.revs[j]) : x = f.revs[j][i]
      BY <1>4, <1>5, <3>3, HeldIs
    <3>4. QED
      BY <3>1, <3>2, <3>3
  <2>3. QED
    BY <1>7, <2>1, <2>2
<1>8. QED
  BY <1>5, <1>6, <1>7 DEF g

\* A field that ends keeps what it holds.
LEMMA EndedHeld ==
  ASSUME NEW f \in FieldRec
  PROVE  /\ FinishNode(f) \in FieldRec /\ FinishNode(f).value = f.value /\ FinishNode(f).revs = f.revs
         /\ FinishNode(f).kind = f.kind /\ held(FinishNode(f)) = held(f)
<1>1. CASE f.done
  <2>1. FinishNode(f) = f
    BY <1>1 DEF FinishNode
  <2>2. QED
    BY <2>1
<1>2. CASE ~f.done
  <2>1. FinishNode(f) = [f EXCEPT !.value = f.value, !.done = TRUE, !.revs = f.revs]
    BY <1>2 DEF FinishNode, FinishWith
  <2>2. /\ FinishNode(f) \in FieldRec /\ FinishNode(f).value = f.value /\ FinishNode(f).revs = f.revs
        /\ FinishNode(f).kind = f.kind
    BY <2>1 DEF FieldRec
  <2>3. QED
    BY <2>2 DEF held
<1>3. QED
  BY <1>1, <1>2

\* A field corrected at its end keeps, in its revisions, what it held.
LEMMA FinalHeld ==
  ASSUME NEW f \in FieldRec, ~f.done, NEW final \in Seq(Int),
         \A i \in 1 .. Len(final) : final[i] = Correction \/ (i \in 1 .. Len(f.value) /\ final[i] = f.value[i])
  PROVE  /\ FinishWith(f, final) \in FieldRec /\ held(f) \subseteq held(FinishWith(f, final))
         /\ held(FinishWith(f, final)) \subseteq held(f) \cup {Correction}
<1> DEFINE g == FinishWith(f, final)
           r == IF f.value # <<>> /\ final # f.value THEN Append(f.revs, f.value) ELSE f.revs
<1>1. f.value \in Seq(Int) /\ f.revs \in Seq(Seq(Int)) /\ f.kind \in Kinds /\ f.done \in BOOLEAN /\ f.blob \in BOOLEAN
  BY FieldTypes
<1>2. g = [f EXCEPT !.value = final, !.done = TRUE, !.revs = r]
  BY DEF FinishWith
<1>3. final \in Seq(Int) /\ \A i \in 1 .. Len(final) : final[i] = Correction \/ (i \in 1 .. Len(f.value) /\ final[i] = f.value[i])
  OBVIOUS
<1>4. /\ r \in Seq(Seq(Int)) /\ \A i \in 1 .. Len(f.revs) : i \in 1 .. Len(r) /\ r[i] = f.revs[i]
      /\ \A i \in 1 .. Len(r) : r[i] = f.value \/ (i \in 1 .. Len(f.revs) /\ r[i] = f.revs[i])
      /\ f.value = <<>> \/ final = f.value \/ \E j \in 1 .. Len(r) : r[j] = f.value
  <2>1. CASE f.value # <<>> /\ final # f.value
    <3>1. r = Append(f.revs, f.value)
      BY <2>1
    <3> HIDE DEF r
    <3>2. /\ r \in Seq(Seq(Int)) /\ Len(r) = Len(f.revs) + 1 /\ r[Len(r)] = f.value /\ Len(r) \in 1 .. Len(r)
          /\ \A i \in 1 .. Len(f.revs) : r[i] = f.revs[i] /\ i \in 1 .. Len(r)
          /\ \A i \in 1 .. Len(r) : i = Len(r) \/ i \in 1 .. Len(f.revs)
      BY <1>1, <3>1, OneMore
    <3>3. QED
      BY <3>2
  <2>2. CASE ~(f.value # <<>> /\ final # f.value)
    BY <1>1, <2>2
  <2>3. QED
    BY <2>1, <2>2
<1> HIDE DEF r, g
<1>5. g \in FieldRec /\ g.value = final /\ g.revs = r
  BY <1>1, <1>2, <1>3, <1>4 DEF FieldRec
<1>6. ASSUME NEW x \in held(g) PROVE x \in held(f) \cup {Correction}
  <2>1. \/ \E i \in 1 .. Len(final) : x = final[i]
        \/ \E j \in 1 .. Len(r) : \E i \in 1 .. Len(r[j]) : x = r[j][i]
    BY <1>5, <1>6, HeldIs
  <2>2. CASE \E i \in 1 .. Len(final) : x = final[i]
    BY <1>3, <2>2, HeldIs
  <2>3. CASE \E j \in 1 .. Len(r) : \E i \in 1 .. Len(r[j]) : x = r[j][i]
    BY <1>4, <2>3, HeldIs
  <2>4. QED
    BY <2>1, <2>2, <2>3
<1>7. ASSUME NEW x \in held(f) PROVE x \in held(g)
  <2>1. \/ \E i \in 1 .. Len(f.value) : x = f.value[i]
        \/ \E j \in 1 .. Len(f.revs) : \E i \in 1 .. Len(f.revs[j]) : x = f.revs[j][i]
    BY <1>7, HeldIs
  <2>2. CASE \E i \in 1 .. Len(f.value) : x = f.value[i]
    <3>1. f.value # <<>>
      BY <1>1, <2>2
    <3>2. CASE final = f.value
      BY <1>5, <2>2, <3>2, HeldIs
    <3>3. CASE \E j \in 1 .. Len(r) : r[j] = f.value
      <4>1. PICK j \in 1 .. Len(r) : r[j] = f.value
        BY <3>3
      <4>2. \E i \in 1 .. Len(r[j]) : x = r[j][i]
        BY <2>2, <4>1
      <4>3. QED
        BY <1>5, <4>2, HeldIs
    <3>4. QED
      BY <1>4, <3>1, <3>2, <3>3
  <2>3. CASE \E j \in 1 .. Len(f.revs) : \E i \in 1 .. Len(f.revs[j]) : x = f.revs[j][i]
    BY <1>4, <1>5, <2>3, HeldIs
  <2>4. QED
    BY <2>1, <2>2, <2>3
<1>8. QED
  BY <1>5, <1>6, <1>7 DEF g

\* What keeps every piece: the calls node by node, their order and their pointers.
Pointers(s) ==
  /\ s.think \in 0 .. Len(s.node) /\ s.text \in 0 .. Len(s.node)
  /\ \A k \in ItemKeys : s.key[k] \in 0 .. Len(s.node)
\* Every node has a place in the order of the message.
Ordered(s) ==
  /\ \A i \in 1 .. Len(s.order) : s.order[i] \in 1 .. Len(s.node)
  /\ \A n \in 1 .. Len(s.node) : \E i \in 1 .. Len(s.order) : s.order[i] = n
\* What the endpoint sent is held by some node, and nodes hold nothing else.
Heard(s, e) ==
  /\ \A n \in 1 .. Len(s.node) : held(s.node[n]) \subseteq 1 .. e \cup {Blank, Correction}
  /\ s.got \subseteq 1 .. e
  /\ \A x \in s.got : \E n \in 1 .. Len(s.node) : x \in held(s.node[n])
  /\ s.got # {} => s.saw
HeldOnce(s) == \A m, n \in 1 .. Len(s.node) : m # n => held(s.node[m]) \cap held(s.node[n]) \subseteq {Correction}
SinkInv(s, e) == s \in CallRec /\ Pointers(s) /\ Ordered(s) /\ Heard(s, e) /\ HeldOnce(s)

\* The types of a call's parts.
LEMMA CallTypes ==
  ASSUME NEW s \in CallRec
  PROVE  /\ s.order \in Seq(Nat) /\ s.node \in Seq(FieldRec) /\ s.key \in [ItemKeys -> Nat] /\ s.think \in Nat
         /\ s.text \in Nat /\ s.announced \in SUBSET Nat /\ s.details \in BOOLEAN /\ s.parts \in Seq(PartRec)
         /\ s.got \in SUBSET Nat /\ s.torn \in BOOLEAN /\ s.saw \in BOOLEAN /\ s.err \in BOOLEAN /\ s.failure \in BOOLEAN
         /\ Len(s.node) \in Nat /\ Len(s.order) \in Nat
         /\ DOMAIN s.node = 1 .. Len(s.node) /\ \A n \in 1 .. Len(s.node) : s.node[n] \in FieldRec
<1>1. s.node \in Seq(FieldRec) /\ s.order \in Seq(Nat)
  BY DEF CallRec
<1>2. /\ s.key \in [ItemKeys -> Nat] /\ s.think \in Nat
      /\ s.text \in Nat /\ s.announced \in SUBSET Nat /\ s.details \in BOOLEAN /\ s.parts \in Seq(PartRec)
      /\ s.got \in SUBSET Nat /\ s.torn \in BOOLEAN /\ s.saw \in BOOLEAN /\ s.err \in BOOLEAN /\ s.failure \in BOOLEAN
  BY DEF CallRec
<1> HIDE DEF CallRec
<1>3. Len(s.node) \in Nat /\ Len(s.order) \in Nat /\ DOMAIN s.node = 1 .. Len(s.node)
      /\ \A n \in 1 .. Len(s.node) : s.node[n] \in FieldRec
  BY <1>1
<1>4. QED
  BY <1>1, <1>2, <1>3

\* Nothing of the nodes changes.
LEMMA SameNodes ==
  ASSUME NEW s, NEW e, SinkInv(s, e), NEW t \in CallRec, Pointers(t),
         t.node = s.node, t.order = s.order, t.got = s.got, s.saw => t.saw
  PROVE  SinkInv(t, e)
<1>1. Heard(t, e)
  BY DEF SinkInv, Heard
<1>2. Ordered(t)
  BY DEF SinkInv, Ordered
<1>3. HeldOnce(t)
  BY DEF SinkInv, HeldOnce
<1>4. QED
  BY <1>1, <1>2, <1>3 DEF SinkInv

\* One more event that brought nothing.
LEMMA SinkLater ==
  ASSUME NEW s, NEW e \in Nat, SinkInv(s, e)
  PROVE  SinkInv(s, e + 1)
<1>1. Heard(s, e)
  BY DEF SinkInv
<1>2. 1 .. e \subseteq 1 .. e + 1
  OBVIOUS
<1>3. Heard(s, e + 1)
  BY <1>1, <1>2 DEF Heard
<1>4. QED
  BY <1>3 DEF SinkInv

\* One node holds more: a correction, or the pieces of a new event.
NodeMore(s, e, later, n, g, brought, t) ==
  /\ e \in Nat /\ later \in Nat /\ e <= later /\ SinkInv(s, e)
  /\ n \in 1 .. Len(s.node) /\ g \in FieldRec
  /\ brought \subseteq {Blank} \cup (e + 1 .. later) /\ (Blank \in brought => Len(s.node) = 1)
  /\ held(s.node[n]) \subseteq held(g) /\ held(g) \subseteq held(s.node[n]) \cup {Correction} \cup brought
  /\ t \in CallRec /\ t.node = [s.node EXCEPT ![n] = g] /\ t.order = s.order
  /\ t.key = s.key /\ t.think = s.think /\ t.text = s.text
  /\ t.got \subseteq s.got \cup (brought \ {Blank}) /\ brought \ {Blank} \subseteq held(g)
  /\ t.got # {} => t.saw

\* One node changed, and what it gained is new.
LEMMA NodeChanged ==
  ASSUME NEW s, NEW e, NEW later, NEW n, NEW g, NEW brought, NEW t, NodeMore(s, e, later, n, g, brought, t)
  PROVE  SinkInv(t, later) /\ Len(t.node) = Len(s.node)
<1> SUFFICES ASSUME e \in Nat, later \in Nat, e <= later, SinkInv(s, e),
                    n \in 1 .. Len(s.node), g \in FieldRec,
                    brought \subseteq {Blank} \cup (e + 1 .. later), Blank \in brought => Len(s.node) = 1,
                    held(s.node[n]) \subseteq held(g), held(g) \subseteq held(s.node[n]) \cup {Correction} \cup brought,
                    t \in CallRec, t.node = [s.node EXCEPT ![n] = g], t.order = s.order,
                    t.key = s.key, t.think = s.think, t.text = s.text,
                    t.got \subseteq s.got \cup (brought \ {Blank}), brought \ {Blank} \subseteq held(g),
                    t.got # {} => t.saw
             PROVE  SinkInv(t, later) /\ Len(t.node) = Len(s.node)
  BY DEF NodeMore
<1>1. /\ s.node \in Seq(FieldRec) /\ Len(s.node) \in Nat /\ DOMAIN s.node = 1 .. Len(s.node)
      /\ Pointers(s) /\ Ordered(s) /\ Heard(s, e) /\ HeldOnce(s)
  BY CallTypes DEF SinkInv
<1>2. Len(t.node) = Len(s.node) /\ t.node[n] = g /\ \A m \in 1 .. Len(s.node) : m # n => t.node[m] = s.node[m]
  BY <1>1
<1>3. Pointers(t)
  BY <1>1, <1>2 DEF Pointers
<1>4. Ordered(t)
  BY <1>1, <1>2 DEF Ordered
<1>5. Heard(t, later)
  <2>1. \A m \in 1 .. Len(s.node) : held(s.node[m]) \subseteq 1 .. e \cup {Blank, Correction}
    BY <1>1 DEF Heard
  <2>2. 1 .. e \subseteq 1 .. later /\ e + 1 .. later \subseteq 1 .. later
    OBVIOUS
  <2>3. held(g) \subseteq 1 .. later \cup {Blank, Correction}
    BY <2>1, <2>2
  <2>4. \A m \in 1 .. Len(t.node) : held(t.node[m]) \subseteq 1 .. later \cup {Blank, Correction}
    BY <1>2, <2>1, <2>2, <2>3
  <2>5. t.got \subseteq 1 .. later
    BY <1>1, <2>2 DEF Heard
  <2>6. ASSUME NEW x \in t.got PROVE \E m \in 1 .. Len(t.node) : x \in held(t.node[m])
    <3>1. CASE x \in s.got
      <4>1. PICK m \in 1 .. Len(s.node) : x \in held(s.node[m])
        BY <1>1, <3>1 DEF Heard
      <4>2. QED
        BY <1>2, <4>1
    <3>2. CASE x \in brought \ {Blank}
      BY <1>2, <3>2
    <3>3. QED
      BY <2>6, <3>1, <3>2
  <2>7. QED
    BY <2>4, <2>5, <2>6 DEF Heard
<1>6. HeldOnce(t)
  <2>1. ASSUME NEW m \in 1 .. Len(s.node), m # n, NEW x \in held(g), x \in held(s.node[m]) PROVE x = Correction
    <3>1. CASE x \in held(s.node[n])
      <4>1. held(s.node[m]) \cap held(s.node[n]) \subseteq {Correction}
        BY <1>1, <2>1 DEF HeldOnce
      <4>2. QED
        BY <2>1, <3>1, <4>1
    <3>2. CASE x \in brought
      <4>1. x \in 1 .. e \cup {Blank, Correction}
        BY <1>1, <2>1 DEF Heard
      <4>2. x # Blank
        BY <1>1, <2>1, <3>2
      <4>3. QED
        BY <3>2, <4>1, <4>2
    <3>3. QED
      BY <2>1, <3>1, <3>2
  <2>2. ASSUME NEW m \in 1 .. Len(t.node), NEW k \in 1 .. Len(t.node), m # k
        PROVE  held(t.node[m]) \cap held(t.node[k]) \subseteq {Correction}
    <3>1. CASE m = n
      BY <1>2, <2>1, <2>2, <3>1
    <3>2. CASE k = n
      BY <1>2, <2>1, <2>2, <3>2
    <3>3. CASE m # n /\ k # n
      BY <1>1, <1>2, <2>2, <3>3 DEF HeldOnce
    <3>4. QED
      BY <3>1, <3>2, <3>3
  <2>3. QED
    BY <2>2 DEF HeldOnce
<1>7. QED
  BY <1>2, <1>3, <1>4, <1>5, <1>6 DEF SinkInv

\* A node more, that holds nothing.
LEMMA NodeBegun ==
  ASSUME NEW s, NEW e, SinkInv(s, e), NEW g \in FieldRec, held(g) = {},
         NEW t \in CallRec, t.node = Append(s.node, g), Pointers(t),
         t.order = Append(s.order, Len(s.node) + 1) \/ t.order = <<Len(s.node) + 1>> \o s.order,
         t.got = s.got, s.saw => t.saw
  PROVE  SinkInv(t, e) /\ Len(t.node) = Len(s.node) + 1
<1>1. /\ s.node \in Seq(FieldRec) /\ Len(s.node) \in Nat /\ s.order \in Seq(Nat) /\ Len(s.order) \in Nat
      /\ Ordered(s) /\ Heard(s, e) /\ HeldOnce(s)
  BY CallTypes DEF SinkInv
<1> DEFINE new == Len(s.node) + 1
<1>2. /\ Len(t.node) = new /\ t.node[new] = g /\ new \in 1 .. new
      /\ \A m \in 1 .. Len(s.node) : t.node[m] = s.node[m] /\ m \in 1 .. new
      /\ \A m \in 1 .. new : m = new \/ m \in 1 .. Len(s.node)
  BY <1>1, OneMore
<1>3. Ordered(t)
  <2>1. CASE t.order = Append(s.order, new)
    <3>1. /\ Len(t.order) = Len(s.order) + 1 /\ t.order[Len(s.order) + 1] = new /\ Len(s.order) + 1 \in 1 .. Len(s.order) + 1
          /\ \A i \in 1 .. Len(s.order) : t.order[i] = s.order[i] /\ i \in 1 .. Len(t.order)
          /\ \A i \in 1 .. Len(s.order) + 1 : i = Len(s.order) + 1 \/ i \in 1 .. Len(s.order)
      BY <1>1, <2>1, OneMore
    <3>2. ASSUME NEW i \in 1 .. Len(t.order) PROVE t.order[i] \in 1 .. Len(t.node)
      <4>1. \A j \in 1 .. Len(s.order) : s.order[j] \in 1 .. new
        BY <1>1, <1>2 DEF Ordered
      <4>2. t.order[i] = new \/ \E j \in 1 .. Len(s.order) : t.order[i] = s.order[j]
        BY <3>1
      <4>3. QED
        BY <1>2, <4>1, <4>2
    <3>3. ASSUME NEW m \in 1 .. Len(t.node) PROVE \E i \in 1 .. Len(t.order) : t.order[i] = m
      <4>1. CASE m = new
        BY <3>1, <4>1
      <4>2. CASE m \in 1 .. Len(s.node)
        <5>1. PICK i \in 1 .. Len(s.order) : s.order[i] = m
          BY <1>1, <4>2 DEF Ordered
        <5>2. QED
          BY <3>1, <5>1
      <4>3. QED
        BY <1>2, <3>3, <4>1, <4>2
    <3>4. QED
      BY <3>2, <3>3 DEF Ordered
  <2>2. CASE t.order = <<new>> \o s.order
    <3>1. /\ Len(t.order) = Len(s.order) + 1 /\ t.order[1] = new
          /\ \A i \in 1 .. Len(s.order) : t.order[i + 1] = s.order[i] /\ i + 1 \in 1 .. Len(t.order)
          /\ \A i \in 1 .. Len(s.order) + 1 : i = 1 \/ (i - 1 \in 1 .. Len(s.order) /\ t.order[i] = s.order[i - 1])
      BY <1>1, <2>2
    <3>2. 1 \in 1 .. Len(t.order)
      BY <1>1, <3>1
    <3>3. ASSUME NEW i \in 1 .. Len(t.order) PROVE t.order[i] \in 1 .. Len(t.node)
      <4>1. \A j \in 1 .. Len(s.order) : s.order[j] \in 1 .. new
        BY <1>1, <1>2 DEF Ordered
      <4>2. t.order[i] = new \/ \E j \in 1 .. Len(s.order) : t.order[i] = s.order[j]
        BY <3>1
      <4>3. QED
        BY <1>2, <4>1, <4>2
    <3>4. ASSUME NEW m \in 1 .. Len(t.node) PROVE \E i \in 1 .. Len(t.order) : t.order[i] = m
      <4>1. CASE m = new
        BY <3>1, <3>2, <4>1
      <4>2. CASE m \in 1 .. Len(s.node)
        <5>1. PICK i \in 1 .. Len(s.order) : s.order[i] = m
          BY <1>1, <4>2 DEF Ordered
        <5>2. QED
          BY <3>1, <5>1
      <4>3. QED
        BY <1>2, <3>4, <4>1, <4>2
    <3>5. QED
      BY <3>3, <3>4 DEF Ordered
  <2>3. QED
    BY <2>1, <2>2
<1>4. Heard(t, e)
  <2>1. \A m \in 1 .. Len(t.node) : held(t.node[m]) \subseteq 1 .. e \cup {Blank, Correction}
    BY <1>1, <1>2 DEF Heard
  <2>2. ASSUME NEW x \in t.got PROVE \E m \in 1 .. Len(t.node) : x \in held(t.node[m])
    <3>1. PICK m \in 1 .. Len(s.node) : x \in held(s.node[m])
      BY <1>1, <2>2 DEF Heard
    <3>2. QED
      BY <1>2, <3>1
  <2>3. QED
    BY <1>1, <2>1, <2>2 DEF Heard
<1>5. HeldOnce(t)
  <2>1. ASSUME NEW m \in 1 .. Len(t.node), NEW k \in 1 .. Len(t.node), m # k
        PROVE  held(t.node[m]) \cap held(t.node[k]) \subseteq {Correction}
    <3>1. CASE m = new
      BY <1>2, <3>1
    <3>2. CASE k = new
      BY <1>2, <3>2
    <3>3. CASE m # new /\ k # new
      <4>1. m \in 1 .. Len(s.node) /\ k \in 1 .. Len(s.node)
        BY <1>2, <3>3
      <4>2. held(s.node[m]) \cap held(s.node[k]) \subseteq {Correction}
        BY <1>1, <2>1, <4>1 DEF HeldOnce
      <4>3. QED
        BY <1>2, <4>1, <4>2
    <3>4. QED
      BY <3>1, <3>2, <3>3
  <2>2. QED
    BY <2>1 DEF HeldOnce
<1>6. QED
  BY <1>2, <1>3, <1>4, <1>5 DEF SinkInv

\* The steps the decoders are made of.
LEMMA SawKept ==
  ASSUME NEW s, NEW e, SinkInv(s, e)
  PROVE  /\ SinkInv(saw(s), e) /\ saw(s).saw /\ saw(s).node = s.node /\ saw(s).key = s.key
         /\ saw(s).think = s.think /\ saw(s).text = s.text
<1> DEFINE t == saw(s)
<1>1. s \in CallRec /\ Pointers(s)
  BY DEF SinkInv
<1>2. /\ t \in CallRec /\ t.node = s.node /\ t.order = s.order /\ t.got = s.got /\ t.saw = TRUE
      /\ t.key = s.key /\ t.think = s.think /\ t.text = s.text
  BY <1>1 DEF saw, CallRec
<1>3. Pointers(t)
  BY <1>1, <1>2 DEF Pointers
<1> HIDE DEF t
<1>4. SinkInv(t, e)
  BY <1>2, <1>3, SameNodes
<1>5. QED
  BY <1>2, <1>4 DEF t

\* A new field is empty.
LEMMA OpenHolds ==
  ASSUME NEW kind \in Kinds
  PROVE  /\ Open(kind) \in FieldRec /\ held(Open(kind)) = {}
         /\ [Open(kind) EXCEPT !.blob = TRUE] \in FieldRec /\ held([Open(kind) EXCEPT !.blob = TRUE]) = {}
<1>1. Open(kind) = [kind |-> kind, value |-> <<>>, done |-> FALSE, revs |-> <<>>, blob |-> FALSE]
  BY DEF Open
<1>2. Open(kind) \in FieldRec /\ [Open(kind) EXCEPT !.blob = TRUE] \in FieldRec
  <2>1. <<>> \in Seq(Int) /\ <<>> \in Seq(Seq(Int))
    OBVIOUS
  <2>2. \A f \in FieldRec : [f EXCEPT !.blob = TRUE] \in FieldRec
    BY DEF FieldRec
  <2>3. [kind |-> kind, value |-> <<>>, done |-> FALSE, revs |-> <<>>, blob |-> FALSE] \in FieldRec
    BY <2>1 DEF FieldRec
  <2>4. QED
    BY <1>1, <2>2, <2>3
<1>3. /\ Len(Open(kind).value) = 0 /\ Len(Open(kind).revs) = 0
      /\ Len([Open(kind) EXCEPT !.blob = TRUE].value) = 0 /\ Len([Open(kind) EXCEPT !.blob = TRUE].revs) = 0
  BY <1>1
<1>4. ASSUME NEW f \in FieldRec, Len(f.value) = 0, Len(f.revs) = 0 PROVE held(f) = {}
  <2>1. \A x : x \notin held(f)
    BY <1>4, HeldIs
  <2>2. QED
    BY <2>1
<1>5. QED
  BY <1>2, <1>3, <1>4

\* A node begun.
LEMMA StartKept ==
  ASSUME NEW s, NEW e, SinkInv(s, e), NEW kind \in Kinds
  PROVE  /\ SinkInv(Start(s, kind), e) /\ Start(s, kind).saw = s.saw
         /\ Len(Start(s, kind).node) = Len(s.node) + 1 /\ Start(s, kind).key = s.key
         /\ Len(s.node) + 1 \in 1 .. Len(Start(s, kind).node)
<1> DEFINE t == Start(s, kind)
           more == Append(s.node, Open(kind))
           later == Append(s.order, Len(s.node) + 1)
<1>1. s \in CallRec /\ Pointers(s)
  BY DEF SinkInv
<1>2. more \in Seq(FieldRec) /\ later \in Seq(Nat) /\ Len(more) = Len(s.node) + 1 /\ Len(s.node) \in Nat
  <2>1. s.node \in Seq(FieldRec) /\ s.order \in Seq(Nat) /\ Open(kind) \in FieldRec /\ Len(s.node) \in Nat
    BY <1>1, CallTypes, OpenHolds
  <2>2. QED
    BY <2>1
<1>3. t = [s EXCEPT !.node = more, !.order = later]
  BY DEF Start
<1> HIDE DEF more, later, t
<1>4. /\ t \in CallRec /\ t.node = more /\ t.order = later /\ t.got = s.got /\ t.saw = s.saw
      /\ t.key = s.key /\ t.think = s.think /\ t.text = s.text
  BY <1>1, <1>2, <1>3 DEF CallRec
<1>5. Pointers(t)
  BY <1>1, <1>2, <1>4 DEF Pointers
<1>6. SinkInv(t, e)
  <2>1. t.node = Append(s.node, Open(kind)) /\ t.order = Append(s.order, Len(s.node) + 1)
    BY <1>4 DEF more, later
  <2>2. Open(kind) \in FieldRec /\ held(Open(kind)) = {}
    BY OpenHolds
  <2>3. QED
    BY <1>4, <1>5, <2>1, <2>2, NodeBegun
<1>7. Len(s.node) + 1 \in 1 .. Len(more)
  BY <1>2
<1>8. QED
  BY <1>2, <1>4, <1>6, <1>7 DEF t

\* The decoder may point at any of its nodes.
LEMMA TextPointed ==
  ASSUME NEW s, NEW e, SinkInv(s, e), NEW n \in 0 .. Len(s.node), NEW t, t = [s EXCEPT !.text = n]
  PROVE  SinkInv(t, e) /\ t.node = s.node /\ t.saw = s.saw /\ t.text = n
<1>1. s \in CallRec /\ Pointers(s) /\ n \in Nat /\ Len(s.node) \in Nat /\ s.key \in [ItemKeys -> Nat]
  <2>1. s \in CallRec /\ Pointers(s)
    BY DEF SinkInv
  <2>2. Len(s.node) \in Nat /\ s.key \in [ItemKeys -> Nat]
    BY <2>1, CallTypes
  <2>3. QED
    BY <2>1, <2>2
<1>2. /\ t \in CallRec /\ t.node = s.node /\ t.order = s.order /\ t.got = s.got /\ t.saw = s.saw
      /\ t.key = s.key /\ t.think = s.think /\ t.text = n
  BY <1>1 DEF CallRec
<1>3. Pointers(t)
  BY <1>1, <1>2 DEF Pointers
<1>4. SinkInv(t, e)
  BY <1>2, <1>3, SameNodes
<1>5. QED
  BY <1>2, <1>4

LEMMA ThinkPointed ==
  ASSUME NEW s, NEW e, SinkInv(s, e), NEW n \in 0 .. Len(s.node), NEW t, t = [s EXCEPT !.think = n]
  PROVE  SinkInv(t, e) /\ t.node = s.node /\ t.saw = s.saw /\ t.think = n
<1>1. s \in CallRec /\ Pointers(s) /\ n \in Nat /\ Len(s.node) \in Nat /\ s.key \in [ItemKeys -> Nat]
  <2>1. s \in CallRec /\ Pointers(s)
    BY DEF SinkInv
  <2>2. Len(s.node) \in Nat /\ s.key \in [ItemKeys -> Nat]
    BY <2>1, CallTypes
  <2>3. QED
    BY <2>1, <2>2
<1>2. /\ t \in CallRec /\ t.node = s.node /\ t.order = s.order /\ t.got = s.got /\ t.saw = s.saw
      /\ t.key = s.key /\ t.think = n /\ t.text = s.text
  BY <1>1 DEF CallRec
<1>3. Pointers(t)
  BY <1>1, <1>2 DEF Pointers
<1>4. SinkInv(t, e)
  BY <1>2, <1>3, SameNodes
<1>5. QED
  BY <1>2, <1>4

\* Index or id k names node n.
KeyAt(s, k, n) == [s EXCEPT !.key[k] = n]

\* An index or id may name any node.
LEMMA KeyPointed ==
  ASSUME NEW s, NEW e, SinkInv(s, e), NEW n \in 0 .. Len(s.node), NEW k \in ItemKeys
  PROVE  /\ SinkInv(KeyAt(s, k, n), e) /\ KeyAt(s, k, n).node = s.node
         /\ KeyAt(s, k, n).saw = s.saw /\ KeyAt(s, k, n).key[k] = n
<1> DEFINE t == KeyAt(s, k, n)
           table == [s.key EXCEPT ![k] = n]
<1>1. s \in CallRec /\ Pointers(s) /\ n \in Nat /\ Len(s.node) \in Nat /\ s.key \in [ItemKeys -> Nat]
  <2>1. s \in CallRec /\ Pointers(s)
    BY DEF SinkInv
  <2>2. Len(s.node) \in Nat /\ s.key \in [ItemKeys -> Nat]
    BY <2>1, CallTypes
  <2>3. QED
    BY <2>1, <2>2
<1>2. table \in [ItemKeys -> Nat] /\ table[k] = n /\ \A j \in ItemKeys : table[j] = n \/ table[j] = s.key[j]
  BY <1>1
<1>3. t = [s EXCEPT !.key = table]
  BY DEF KeyAt
<1> HIDE DEF table, t
<1>4. /\ t \in CallRec /\ t.node = s.node /\ t.order = s.order /\ t.got = s.got /\ t.saw = s.saw
      /\ t.key = table /\ t.think = s.think /\ t.text = s.text
  BY <1>1, <1>2, <1>3 DEF CallRec
<1>5. Pointers(t)
  BY <1>1, <1>2, <1>4 DEF Pointers
<1>6. SinkInv(t, e)
  BY <1>4, <1>5, SameNodes
<1>7. QED
  BY <1>2, <1>4, <1>6 DEF t

\* A piece of the event goes to one node.
LEMMA DeltaKept ==
  ASSUME NEW s, NEW e \in Nat, SinkInv(s, e), s.saw, NEW n \in 1 .. Len(s.node), gone \in BOOLEAN
  PROVE  SinkInv(SinkDelta(s, n, e + 1), e + 1) /\ Len(SinkDelta(s, n, e + 1).node) = Len(s.node)
<1> DEFINE t == SinkDelta(s, n, e + 1)
           g == Append1(s.node[n], e + 1)
           fields == [s.node EXCEPT ![n] = g]
           torn == s.torn \/ (s.node[n].kind = Text /\ pendingBeside(s, n, Kinds))
           err == s.err \/ (gone /\ s.node[n].kind = Text)
<1>1. s \in CallRec /\ s.node \in Seq(FieldRec) /\ s.node[n] \in FieldRec /\ s.got \subseteq Nat
  <2>1. s \in CallRec
    BY DEF SinkInv
  <2>2. QED
    BY <2>1, CallTypes
<1>2. g \in FieldRec /\ held(g) = held(s.node[n]) \cup {e + 1}
  <2> DEFINE f == s.node[n]
             x == e + 1
  <2>1. f \in FieldRec /\ x \in Int /\ g = Append1(f, x)
    BY <1>1
  <2> HIDE DEF f, x, g
  <2>2. g \in FieldRec /\ held(g) = held(f) \cup {x}
    BY <2>1, PieceHeld
  <2>3. QED
    BY <2>2 DEF f, x
<1>3. fields \in Seq(FieldRec) /\ torn \in BOOLEAN /\ err \in BOOLEAN /\ s.got \cup {e + 1} \subseteq Nat
  <2>1. fields \in Seq(FieldRec)
    <3> HIDE DEF g
    <3>1. QED
      BY <1>1, <1>2
  <2>2. torn \in BOOLEAN /\ err \in BOOLEAN
    BY DEF pendingBeside
  <2>3. QED
    BY <1>1, <2>1, <2>2
<1>4. t = [s EXCEPT !.node = fields, !.got = s.got \cup {e + 1}, !.torn = torn, !.err = err]
  BY DEF SinkDelta
<1> HIDE DEF t, fields, torn, err, g
<1>5. /\ t \in CallRec /\ t.node = fields /\ t.order = s.order /\ t.got = s.got \cup {e + 1} /\ t.saw = s.saw
      /\ t.key = s.key /\ t.think = s.think /\ t.text = s.text
  BY <1>1, <1>3, <1>4 DEF CallRec
<1>6. SinkInv(t, e + 1) /\ Len(t.node) = Len(s.node)
  <2>1. t.node = [s.node EXCEPT ![n] = g]
    BY <1>5 DEF fields
  <2>2. \A brought : brought = {e + 1} =>
          /\ brought \subseteq {Blank} \cup (e + 1 .. e + 1) /\ Blank \notin brought
          /\ brought \ {Blank} = {e + 1}
    BY DEF Blank
  <2>3. e + 1 \in Nat /\ e <= e + 1
    OBVIOUS
  <2>4. NodeMore(s, e, e + 1, n, g, {e + 1}, t)
    BY <1>2, <1>5, <2>1, <2>2, <2>3 DEF NodeMore
  <2>5. QED
    BY <2>4, NodeChanged
<1>7. QED
  BY <1>6 DEF t

\* The same fields, pointers and pieces, whatever was announced.
SameFields(s, t) ==
  /\ Len(t.node) = Len(s.node)
  /\ \A m \in 1 .. Len(s.node) :
        t.node[m].value = s.node[m].value /\ t.node[m].revs = s.node[m].revs /\ t.node[m].kind = s.node[m].kind
  /\ t.order = s.order /\ t.key = s.key /\ t.think = s.think /\ t.text = s.text /\ t.got = s.got /\ t.saw = s.saw

\* A node gets another field that holds what it held, or a correction more.
NodeAt(s, n, g) == [s EXCEPT !.node[n] = g]

\* Node n may become g: it holds what it held, or a correction besides.
FieldMore(s, e, n, g) ==
  /\ e \in Nat /\ SinkInv(s, e) /\ n \in 1 .. Len(s.node) /\ g \in FieldRec
  /\ held(s.node[n]) \subseteq held(g) /\ held(g) \subseteq held(s.node[n]) \cup {Correction}

LEMMA FieldSwapped ==
  ASSUME NEW s, NEW e, NEW n, NEW g, FieldMore(s, e, n, g)
  PROVE  /\ SinkInv(NodeAt(s, n, g), e) /\ NodeAt(s, n, g) \in CallRec
         /\ NodeAt(s, n, g).node[n] = g /\ NodeAt(s, n, g).order = s.order
         /\ NodeAt(s, n, g).key = s.key /\ NodeAt(s, n, g).think = s.think
         /\ NodeAt(s, n, g).text = s.text /\ NodeAt(s, n, g).got = s.got
         /\ NodeAt(s, n, g).saw = s.saw /\ Len(NodeAt(s, n, g).node) = Len(s.node)
         /\ \A m \in 1 .. Len(s.node) : m # n => NodeAt(s, n, g).node[m] = s.node[m]
<1> DEFINE t == NodeAt(s, n, g)
           changed == [s.node EXCEPT ![n] = g]
<1> USE DEF FieldMore
<1>1. s \in CallRec /\ s.node \in Seq(FieldRec) /\ (s.got # {} => s.saw)
  <2>1. s \in CallRec /\ Heard(s, e)
    BY DEF SinkInv
  <2>2. QED
    BY <2>1, CallTypes DEF Heard
<1>2. changed \in Seq(FieldRec)
  BY <1>1
<1>3. t = [s EXCEPT !.node = changed]
  BY DEF NodeAt
<1> HIDE DEF t, changed
<1>4. /\ t \in CallRec /\ t.node = changed /\ t.order = s.order /\ t.got = s.got /\ t.saw = s.saw
      /\ t.key = s.key /\ t.think = s.think /\ t.text = s.text
  BY <1>1, <1>2, <1>3 DEF CallRec
<1>5. t.node = [s.node EXCEPT ![n] = g]
  BY <1>4 DEF changed
<1>6. NodeMore(s, e, e, n, g, {}, t)
  BY <1>1, <1>4, <1>5 DEF NodeMore
<1>7. SinkInv(t, e) /\ Len(t.node) = Len(s.node)
  BY <1>6, NodeChanged
<1>8. t.node[n] = g /\ \A m \in 1 .. Len(s.node) : m # n => t.node[m] = s.node[m]
  <2>1. DOMAIN s.node = 1 .. Len(s.node)
    BY <1>1
  <2>2. QED
    BY <1>5, <2>1
<1>9. QED
  BY <1>4, <1>7, <1>8 DEF t

\* An opaque reasoning value changes no text.
LEMMA BlobHeld ==
  ASSUME NEW f \in FieldRec
  PROVE  [f EXCEPT !.blob = TRUE] \in FieldRec /\ held([f EXCEPT !.blob = TRUE]) = held(f)
<1>1. [f EXCEPT !.blob = TRUE] \in FieldRec /\ [f EXCEPT !.blob = TRUE].value = f.value
      /\ [f EXCEPT !.blob = TRUE].revs = f.revs
  BY DEF FieldRec
<1>2. QED
  BY <1>1 DEF held

LEMMA BlobKept ==
  ASSUME NEW s, NEW e \in Nat, SinkInv(s, e), NEW n \in 1 .. Len(s.node)
  PROVE  /\ SinkInv([s EXCEPT !.node[n].blob = TRUE], e)
         /\ Len([s EXCEPT !.node[n].blob = TRUE].node) = Len(s.node)
<1> DEFINE g == [s.node[n] EXCEPT !.blob = TRUE]
<1>1. s.node[n] \in FieldRec
  BY CallTypes DEF SinkInv
<1>2. g \in FieldRec /\ held(g) = held(s.node[n])
  BY <1>1, BlobHeld
<1>3. [s EXCEPT !.node[n].blob = TRUE] = NodeAt(s, n, g)
  BY DEF NodeAt
<1> HIDE DEF g
<1>4. FieldMore(s, e, n, g)
  BY <1>2 DEF FieldMore
<1>5. SinkInv(NodeAt(s, n, g), e) /\ Len(NodeAt(s, n, g).node) = Len(s.node)
  BY <1>4, FieldSwapped
<1>6. QED
  BY <1>3, <1>5

\* What a node comes to is announced: its field ends as it is.
LEMMA AnnouncedKept ==
  ASSUME NEW p, NEW e \in Nat, SinkInv(p.s, e), NEW n \in 1 .. Len(p.s.node), gone \in BOOLEAN
  PROVE  SinkInv(Announced(p, n).s, e) /\ SameFields(p.s, Announced(p, n).s)
<1> DEFINE s == p.s
           g == FinishNode(s.node[n])
           swapped == NodeAt(s, n, g)
           ended == [s EXCEPT !.node[n] = FinishNode(@), !.announced = @ \cup {n}]
           said == [ended EXCEPT !.parts = Append(@, partOf(ended.node[n])), !.err = @ \/ gone,
                                 !.torn = @ \/ pendingBeside(ended, n, {Text})]
           t == Announced(p, n).s
<1>1. s \in CallRec /\ s.node[n] \in FieldRec /\ n \in Nat /\ s.announced \in SUBSET Nat /\ Pointers(s)
      /\ s.node \in Seq(FieldRec)
  <2>1. s \in CallRec /\ Pointers(s)
    BY DEF SinkInv
  <2>2. QED
    BY <2>1, CallTypes
<1>2. /\ g \in FieldRec /\ held(g) = held(s.node[n])
      /\ g.value = s.node[n].value /\ g.revs = s.node[n].revs /\ g.kind = s.node[n].kind
  BY <1>1, EndedHeld
<1>3. t = IF isPart(ended.node[n]) THEN said ELSE ended
  BY DEF Announced
<1>4. ended = [swapped EXCEPT !.announced = s.announced \cup {n}]
  BY DEF NodeAt
<1> HIDE DEF g, t, said, ended
<1>5. /\ SinkInv(swapped, e) /\ swapped \in CallRec /\ swapped.node[n] = g /\ swapped.order = s.order
      /\ swapped.key = s.key /\ swapped.think = s.think /\ swapped.text = s.text /\ swapped.got = s.got
      /\ swapped.saw = s.saw /\ Len(swapped.node) = Len(s.node)
      /\ \A m \in 1 .. Len(s.node) : m # n => swapped.node[m] = s.node[m]
  <2>1. FieldMore(s, e, n, g)
    BY <1>2 DEF FieldMore
  <2> HIDE DEF s
  <2>2. QED
    BY <2>1, FieldSwapped
<1> HIDE DEF swapped
<1>6. /\ ended \in CallRec /\ ended.node = swapped.node /\ ended.order = s.order /\ ended.key = s.key
      /\ ended.think = s.think /\ ended.text = s.text /\ ended.got = s.got /\ ended.saw = s.saw
  BY <1>1, <1>4, <1>5 DEF CallRec
<1>7. /\ t \in CallRec /\ t.node = swapped.node /\ t.order = s.order /\ t.key = s.key
      /\ t.think = s.think /\ t.text = s.text /\ t.got = s.got /\ t.saw = s.saw
  <2>1. CASE ~isPart(ended.node[n])
    BY <1>3, <1>6, <2>1
  <2>2. CASE isPart(ended.node[n])
    <3> DEFINE more == Append(ended.parts, partOf(ended.node[n]))
               err == ended.err \/ gone
               torn == ended.torn \/ pendingBeside(ended, n, {Text})
    <3>1. ended.node[n] \in FieldRec /\ ended.parts \in Seq(PartRec)
      <4>1. n \in 1 .. Len(ended.node)
        BY <1>5, <1>6
      <4>2. QED
        BY <1>6, <4>1, CallTypes
    <3>2. partOf(ended.node[n]) \in PartRec
      BY <3>1, FieldTypes DEF partOf, PartRec
    <3>3. more \in Seq(PartRec) /\ err \in BOOLEAN /\ torn \in BOOLEAN
      BY <3>1, <3>2 DEF pendingBeside
    <3>4. said = [ended EXCEPT !.parts = more, !.err = err, !.torn = torn]
      BY DEF said
    <3> HIDE DEF more, err, torn
    <3>5. /\ said \in CallRec /\ said.node = ended.node /\ said.order = ended.order /\ said.key = ended.key
          /\ said.think = ended.think /\ said.text = ended.text /\ said.got = ended.got /\ said.saw = ended.saw
      BY <1>6, <3>3, <3>4 DEF CallRec
    <3>6. QED
      BY <1>3, <1>6, <2>2, <3>5
  <2>3. QED
    BY <2>1, <2>2
<1>8. Pointers(t)
  BY <1>1, <1>5, <1>7 DEF Pointers
<1>9. SinkInv(t, e)
  <2>1. t.node = swapped.node /\ t.order = swapped.order /\ t.got = swapped.got /\ (swapped.saw => t.saw)
    BY <1>5, <1>7
  <2>2. QED
    BY <1>5, <1>7, <1>8, <2>1, SameNodes
<1>10. SameFields(s, t)
  <2>1. /\ t.node[n] = g /\ Len(t.node) = Len(s.node)
        /\ \A m \in 1 .. Len(s.node) : m # n => t.node[m] = s.node[m]
    BY <1>5, <1>7
  <2>2. ASSUME NEW m \in 1 .. Len(s.node)
        PROVE  t.node[m].value = s.node[m].value /\ t.node[m].revs = s.node[m].revs /\ t.node[m].kind = s.node[m].kind
    <3>1. CASE m = n
      BY <1>1, <1>2, <2>1, <3>1
    <3>2. CASE m # n
      BY <1>1, <2>1, <3>2
    <3>3. QED
      BY <3>1, <3>2
  <2>3. QED
    BY <1>7, <2>1, <2>2 DEF SameFields
<1>11. QED
  BY <1>9, <1>10 DEF t

\* Of a bounded set of numbers that is not empty, one is the greatest.
LEMMA GreatestOfRange ==
  ASSUME NEW N \in Nat, NEW T, T \subseteq 1 .. N, T # {}
  PROVE  \E m \in T : \A k \in T : k <= m
<1> DEFINE U == {v \in Nat : \A t \in T : t <= v}
<1>1. PICK m \in U : \A v \in U : m <= v
  <2>1. N \in U /\ U \subseteq Nat
    OBVIOUS
  <2> HIDE DEF U
  <2>2. QED
    BY <2>1, LeastOfNats
<1>2. m \in Nat /\ \A t \in T : t \in Nat /\ t <= m
  BY <1>1
<1>3. m \in T
  <2> SUFFICES ASSUME m \notin T PROVE FALSE
    OBVIOUS
  <2>1. PICK t \in T : TRUE
    OBVIOUS
  <2>2. m - 1 \in Nat /\ \A k \in T : k <= m - 1
    BY <1>2, <2>1
  <2>3. m <= m - 1
    BY <1>1, <2>2
  <2>4. QED
    BY <1>2, <2>3
<1>4. QED
  BY <1>2, <1>3

\* An index or id that names a node of the call.
LEMMA KeySet ==
  ASSUME NEW s, NEW e, SinkInv(s, e), s.saw, NEW n \in 1 .. Len(s.node), NEW k \in ItemKeys \cup {NoKey}
  PROVE  SinkInv(SetKey(s, k, n), e) /\ SetKey(s, k, n).saw /\ SetKey(s, k, n).node = s.node
<1>1. CASE k = NoKey
  BY <1>1 DEF SetKey
<1>2. CASE k # NoKey
  <2>1. SetKey(s, k, n) = KeyAt(s, k, n) /\ k \in ItemKeys
    BY <1>2 DEF SetKey, KeyAt
  <2>2. Len(s.node) \in Nat
    BY CallTypes DEF SinkInv
  <2>3. n \in 0 .. Len(s.node)
    BY <2>2
  <2>4. QED
    BY <2>1, <2>3, KeyPointed
<1>3. QED
  BY <1>1, <1>2

\* The node made for an item.
LEMMA NodeMade ==
  ASSUME NEW s, NEW e, SinkInv(s, e), s.saw, NEW k \in ItemKeys \cup {NoKey}, NEW kind \in Kinds
  PROVE  /\ SinkInv(makeNode(s, k, kind), e) /\ makeNode(s, k, kind).saw
         /\ newest(s) + 1 \in 1 .. Len(makeNode(s, k, kind).node)
<1>1. makeNode(s, k, kind) = SetKey(Start(s, kind), k, Len(s.node) + 1) /\ newest(s) = Len(s.node)
  BY DEF makeNode, newest
<1>2. SinkInv(Start(s, kind), e) /\ Start(s, kind).saw /\ Len(s.node) + 1 \in 1 .. Len(Start(s, kind).node)
  BY StartKept
<1>3. /\ SinkInv(SetKey(Start(s, kind), k, Len(s.node) + 1), e) /\ SetKey(Start(s, kind), k, Len(s.node) + 1).saw
      /\ SetKey(Start(s, kind), k, Len(s.node) + 1).node = Start(s, kind).node
  BY <1>2, KeySet
<1>4. QED
  BY <1>1, <1>2, <1>3

\* The node an item's events go to.
LEMMA NodeForItem ==
  ASSUME NEW e, SinkInv(call, e), NEW k \in ItemKeys \cup {NoKey}, NEW kind \in Kinds
  PROVE  /\ SinkInv(nodeFor(k, kind).s, e) /\ nodeFor(k, kind).s.saw
         /\ nodeFor(k, kind).n \in 1 .. Len(nodeFor(k, kind).s.node)
<1> DEFINE s == saw(call)
           known == k # NoKey /\ call.key[k] # NoNode /\ call.node[call.key[k]].kind = kind
           adopted == CHOOSE n \in candidates(k, kind) : \A m \in candidates(k, kind) : m <= n
<1>1. SinkInv(s, e) /\ s.saw /\ s.node = call.node /\ Len(call.node) \in Nat /\ Pointers(call)
  BY SawKept, CallTypes DEF SinkInv
<1>2. CASE known
  <2>1. nodeFor(k, kind) = [s |-> s, n |-> call.key[k]]
    BY <1>2 DEF nodeFor
  <2>2. call.key[k] \in 1 .. Len(call.node)
    BY <1>1, <1>2 DEF Pointers, NoNode
  <2> HIDE DEF s
  <2>3. QED
    BY <1>1, <2>1, <2>2
<1>3. CASE ~known /\ candidates(k, kind) # {}
  <2>1. nodeFor(k, kind) = [s |-> SetKey(s, k, adopted), n |-> adopted]
    BY <1>3 DEF nodeFor
  <2>2. candidates(k, kind) \subseteq 1 .. Len(call.node)
    BY DEF candidates
  <2>3. \E n \in candidates(k, kind) : \A m \in candidates(k, kind) : m <= n
    BY <1>1, <1>3, <2>2, GreatestOfRange
  <2>4. adopted \in 1 .. Len(call.node)
    BY <2>2, <2>3
  <2> HIDE DEF s, adopted
  <2>5. SinkInv(SetKey(s, k, adopted), e) /\ SetKey(s, k, adopted).saw /\ SetKey(s, k, adopted).node = s.node
    BY <1>1, <2>4, KeySet
  <2>6. QED
    BY <1>1, <2>1, <2>4, <2>5
<1>4. CASE ~known /\ candidates(k, kind) = {}
  <2>1. nodeFor(k, kind) = [s |-> makeNode(s, k, kind), n |-> newest(call) + 1]
    BY <1>4 DEF nodeFor
  <2>2. newest(call) = newest(s)
    BY <1>1 DEF newest
  <2> HIDE DEF s
  <2>3. SinkInv(makeNode(s, k, kind), e) /\ makeNode(s, k, kind).saw
        /\ newest(s) + 1 \in 1 .. Len(makeNode(s, k, kind).node)
    BY <1>1, NodeMade
  <2>4. QED
    BY <2>1, <2>2, <2>3
<1>5. QED
  BY <1>2, <1>3, <1>4

\* The steps of a stream keep what it brought.
StreamInv == events \in Nat /\ gone \in BOOLEAN /\ SinkInv(call, events)

\* A delta that came, to a node of the call.
LEMMA DeltaSent ==
  ASSUME StreamInv, NEW s, SinkInv(s, events), s.saw, NEW n \in 1 .. Len(s.node), NEW d,
         Delta(s, d, n, piece1), events' = events + 1
  PROVE  SinkInv(call', events') /\ Len(call'.node) = Len(s.node)
<1>1. call' = SinkDelta(s, n, events + 1)
  BY DEF Delta, piece1
<1>2. SinkInv(SinkDelta(s, n, events + 1), events + 1) /\ Len(SinkDelta(s, n, events + 1).node) = Len(s.node)
  BY DeltaKept DEF StreamInv
<1>3. QED
  BY <1>1, <1>2

\* The events of each dialect, one by one: usage, then those of an openai endpoint.
LEMMA UsageKept == ASSUME StreamInv, UsageReport PROVE SinkInv(call', events')
<1>1. SinkInv(saw(call), events)
  BY SawKept DEF StreamInv
<1>2. call' = [saw(call) EXCEPT !.err = gone] /\ events' = events + 1 /\ events \in Nat /\ gone \in BOOLEAN
  BY DEF UsageReport, Receives, StreamInv
<1> DEFINE s == saw(call)
<1>3. SinkInv(s, events) /\ call' = [s EXCEPT !.err = gone] /\ s \in CallRec /\ Pointers(s)
  BY <1>1, <1>2 DEF SinkInv
<1> HIDE DEF s
<1>4. /\ call' \in CallRec /\ call'.node = s.node /\ call'.order = s.order /\ call'.got = s.got /\ call'.saw = s.saw
      /\ call'.key = s.key /\ call'.think = s.think /\ call'.text = s.text
  BY <1>2, <1>3 DEF CallRec
<1>5. Pointers(call')
  BY <1>3, <1>4 DEF Pointers
<1>6. SinkInv(call', events)
  BY <1>3, <1>4, <1>5, SameNodes
<1>7. QED
  BY <1>2, <1>6, SinkLater

\* A node begun for the text, for the reasoning, or under a key.
LEMMA TextBegun ==
  ASSUME NEW s, NEW e, SinkInv(s, e), NEW t, t = [Start(s, Text) EXCEPT !.text = Len(s.node) + 1]
  PROVE  SinkInv(t, e) /\ t.saw = s.saw /\ t.text \in 1 .. Len(t.node) /\ Len(t.node) = Len(s.node) + 1
<1>1. /\ SinkInv(Start(s, Text), e) /\ Start(s, Text).saw = s.saw /\ Len(Start(s, Text).node) = Len(s.node) + 1
      /\ Len(s.node) + 1 \in 1 .. Len(Start(s, Text).node)
  BY StartKept DEF Kinds
<1>2. Len(s.node) + 1 \in 0 .. Len(Start(s, Text).node)
  BY <1>1
<1>3. SinkInv(t, e) /\ t.node = Start(s, Text).node /\ t.saw = Start(s, Text).saw /\ t.text = Len(s.node) + 1
  BY <1>1, <1>2, TextPointed
<1>4. QED
  BY <1>1, <1>3

LEMMA ThinkBegun ==
  ASSUME NEW s, NEW e, SinkInv(s, e), NEW t, t = [Start(s, Thinking) EXCEPT !.think = Len(s.node) + 1]
  PROVE  SinkInv(t, e) /\ t.saw = s.saw /\ t.think \in 1 .. Len(t.node)
<1>1. /\ SinkInv(Start(s, Thinking), e) /\ Start(s, Thinking).saw = s.saw
      /\ Len(s.node) + 1 \in 1 .. Len(Start(s, Thinking).node)
  BY StartKept DEF Kinds
<1>2. Len(s.node) + 1 \in 0 .. Len(Start(s, Thinking).node)
  BY <1>1
<1>3. SinkInv(t, e) /\ t.node = Start(s, Thinking).node /\ t.saw = Start(s, Thinking).saw /\ t.think = Len(s.node) + 1
  BY <1>1, <1>2, ThinkPointed
<1>4. QED
  BY <1>1, <1>3

BegunAt(s, kind, k) == [Start(s, kind) EXCEPT !.key[k] = Len(s.node) + 1]

\* A node begun for an index or id.
LEMMA KeyBegun ==
  ASSUME NEW s, NEW e, SinkInv(s, e), NEW kind \in Kinds, NEW k \in ItemKeys
  PROVE  /\ SinkInv(BegunAt(s, kind, k), e) /\ BegunAt(s, kind, k).saw = s.saw
         /\ BegunAt(s, kind, k).key[k] \in 1 .. Len(BegunAt(s, kind, k).node)
<1> DEFINE b == Start(s, kind)
           t == BegunAt(s, kind, k)
           n == Len(s.node) + 1
<1>1. SinkInv(b, e) /\ b.saw = s.saw /\ n \in 1 .. Len(b.node)
  BY StartKept
<1>2. n \in 0 .. Len(b.node)
  BY <1>1
<1>3. t = KeyAt(b, k, n)
  BY DEF BegunAt, KeyAt
<1> HIDE DEF b, t, n
<1>4. SinkInv(t, e) /\ t.node = b.node /\ t.saw = b.saw /\ t.key[k] = n
  BY <1>1, <1>2, <1>3, KeyPointed
<1>5. QED
  BY <1>1, <1>4 DEF t

\* The call as an action begins: what was received is seen.
LEMMA NowSeen ==
  ASSUME StreamInv
  PROVE  /\ SinkInv(saw(call), events) /\ saw(call).saw /\ saw(call).node = call.node /\ saw(call).key = call.key
         /\ saw(call).think = call.think /\ saw(call).text = call.text
         /\ [Now EXCEPT !.s = saw(@)].s = saw(call) /\ [Now EXCEPT !.s = saw(@)].d = doc
         /\ newest(call) = Len(saw(call).node) /\ Len(call.node) \in Nat /\ Pointers(call) /\ gone \in BOOLEAN /\ events \in Nat
<1>1. SinkInv(call, events)
  BY DEF StreamInv
<1>2. /\ SinkInv(saw(call), events) /\ saw(call).saw /\ saw(call).node = call.node /\ saw(call).key = call.key
      /\ saw(call).think = call.think /\ saw(call).text = call.text
  BY <1>1, SawKept
<1>3. Len(call.node) \in Nat /\ Pointers(call)
  BY <1>1, CallTypes DEF SinkInv
<1>4. [Now EXCEPT !.s = saw(@)].s = saw(call) /\ [Now EXCEPT !.s = saw(@)].d = doc
  BY DEF Now
<1>5. QED
  BY <1>2, <1>3, <1>4 DEF newest, StreamInv

LEMMA ContentKept == ASSUME StreamInv, OpenaiContent PROVE SinkInv(call', events')
<1> DEFINE p0 == [Now EXCEPT !.s = saw(@)]
           p == closeReasoning(p0)
           s == IF p.s.text # NoNode THEN p.s ELSE [Start(p.s, Text) EXCEPT !.text = newest(p.s) + 1]
<1>1. SinkInv(p0.s, events) /\ p0.s.saw /\ gone \in BOOLEAN /\ events \in Nat
  BY NowSeen
<1>2. Delta(s, p.d, s.text, piece1) /\ events' = events + 1
  BY DEF OpenaiContent, Receives
<1>3. SinkInv(p.s, events) /\ p.s.saw
  <2>1. CASE p = p0
    BY <1>1, <2>1
  <2>2. CASE p # p0
    <3>1. p0.s.think # NoNode /\ p = Announced(p0, p0.s.think)
      BY <2>2 DEF closeReasoning
    <3>2. p0.s.think \in 1 .. Len(p0.s.node)
      <4> HIDE DEF p0
      <4>1. Pointers(p0.s) /\ Len(p0.s.node) \in Nat
        BY <1>1, CallTypes DEF SinkInv
      <4>2. QED
        BY <3>1, <4>1 DEF Pointers, NoNode
    <3> HIDE DEF p0, p
    <3>3. SinkInv(Announced(p0, p0.s.think).s, events) /\ SameFields(p0.s, Announced(p0, p0.s.think).s)
      BY <1>1, <3>2, AnnouncedKept
    <3>4. QED
      BY <1>1, <3>1, <3>3 DEF SameFields
  <2>3. QED
    BY <2>1, <2>2
<1>4. s = p.s \/ s = [Start(p.s, Text) EXCEPT !.text = Len(p.s.node) + 1]
  BY DEF newest
<1>5. p.s.text # NoNode => s = p.s
  OBVIOUS
<1>6. p.s.text = NoNode => s = [Start(p.s, Text) EXCEPT !.text = Len(p.s.node) + 1]
  BY DEF newest
<1> HIDE DEF p0, p, s
<1>7. SinkInv(s, events) /\ s.saw /\ s.text \in 1 .. Len(s.node)
  <2>1. CASE p.s.text # NoNode
    <3>1. Pointers(p.s) /\ Len(p.s.node) \in Nat
      BY <1>3, CallTypes DEF SinkInv
    <3>2. QED
      BY <1>3, <1>5, <2>1, <3>1 DEF Pointers, NoNode
  <2>2. CASE p.s.text = NoNode
    BY <1>3, <1>6, <2>2, TextBegun
  <2>3. QED
    BY <2>1, <2>2
<1>8. QED
  BY <1>2, <1>7, DeltaSent

LEMMA ReasoningKept == ASSUME StreamInv, OpenaiReasoning PROVE SinkInv(call', events')
<1> DEFINE open == call.think # NoNode /\ ~call.node[call.think].done
           s == IF open THEN saw(call) ELSE [Start(saw(call), Thinking) EXCEPT !.think = newest(call) + 1]
<1>1. Delta(s, doc, s.think, piece1) /\ events' = events + 1
  BY DEF OpenaiReasoning, Receives
<1>2. CASE open
  <2>1. s = saw(call) /\ call.think # NoNode
    BY <1>2
  <2> HIDE DEF s
  <2>2. s.think \in 1 .. Len(s.node) /\ SinkInv(s, events) /\ s.saw
    BY <2>1, NowSeen DEF Pointers, NoNode
  <2>3. QED
    BY <1>1, <2>2, DeltaSent
<1>3. CASE ~open
  <2>1. s = [Start(saw(call), Thinking) EXCEPT !.think = Len(saw(call).node) + 1]
    BY <1>3, NowSeen
  <2> HIDE DEF s
  <2>2. SinkInv(saw(call), events) /\ saw(call).saw
    BY NowSeen
  <2>3. s.think \in 1 .. Len(s.node) /\ SinkInv(s, events) /\ s.saw
    BY <2>1, <2>2, ThinkBegun
  <2>4. QED
    BY <1>1, <2>3, DeltaSent
<1>4. QED
  BY <1>2, <1>3

LEMMA ToolCallKept == ASSUME StreamInv, NEW k \in ItemKeys, OpenaiToolCall(k) PROVE SinkInv(call', events')
<1> DEFINE known == call.key[k] # NoNode
           s == IF known THEN saw(call) ELSE [Start(saw(call), ToolCall) EXCEPT !.key[k] = newest(call) + 1]
<1>1. Delta(s, doc, s.key[k], piece1) /\ events' = events + 1
  BY DEF OpenaiToolCall, Receives
<1>2. CASE known
  <2>1. s = saw(call) /\ call.key[k] # NoNode
    BY <1>2
  <2> HIDE DEF s
  <2>2. s.key[k] \in 1 .. Len(s.node) /\ SinkInv(s, events) /\ s.saw
    BY <2>1, NowSeen DEF Pointers, NoNode
  <2>3. QED
    BY <1>1, <2>2, DeltaSent
<1>3. CASE ~known
  <2>1. s = BegunAt(saw(call), ToolCall, k)
    BY <1>3, NowSeen DEF BegunAt
  <2> HIDE DEF s
  <2>2. s.key[k] \in 1 .. Len(s.node) /\ SinkInv(s, events) /\ s.saw
    BY <2>1, NowSeen, KeyBegun DEF Kinds
  <2>3. QED
    BY <1>1, <2>2, DeltaSent
<1>4. QED
  BY <1>2, <1>3

LEMMA DetailsKept == ASSUME StreamInv, OpenaiDetails PROVE SinkInv(call', events')
<1> DEFINE s == saw(call)
<1>1. SinkInv(s, events) /\ s.saw /\ events \in Nat
  BY NowSeen
<1>2. call' = [s EXCEPT !.details = TRUE] /\ events' = events + 1
  BY DEF OpenaiDetails, Receives
<1> HIDE DEF s
<1>3. s \in CallRec /\ Pointers(s)
  BY <1>1 DEF SinkInv
<1>4. /\ call' \in CallRec /\ call'.node = s.node /\ call'.order = s.order /\ call'.got = s.got /\ call'.saw = s.saw
      /\ call'.key = s.key /\ call'.think = s.think /\ call'.text = s.text
  BY <1>2, <1>3 DEF CallRec
<1>5. Pointers(call')
  BY <1>3, <1>4 DEF Pointers
<1>6. SinkInv(call', events)
  BY <1>1, <1>4, <1>5, SameNodes
<1>7. QED
  BY <1>1, <1>2, <1>6, SinkLater

\* A failure a responses endpoint reports.
LEMMA FailureKept == ASSUME StreamInv, ResponsesFailed PROVE SinkInv(call', events')
<1>1. call' = [call EXCEPT !.failure = TRUE] /\ events' = events + 1 /\ events \in Nat /\ SinkInv(call, events)
  BY DEF ResponsesFailed, Receives, StreamInv
<1>2. call \in CallRec /\ Pointers(call)
  BY <1>1 DEF SinkInv
<1>3. /\ call' \in CallRec /\ call'.node = call.node /\ call'.order = call.order /\ call'.got = call.got
      /\ call'.saw = call.saw /\ call'.key = call.key /\ call'.think = call.think /\ call'.text = call.text
  BY <1>1, <1>2 DEF CallRec
<1>4. Pointers(call')
  BY <1>2, <1>3 DEF Pointers
<1>5. SinkInv(call', events)
  BY <1>1, <1>3, <1>4, SameNodes
<1>6. QED
  BY <1>1, <1>5, SinkLater

\* A block that is open is announced as it stops.
LEMMA BlockStopped ==
  ASSUME StreamInv, NEW k \in ItemKeys, blockOpen(k), NEW p, p.s = saw(call)
  PROVE  SinkInv(Announced(p, block(k)).s, events) /\ Announced(p, block(k)).s.saw
<1>1. block(k) \in 1 .. Len(p.s.node) /\ SinkInv(p.s, events) /\ p.s.saw /\ gone \in BOOLEAN /\ events \in Nat
  BY NowSeen DEF blockOpen, block, Pointers, NoNode
<1>2. SinkInv(Announced(p, block(k)).s, events) /\ SameFields(p.s, Announced(p, block(k)).s)
  BY <1>1, AnnouncedKept
<1>3. QED
  BY <1>1, <1>2 DEF SameFields

\* The events of an anthropic endpoint.
LEMMA BlockStartKept ==
  ASSUME StreamInv, NEW k \in ItemKeys, NEW kind \in Kinds, AnthropicStart(k, kind) PROVE SinkInv(call', events')
<1> DEFINE p0 == [Now EXCEPT !.s = saw(@)]
           p == IF blockOpen(k) THEN Announced(p0, block(k)) ELSE p0
           b == [Start(p.s, kind) EXCEPT !.key[k] = newest(p.s) + 1]
<1>1. Becomes([p EXCEPT !.s = [Start(@, kind) EXCEPT !.key[k] = newest(p.s) + 1]]) /\ events' = events + 1
  BY DEF AnthropicStart, Receives
<1>2. p0.s = saw(call)
  BY NowSeen
<1>3. SinkInv(p.s, events) /\ p.s.saw /\ events \in Nat
  <2>1. CASE blockOpen(k)
    <3>1. p = Announced(p0, block(k))
      BY <2>1
    <3> HIDE DEF p, p0
    <3>2. QED
      BY <1>2, <2>1, <3>1, BlockStopped, NowSeen
  <2>2. CASE ~blockOpen(k)
    BY <1>2, <2>2, NowSeen
  <2>3. QED
    BY <2>1, <2>2
<1>4. "s" \in DOMAIN p
  <2>1. "s" \in DOMAIN p0
    BY DEF Now
  <2>2. "s" \in DOMAIN Announced(p0, block(k))
    BY DEF Announced
  <2> HIDE DEF p0
  <2>3. QED
    BY <2>1, <2>2
<1>5. [p EXCEPT !.s = [Start(@, kind) EXCEPT !.key[k] = newest(p.s) + 1]] = [p EXCEPT !.s = b]
  OBVIOUS
<1>6. b = BegunAt(p.s, kind, k)
  BY DEF newest, BegunAt
<1> HIDE DEF p, b
<1>7. call' = b
  BY <1>1, <1>4, <1>5 DEF Becomes
<1>8. SinkInv(b, events)
  BY <1>3, <1>6, KeyBegun
<1>9. QED
  BY <1>1, <1>3, <1>7, <1>8, SinkLater

LEMMA BlockDeltaKept ==
  ASSUME StreamInv, NEW k \in ItemKeys, NEW kind \in Kinds, AnthropicDelta(k, kind) PROVE SinkInv(call', events')
<1> DEFINE s == IF block(k) # NoNode THEN saw(call)
                ELSE [Start(saw(call), kind) EXCEPT !.key[k] = newest(call) + 1]
<1>1. events' = events + 1 /\ events \in Nat
  BY NowSeen DEF AnthropicDelta, Receives
<1>2. CASE block(k) = NoNode /\ kind = ToolCall
  <2>1. call' = saw(call)
    BY <1>2 DEF AnthropicDelta
  <2>2. QED
    BY <1>1, <2>1, NowSeen, SinkLater
<1>3. CASE ~(block(k) = NoNode /\ kind = ToolCall)
  <2>1. Delta(s, doc, s.key[k], piece1)
    BY <1>3 DEF AnthropicDelta
  <2>2. CASE block(k) # NoNode
    <3>1. s = saw(call) /\ call.key[k] # NoNode
      BY <2>2 DEF block
    <3> HIDE DEF s
    <3>2. s.key[k] \in 1 .. Len(s.node) /\ SinkInv(s, events) /\ s.saw
      BY <3>1, NowSeen DEF Pointers, NoNode
    <3>3. QED
      BY <1>1, <2>1, <3>2, DeltaSent
  <2>3. CASE block(k) = NoNode
    <3>1. s = BegunAt(saw(call), kind, k)
      BY <2>3, NowSeen DEF BegunAt
    <3> HIDE DEF s
    <3>2. s.key[k] \in 1 .. Len(s.node) /\ SinkInv(s, events) /\ s.saw
      BY <3>1, NowSeen, KeyBegun
    <3>3. QED
      BY <1>1, <2>1, <3>2, DeltaSent
  <2>4. QED
    BY <2>2, <2>3
<1>4. QED
  BY <1>2, <1>3

LEMMA SignatureKept == ASSUME StreamInv, NEW k \in ItemKeys, AnthropicSignature(k) PROVE SinkInv(call', events')
<1> DEFINE s == saw(call)
<1>1. call' = [s EXCEPT !.node[block(k)].blob = TRUE] /\ events' = events + 1
  BY DEF AnthropicSignature, Receives
<1>2. block(k) \in 1 .. Len(s.node) /\ SinkInv(s, events) /\ events \in Nat
  BY NowSeen DEF AnthropicSignature, blockOpen, block, Pointers, NoNode
<1> HIDE DEF s
<1>3. SinkInv([s EXCEPT !.node[block(k)].blob = TRUE], events)
  BY <1>2, BlobKept
<1>4. QED
  BY <1>1, <1>2, <1>3, SinkLater

LEMMA BlockStopKept == ASSUME StreamInv, NEW k \in ItemKeys, AnthropicStop(k) PROVE SinkInv(call', events')
<1> DEFINE p0 == [Now EXCEPT !.s = saw(@)]
<1>1. events' = events + 1 /\ events \in Nat
  BY NowSeen DEF AnthropicStop, Receives
<1>2. CASE blockOpen(k)
  <2>1. call' = Announced(p0, block(k)).s
    BY <1>2 DEF AnthropicStop, Becomes
  <2>2. p0.s = saw(call)
    BY NowSeen
  <2> HIDE DEF p0
  <2>3. SinkInv(Announced(p0, block(k)).s, events)
    BY <1>2, <2>2, BlockStopped
  <2>4. QED
    BY <1>1, <2>1, <2>3, SinkLater
<1>3. CASE ~blockOpen(k)
  <2>1. call' = saw(call)
    BY <1>3 DEF AnthropicStop
  <2>2. QED
    BY <1>1, <2>1, NowSeen, SinkLater
<1>4. QED
  BY <1>2, <1>3

\* The events of a responses endpoint.
LEMMA ItemAddedKept ==
  ASSUME StreamInv, NEW k \in ItemKeys \cup {NoKey}, NEW kind \in Kinds, ResponsesAdded(k, kind)
  PROVE  SinkInv(call', events')
<1>1. call' = makeNode(saw(call), k, kind) /\ events' = events + 1 /\ events \in Nat
  BY NowSeen DEF ResponsesAdded, Receives
<1>2. SinkInv(makeNode(saw(call), k, kind), events)
  BY NowSeen, NodeMade
<1>3. QED
  BY <1>1, <1>2, SinkLater

LEMMA ItemDeltaKept ==
  ASSUME StreamInv, NEW k \in ItemKeys \cup {NoKey}, NEW kind \in Kinds, ResponsesDelta(k, kind)
  PROVE  SinkInv(call', events')
<1> DEFINE f == nodeFor(k, kind)
<1>1. Delta(f.s, doc, f.n, piece1) /\ events' = events + 1
  BY DEF ResponsesDelta, Receives
<1>2. SinkInv(f.s, events) /\ f.s.saw /\ f.n \in 1 .. Len(f.s.node)
  BY NodeForItem DEF StreamInv
<1> HIDE DEF f
<1>3. QED
  BY <1>1, <1>2, DeltaSent

\* An item's end keeps what streamed, if only as a revision.
itemEnd(f, final, kind) ==
  LET value == IF final = "as streamed" THEN f.value
               ELSE IF final = "corrected" THEN <<Correction>> ELSE <<>>
      ended == IF value # <<>> \/ f.value = <<>> \/ kind = ToolCall THEN FinishWith(f, value) ELSE f
  IN IF kind = Thinking THEN [ended EXCEPT !.blob = TRUE] ELSE ended

\* What a field holds when its item ends with a text of its own.
LEMMA ItemEndHeld ==
  ASSUME NEW f \in FieldRec, ~f.done, NEW final \in Finals, NEW kind
  PROVE  /\ itemEnd(f, final, kind) \in FieldRec /\ held(f) \subseteq held(itemEnd(f, final, kind))
         /\ held(itemEnd(f, final, kind)) \subseteq held(f) \cup {Correction}
<1> DEFINE value == IF final = "as streamed" THEN f.value
                    ELSE IF final = "corrected" THEN <<Correction>> ELSE <<>>
           ended == IF value # <<>> \/ f.value = <<>> \/ kind = ToolCall THEN FinishWith(f, value) ELSE f
           full == IF kind = Thinking THEN [ended EXCEPT !.blob = TRUE] ELSE ended
<1>1. /\ value \in Seq(Int)
      /\ \A i \in 1 .. Len(value) : value[i] = Correction \/ (i \in 1 .. Len(f.value) /\ value[i] = f.value[i])
  <2>1. CASE final = "as streamed"
    BY <2>1, FieldTypes
  <2>2. CASE final = "corrected"
    <3>1. value = <<Correction>>
      BY <2>2
    <3>2. <<Correction>> \in Seq(Int) /\ Len(<<Correction>>) = 1 /\ <<Correction>>[1] = Correction
      BY DEF Correction
    <3> HIDE DEF value
    <3>3. QED
      BY <3>1, <3>2
  <2>3. CASE final # "as streamed" /\ final # "corrected"
    <3>1. value = <<>>
      BY <2>3
    <3> HIDE DEF value
    <3>2. QED
      BY <3>1
  <2>4. QED
    BY <2>1, <2>2, <2>3
<1> HIDE DEF value
<1>2. /\ FinishWith(f, value) \in FieldRec /\ held(f) \subseteq held(FinishWith(f, value))
      /\ held(FinishWith(f, value)) \subseteq held(f) \cup {Correction}
  BY <1>1, FinalHeld
<1>3. ended = FinishWith(f, value) \/ ended = f
  OBVIOUS
<1> HIDE DEF ended
<1>4. ended \in FieldRec /\ held(f) \subseteq held(ended) /\ held(ended) \subseteq held(f) \cup {Correction}
  BY <1>2, <1>3
<1>5. [ended EXCEPT !.blob = TRUE] \in FieldRec /\ held([ended EXCEPT !.blob = TRUE]) = held(ended)
  BY <1>4, BlobHeld
<1>6. full = ended \/ full = [ended EXCEPT !.blob = TRUE]
  OBVIOUS
<1> HIDE DEF full
<1>7. full \in FieldRec /\ held(f) \subseteq held(full) /\ held(full) \subseteq held(f) \cup {Correction}
  BY <1>4, <1>5, <1>6
<1>8. full = itemEnd(f, final, kind)
  BY DEF full, ended, value, itemEnd
<1>9. QED
  BY <1>7, <1>8

LEMMA ItemDoneKept ==
  ASSUME StreamInv, NEW k \in ItemKeys \cup {NoKey}, NEW kind \in Kinds, NEW final \in Finals,
         ResponsesDone(k, kind, final)
  PROVE  SinkInv(call', events')
<1> DEFINE f == nodeFor(k, kind)
           field == f.s.node[f.n]
           value == IF final = "as streamed" THEN field.value
                    ELSE IF final = "corrected" THEN <<Correction>> ELSE <<>>
           ended == IF value # <<>> \/ field.value = <<>> \/ kind = ToolCall THEN FinishWith(field, value) ELSE field
           full == IF kind = Thinking THEN [ended EXCEPT !.blob = TRUE] ELSE ended
           p == [s |-> [f.s EXCEPT !.node[f.n] = full], d |-> doc]
<1>1. Becomes(Announced(p, f.n)) /\ events' = events + 1 /\ ~field.done
  BY DEF ResponsesDone, Receives
<1>2. SinkInv(f.s, events) /\ f.s.saw /\ f.n \in 1 .. Len(f.s.node) /\ events \in Nat /\ gone \in BOOLEAN
  BY NodeForItem DEF StreamInv
<1> HIDE DEF f
<1>3. field \in FieldRec
  BY <1>2, CallTypes DEF SinkInv
<1> HIDE DEF field
<1>4. full \in FieldRec /\ held(field) \subseteq held(full) /\ held(full) \subseteq held(field) \cup {Correction}
  <2>1. full = itemEnd(field, final, kind)
    BY DEF itemEnd
  <2> HIDE DEF full
  <2>2. QED
    BY <1>1, <1>3, <2>1, ItemEndHeld
<1> HIDE DEF full
<1>5. SinkInv(p.s, events) /\ Len(p.s.node) = Len(f.s.node)
  <2>1. p.s = NodeAt(f.s, f.n, full)
    BY DEF NodeAt
  <2>2. held(f.s.node[f.n]) \subseteq held(full) /\ held(full) \subseteq held(f.s.node[f.n]) \cup {Correction}
    BY <1>4 DEF field
  <2> HIDE DEF p
  <2>3. /\ SinkInv(NodeAt(f.s, f.n, full), events)
        /\ Len(NodeAt(f.s, f.n, full).node) = Len(f.s.node)
    <3>1. FieldMore(f.s, events, f.n, full)
      BY <1>2, <1>4, <2>2 DEF FieldMore
    <3>2. QED
      BY <3>1, FieldSwapped
  <2>4. QED
    BY <2>1, <2>3
<1> HIDE DEF p
<1>6. SinkInv(Announced(p, f.n).s, events)
  BY <1>2, <1>5, AnnouncedKept
<1>7. call' = Announced(p, f.n).s
  BY <1>1 DEF Becomes
<1>8. QED
  BY <1>1, <1>2, <1>6, <1>7, SinkLater

\* One sequence after the other, place by place.
LEMMA OneAfterOther ==
  ASSUME NEW a \in Seq(Int), NEW b \in Seq(Int)
  PROVE  /\ a \o b \in Seq(Int) /\ Len(a \o b) = Len(a) + Len(b)
         /\ \A i \in 1 .. Len(a) : i \in 1 .. Len(a \o b) /\ (a \o b)[i] = a[i]
         /\ \A i \in 1 .. Len(b) : Len(a) + i \in 1 .. Len(a \o b) /\ (a \o b)[Len(a) + i] = b[i]
         /\ \A i \in 1 .. Len(a \o b) : \/ i \in 1 .. Len(a)
                                        \/ (i - Len(a) \in 1 .. Len(b) /\ (a \o b)[i] = b[i - Len(a)])
<1>1. Len(a) \in Nat /\ Len(b) \in Nat
  OBVIOUS
<1>2. /\ a \o b \in Seq(Int) /\ Len(a \o b) = Len(a) + Len(b)
      /\ \A i \in 1 .. Len(a) + Len(b) : (a \o b)[i] = IF i <= Len(a) THEN a[i] ELSE b[i - Len(a)]
  OBVIOUS
<1> DEFINE v == a \o b
<1> HIDE DEF v
<1>3. /\ v \in Seq(Int) /\ Len(v) = Len(a) + Len(b)
      /\ \A i \in 1 .. Len(v) : v[i] = IF i <= Len(a) THEN a[i] ELSE b[i - Len(a)]
  BY <1>2 DEF v
<1>4. ASSUME NEW i \in 1 .. Len(a) PROVE i \in 1 .. Len(v) /\ v[i] = a[i]
  BY <1>1, <1>3
<1>5. ASSUME NEW i \in 1 .. Len(b) PROVE Len(a) + i \in 1 .. Len(v) /\ v[Len(a) + i] = b[i]
  <2>1. Len(a) + i \in 1 .. Len(v) /\ ~(Len(a) + i <= Len(a)) /\ (Len(a) + i) - Len(a) = i
    BY <1>1, <1>3
  <2>2. QED
    BY <1>3, <2>1
<1>6. ASSUME NEW i \in 1 .. Len(v)
      PROVE  i \in 1 .. Len(a) \/ (i - Len(a) \in 1 .. Len(b) /\ v[i] = b[i - Len(a)])
  BY <1>1, <1>3
<1>7. QED
  BY <1>3, <1>4, <1>5, <1>6 DEF v

\* A field that gains text holds that besides.
LEMMA TextHeld ==
  ASSUME NEW f \in FieldRec, NEW more \in Seq(Int)
  PROVE  /\ [f EXCEPT !.value = f.value \o more] \in FieldRec
         /\ held([f EXCEPT !.value = f.value \o more]) = held(f) \cup {more[i] : i \in 1 .. Len(more)}
<1> DEFINE v == f.value \o more
           g == [f EXCEPT !.value = f.value \o more]
<1>1. f.value \in Seq(Int) /\ Len(f.value) \in Nat /\ Len(more) \in Nat
  BY FieldTypes
<1>2. /\ v \in Seq(Int) /\ Len(v) = Len(f.value) + Len(more)
      /\ \A i \in 1 .. Len(f.value) : i \in 1 .. Len(v) /\ v[i] = f.value[i]
      /\ \A i \in 1 .. Len(more) : Len(f.value) + i \in 1 .. Len(v) /\ v[Len(f.value) + i] = more[i]
      /\ \A i \in 1 .. Len(v) : \/ i \in 1 .. Len(f.value)
                                \/ (i - Len(f.value) \in 1 .. Len(more) /\ v[i] = more[i - Len(f.value)])
  BY <1>1, OneAfterOther
<1>3. g = [f EXCEPT !.value = v]
  OBVIOUS
<1> HIDE DEF v, g
<1>4. g \in FieldRec /\ g.value = v /\ g.revs = f.revs
  BY <1>2, <1>3 DEF FieldRec
<1>5. ASSUME NEW x \in held(g) PROVE x \in held(f) \cup {more[i] : i \in 1 .. Len(more)}
  <2>1. \/ \E i \in 1 .. Len(v) : x = v[i]
        \/ \E j \in 1 .. Len(f.revs) : \E i \in 1 .. Len(f.revs[j]) : x = f.revs[j][i]
    <3>1. \/ \E i \in 1 .. Len(g.value) : x = g.value[i]
          \/ \E j \in 1 .. Len(g.revs) : \E i \in 1 .. Len(g.revs[j]) : x = g.revs[j][i]
      BY <1>4, <1>5, HeldIs
    <3>2. QED
      BY <1>4, <3>1
  <2>2. CASE \E i \in 1 .. Len(v) : x = v[i]
    <3>1. PICK i \in 1 .. Len(v) : x = v[i]
      BY <2>2
    <3>2. CASE i \in 1 .. Len(f.value)
      BY <1>2, <3>1, <3>2, HeldIs
    <3>3. CASE i - Len(f.value) \in 1 .. Len(more) /\ v[i] = more[i - Len(f.value)]
      BY <3>1, <3>3
    <3>4. QED
      BY <1>2, <3>2, <3>3
  <2>3. CASE \E j \in 1 .. Len(f.revs) : \E i \in 1 .. Len(f.revs[j]) : x = f.revs[j][i]
    BY <2>3, HeldIs
  <2>4. QED
    BY <2>1, <2>2, <2>3
<1>6. ASSUME NEW x \in held(f) PROVE x \in held(g)
  <2>1. \/ \E i \in 1 .. Len(f.value) : x = f.value[i]
        \/ \E j \in 1 .. Len(f.revs) : \E i \in 1 .. Len(f.revs[j]) : x = f.revs[j][i]
    BY <1>6, HeldIs
  <2>2. CASE \E i \in 1 .. Len(f.value) : x = f.value[i]
    BY <1>2, <1>4, <2>2, HeldIs
  <2>3. CASE \E j \in 1 .. Len(f.revs) : \E i \in 1 .. Len(f.revs[j]) : x = f.revs[j][i]
    BY <1>4, <2>3, HeldIs
  <2>4. QED
    BY <2>1, <2>2, <2>3
<1>7. ASSUME NEW i \in 1 .. Len(more) PROVE more[i] \in held(g)
  BY <1>2, <1>4, <1>7, HeldIs
<1>8. QED
  BY <1>4, <1>5, <1>6, <1>7 DEF g

\* The text of a completions endpoint goes to its only node.
LEMMA CompletionsKept ==
  ASSUME StreamInv, Len(call.node) <= 1, call.text = NoNode => Len(call.node) = 0,
         NEW more \in {<<piece1>>, <<Blank, piece1>>}, CompletionsText(more)
  PROVE  SinkInv(call', events') /\ Len(call'.node) = 1 /\ call'.text # NoNode
<1> DEFINE s == IF call.text # NoNode THEN saw(call) ELSE [Start(saw(call), Text) EXCEPT !.text = newest(call) + 1]
           n == s.text
           f == s.node[n]
           g == [f EXCEPT !.value = f.value \o more]
           changed == [s.node EXCEPT ![n] = g]
           brought == {more[i] : i \in 1 .. Len(more)}
<1>1. /\ call' = [s EXCEPT !.node = changed, !.got = s.got \cup {piece1}, !.err = gone]
      /\ events' = events + 1 /\ events \in Nat /\ gone \in BOOLEAN /\ piece1 = events + 1
  BY NowSeen DEF CompletionsText, Receives, piece1
<1>2. SinkInv(s, events) /\ s.saw /\ n \in 1 .. Len(s.node) /\ Len(s.node) = 1
  <2>1. CASE call.text # NoNode
    <3>1. s = saw(call)
      BY <2>1
    <3>2. Len(call.node) \in Nat /\ Pointers(call)
      BY NowSeen
    <3>3. call.text \in 1 .. Len(call.node) /\ Len(call.node) = 1
      <4>1. call.text \in 0 .. Len(call.node) /\ call.text # 0
        BY <2>1, <3>2 DEF Pointers, NoNode
      <4>2. \A m \in Nat : m <= 1 /\ call.text \in 0 .. m /\ call.text # 0 => call.text \in 1 .. m /\ m = 1
        OBVIOUS
      <4>3. QED
        BY <3>2, <4>1, <4>2
    <3>4. SinkInv(saw(call), events) /\ saw(call).saw /\ saw(call).node = call.node /\ saw(call).text = call.text
      BY NowSeen
    <3> HIDE DEF s
    <3>5. QED
      BY <3>1, <3>3, <3>4
  <2>2. CASE call.text = NoNode
    <3>1. s = [Start(saw(call), Text) EXCEPT !.text = Len(saw(call).node) + 1] /\ Len(saw(call).node) = 0
      BY <2>2, NowSeen
    <3>2. SinkInv(saw(call), events) /\ saw(call).saw
      BY NowSeen
    <3> HIDE DEF s
    <3>3. SinkInv(s, events) /\ s.saw = saw(call).saw /\ s.text \in 1 .. Len(s.node)
          /\ Len(s.node) = Len(saw(call).node) + 1
      BY <3>1, <3>2, TextBegun
    <3>4. Len(saw(call).node) = 0
      BY <3>1
    <3>5. QED
      BY <3>2, <3>3, <3>4
  <2>3. QED
    BY <2>1, <2>2
<1> HIDE DEF s
<1>3. /\ s \in CallRec /\ s.node \in Seq(FieldRec) /\ f \in FieldRec /\ s.got \subseteq Nat /\ DOMAIN s.node = 1 .. Len(s.node)
  <2>1. s \in CallRec
    BY <1>2 DEF SinkInv
  <2>2. QED
    BY <1>2, <2>1, CallTypes
<1>4. /\ more \in Seq(Int) /\ brought \subseteq {Blank, events + 1} /\ events + 1 \in brought
  <2>1. CASE more = <<piece1>>
    BY <1>1, <2>1
  <2>2. CASE more = <<Blank, piece1>>
    <3>1. Len(more) = 2 /\ more[1] = Blank /\ more[2] = events + 1 /\ more \in Seq(Int)
      BY <1>1, <2>2 DEF Blank
    <3>2. QED
      BY <3>1
  <2>3. QED
    BY <2>1, <2>2
<1> HIDE DEF f
<1>5. g \in FieldRec /\ held(g) = held(f) \cup brought
  BY <1>3, <1>4, TextHeld
<1> HIDE DEF g, brought
<1>6. changed \in Seq(FieldRec) /\ s.got \cup {piece1} \subseteq Nat
  <2>1. changed \in Seq(FieldRec)
    <3> HIDE DEF n
    <3>1. s.node \in Seq(FieldRec) /\ g \in FieldRec /\ n \in 1 .. Len(s.node)
      BY <1>2, <1>3, <1>5
    <3>2. QED
      BY <3>1
  <2>2. QED
    BY <1>1, <1>3, <2>1
<1> HIDE DEF changed, n
<1>7. /\ call' \in CallRec /\ call'.node = changed /\ call'.order = s.order /\ call'.got = s.got \cup {piece1}
      /\ call'.saw = s.saw /\ call'.key = s.key /\ call'.think = s.think /\ call'.text = s.text
  BY <1>1, <1>3, <1>6 DEF CallRec
<1>8. NodeMore(s, events, events + 1, n, g, brought, call')
  <2>1. brought \subseteq {Blank} \cup (events + 1 .. events + 1) /\ brought \ {Blank} \subseteq held(g)
    BY <1>1, <1>4, <1>5
  <2>2. call'.node = [s.node EXCEPT ![n] = g]
    BY <1>7 DEF changed
  <2>3. call'.got \subseteq s.got \cup (brought \ {Blank})
    <3>1. events + 1 # Blank
      BY <1>1 DEF Blank
    <3>2. QED
      BY <1>1, <1>4, <1>7, <3>1
  <2>4. held(s.node[n]) \subseteq held(g) /\ held(g) \subseteq held(s.node[n]) \cup {Correction} \cup brought
    BY <1>5 DEF f
  <2>5. QED
    BY <1>1, <1>2, <1>5, <1>7, <2>1, <2>2, <2>3, <2>4 DEF NodeMore
<1>9. SinkInv(call', events') /\ Len(call'.node) = Len(s.node)
  <2>1. SinkInv(call', events + 1) /\ Len(call'.node) = Len(s.node)
    BY <1>8, NodeChanged
  <2>2. QED
    BY <1>1, <2>1
<1>10. call'.text # NoNode
  BY <1>2, <1>7 DEF n, NoNode
<1>11. QED
  BY <1>2, <1>9, <1>10

\* The end of the stream: structured reasoning finds its node, and every field ends.
LEMMA DetailsPlaced ==
  ASSUME NEW s, NEW e \in Nat, SinkInv(s, e)
  PROVE  SinkInv(withDetails(s), e) /\ withDetails(s).got = s.got /\ withDetails(s).saw = s.saw
<1> DEFINE t == withDetails(s)
<1>1. s \in CallRec /\ Pointers(s) /\ Len(s.node) \in Nat /\ s.node \in Seq(FieldRec) /\ s.order \in Seq(Nat)
  <2>1. s \in CallRec /\ Pointers(s)
    BY DEF SinkInv
  <2>2. QED
    BY <2>1, CallTypes
<1>2. CASE ~s.details
  <2>1. t = s
    BY <1>2 DEF withDetails
  <2> HIDE DEF t
  <2>2. QED
    BY <2>1 DEF t
<1>3. CASE s.details /\ s.think # NoNode
  <2>1. t = [s EXCEPT !.node[s.think].blob = TRUE]
    BY <1>3 DEF withDetails
  <2>2. s.think \in 1 .. Len(s.node)
    BY <1>1, <1>3 DEF Pointers, NoNode
  <2> HIDE DEF t
  <2>3. SinkInv(t, e)
    BY <2>1, <2>2, BlobKept
  <2>4. t.got = s.got /\ t.saw = s.saw
    BY <1>1, <2>1 DEF CallRec
  <2>5. QED
    BY <2>3, <2>4 DEF t
<1>4. CASE s.details /\ s.think = NoNode
  <2> DEFINE g == [Open(Thinking) EXCEPT !.blob = TRUE]
             more == Append(s.node, g)
             n == Len(s.node) + 1
             order == <<n>> \o s.order
  <2>1. t = [s EXCEPT !.node = more, !.think = n, !.order = order]
    BY <1>4 DEF withDetails
  <2>2. g \in FieldRec /\ held(g) = {}
    BY OpenHolds DEF Kinds
  <2>3. more \in Seq(FieldRec) /\ Len(more) = n /\ order \in Seq(Nat) /\ n \in Nat
    <3> HIDE DEF g
    <3>1. QED
      BY <1>1, <2>2
  <2> HIDE DEF t, more, order, g
  <2>4. /\ t \in CallRec /\ t.node = more /\ t.order = order /\ t.got = s.got /\ t.saw = s.saw
        /\ t.key = s.key /\ t.think = n /\ t.text = s.text
    BY <1>1, <2>1, <2>3 DEF CallRec
  <2>5. Pointers(t)
    BY <1>1, <2>3, <2>4 DEF Pointers
  <2>6. SinkInv(t, e)
    BY <2>2, <2>4, <2>5, NodeBegun DEF more, order
  <2>7. QED
    BY <2>4, <2>6 DEF t
<1>5. QED
  BY <1>2, <1>3, <1>4

\* Every node holds what it held.
LEMMA SameHeld ==
  ASSUME NEW s, NEW e, SinkInv(s, e), NEW t \in CallRec, Pointers(t), Len(t.node) = Len(s.node),
         \A m \in 1 .. Len(s.node) : held(t.node[m]) = held(s.node[m]),
         t.order = s.order, t.got = s.got, s.saw => t.saw
  PROVE  SinkInv(t, e)
<1>1. Ordered(s) /\ Heard(s, e) /\ HeldOnce(s)
  BY DEF SinkInv
<1>2. Ordered(t)
  BY <1>1 DEF Ordered
<1>3. HeldOnce(t)
  BY <1>1 DEF HeldOnce
<1>4. Heard(t, e)
  <2>1. \A m \in 1 .. Len(t.node) : held(t.node[m]) \subseteq 1 .. e \cup {Blank, Correction}
    BY <1>1 DEF Heard
  <2>2. ASSUME NEW x \in t.got PROVE \E m \in 1 .. Len(t.node) : x \in held(t.node[m])
    <3>1. PICK m \in 1 .. Len(s.node) : x \in held(s.node[m])
      BY <1>1, <2>2 DEF Heard
    <3>2. QED
      BY <3>1
  <2>3. QED
    BY <1>1, <2>1, <2>2 DEF Heard
<1>5. QED
  BY <1>2, <1>3, <1>4 DEF SinkInv

\* The nodes finished when the stream is over.
LEMMA AllFinishedKept ==
  ASSUME NEW s, NEW e \in Nat, SinkInv(s, e)
  PROVE  SinkInv(allFinished(s), e) /\ allFinished(s).got = s.got /\ allFinished(s).saw = s.saw
<1> DEFINE t == allFinished(s)
           ended == [n \in DOMAIN s.node |-> FinishNode(s.node[n])]
<1>1. /\ s \in CallRec /\ Pointers(s) /\ Len(s.node) \in Nat /\ DOMAIN s.node = 1 .. Len(s.node)
      /\ \A m \in 1 .. Len(s.node) : s.node[m] \in FieldRec
  <2>1. s \in CallRec /\ Pointers(s)
    BY DEF SinkInv
  <2>2. QED
    BY <2>1, CallTypes
<1>2. \A m \in 1 .. Len(s.node) : FinishNode(s.node[m]) \in FieldRec /\ held(FinishNode(s.node[m])) = held(s.node[m])
  BY <1>1, EndedHeld
<1>3. /\ DOMAIN ended = 1 .. Len(s.node) /\ \A m \in 1 .. Len(s.node) : ended[m] = FinishNode(s.node[m])
  BY <1>1
<1>4. ended \in Seq(FieldRec) /\ Len(ended) = Len(s.node)
  <2>1. ended = [n \in 1 .. Len(s.node) |-> FinishNode(s.node[n])]
    BY <1>1
  <2>2. ended \in [1 .. Len(s.node) -> FieldRec]
    BY <1>2, <2>1
  <2> HIDE DEF ended
  <2>3. QED
    BY <1>1, <1>3, <2>2
<1>5. t = [s EXCEPT !.node = ended]
  BY DEF allFinished
<1> HIDE DEF t, ended
<1>6. /\ t \in CallRec /\ t.node = ended /\ t.order = s.order /\ t.got = s.got /\ t.saw = s.saw
      /\ t.key = s.key /\ t.think = s.think /\ t.text = s.text
  BY <1>1, <1>4, <1>5 DEF CallRec
<1>7. Pointers(t)
  BY <1>1, <1>4, <1>6 DEF Pointers
<1>8. SinkInv(t, e)
  BY <1>2, <1>3, <1>4, <1>6, <1>7, SameHeld
<1>9. QED
  BY <1>6, <1>8 DEF t

LEMMA FinishedKept ==
  ASSUME StreamInv
  PROVE  SinkInv(finished(call), events) /\ finished(call).got = call.got /\ finished(call).saw = call.saw
<1> DEFINE s == IF dialect = "openai" THEN withDetails(call) ELSE call
<1>1. SinkInv(s, events) /\ s.got = call.got /\ s.saw = call.saw /\ events \in Nat
  BY DetailsPlaced DEF StreamInv
<1>2. finished(call) = allFinished(s)
  BY DEF finished
<1> HIDE DEF s
<1>3. SinkInv(allFinished(s), events) /\ allFinished(s).got = s.got /\ allFinished(s).saw = s.saw
  BY <1>1, AllFinishedKept
<1>4. QED
  BY <1>1, <1>2, <1>3

\* The parts of the message, place by place.
LEMMA MessageByPlace ==
  ASSUME NEW s, Len(s.order) \in Nat
  PROVE  \E f : Places("message", s, <<>>, f, Len(s.order)) /\ MessageFromNodes(s) = f[Len(s.order)]
<1> DEFINE entry(f, i) == IF i = 0 THEN <<>>
                         ELSE LET g == s.node[s.order[i]]
                              IN  IF isPart(g) THEN Append(f[i - 1], partOf(g)) ELSE f[i - 1]
           Made(f) == f = [i \in 0 .. Len(s.order) |-> entry(f, i)]
           parts == CHOOSE f : Made(f)
<1>1. MessageFromNodes(s) = parts[Len(s.order)]
  BY Zenon DEF MessageFromNodes
<1>2. \A f, i : entry(f, i) = IF i = 0 THEN <<>> ELSE place("message", s, i, f[i - 1])
  BY DEF place
<1> HIDE DEF entry
<1>3. \A f : Made(f) <=> Places("message", s, <<>>, f, Len(s.order))
  <2> TAKE f
  <2>1. [i \in 0 .. Len(s.order) |-> entry(f, i)]
          = [i \in 0 .. Len(s.order) |-> IF i = 0 THEN <<>> ELSE place("message", s, i, f[i - 1])]
    BY <1>2
  <2>2. QED
    BY <2>1 DEF Places
<1> HIDE DEF Made
<1>4. \E f : Made(f)
  BY <1>3, PlaceByPlace
<1>5. Made(parts)
  BY <1>4
<1> HIDE DEF parts
<1>6. QED
  BY <1>1, <1>3, <1>5

\* What is announced at the end, place by place.
LEMMA ToldByPlace ==
  ASSUME NEW p, Len(p.s.order) \in Nat
  PROVE  \E f : Places("told", p.s, p, f, Len(p.s.order)) /\ announceRemaining(p) = f[Len(p.s.order)]
<1> DEFINE entry(f, i) == IF i = 0 THEN p
                         ELSE IF p.s.order[i] \in f[i - 1].s.announced THEN f[i - 1]
                              ELSE Announced(f[i - 1], p.s.order[i])
           Made(f) == f = [i \in 0 .. Len(p.s.order) |-> entry(f, i)]
           upTo == CHOOSE f : Made(f)
<1>1. announceRemaining(p) = upTo[Len(p.s.order)]
  BY Zenon DEF announceRemaining
<1>2. \A f, i : entry(f, i) = IF i = 0 THEN p ELSE place("told", p.s, i, f[i - 1])
  BY DEF place
<1> HIDE DEF entry
<1>3. \A f : Made(f) <=> Places("told", p.s, p, f, Len(p.s.order))
  <2> TAKE f
  <2>1. [i \in 0 .. Len(p.s.order) |-> entry(f, i)]
          = [i \in 0 .. Len(p.s.order) |-> IF i = 0 THEN p ELSE place("told", p.s, i, f[i - 1])]
    BY <1>2
  <2>2. QED
    BY <2>1 DEF Places
<1> HIDE DEF Made
<1>4. \E f : Made(f)
  BY <1>3, PlaceByPlace
<1>5. Made(upTo)
  BY <1>4
<1> HIDE DEF upTo
<1>6. QED
  BY <1>1, <1>3, <1>5

\* The message has the text of every node that is a part of it.
LEMMA MessageHasParts ==
  ASSUME NEW s \in CallRec, \A i \in 1 .. Len(s.order) : s.order[i] \in 1 .. Len(s.node)
  PROVE  /\ MessageFromNodes(s) \in Seq(PartRec)
         /\ \A i \in 1 .. Len(s.order) : isPart(s.node[s.order[i]]) =>
               \E j \in 1 .. Len(MessageFromNodes(s)) : MessageFromNodes(s)[j].text = s.node[s.order[i]].value
<1>1. Len(s.order) \in Nat /\ \A n \in 1 .. Len(s.node) : s.node[n] \in FieldRec
  BY CallTypes
<1>2. PICK f : Places("message", s, <<>>, f, Len(s.order)) /\ MessageFromNodes(s) = f[Len(s.order)]
  BY <1>1, MessageByPlace
<1>3. f[0] = <<>> /\ \A i \in 1 .. Len(s.order) : f[i] = place("message", s, i, f[i - 1])
  <2> DEFINE n == Len(s.order)
             first == <<>>
             list == "message"
  <2>1. n \in Nat /\ Places(list, s, first, f, n)
    BY <1>1, <1>2
  <2> HIDE DEF n, first, list
  <2>2. f[0] = first /\ \A i \in 1 .. n : f[i] = place(list, s, i, f[i - 1])
    BY <2>1, PlaceSteps
  <2>3. n = Len(s.order) /\ first = <<>> /\ list = "message"
    BY DEF n, first, list
  <2>4. QED
    BY <2>2, <2>3
<1> DEFINE Has(k) == /\ f[k] \in Seq(PartRec)
                     /\ \A i \in 1 .. k : isPart(s.node[s.order[i]]) =>
                           \E j \in 1 .. Len(f[k]) : f[k][j].text = s.node[s.order[i]].value
<1>4. Has(0)
  <2>1. f[0] \in Seq(PartRec)
    <3>1. f[0] = <<>>
      BY <1>3
    <3>2. QED
      BY <3>1
  <2>2. 1 .. 0 = {}
    OBVIOUS
  <2>3. QED
    BY <2>1, <2>2
<1>5. ASSUME NEW k \in 1 .. Len(s.order), Has(k - 1) PROVE Has(k)
  <2> DEFINE g == s.node[s.order[k]]
             earlier == f[k - 1]
  <2>1. g \in FieldRec /\ f[k] = IF isPart(g) THEN Append(earlier, partOf(g)) ELSE earlier
    BY <1>1, <1>3 DEF place
  <2>2. partOf(g) \in PartRec /\ partOf(g).text = g.value
    <3>1. partOf(g) = [kind |-> g.kind, text |-> g.value, blob |-> g.blob]
      BY DEF partOf
    <3> HIDE DEF g
    <3>2. QED
      BY <2>1, <3>1, FieldTypes DEF PartRec
  <2>3. /\ earlier \in Seq(PartRec)
        /\ \A i \in 1 .. k - 1 : isPart(s.node[s.order[i]]) =>
              \E j \in 1 .. Len(earlier) : earlier[j].text = s.node[s.order[i]].value
    BY <1>5
  <2>4. \A i \in 1 .. k : i = k \/ i \in 1 .. k - 1
    OBVIOUS
  <2>5. CASE isPart(g)
    <3>1. f[k] = Append(earlier, partOf(g))
      BY <2>1, <2>5
    <3> HIDE DEF earlier
    <3>2. /\ f[k] \in Seq(PartRec) /\ Len(f[k]) = Len(earlier) + 1 /\ f[k][Len(earlier) + 1] = partOf(g)
          /\ \A j \in 1 .. Len(earlier) : f[k][j] = earlier[j] /\ j \in 1 .. Len(f[k])
          /\ Len(earlier) + 1 \in 1 .. Len(f[k])
      BY <2>2, <2>3, <3>1, OneMore
    <3>3. ASSUME NEW i \in 1 .. k, isPart(s.node[s.order[i]])
          PROVE  \E j \in 1 .. Len(f[k]) : f[k][j].text = s.node[s.order[i]].value
      <4>1. CASE i = k
        BY <2>2, <3>2, <4>1
      <4>2. CASE i \in 1 .. k - 1
        <5>1. PICK j \in 1 .. Len(earlier) : earlier[j].text = s.node[s.order[i]].value
          BY <2>3, <3>3, <4>2
        <5>2. QED
          BY <3>2, <5>1
      <4>3. QED
        BY <2>4, <4>1, <4>2
    <3>4. QED
      BY <3>2, <3>3
  <2>6. CASE ~isPart(g)
    <3>1. f[k] = earlier
      BY <2>1, <2>6
    <3>2. QED
      BY <2>3, <2>4, <2>6, <3>1
  <2>7. QED
    BY <2>5, <2>6
<1>6. Has(Len(s.order))
  <2> DEFINE T == {k \in 0 .. Len(s.order) : ~Has(k)}
  <2> HIDE DEF Has
  <2>1. T \subseteq Nat /\ Len(s.order) \in 0 .. Len(s.order) /\ (Len(s.order) \notin T => Has(Len(s.order)))
        /\ (\A k \in T : k \in 0 .. Len(s.order) /\ ~Has(k))
        /\ \A k \in 0 .. Len(s.order) : k \notin T => Has(k)
    BY <1>1
  <2> HIDE DEF T
  <2>2. CASE T = {}
    BY <2>1, <2>2
  <2>3. CASE T # {}
    <3>1. PICK k \in T : \A j \in T : k <= j
      BY <2>1, <2>3, LeastOfNats
    <3>2. k # 0
      BY <1>4, <2>1, <3>1
    <3>3. k \in 1 .. Len(s.order) /\ k - 1 \in 0 .. Len(s.order) /\ ~(k <= k - 1)
      <4>1. k \in 0 .. Len(s.order)
        BY <2>1, <3>1
      <4>2. QED
        BY <1>1, <3>2, <4>1
    <3>4. Has(k - 1)
      BY <2>1, <3>1, <3>3
    <3>5. QED
      BY <1>5, <2>1, <3>1, <3>3, <3>4
  <2>4. QED
    BY <2>2, <2>3
<1>7. QED
  BY <1>2, <1>6

\* Announcing what remains changes no field's text and loses nothing.
LEMMA RemainingTold ==
  ASSUME NEW p, NEW e \in Nat, SinkInv(p.s, e), gone \in BOOLEAN
  PROVE  SinkInv(announceRemaining(p).s, e) /\ SameFields(p.s, announceRemaining(p).s)
<1>1. Len(p.s.order) \in Nat /\ \A i \in 1 .. Len(p.s.order) : p.s.order[i] \in 1 .. Len(p.s.node)
  BY CallTypes DEF SinkInv, Ordered
<1>2. PICK f : Places("told", p.s, p, f, Len(p.s.order)) /\ announceRemaining(p) = f[Len(p.s.order)]
  BY <1>1, ToldByPlace
<1>3. f[0] = p /\ \A i \in 1 .. Len(p.s.order) : f[i] = place("told", p.s, i, f[i - 1])
  <2> DEFINE n == Len(p.s.order)
  <2>1. n \in Nat /\ Places("told", p.s, p, f, n)
    BY <1>1, <1>2
  <2> HIDE DEF n
  <2>2. f[0] = p /\ \A i \in 1 .. n : f[i] = place("told", p.s, i, f[i - 1])
    BY <2>1, PlaceSteps
  <2>3. QED
    BY <2>2 DEF n
<1> DEFINE Kept(k) == SinkInv(f[k].s, e) /\ SameFields(p.s, f[k].s)
<1>4. Kept(0)
  BY <1>3 DEF SameFields
<1>5. ASSUME NEW k \in 1 .. Len(p.s.order), Kept(k - 1) PROVE Kept(k)
  <2> DEFINE q == f[k - 1]
             n == p.s.order[k]
  <2>1. f[k] = q \/ f[k] = Announced(q, n)
    BY <1>3 DEF place
  <2>2. SinkInv(q.s, e) /\ SameFields(p.s, q.s) /\ n \in 1 .. Len(p.s.node)
    BY <1>1, <1>5
  <2> HIDE DEF q, n
  <2>3. n \in 1 .. Len(q.s.node)
    BY <2>2 DEF SameFields
  <2>4. SinkInv(Announced(q, n).s, e) /\ SameFields(q.s, Announced(q, n).s)
    BY <2>2, <2>3, AnnouncedKept
  <2>5. SameFields(p.s, Announced(q, n).s)
    BY <2>2, <2>4 DEF SameFields
  <2>6. QED
    BY <2>1, <2>2, <2>4, <2>5
<1>6. Kept(Len(p.s.order))
  <2> DEFINE T == {k \in 0 .. Len(p.s.order) : ~Kept(k)}
  <2> HIDE DEF Kept
  <2>1. T \subseteq Nat /\ Len(p.s.order) \in 0 .. Len(p.s.order) /\ (\A k \in T : k \in 0 .. Len(p.s.order) /\ ~Kept(k))
        /\ \A k \in 0 .. Len(p.s.order) : k \notin T => Kept(k)
    BY <1>1
  <2> HIDE DEF T
  <2>2. CASE T = {}
    BY <2>1, <2>2
  <2>3. CASE T # {}
    <3>1. PICK k \in T : \A j \in T : k <= j
      BY <2>1, <2>3, LeastOfNats
    <3>2. k # 0
      BY <1>4, <2>1, <3>1
    <3>3. k \in 1 .. Len(p.s.order) /\ k - 1 \in 0 .. Len(p.s.order) /\ ~(k <= k - 1)
      <4>1. k \in 0 .. Len(p.s.order)
        BY <2>1, <3>1
      <4>2. QED
        BY <1>1, <3>2, <4>1
    <3>4. Kept(k - 1)
      BY <2>1, <3>1, <3>3
    <3>5. QED
      BY <1>5, <2>1, <3>1, <3>3, <3>4
  <2>4. QED
    BY <2>2, <2>3
<1>7. QED
  BY <1>2, <1>6

\* A piece of one of some sequences.
LEMMA PieceOf ==
  ASSUME NEW S, NEW u \in S, NEW m \in DOMAIN u
  PROVE  u[m] \in pieces(S)
<1>1. u[m] \in {u[i] : i \in DOMAIN u}
  OBVIOUS
<1>2. {u[i] : i \in DOMAIN u} \in {{t[i] : i \in DOMAIN t} : t \in S}
  OBVIOUS
<1>3. QED
  BY <1>1, <1>2 DEF pieces

\* Only a blank at the very front is trimmed.
LEMMA TrimmedKeeps ==
  ASSUME NEW parts \in Seq(PartRec), NEW j \in 1 .. Len(parts), NEW i \in 1 .. Len(parts[j].text),
         parts[j].text[i] # Blank
  PROVE  parts[j].text[i] \in pieces({trimmed(parts)[n].text : n \in DOMAIN trimmed(parts)})
<1> DEFINE x == parts[j].text[i]
           t == trimmed(parts)
<1>1. /\ Len(parts) \in Nat /\ DOMAIN parts = 1 .. Len(parts) /\ parts # <<>>
      /\ \A n \in 1 .. Len(parts) : parts[n] \in PartRec /\ parts[n].text \in Seq(Int)
  <2>1. \A part \in PartRec : part.text \in Seq(Int)
    BY DEF PartRec
  <2>2. /\ Len(parts) \in Nat /\ DOMAIN parts = 1 .. Len(parts) /\ parts # <<>>
        /\ \A n \in 1 .. Len(parts) : parts[n] \in PartRec
    OBVIOUS
  <2>3. QED
    BY <2>1, <2>2
<1>2. ASSUME NEW n \in DOMAIN t, NEW m \in DOMAIN t[n].text, x = t[n].text[m]
      PROVE  x \in pieces({t[k].text : k \in DOMAIN t})
  <2> HIDE DEF t, x
  <2>1. t[n].text \in {t[k].text : k \in DOMAIN t}
    OBVIOUS
  <2>2. QED
    BY <1>2, <2>1, PieceOf
<1>3. \E n \in DOMAIN t : \E m \in DOMAIN t[n].text : x = t[n].text[m]
  <2> DEFINE text == parts[1].text
  <2>0. 1 \in 1 .. Len(parts) /\ text \in Seq(Int) /\ Len(text) \in Nat
    BY <1>1
  <2>1. CASE text[1] = Blank /\ Len(text) = 1
    <3>1. t = Tail(parts)
      BY <1>1, <2>1 DEF trimmed
    <3>2. j # 1
      BY <2>1
    <3>3. j - 1 \in DOMAIN Tail(parts) /\ Tail(parts)[j - 1] = parts[j]
      BY <1>1, <3>2
    <3>4. i \in DOMAIN parts[j].text
      BY <1>1
    <3> HIDE DEF t
    <3>5. QED
      BY <3>1, <3>3, <3>4
  <2>2. CASE text[1] = Blank /\ Len(text) # 1
    <3> DEFINE rest == Tail(text)
    <3>1. t = [parts EXCEPT ![1].text = rest]
      BY <1>1, <2>2 DEF trimmed
    <3>2. DOMAIN t = DOMAIN parts /\ \A n \in DOMAIN parts : n # 1 => t[n] = parts[n]
      BY <1>1, <3>1
    <3>3. t[1].text = rest
      BY <1>1, <2>0, <3>1 DEF PartRec
    <3> HIDE DEF t
    <3>4. CASE j = 1
      <4>1. i \in 1 .. Len(text) /\ i # 1 /\ x = text[i]
        BY <2>2, <3>4
      <4> HIDE DEF text, x
      <4>2. i - 1 \in DOMAIN rest /\ rest[i - 1] = text[i]
        BY <2>0, <4>1
      <4> HIDE DEF rest
      <4>3. QED
        BY <1>1, <2>0, <3>2, <3>3, <4>1, <4>2
    <3>5. CASE j # 1
      BY <1>1, <3>2, <3>5
    <3>6. QED
      BY <3>4, <3>5
  <2>3. CASE text[1] # Blank
    <3>1. t = parts
      BY <2>3 DEF trimmed
    <3> HIDE DEF t
    <3>2. QED
      BY <1>1, <3>1
  <2>4. QED
    BY <2>1, <2>2, <2>3
<1>4. QED
  BY <1>2, <1>3

\* What a call came to, of a message and the fields behind it.
NothingLost(c, m) ==
  /\ c.got # {} => m.has
  /\ c.got \subseteq pieces({m.parts[i].text : i \in DOMAIN m.parts})
                     \cup UNION {pieces(Range(c.node[n].revs)) : n \in 1 .. Len(c.node)}
  /\ \A k, n \in 1 .. Len(c.node) :
        k # n => held(c.node[k]) \cap held(c.node[n]) \subseteq {Correction}

\* What came is in the message or in the revisions.
LEMMA MessageHolds ==
  ASSUME NEW s, NEW e \in Nat, SinkInv(s, e), NEW x \in s.got
  PROVE  x \in pieces({completion(s)[i].text : i \in DOMAIN completion(s)})
               \cup UNION {pieces(Range(s.node[n].revs)) : n \in 1 .. Len(s.node)}
<1> DEFINE M == MessageFromNodes(s)
<1>1. /\ s \in CallRec /\ (\A n \in 1 .. Len(s.node) : s.node[n] \in FieldRec)
      /\ (\A i \in 1 .. Len(s.order) : s.order[i] \in 1 .. Len(s.node))
      /\ (\A n \in 1 .. Len(s.node) : \E i \in 1 .. Len(s.order) : s.order[i] = n)
  BY CallTypes DEF SinkInv, Ordered
<1>2. PICK n \in 1 .. Len(s.node) : x \in held(s.node[n])
  BY DEF SinkInv, Heard
<1>3. x # Blank
  <2>1. x \in 1 .. e
    BY DEF SinkInv, Heard
  <2>2. QED
    BY <2>1 DEF Blank
<1> DEFINE f == s.node[n]
<1>4. f \in FieldRec
  BY <1>1
<1>5. \/ \E i \in 1 .. Len(f.value) : x = f.value[i]
      \/ \E r \in 1 .. Len(f.revs) : \E i \in 1 .. Len(f.revs[r]) : x = f.revs[r][i]
  BY <1>2, <1>4, HeldIs
<1>6. CASE \E i \in 1 .. Len(f.value) : x = f.value[i]
  <2>1. PICK i \in 1 .. Len(f.value) : x = f.value[i]
    BY <1>6
  <2>2. isPart(f)
    <3>1. Len(f.value) # 0
      BY <1>4, <2>1, FieldTypes
    <3> HIDE DEF f
    <3>2. QED
      BY <3>1 DEF isPart
  <2>3. PICK k \in 1 .. Len(s.order) : s.order[k] = n
    BY <1>1
  <2>4. M \in Seq(PartRec) /\ \E j \in 1 .. Len(M) : M[j].text = f.value
    <3>1. isPart(s.node[s.order[k]]) /\ f.value = s.node[s.order[k]].value
      BY <2>2, <2>3
    <3>2. /\ M \in Seq(PartRec)
          /\ \A i1 \in 1 .. Len(s.order) : isPart(s.node[s.order[i1]]) =>
                \E j \in 1 .. Len(M) : M[j].text = s.node[s.order[i1]].value
      BY <1>1, MessageHasParts
    <3> HIDE DEF f, M
    <3>3. QED
      BY <3>1, <3>2
  <2> HIDE DEF M
  <2>5. PICK j \in 1 .. Len(M) : M[j].text = f.value
    BY <2>4
  <2>6. DOMAIN M = 1 .. Len(M) /\ i \in 1 .. Len(M[j].text) /\ x = M[j].text[i] /\ M[j].text \in Seq(Int)
    <3>1. M[j] \in PartRec /\ DOMAIN M = 1 .. Len(M)
      BY <2>4, <2>5
    <3>2. M[j].text \in Seq(Int)
      BY <3>1 DEF PartRec
    <3> HIDE DEF f
    <3>3. QED
      BY <2>1, <2>5, <3>1, <3>2
  <2>7. CASE completion(s) = M
    <3>1. i \in DOMAIN M[j].text
      BY <2>6
    <3>2. x \in pieces({M[m].text : m \in DOMAIN M})
      <4>1. M[j].text \in {M[m].text : m \in DOMAIN M}
        BY <2>6
      <4>2. M[j].text[i] \in pieces({M[m].text : m \in DOMAIN M})
        BY <3>1, <4>1, PieceOf
      <4>3. QED
        BY <2>6, <4>2
    <3>3. QED
      BY <2>7, <3>2
  <2>8. CASE completion(s) = trimmed(M)
    <3>1. x \in pieces({trimmed(M)[m].text : m \in DOMAIN trimmed(M)})
      BY <1>3, <2>4, <2>6, TrimmedKeeps
    <3>2. QED
      BY <2>8, <3>1
  <2>9. QED
    BY <2>7, <2>8 DEF completion, M
<1>7. CASE \E r \in 1 .. Len(f.revs) : \E i \in 1 .. Len(f.revs[r]) : x = f.revs[r][i]
  <2>1. PICK r \in 1 .. Len(f.revs) : \E i \in 1 .. Len(f.revs[r]) : x = f.revs[r][i]
    BY <1>7
  <2>2. f.revs \in Seq(Seq(Int))
    BY <1>4, FieldTypes
  <2>3. DOMAIN f.revs = 1 .. Len(f.revs) /\ DOMAIN f.revs[r] = 1 .. Len(f.revs[r])
    BY <2>1, <2>2
  <2>4. f.revs[r] \in Range(f.revs)
    BY <2>1, <2>3 DEF Range
  <2> HIDE DEF f
  <2>5. x \in pieces(Range(f.revs))
    BY <2>1, <2>3, <2>4, PieceOf
  <2>6. QED
    BY <2>5 DEF f
<1>8. QED
  BY <1>5, <1>6, <1>7

\* While a call streams, its nodes hold what came, each piece in one of them; when it has
\* returned, so do its message and its revisions.
ReceivedInv ==
  /\ events \in Nat /\ gone \in BOOLEAN
  /\ phase = "streaming" =>
       /\ SinkInv(call, events)
       /\ dialect = "completions" => Len(call.node) <= 1 /\ (call.text = NoNode => Len(call.node) = 0)
  /\ NothingReceivedIsLost

LEMMA ReceivedInvInit == Init => ReceivedInv
<1> SUFFICES ASSUME Init PROVE ReceivedInv
  OBVIOUS
<1>1. /\ call = [order |-> <<>>, node |-> <<>>, key |-> [k \in ItemKeys |-> NoNode], think |-> NoNode, text |-> NoNode,
                 announced |-> {}, details |-> FALSE, parts |-> <<>>, got |-> {}, torn |-> FALSE, saw |-> FALSE,
                 err |-> FALSE, failure |-> FALSE]
      /\ phase = "streaming" /\ gone = FALSE /\ events = 0
  BY DEF Init
<1>2. call \in CallRec /\ Pointers(call)
  <2>1. <<>> \in Seq(Nat) /\ <<>> \in Seq(FieldRec) /\ <<>> \in Seq(PartRec) /\ Len(<<>>) = 0
    OBVIOUS
  <2>2. [k \in ItemKeys |-> NoNode] \in [ItemKeys -> Nat] /\ NoNode = 0
    BY DEF NoNode
  <2>3. call \in CallRec
    BY <1>1, <2>1, <2>2 DEF CallRec
  <2>4. call.node = <<>> /\ call.think = 0 /\ call.text = 0 /\ \A k \in ItemKeys : call.key[k] = 0
    BY <1>1, <2>2
  <2>5. QED
    BY <2>1, <2>3, <2>4 DEF Pointers
<1>3. Len(call.node) = 0 /\ Len(call.order) = 0 /\ call.got = {}
  BY <1>1
<1>4. SinkInv(call, events)
  BY <1>2, <1>3 DEF SinkInv, Ordered, Heard, HeldOnce
<1>5. NothingReceivedIsLost
  BY <1>1 DEF NothingReceivedIsLost
<1>6. Len(call.node) <= 1
  BY <1>3
<1>7. QED
  BY <1>1, <1>3, <1>4, <1>5, <1>6 DEF ReceivedInv

\* A step of the stream that goes on.
LEMMA StreamGoesOn ==
  ASSUME ReceivedInv, phase = "streaming", phase' = "streaming", SinkInv(call', events'),
         events' = events + 1, gone' = gone,
         dialect' # "completions"
  PROVE  ReceivedInv'
  BY DEF ReceivedInv, NothingReceivedIsLost

\* Nodes that arrive whole hold a piece each.
LEMMA WholeHolds ==
  ASSUME NEW kind \in Kinds, NEW i \in Nat
  PROVE  held(Whole(kind, <<i>>)) = {i}
<1> DEFINE f == Whole(kind, <<i>>)
           g == Open(kind)
           v == <<i>>
<1>1. v \in Seq(Int) /\ Len(v) = 1 /\ v[1] = i
  OBVIOUS
<1>2. g \in FieldRec /\ Len(g.revs) = 0
  BY OpenHolds DEF Open
<1>3. f = [g EXCEPT !.value = v, !.done = TRUE]
  BY DEF Whole
<1> HIDE DEF f, g, v
<1>4. f \in FieldRec /\ f.value = v /\ f.revs = g.revs
  BY <1>1, <1>2, <1>3 DEF FieldRec
<1>5. \A x : x \in held(f) <=> x = i
  BY <1>1, <1>2, <1>4, HeldIs
<1>6. QED
  BY <1>5 DEF f

\* What returned lost nothing.
LEMMA CallReturned ==
  ASSUME StreamInv, NEW s, SinkInv(s, events), NEW t, SinkInv(t, events), SameFields(s, t),
         NEW m, m.parts = completion(s), s.got # {} => m.has
  PROVE  NothingLost(t, m)
<1>1. events \in Nat
  BY DEF StreamInv
<1>2. Len(t.node) = Len(s.node) /\ t.got = s.got /\ \A n \in 1 .. Len(s.node) : t.node[n].revs = s.node[n].revs
  BY DEF SameFields
<1>3. ASSUME NEW x \in t.got
      PROVE  x \in pieces({m.parts[i].text : i \in DOMAIN m.parts})
                   \cup UNION {pieces(Range(t.node[n].revs)) : n \in 1 .. Len(t.node)}
  <2>1. x \in pieces({completion(s)[i].text : i \in DOMAIN completion(s)})
              \cup UNION {pieces(Range(s.node[n].revs)) : n \in 1 .. Len(s.node)}
    BY <1>1, <1>2, <1>3, MessageHolds
  <2>2. CASE x \in pieces({completion(s)[i].text : i \in DOMAIN completion(s)})
    BY <2>2
  <2>3. CASE x \in UNION {pieces(Range(s.node[n].revs)) : n \in 1 .. Len(s.node)}
    <3>1. PICK n \in 1 .. Len(s.node) : x \in pieces(Range(s.node[n].revs))
      BY <2>3
    <3>2. x \in pieces(Range(t.node[n].revs)) /\ n \in 1 .. Len(t.node)
      BY <1>2, <3>1
    <3>3. QED
      BY <3>2
  <2>4. QED
    BY <2>1, <2>2, <2>3
<1>4. HeldOnce(t)
  BY DEF SinkInv
<1>5. QED
  BY <1>2, <1>3, <1>4 DEF NothingLost, HeldOnce

\* The three ways a call returns.
LEMMA StreamEndKept == ASSUME StreamInv, StreamEnds PROVE NothingLost(call', comp')
<1> DEFINE s == finished(call)
           p0 == [s |-> s, d |-> doc]
           p == IF dialect = "openai" THEN announceRemaining(p0) ELSE p0
<1>1. /\ Becomes(p)
      /\ comp' = [has |-> ~s.failure \/ s.saw, parts |-> completion(s), streamed |-> TRUE, err |-> s.failure \/ p.s.err]
  BY DEF StreamEnds
<1>2. SinkInv(s, events) /\ events \in Nat /\ gone \in BOOLEAN
  BY FinishedKept DEF StreamInv
<1> HIDE DEF s
<1>3. p0.s = s
  OBVIOUS
<1> HIDE DEF p0
<1>4. SinkInv(p.s, events) /\ SameFields(s, p.s)
  <2>1. SinkInv(announceRemaining(p0).s, events) /\ SameFields(s, announceRemaining(p0).s)
    BY <1>2, <1>3, RemainingTold
  <2>2. SameFields(s, s)
    BY DEF SameFields
  <2>3. QED
    BY <1>2, <1>3, <2>1, <2>2
<1>5. call' = p.s /\ comp'.parts = completion(s) /\ (s.saw => comp'.has)
  BY <1>1 DEF Becomes
<1>6. s.got # {} => s.saw
  BY <1>2 DEF SinkInv, Heard
<1> HIDE DEF p
<1>7. QED
  BY <1>2, <1>4, <1>5, <1>6, CallReturned

LEMMA StreamBreakKept == ASSUME StreamInv, StreamBreaks PROVE NothingLost(call', comp')
<1> DEFINE s == finished(call)
<1>1. call' = s /\ comp'.parts = completion(s) /\ comp'.has = call.saw
  BY DEF StreamBreaks
<1>2. SinkInv(s, events) /\ s.saw = call.saw
  BY FinishedKept
<1> HIDE DEF s
<1>3. SameFields(s, s) /\ (s.got # {} => s.saw)
  BY <1>2 DEF SameFields, SinkInv, Heard
<1>4. QED
  BY <1>1, <1>2, <1>3, CallReturned

LEMMA WholeKept ==
  ASSUME StreamInv, NEW n \in 1 .. 2, NEW kinds \in [1 .. n -> Kinds], ArrivesWhole(kinds)
  PROVE  NothingLost(call', comp')
<1> DEFINE fields == [i \in DOMAIN kinds |-> Whole(kinds[i], <<i>>)]
           order == [i \in DOMAIN kinds |-> i]
<1>1. call' = [call EXCEPT !.node = fields, !.order = order, !.saw = TRUE] /\ comp'.has /\ events = 0
  BY DEF ArrivesWhole
<1>2. call \in CallRec /\ call.got = {}
  BY <1>1 DEF StreamInv, SinkInv, Heard
<1>3. DOMAIN fields = 1 .. n /\ \A i \in 1 .. n : fields[i] = Whole(kinds[i], <<i>>) /\ kinds[i] \in Kinds /\ i \in Nat
  OBVIOUS
<1>4. Len(fields) = n
  <2>1. fields = [i \in 1 .. n |-> Whole(kinds[i], <<i>>)] /\ n \in Nat
    OBVIOUS
  <2> DEFINE S == {Whole(kinds[i], <<i>>) : i \in 1 .. n}
  <2>2. fields \in [1 .. n -> S]
    BY <2>1
  <2> HIDE DEF fields, S
  <2>3. QED
    BY <1>3, <2>1, <2>2
<1> HIDE DEF fields, order
<1>5. call'.node = fields /\ call'.got = {}
  BY <1>1, <1>2 DEF CallRec
<1>6. \A i \in 1 .. n : held(fields[i]) = {i}
  BY <1>3, WholeHolds
<1>7. \A k, m \in 1 .. Len(call'.node) : k # m => held(call'.node[k]) \cap held(call'.node[m]) \subseteq {Correction}
  BY <1>4, <1>5, <1>6
<1>8. QED
  BY <1>1, <1>5, <1>7 DEF NothingLost

\* Every event of a stream, and what a dialect other than completions is.
LEMMA EventKept ==
  ASSUME StreamInv,
         \/ UsageReport \/ OpenaiContent \/ OpenaiReasoning \/ OpenaiDetails \/ ResponsesFailed
         \/ \E k \in ItemKeys : OpenaiToolCall(k) \/ AnthropicSignature(k) \/ AnthropicStop(k)
         \/ \E k \in ItemKeys, kind \in Kinds : AnthropicStart(k, kind) \/ AnthropicDelta(k, kind)
         \/ \E k \in ItemKeys \cup {NoKey}, kind \in Kinds :
              ResponsesAdded(k, kind) \/ ResponsesDelta(k, kind) \/ \E final \in Finals : ResponsesDone(k, kind, final)
  PROVE  /\ SinkInv(call', events') /\ Receives
         /\ UsageReport \/ dialect # "completions"
<1>1. CASE UsageReport
  BY <1>1, UsageKept DEF UsageReport
<1>2. CASE OpenaiContent \/ OpenaiReasoning \/ OpenaiDetails
  <2>1. SinkInv(call', events')
    BY <1>2, ContentKept, ReasoningKept, DetailsKept
  <2>2. Receives /\ dialect = "openai"
    BY <1>2 DEF OpenaiContent, OpenaiReasoning, OpenaiDetails
  <2>3. QED
    BY <2>1, <2>2
<1>3. CASE ResponsesFailed
  BY <1>3, FailureKept DEF ResponsesFailed
<1>4. ASSUME NEW k \in ItemKeys, OpenaiToolCall(k) \/ AnthropicSignature(k) \/ AnthropicStop(k)
      PROVE  SinkInv(call', events') /\ Receives /\ dialect # "completions"
  <2>1. SinkInv(call', events')
    BY <1>4, ToolCallKept, SignatureKept, BlockStopKept
  <2>2. Receives /\ (dialect = "openai" \/ dialect = "anthropic")
    BY <1>4 DEF OpenaiToolCall, AnthropicSignature, AnthropicStop
  <2>3. QED
    BY <2>1, <2>2
<1>5. ASSUME NEW k \in ItemKeys, NEW kind \in Kinds, AnthropicStart(k, kind) \/ AnthropicDelta(k, kind)
      PROVE  SinkInv(call', events') /\ Receives /\ dialect # "completions"
  <2>1. SinkInv(call', events')
    BY <1>5, BlockStartKept, BlockDeltaKept
  <2>2. Receives /\ dialect = "anthropic"
    BY <1>5 DEF AnthropicStart, AnthropicDelta
  <2>3. QED
    BY <2>1, <2>2
<1>6. ASSUME NEW k \in ItemKeys \cup {NoKey}, NEW kind \in Kinds, ResponsesAdded(k, kind) \/ ResponsesDelta(k, kind)
      PROVE  SinkInv(call', events') /\ Receives /\ dialect # "completions"
  <2>1. SinkInv(call', events')
    BY <1>6, ItemAddedKept, ItemDeltaKept
  <2>2. Receives /\ dialect = "responses"
    BY <1>6 DEF ResponsesAdded, ResponsesDelta
  <2>3. QED
    BY <2>1, <2>2
<1>7. ASSUME NEW k \in ItemKeys \cup {NoKey}, NEW kind \in Kinds, NEW final \in Finals, ResponsesDone(k, kind, final)
      PROVE  SinkInv(call', events') /\ Receives /\ dialect # "completions"
  <2>1. SinkInv(call', events')
    BY <1>7, ItemDoneKept
  <2>2. Receives /\ dialect = "responses"
    BY <1>7 DEF ResponsesDone
  <2>3. QED
    BY <2>1, <2>2
<1>8. QED
  BY <1>1, <1>2, <1>3, <1>4, <1>5, <1>6, <1>7

\* Every event of a stream comes while it streams.
LEMMA EventReceived ==
  ASSUME \/ UsageReport \/ OpenaiContent \/ OpenaiReasoning \/ OpenaiDetails \/ ResponsesFailed
         \/ \E k \in ItemKeys : OpenaiToolCall(k) \/ AnthropicSignature(k) \/ AnthropicStop(k)
         \/ \E k \in ItemKeys, kind \in Kinds : AnthropicStart(k, kind) \/ AnthropicDelta(k, kind)
         \/ \E k \in ItemKeys \cup {NoKey}, kind \in Kinds :
              ResponsesAdded(k, kind) \/ ResponsesDelta(k, kind) \/ \E final \in Finals : ResponsesDone(k, kind, final)
  PROVE  Receives
<1>1. UsageReport => Receives
  BY DEF UsageReport
<1>2. OpenaiContent \/ OpenaiReasoning \/ OpenaiDetails => Receives
  BY DEF OpenaiContent, OpenaiReasoning, OpenaiDetails
<1>3. ResponsesFailed => Receives
  BY DEF ResponsesFailed
<1>4. ASSUME NEW k \in ItemKeys, OpenaiToolCall(k) \/ AnthropicSignature(k) \/ AnthropicStop(k) PROVE Receives
  BY <1>4 DEF OpenaiToolCall, AnthropicSignature, AnthropicStop
<1>5. ASSUME NEW k \in ItemKeys, NEW kind \in Kinds, AnthropicStart(k, kind) \/ AnthropicDelta(k, kind)
      PROVE  Receives
  BY <1>5 DEF AnthropicStart, AnthropicDelta
<1>6. ASSUME NEW k \in ItemKeys \cup {NoKey}, NEW kind \in Kinds, ResponsesAdded(k, kind) \/ ResponsesDelta(k, kind)
      PROVE  Receives
  BY <1>6 DEF ResponsesAdded, ResponsesDelta
<1>7. ASSUME NEW k \in ItemKeys \cup {NoKey}, NEW kind \in Kinds, NEW final \in Finals, ResponsesDone(k, kind, final)
      PROVE  Receives
  BY <1>7 DEF ResponsesDone
<1>8. QED
  BY <1>1, <1>2, <1>3, <1>4, <1>5, <1>6, <1>7

\* What the properties say of a call that has returned.
LEMMA LostIsOf ==
  /\ NothingReceivedIsLost <=> (phase # "streaming" => NothingLost(call, comp))
  /\ NothingReceivedIsLost' <=> (phase' # "streaming" => NothingLost(call', comp'))
  BY DEF NothingReceivedIsLost, NothingLost

LEMMA ReceivedInvStep == ReceivedInv /\ [Next]_vars => ReceivedInv'
<1> SUFFICES ASSUME ReceivedInv, [Next]_vars PROVE ReceivedInv'
  OBVIOUS
<1>1. phase = "streaming" => StreamInv
  BY DEF ReceivedInv, StreamInv
<1>2. ASSUME StreamInv, phase = "streaming", Receives, SinkInv(call', events'), UsageReport \/ dialect # "completions"
      PROVE  ReceivedInv'
  <2>1. phase' = "streaming" /\ events' = events + 1 /\ gone' = gone /\ dialect' = dialect
    BY <1>2 DEF Receives
  <2>2. events' \in Nat /\ gone' \in BOOLEAN
    BY <1>2, <2>1 DEF StreamInv
  <2>3. dialect' = "completions" => Len(call'.node) <= 1 /\ (call'.text = NoNode => Len(call'.node) = 0)
    <3>1. CASE dialect # "completions"
      BY <2>1, <3>1
    <3>2. CASE UsageReport /\ dialect = "completions"
      <4>1. Len(call.node) <= 1 /\ (call.text = NoNode => Len(call.node) = 0)
        BY <1>2, <3>2 DEF ReceivedInv
      <4>2. saw(call).node = call.node /\ saw(call).text = call.text /\ saw(call) \in CallRec
        BY <1>2, NowSeen DEF SinkInv
      <4>3. call' = [saw(call) EXCEPT !.err = gone]
        BY <3>2 DEF UsageReport
      <4>4. call'.node = saw(call).node /\ call'.text = saw(call).text
        BY <4>2, <4>3 DEF CallRec
      <4>5. QED
        BY <4>1, <4>2, <4>4
    <3>3. QED
      BY <1>2, <3>1, <3>2
  <2>4. NothingReceivedIsLost'
    BY <2>1 DEF NothingReceivedIsLost
  <2>5. QED
    BY <1>2, <2>1, <2>2, <2>3, <2>4 DEF ReceivedInv
<1>3. ASSUME StreamInv, phase' = "returned", NothingLost(call', comp'), gone' = gone, events' \in Nat
      PROVE  ReceivedInv'
  <2>1. NothingReceivedIsLost'
    BY <1>3 DEF NothingLost, NothingReceivedIsLost
  <2>2. gone' \in BOOLEAN
    BY <1>3 DEF StreamInv
  <2>3. QED
    BY <1>3, <2>1, <2>2 DEF ReceivedInv
<1>4. CASE \/ UsageReport \/ OpenaiContent \/ OpenaiReasoning \/ OpenaiDetails \/ ResponsesFailed
           \/ \E k \in ItemKeys : OpenaiToolCall(k) \/ AnthropicSignature(k) \/ AnthropicStop(k)
           \/ \E k \in ItemKeys, kind \in Kinds : AnthropicStart(k, kind) \/ AnthropicDelta(k, kind)
           \/ \E k \in ItemKeys \cup {NoKey}, kind \in Kinds :
                ResponsesAdded(k, kind) \/ ResponsesDelta(k, kind) \/ \E final \in Finals : ResponsesDone(k, kind, final)
  <2>1. Receives
    BY <1>4, EventReceived
  <2>2. phase = "streaming" /\ StreamInv
    BY <1>1, <2>1 DEF Receives
  <2>3. SinkInv(call', events') /\ (UsageReport \/ dialect # "completions")
    BY <1>4, <2>2, EventKept
  <2>4. QED
    BY <1>2, <2>1, <2>2, <2>3
<1>5. ASSUME NEW more \in {<<piece1>>, <<Blank, piece1>>}, CompletionsText(more) PROVE ReceivedInv'
  <2>1. dialect = "completions" /\ Receives
    BY <1>5 DEF CompletionsText
  <2>2. phase = "streaming" /\ phase' = "streaming" /\ StreamInv /\ events' = events + 1 /\ gone' = gone
    BY <1>1, <2>1 DEF Receives
  <2>3. Len(call.node) <= 1 /\ (call.text = NoNode => Len(call.node) = 0)
    BY <2>1, <2>2 DEF ReceivedInv
  <2>4. SinkInv(call', events') /\ Len(call'.node) = 1 /\ call'.text # NoNode
    BY <1>5, <2>2, <2>3, CompletionsKept
  <2>5. NothingReceivedIsLost'
    BY <2>2 DEF NothingReceivedIsLost
  <2>6. events' \in Nat /\ gone' \in BOOLEAN /\ Len(call'.node) <= 1
    BY <2>2, <2>4 DEF StreamInv
  <2>7. QED
    BY <2>2, <2>4, <2>5, <2>6 DEF ReceivedInv
<1>6. CASE StreamEnds
  <2>1. phase = "streaming" /\ phase' = "returned" /\ gone' = gone /\ events' = events
    BY <1>6 DEF StreamEnds
  <2>2. StreamInv /\ events' \in Nat
    BY <1>1, <2>1 DEF StreamInv
  <2>3. NothingLost(call', comp')
    BY <1>6, <2>2, StreamEndKept
  <2>4. QED
    BY <1>3, <2>1, <2>2, <2>3
<1>7. CASE StreamBreaks
  <2>1. phase = "streaming" /\ phase' = "returned" /\ gone' = gone /\ events' = events
    BY <1>7 DEF StreamBreaks
  <2>2. StreamInv /\ events' \in Nat
    BY <1>1, <2>1 DEF StreamInv
  <2>3. NothingLost(call', comp')
    BY <1>7, <2>2, StreamBreakKept
  <2>4. QED
    BY <1>3, <2>1, <2>2, <2>3
<1>8. ASSUME NEW n \in 1 .. 2, NEW kinds \in [1 .. n -> Kinds], ArrivesWhole(kinds) PROVE ReceivedInv'
  <2>1. phase = "streaming" /\ phase' = "returned" /\ gone' = gone /\ events' = Len(kinds)
    BY <1>8 DEF ArrivesWhole
  <2>2. kinds \in Seq(Kinds)
    OBVIOUS
  <2>3. StreamInv /\ events' \in Nat
    BY <1>1, <2>1, <2>2
  <2>4. NothingLost(call', comp')
    BY <1>8, <2>3, WholeKept
  <2>5. QED
    BY <1>3, <2>1, <2>3, <2>4
<1>9. ASSUME call' = call, comp' = comp, events' = events, gone' \in BOOLEAN,
             phase = "streaming" => phase' = "streaming" /\ dialect' = dialect,
             phase # "streaming" => phase' # "streaming"
      PROVE  ReceivedInv'
  <2>1. phase' = "streaming" => SinkInv(call', events')
    BY <1>9 DEF ReceivedInv
  <2>2. phase' = "streaming" /\ dialect' = "completions" => Len(call'.node) <= 1 /\ (call'.text = NoNode => Len(call'.node) = 0)
    BY <1>9 DEF ReceivedInv
  <2>3. NothingLost(call, comp) => NothingLost(call', comp')
    BY <1>9
  <2>4. phase' # "streaming" => NothingLost(call', comp')
    BY <1>9, <2>3, LostIsOf DEF ReceivedInv
  <2>5. NothingReceivedIsLost'
    BY <2>4, LostIsOf
  <2>6. events' \in Nat /\ gone' \in BOOLEAN
    BY <1>9 DEF ReceivedInv
  <2>7. QED
    BY <2>1, <2>2, <2>5, <2>6 DEF ReceivedInv
<1>10. CASE Finish \/ ClientLeaves \/ UNCHANGED vars
  <2>1. gone \in BOOLEAN
    BY DEF ReceivedInv
  <2>2. CASE Finish
    BY <1>9, <2>1, <2>2 DEF Finish
  <2>3. CASE ClientLeaves
    BY <1>9, <2>1, <2>3 DEF ClientLeaves
  <2>4. CASE UNCHANGED vars
    BY <1>9, <2>1, <2>4 DEF vars
  <2>5. QED
    BY <1>10, <2>2, <2>3, <2>4
<1>11. QED
  BY <1>4, <1>5, <1>6, <1>7, <1>8, <1>10 DEF Next

\* Whatever ended a model call, every piece of text its stream delivered is in the
\* message it returned or among the revisions of its field, and in one node only.
THEOREM NothingIsLost == Spec => []NothingReceivedIsLost
<1>1. ReceivedInv => NothingReceivedIsLost
  BY DEF ReceivedInv
<1>2. QED
  BY <1>1, ReceivedInvInit, ReceivedInvStep, PTL DEF Spec

------------------------------------------------------------------------------
\* What holds before the first place, and of a place when of the one before it, holds of all.
LEMMA UpTo ==
  ASSUME NEW n \in Nat, NEW G, 0 \in G, \A k \in 1 .. n : k - 1 \in G => k \in G
  PROVE  n \in G
<1> DEFINE T == {k \in 0 .. n : k \notin G}
<1>1. CASE T = {}
  <2>1. n \notin T /\ n \in 0 .. n
    BY <1>1
  <2>2. QED
    BY <2>1
<1>2. CASE T # {}
  <2>1. T \subseteq Nat /\ \A k \in T : k \in 0 .. n /\ k \notin G
    OBVIOUS
  <2>2. \A k \in 0 .. n : k \notin T => k \in G
    OBVIOUS
  <2> HIDE DEF T
  <2>3. PICK k \in T : \A j \in T : k <= j
    BY <1>2, <2>1, LeastOfNats
  <2>4. k # 0
    BY <2>1, <2>3
  <2>5. k \in 1 .. n /\ k - 1 \in 0 .. n /\ ~(k <= k - 1)
    <3>1. k \in 0 .. n
      BY <2>1, <2>3
    <3>2. QED
      BY <2>4, <3>1
  <2>6. QED
    BY <2>1, <2>2, <2>3, <2>5
<1>3. QED
  BY <1>1, <1>2

LEMMA TextsAgree ==
  ASSUME NEW a \in Seq(Int), NEW b \in Seq(Int), NEW c \in Seq(Int)
  PROVE  (a \o b) \o c = a \o (b \o c)
  OBVIOUS

LEMMA LastReplaced ==
  ASSUME NEW p \in Seq(PartRec), NEW q \in PartRec, NEW r \in PartRec
  PROVE  [Append(p, q) EXCEPT ![Len(p) + 1] = r] = Append(p, r)
<1> DEFINE u == Append(p, q)
           v == Append(p, r)
           w == [u EXCEPT ![Len(p) + 1] = r]
<1>1. /\ u \in Seq(PartRec) /\ v \in Seq(PartRec) /\ Len(u) = Len(p) + 1 /\ Len(v) = Len(p) + 1 /\ Len(p) \in Nat
      /\ v[Len(p) + 1] = r /\ \A i \in 1 .. Len(p) : u[i] = p[i] /\ v[i] = p[i]
  BY OneMore
<1> HIDE DEF u, v
<1>2. w \in Seq(PartRec) /\ Len(w) = Len(p) + 1 /\ w[Len(p) + 1] = r /\ \A i \in 1 .. Len(p) : w[i] = u[i]
  BY <1>1
<1> HIDE DEF w
<1>3. \A i \in 1 .. Len(p) + 1 : w[i] = v[i]
  BY <1>1, <1>2
<1>4. w = v
  BY <1>1, <1>2, <1>3
<1>5. QED
  BY <1>4 DEF u, v, w

\* A list that grows by a part, or whose last text does.
LEMMA JoinedParts ==
  ASSUME NEW p \in Seq(PartRec), NEW q \in PartRec
  PROVE  joined(p, q) \in Seq(PartRec) /\ Len(joined(p, q)) \in Nat \ {0}
<1>1. CASE p # <<>> /\ p[Len(p)].kind = Text /\ q.kind = Text
  <2> DEFINE n == Len(p)
             more == p[n].text \o q.text
             r == [p[n] EXCEPT !.text = more]
  <2>1. n \in 1 .. Len(p) /\ p[n] \in PartRec
    BY <1>1
  <2>2. more \in Seq(Int)
    <3>1. p[n].text \in Seq(Int) /\ q.text \in Seq(Int)
      BY <2>1 DEF PartRec
    <3>2. QED
      BY <3>1
  <2>3. joined(p, q) = [p EXCEPT ![n] = r]
    BY <1>1 DEF joined
  <2> HIDE DEF more
  <2>4. r \in PartRec
    BY <2>1, <2>2 DEF PartRec
  <2> HIDE DEF r
  <2>5. [p EXCEPT ![n] = r] \in Seq(PartRec) /\ Len([p EXCEPT ![n] = r]) = n
    BY <2>1, <2>4
  <2>6. QED
    BY <2>1, <2>3, <2>5
<1>2. CASE ~(p # <<>> /\ p[Len(p)].kind = Text /\ q.kind = Text)
  <2>1. joined(p, q) = Append(p, q)
    BY <1>2 DEF joined
  <2>2. QED
    BY <2>1
<1>3. QED
  BY <1>1, <1>2

LEMMA MergedByPlace ==
  ASSUME NEW parts, Len(parts) \in Nat
  PROVE  \E f : Places("joined", parts, <<>>, f, Len(parts)) /\ merged(parts) = f[Len(parts)]
<1> DEFINE entry(f, i) == IF i = 0 THEN <<>> ELSE joined(f[i - 1], parts[i])
           Made(f) == f = [i \in 0 .. Len(parts) |-> entry(f, i)]
           taken == CHOOSE f : Made(f)
<1>1. merged(parts) = taken[Len(parts)]
  BY Zenon DEF merged
<1>2. \A f, i : entry(f, i) = IF i = 0 THEN <<>> ELSE place("joined", parts, i, f[i - 1])
  BY DEF place
<1> HIDE DEF entry
<1>3. \A f : Made(f) <=> Places("joined", parts, <<>>, f, Len(parts))
  <2> TAKE f
  <2>1. [i \in 0 .. Len(parts) |-> entry(f, i)]
          = [i \in 0 .. Len(parts) |-> IF i = 0 THEN <<>> ELSE place("joined", parts, i, f[i - 1])]
    BY <1>2
  <2>2. QED
    BY <2>1 DEF Places
<1> HIDE DEF Made
<1>4. \E f : Made(f)
  BY <1>3, PlaceByPlace
<1>5. Made(taken)
  BY <1>4
<1> HIDE DEF taken
<1>6. QED
  BY <1>1, <1>3, <1>5

\* Step by step.
LEMMA MergedSteps ==
  ASSUME NEW parts, Len(parts) \in Nat
  PROVE  \E f : /\ f[0] = <<>> /\ merged(parts) = f[Len(parts)]
                /\ \A i \in 1 .. Len(parts) : f[i] = joined(f[i - 1], parts[i])
<1> DEFINE n == Len(parts)
           first == <<>>
           list == "joined"
<1>1. PICK f : Places(list, parts, first, f, n) /\ merged(parts) = f[n]
  BY MergedByPlace
<1> HIDE DEF n, first, list
<1>2. n \in Nat
  BY DEF n
<1>3. f[0] = first /\ \A i \in 1 .. n : f[i] = place(list, parts, i, f[i - 1])
  BY <1>1, <1>2, PlaceSteps
<1>4. \A i : place(list, parts, i, f[i - 1]) = joined(f[i - 1], parts[i])
  BY DEF place, list
<1>5. QED
  BY <1>1, <1>3, <1>4 DEF n, first

LEMMA MergedNone == merged(<<>>) = <<>>
<1> DEFINE none == <<>>
<1>1. Len(none) = 0
  OBVIOUS
<1> HIDE DEF none
<1>2. QED
  BY <1>1, MergedSteps DEF none

\* Texts are joined part by part.
LEMMA MergedMore ==
  ASSUME NEW p \in Seq(PartRec), NEW q \in PartRec
  PROVE  merged(p) \in Seq(PartRec) /\ merged(Append(p, q)) = joined(merged(p), q)
<1> DEFINE r == Append(p, q)
           n == Len(p)
<1>1. n \in Nat /\ Len(r) = n + 1 /\ r[n + 1] = q /\ \A i \in 1 .. n : r[i] = p[i] /\ i \in 1 .. Len(r)
  BY OneMore
<1>2. \A i \in 1 .. n : p[i] \in PartRec
  OBVIOUS
<1> HIDE DEF r
<1>3. PICK f : f[0] = <<>> /\ merged(p) = f[n] /\ \A i \in 1 .. n : f[i] = joined(f[i - 1], p[i])
  BY <1>1, MergedSteps
<1>4. PICK g : g[0] = <<>> /\ merged(r) = g[Len(r)] /\ \A i \in 1 .. Len(r) : g[i] = joined(g[i - 1], r[i])
  BY <1>1, MergedSteps
<1> HIDE DEF n
<1>5. n \in {k \in Nat : g[k] = f[k] /\ f[k] \in Seq(PartRec)}
  <2> DEFINE G == {k \in Nat : g[k] = f[k] /\ f[k] \in Seq(PartRec)}
  <2>1. 0 \in G
    <3>1. f[0] \in Seq(PartRec)
      BY <1>3
    <3>2. QED
      BY <1>3, <1>4, <3>1
  <2>2. ASSUME NEW k \in 1 .. n, k - 1 \in G PROVE k \in G
    <3>1. g[k] = joined(g[k - 1], p[k]) /\ f[k] = joined(f[k - 1], p[k])
      BY <1>1, <1>3, <1>4
    <3>2. g[k - 1] = f[k - 1] /\ f[k - 1] \in Seq(PartRec) /\ p[k] \in PartRec
      BY <1>2, <2>2
    <3>3. joined(f[k - 1], p[k]) \in Seq(PartRec) /\ k \in Nat
      <4> DEFINE a == f[k - 1]
                 b == p[k]
      <4> HIDE DEF a, b, G
      <4>1. a \in Seq(PartRec) /\ b \in PartRec
        BY <3>2 DEF a, b
      <4>2. joined(a, b) \in Seq(PartRec)
        BY <4>1, JoinedParts
      <4>3. QED
        BY <4>2 DEF a, b
    <3>4. QED
      BY <3>1, <3>2, <3>3
  <2> HIDE DEF G
  <2>3. n \in G
    BY <1>1, <2>1, <2>2, UpTo
  <2>4. QED
    BY <2>3 DEF G
<1>6. g[n + 1] = joined(g[(n + 1) - 1], r[n + 1])
  <2>1. n + 1 \in 1 .. Len(r)
    BY <1>1
  <2>2. QED
    BY <1>4, <2>1
<1>7. (n + 1) - 1 = n
  BY <1>1
<1>8. QED
  BY <1>1, <1>3, <1>4, <1>5, <1>6, <1>7 DEF r

textPart(x) == [kind |-> Text, text |-> x, blob |-> FALSE]
withText(parts, x) == IF x = <<>> THEN parts ELSE Append(parts, textPart(x))

LEMMA TextPartIs == ASSUME NEW x \in Seq(Int) PROVE textPart(x) \in PartRec /\ textPart(x).kind = Text /\ textPart(x).text = x
  BY DEF textPart, PartRec, Kinds, Text

LEMMA SamePart ==
  ASSUME NEW a \in PartRec, NEW b \in PartRec, a.kind = b.kind, a.text = b.text, a.blob = b.blob
  PROVE  a = b
  BY DEF PartRec

LEMMA TextPartChanged ==
  ASSUME NEW u \in Seq(Int), NEW v \in Seq(Int)
  PROVE  [textPart(u) EXCEPT !.text = v] = textPart(v)
<1> DEFINE w == [textPart(u) EXCEPT !.text = v]
<1>1. textPart(u) \in PartRec /\ textPart(v) \in PartRec
  BY TextPartIs
<1>2. w \in PartRec
  BY <1>1 DEF PartRec
<1>3. w.text = v /\ w.kind = Text /\ w.blob = FALSE
  BY DEF textPart
<1>4. textPart(v).text = v /\ textPart(v).kind = Text /\ textPart(v).blob = FALSE
  BY DEF textPart
<1> HIDE DEF w
<1>5. w = textPart(v)
  BY <1>1, <1>2, <1>3, <1>4, SamePart
<1>6. QED
  BY <1>5 DEF w

\* To extend a text and then a list by it is to extend the list and then its last text.
LEMMA JoinedTwice ==
  ASSUME NEW p \in Seq(PartRec), NEW q \in PartRec, q.kind = Text, NEW x \in Seq(Int)
  PROVE  joined(joined(p, q), textPart(x)) = joined(p, [q EXCEPT !.text = q.text \o x])
<1> DEFINE y == q.text \o x
           r == [q EXCEPT !.text = q.text \o x]
           j == joined(p, q)
<1>1. q.text \in Seq(Int) /\ y \in Seq(Int) /\ Len(p) \in Nat
  <2>1. q.text \in Seq(Int)
    BY DEF PartRec
  <2>2. QED
    BY <2>1
<1>2. r.kind = Text /\ r.text = y /\ r = [q EXCEPT !.text = y] /\ r \in PartRec
  <2> HIDE DEF y
  <2>1. [q EXCEPT !.text = y].kind = Text /\ [q EXCEPT !.text = y].text = y /\ [q EXCEPT !.text = y] \in PartRec
    BY <1>1 DEF PartRec
  <2>2. r = [q EXCEPT !.text = y]
    BY DEF y
  <2>3. QED
    BY <2>1, <2>2
<1> HIDE DEF r
<1>3. CASE p # <<>> /\ p[Len(p)].kind = Text
  <2> DEFINE n == Len(p)
             a == p[n]
             first == [a EXCEPT !.text = a.text \o q.text]
             once == [a EXCEPT !.text = a.text \o y]
  <2>1. n \in 1 .. Len(p) /\ a \in PartRec /\ a.kind = Text
    BY <1>3
  <2>2. a.text \in Seq(Int)
    BY <2>1 DEF PartRec
  <2>3. j = [p EXCEPT ![n] = first] /\ joined(p, r) = [p EXCEPT ![n] = once]
    BY <1>2, <1>3 DEF joined
  <2>4. first.kind = Text /\ first.text = a.text \o q.text /\ [first EXCEPT !.text = first.text \o x] = [a EXCEPT !.text = (a.text \o q.text) \o x]
    <3> DEFINE b == a.text \o q.text
    <3> HIDE DEF a, b
    <3>1. [a EXCEPT !.text = b].kind = Text /\ [a EXCEPT !.text = b].text = b
          /\ [[a EXCEPT !.text = b] EXCEPT !.text = b \o x] = [a EXCEPT !.text = b \o x]
      BY <2>1 DEF PartRec
    <3>2. QED
      BY <3>1 DEF b
  <2>5. (a.text \o q.text) \o x = a.text \o y
    <3> DEFINE b == a.text
               c == q.text
    <3> HIDE DEF b, c
    <3>1. b \in Seq(Int) /\ c \in Seq(Int) /\ x \in Seq(Int)
      BY <1>1, <2>2 DEF b, c
    <3>2. (b \o c) \o x = b \o (c \o x)
      BY <3>1, TextsAgree
    <3>3. QED
      BY <3>2 DEF b, c
  <2> HIDE DEF first, once
  <2>6. j # <<>> /\ Len(j) = n /\ j[n] = first
    <3> HIDE DEF n, j
    <3>1. n = Len(p)
      BY DEF n
    <3>2. n \in 1 .. Len(p) /\ [p EXCEPT ![n] = first][n] = first /\ Len([p EXCEPT ![n] = first]) = Len(p)
      BY <2>1
    <3>3. QED
      BY <2>1, <2>3, <3>1, <3>2
  <2>7. joined(j, textPart(x)) = [j EXCEPT ![n] = [first EXCEPT !.text = first.text \o x]]
    <3> HIDE DEF j, n
    <3>1. j[Len(j)].kind = Text /\ textPart(x).kind = Text /\ textPart(x).text = x
      BY <2>4, <2>6, TextPartIs
    <3>2. joined(j, textPart(x)) = [j EXCEPT ![Len(j)].text = @ \o textPart(x).text]
      BY <2>6, <3>1 DEF joined
    <3>3. QED
      BY <2>6, <3>1, <3>2
  <2>8. [first EXCEPT !.text = first.text \o x] = once
    BY <2>4, <2>5 DEF once
  <2>9. [[p EXCEPT ![n] = first] EXCEPT ![n] = once] = [p EXCEPT ![n] = once]
    BY <2>1
  <2>10. QED
    BY <2>3, <2>7, <2>8, <2>9 DEF r
<1>4. CASE ~(p # <<>> /\ p[Len(p)].kind = Text)
  <2>1. j = Append(p, q) /\ joined(p, r) = Append(p, r)
    BY <1>4 DEF joined
  <2>2. j # <<>> /\ Len(j) = Len(p) + 1 /\ j[Len(j)] = q
    BY <1>1, <2>1
  <2> HIDE DEF j
  <2>3. textPart(x).kind = Text /\ textPart(x).text = x
    BY TextPartIs
  <2>4. joined(j, textPart(x)) = [j EXCEPT ![Len(j)].text = @ \o x]
    BY <2>2, <2>3 DEF joined
  <2>5. joined(j, textPart(x)) = [j EXCEPT ![Len(p) + 1] = r]
    BY <2>2, <2>4 DEF r
  <2>6. [Append(p, q) EXCEPT ![Len(p) + 1] = r] = Append(p, r)
    BY <1>2, LastReplaced
  <2>7. QED
    BY <2>1, <2>5, <2>6 DEF r, j
<1>5. QED
  BY <1>3, <1>4

\* The documents a call may have written so far.
DocRec == [begun : BOOLEAN, parts : Seq(PartRec), open : BOOLEAN, pending : Seq(Nat), sent : Nat,
           ended : {"no", "result", "error"}]

\* The document is the announced parts and the text still under way, written once.
Written(s, d) ==
  /\ d \in DocRec /\ s.parts \in Seq(PartRec) /\ d.sent = Len(s.parts)
  /\ d.open => d.parts # <<>> /\ d.parts[Len(d.parts)].kind = Text
  /\ merged(d.parts) = merged(withText(s.parts, d.pending))
\* That text is a node's that is not announced, but after all parts begun before it; no other
\* text waits.  Node x is passed over: it is the one about to be announced.
Writing(s, n, text, x) ==
  /\ s.node[n].kind = Text /\ s.node[n].value = text /\ n \notin s.announced
  /\ \A m \in 1 .. n - 1 : m # x /\ isPart(s.node[m]) => m \in s.announced
Awaiting(s, text, x) ==
  /\ text # <<>> => \E n \in 1 .. Len(s.node) : Writing(s, n, text, x)
  /\ text = <<>> => \A n \in 1 .. Len(s.node) :
                       n # x /\ s.node[n].kind = Text /\ s.node[n].value # <<>> => n \in s.announced
\* An announced text stays as it was announced, and what was announced is counted.
toldParts(s) == {n \in 1 .. Len(s.node) : n \in s.announced /\ isPart(s.node[n])}
ToldAsIs(s) ==
  /\ s.announced \subseteq 1 .. Len(s.node)
  /\ \A n \in 1 .. Len(s.node) :
        s.node[n].kind = Text => s.node[n].blob = FALSE /\ (n \in s.announced => s.node[n].done)
  /\ \A i \in 1 .. Len(s.parts) : s.parts[i].kind = Text =>
        \E m \in 1 .. Len(s.node) :
           m \in s.announced /\ s.node[m].kind = Text /\ s.node[m].value = s.parts[i].text
  /\ Cardinality(toldParts(s)) <= Len(s.parts)
Revised(s) == \E n \in 1 .. Len(s.node) : s.node[n].kind = Text /\ s.node[n].revs # <<>>
Amiss(s) == s.torn \/ Revised(s)
Follows(s, d, x) == Amiss(s) \/ (Written(s, d) /\ Awaiting(s, d.pending, x) /\ ToldAsIs(s))

\* The text under way grows, and with it the document.
LEMMA PendingText ==
  ASSUME NEW p \in Seq(PartRec), NEW y \in Seq(Nat), NEW x \in Seq(Nat), x # <<>>
  PROVE  merged(withText(p, y \o x)) = joined(merged(withText(p, y)), textPart(x))
<1>1. x \in Seq(Int) /\ y \in Seq(Int) /\ y \o x \in Seq(Int) /\ textPart(x) \in PartRec /\ textPart(y \o x) \in PartRec
      /\ textPart(y) \in PartRec /\ textPart(y).kind = Text
  <2>1. x \in Seq(Int) /\ y \in Seq(Int)
    <3>1. \A z \in Seq(Nat) : z \in Seq(Int)
      OBVIOUS
    <3>2. QED
      BY <3>1
  <2>2. y \o x \in Seq(Int)
    BY <2>1
  <2>3. QED
    BY <2>1, <2>2, TextPartIs
<1>2. CASE y = <<>>
  <2>1. y \o x = x
    BY <1>2
  <2>2. withText(p, y) = p /\ withText(p, x) = Append(p, textPart(x))
    BY <1>2 DEF withText
  <2>3. QED
    BY <1>1, <2>1, <2>2, MergedMore
<1>3. CASE y # <<>>
  <2> DEFINE z == y \o x
  <2>1. z # <<>>
    <3>1. Len(z) = Len(y) + Len(x) /\ Len(y) \in Nat /\ Len(x) \in Nat /\ Len(y) # 0
      BY <1>3
    <3>2. QED
      BY <3>1
  <2>2. withText(p, y) = Append(p, textPart(y)) /\ withText(p, z) = Append(p, textPart(z))
    BY <1>3, <2>1 DEF withText
  <2>3. merged(p) \in Seq(PartRec) /\ merged(withText(p, y)) = joined(merged(p), textPart(y))
        /\ merged(withText(p, z)) = joined(merged(p), textPart(z))
    BY <1>1, <2>2, MergedMore
  <2> DEFINE q == textPart(y)
  <2>4. [q EXCEPT !.text = q.text \o x] = textPart(z)
    <3>1. q.text = y /\ z \in Seq(Int)
      BY <1>1 DEF textPart
    <3> HIDE DEF z
    <3>2. [textPart(y) EXCEPT !.text = z] = textPart(z)
      BY <1>1, <3>1, TextPartChanged
    <3>3. QED
      BY <3>1, <3>2 DEF z
  <2> HIDE DEF z, q
  <2>5. joined(joined(merged(p), q), textPart(x)) = joined(merged(p), [q EXCEPT !.text = q.text \o x])
    BY <1>1, <2>3, JoinedTwice DEF q
  <2>6. QED
    BY <2>3, <2>4, <2>5 DEF z, q
<1>4. QED
  BY <1>2, <1>3

LEMMA DocTextIs ==
  ASSUME ~gone, NEW d \in DocRec, NEW x \in Seq(Nat), x # <<>>,
         d.open => d.parts # <<>> /\ d.parts[Len(d.parts)].kind = Text
  PROVE  LET e == docText(d, x) IN
         /\ e \in DocRec /\ e.parts # <<>> /\ e.parts[Len(e.parts)].kind = Text
         /\ e.pending = d.pending \o x /\ e.sent = d.sent
         /\ merged(e.parts) = joined(merged(d.parts), textPart(x))
<1> DEFINE n == Len(d.parts)
           a == d.parts[n]
           longer == [a EXCEPT !.text = a.text \o x]
           extended == [d.parts EXCEPT ![n].text = @ \o x]
           opened == Append(d.parts, partOf(Whole(Text, x)))
           more == IF d.open THEN extended ELSE opened
           text == d.pending \o x
           e == docText(d, x)
<1>1. /\ d.parts \in Seq(PartRec) /\ n \in Nat /\ d.pending \in Seq(Nat) /\ d.sent \in Nat /\ d.begun \in BOOLEAN
      /\ d.open \in BOOLEAN /\ d.ended \in {"no", "result", "error"}
  BY DEF DocRec
<1>2. text \in Seq(Nat)
  BY <1>1
<1>3. partOf(Whole(Text, x)) = textPart(x)
  BY DEF partOf, Whole, Open, textPart
<1>4. x \in Seq(Int) /\ textPart(x) \in PartRec /\ textPart(x).kind = Text
  <2>1. \A z \in Seq(Nat) : z \in Seq(Int)
    OBVIOUS
  <2>2. QED
    BY <2>1, TextPartIs
<1>5. e = [d EXCEPT !.begun = TRUE, !.open = TRUE, !.pending = text, !.parts = more]
  BY DEF docText
<1>6. more \in Seq(PartRec) /\ more # <<>> /\ more[Len(more)].kind = Text /\ merged(more) = joined(merged(d.parts), textPart(x))
  <2>1. CASE d.open
    <3>1. n \in 1 .. Len(d.parts) /\ a \in PartRec /\ a.kind = Text
      BY <1>1, <2>1
    <3>2. longer \in PartRec /\ longer.kind = Text
      <4>1. a.text \in Seq(Int)
        BY <3>1 DEF PartRec
      <4> DEFINE y == a.text \o x
      <4>2. y \in Seq(Int)
        BY <1>4, <4>1
      <4> HIDE DEF y, a
      <4>3. [a EXCEPT !.text = y] \in PartRec /\ [a EXCEPT !.text = y].kind = Text
        BY <3>1, <4>2 DEF PartRec
      <4>4. QED
        BY <4>3 DEF y
    <3>3. PICK front \in Seq(PartRec) : d.parts = Append(front, a) /\ Len(front) + 1 = n
      <4> DEFINE front == SubSeq(d.parts, 1, n - 1)
      <4>1. front \in Seq(PartRec) /\ Len(front) = n - 1 /\ \A i \in 1 .. n - 1 : front[i] = d.parts[i]
        BY <1>1, <3>1
      <4> HIDE DEF front
      <4>2. Append(front, a) \in Seq(PartRec) /\ Len(Append(front, a)) = n /\ Append(front, a)[n] = a
            /\ \A i \in 1 .. n - 1 : Append(front, a)[i] = d.parts[i]
        BY <1>1, <3>1, <4>1
      <4>3. d.parts = Append(front, a)
        <5> DEFINE v == Append(front, a)
        <5> HIDE DEF v, a
        <5>1. v \in Seq(PartRec) /\ Len(v) = n /\ v[n] = a /\ \A i \in 1 .. n - 1 : v[i] = d.parts[i]
          BY <4>2 DEF v
        <5>2. \A i \in 1 .. n : v[i] = d.parts[i]
          BY <1>1, <5>1 DEF a
        <5> DEFINE w == d.parts
        <5>3. w \in Seq(PartRec) /\ Len(w) = Len(v) /\ \A i \in 1 .. Len(v) : v[i] = w[i]
          BY <1>1, <5>1, <5>2
        <5> HIDE DEF w
        <5>4. v = w
          BY <5>1, <5>3, SeqEqual
        <5>5. QED
          BY <5>4 DEF v, w
      <4>4. QED
        BY <1>1, <4>1, <4>3
    <3>4. extended = [Append(front, a) EXCEPT ![Len(front) + 1] = longer]
      BY <3>3
    <3> HIDE DEF longer
    <3>5. extended = Append(front, longer)
      <4> HIDE DEF a, extended
      <4>1. QED
        BY <3>1, <3>2, <3>4, LastReplaced
    <3>6. merged(front) \in Seq(PartRec) /\ merged(extended) = joined(merged(front), longer)
          /\ merged(d.parts) = joined(merged(front), a)
      <4> HIDE DEF a, extended
      <4>1. QED
        BY <3>1, <3>2, <3>3, <3>5, MergedMore
    <3>7. joined(joined(merged(front), a), textPart(x)) = joined(merged(front), longer)
      <4> HIDE DEF a
      <4>1. QED
        BY <1>4, <3>1, <3>6, JoinedTwice DEF longer
    <3>8. Append(front, longer) \in Seq(PartRec) /\ Append(front, longer) # <<>>
          /\ Append(front, longer)[Len(Append(front, longer))].kind = Text
      BY <3>2
    <3>9. more = extended
      BY <2>1
    <3> HIDE DEF more, extended, a
    <3>10. QED
      BY <3>5, <3>6, <3>7, <3>8, <3>9
  <2>2. CASE ~d.open
    <3>1. more = Append(d.parts, textPart(x))
      BY <1>3, <2>2
    <3> HIDE DEF more
    <3>2. more \in Seq(PartRec) /\ more # <<>> /\ Len(more) = n + 1 /\ more[n + 1] = textPart(x)
      BY <1>1, <1>4, <3>1
    <3>3. merged(more) = joined(merged(d.parts), textPart(x))
      BY <1>1, <1>4, <3>1, MergedMore
    <3>4. QED
      BY <1>4, <3>2, <3>3
  <2>3. QED
    BY <2>1, <2>2
<1> HIDE DEF more, text, e
<1>7. e \in DocRec /\ e.parts = more /\ e.pending = text /\ e.sent = d.sent
  BY <1>1, <1>2, <1>5, <1>6 DEF DocRec
<1>8. QED
  BY <1>6, <1>7 DEF text, e

\* A part closes the text under way, or is it.
LEMMA DocPartIs ==
  ASSUME ~gone, NEW d \in DocRec, NEW part \in PartRec
  PROVE  LET e == docPart(d, part) IN
         /\ e \in DocRec /\ e.pending = <<>> /\ e.sent = d.sent + 1
         /\ isPending(d, part) => e.parts = d.parts /\ e.open = d.open
         /\ ~isPending(d, part) => e.parts = Append(d.parts, part) /\ e.open = FALSE
<1> DEFINE more == IF isPending(d, part) THEN d.parts ELSE Append(d.parts, part)
           open == d.open /\ isPending(d, part)
           e == docPart(d, part)
<1>1. /\ d.parts \in Seq(PartRec) /\ d.pending \in Seq(Nat) /\ d.sent \in Nat /\ d.begun \in BOOLEAN
      /\ d.open \in BOOLEAN /\ d.ended \in {"no", "result", "error"}
  BY DEF DocRec
<1>2. isPending(d, part) \in BOOLEAN
  BY DEF isPending
<1>3. e = [d EXCEPT !.begun = TRUE, !.sent = d.sent + 1, !.pending = <<>>, !.open = open, !.parts = more]
  BY DEF docPart
<1>4. more \in Seq(PartRec) /\ open \in BOOLEAN /\ <<>> \in Seq(Nat) /\ d.sent + 1 \in Nat
  <2>1. Append(d.parts, part) \in Seq(PartRec)
    BY <1>1
  <2>2. QED
    BY <1>1, <1>2, <2>1
<1> HIDE DEF e
<1>5. e \in DocRec /\ e.pending = <<>> /\ e.sent = d.sent + 1 /\ e.parts = more /\ e.open = open
  <2> HIDE DEF more, open
  <2>1. QED
    BY <1>1, <1>3, <1>4 DEF DocRec
<1>6. QED
  BY <1>1, <1>2, <1>5 DEF e

\* Nothing changes that the document says.
SaysSame(s, t) == t.node = s.node /\ t.parts = s.parts /\ t.announced = s.announced /\ t.torn = s.torn

LEMMA SameFollows ==
  ASSUME NEW s, NEW t, SaysSame(s, t), NEW d, NEW x, Follows(s, d, x)
  PROVE  Follows(t, d, x)
<1>1. Revised(s) <=> Revised(t)
  BY DEF SaysSame, Revised
<1>2. Written(s, d) => Written(t, d)
  BY DEF SaysSame, Written
<1>3. Awaiting(s, d.pending, x) => Awaiting(t, d.pending, x)
  BY DEF SaysSame, Awaiting, Writing
<1>4. ToldAsIs(s) => ToldAsIs(t)
  <2>1. toldParts(s) = toldParts(t)
    BY DEF SaysSame, toldParts
  <2>2. QED
    BY <2>1 DEF SaysSame, ToldAsIs
<1>5. t.torn = s.torn
  BY DEF SaysSame
<1>6. QED
  BY <1>1, <1>2, <1>3, <1>4, <1>5 DEF Follows, Amiss

\* What a usage report does to the document.
LEMMA UsageFollows ==
  ASSUME NEW s, NEW d, NEW x, Follows(s, d, x)
  PROVE  Follows(s, docUsage(d), x)
<1> DEFINE e == docUsage(d)
<1>1. ASSUME Written(s, d) PROVE Written(s, e) /\ e.pending = d.pending
  <2>1. d \in DocRec
    BY <1>1 DEF Written
  <2>2. e = [d EXCEPT !.begun = TRUE, !.open = FALSE]
    BY DEF docUsage
  <2> HIDE DEF e
  <2>3. e \in DocRec /\ e.parts = d.parts /\ e.open = FALSE /\ e.pending = d.pending /\ e.sent = d.sent
    BY <2>1, <2>2 DEF DocRec
  <2>4. QED
    BY <1>1, <2>3 DEF Written
<1> HIDE DEF e
<1>2. QED
  BY <1>1 DEF Follows, e

\* A node takes the place of one of its kind.
Turned(s, n, t) ==
  /\ n \in 1 .. Len(s.node) /\ Len(t.node) = Len(s.node)
  /\ \A m \in 1 .. Len(s.node) : m # n => t.node[m] = s.node[m]
  /\ t.node[n].kind = s.node[n].kind /\ t.parts = s.parts /\ t.announced = s.announced

LEMMA TurnedAt ==
  ASSUME NEW s \in CallRec, NEW n \in 1 .. Len(s.node), NEW g \in FieldRec, g.kind = s.node[n].kind,
         NEW t, t.node = [s.node EXCEPT ![n] = g], t.parts = s.parts, t.announced = s.announced
  PROVE  Turned(s, n, t) /\ t.node[n] = g
<1>1. s.node \in Seq(FieldRec) /\ DOMAIN s.node = 1 .. Len(s.node)
  BY CallTypes
<1>2. Len(t.node) = Len(s.node) /\ t.node[n] = g /\ \A m \in 1 .. Len(s.node) : m # n => t.node[m] = s.node[m]
  BY <1>1
<1>3. QED
  BY <1>2 DEF Turned

LEMMA TurnedTold ==
  ASSUME NEW s, NEW t, NEW n, Turned(s, n, t), ToldAsIs(s),
         s.node[n].kind = Text => n \notin s.announced /\ t.node[n].blob = FALSE
  PROVE  ToldAsIs(t)
<1>1. /\ n \in 1 .. Len(s.node) /\ Len(t.node) = Len(s.node) /\ t.node[n].kind = s.node[n].kind
      /\ \A m \in 1 .. Len(s.node) : m # n => t.node[m] = s.node[m]
      /\ t.parts = s.parts /\ t.announced = s.announced
  BY DEF Turned
<1>2. toldParts(t) = toldParts(s)
  <2>1. ASSUME NEW m \in 1 .. Len(s.node), m \in s.announced PROVE isPart(t.node[m]) <=> isPart(s.node[m])
    <3>1. CASE m = n
      BY <1>1, <2>1, <3>1 DEF isPart
    <3>2. CASE m # n
      BY <1>1, <3>2
    <3>3. QED
      BY <3>1, <3>2
  <2>2. QED
    BY <1>1, <2>1 DEF toldParts
<1>3. ASSUME NEW m \in 1 .. Len(t.node), t.node[m].kind = Text
      PROVE  t.node[m].blob = FALSE /\ (m \in t.announced => t.node[m].done)
  <2>1. CASE m = n
    BY <1>1, <1>3, <2>1
  <2>2. CASE m # n
    BY <1>1, <1>3, <2>2 DEF ToldAsIs
  <2>3. QED
    BY <2>1, <2>2
<1>4. ASSUME NEW i \in 1 .. Len(t.parts), t.parts[i].kind = Text
      PROVE  \E m \in 1 .. Len(t.node) : m \in t.announced /\ t.node[m].kind = Text /\ t.node[m].value = t.parts[i].text
  <2>1. PICK m \in 1 .. Len(s.node) : m \in s.announced /\ s.node[m].kind = Text /\ s.node[m].value = s.parts[i].text
    BY <1>1, <1>4 DEF ToldAsIs
  <2>2. m # n
    BY <2>1
  <2>3. QED
    BY <1>1, <2>1, <2>2
<1>5. t.announced \subseteq 1 .. Len(t.node) /\ Cardinality(toldParts(t)) <= Len(t.parts)
  BY <1>1, <1>2 DEF ToldAsIs
<1>6. QED
  BY <1>3, <1>4, <1>5 DEF ToldAsIs

\* A node that is no text may change as it likes.
LEMMA TurnedOther ==
  ASSUME NEW s, NEW t, NEW n, Turned(s, n, t), s.node[n].kind # Text, NEW text, NEW x, Awaiting(s, text, x)
  PROVE  Awaiting(t, text, x)
<1>1. /\ n \in 1 .. Len(s.node) /\ Len(t.node) = Len(s.node) /\ t.node[n].kind = s.node[n].kind
      /\ \A m \in 1 .. Len(s.node) : m # n => t.node[m] = s.node[m]
      /\ t.announced = s.announced
  BY DEF Turned
<1>2. \A m \in 1 .. Len(s.node) : (isPart(t.node[m]) <=> isPart(s.node[m])) /\ t.node[m].kind = s.node[m].kind
                                  /\ (s.node[m].kind = Text => t.node[m] = s.node[m])
  BY <1>1 DEF isPart
<1>3. ASSUME NEW k \in 1 .. Len(s.node), Writing(s, k, text, x) PROVE Writing(t, k, text, x)
  <2>1. s.node[k].kind = Text /\ t.node[k] = s.node[k]
    BY <1>2, <1>3 DEF Writing
  <2>2. ASSUME NEW m \in 1 .. k - 1, m # x, isPart(t.node[m]) PROVE m \in t.announced
    <3>1. m \in 1 .. Len(s.node) \/ Len(s.node) \notin Nat
      OBVIOUS
    <3>2. m \in 1 .. Len(s.node)
      OBVIOUS
    <3>3. QED
      BY <1>1, <1>2, <1>3, <2>2, <3>2 DEF Writing
  <2>3. QED
    BY <1>1, <1>3, <2>1, <2>2 DEF Writing
<1>4. QED
  BY <1>1, <1>2, <1>3 DEF Awaiting

\* A text that was revised stays so.
LEMMA TurnedAmiss ==
  ASSUME NEW s, NEW t, NEW n, Turned(s, n, t), s.torn => t.torn, s.node[n].revs # <<>> => t.node[n].revs # <<>>, Amiss(s)
  PROVE  Amiss(t)
<1>1. CASE s.torn
  BY <1>1 DEF Amiss
<1>2. CASE Revised(s)
  <2>1. PICK m \in 1 .. Len(s.node) : s.node[m].kind = Text /\ s.node[m].revs # <<>>
    BY <1>2 DEF Revised
  <2>2. m \in 1 .. Len(t.node) /\ t.node[m].kind = Text /\ t.node[m].revs # <<>>
    BY <2>1 DEF Turned
  <2>3. QED
    BY <2>2 DEF Amiss, Revised
<1>3. QED
  BY <1>1, <1>2 DEF Amiss

\* A node begins: it has no value yet.
Begun(s, g, t) ==
  /\ g \in FieldRec /\ g.value = <<>> /\ g.revs = <<>> /\ (g.kind = Text => g.blob = FALSE)
  /\ t.node = Append(s.node, g) /\ t.parts = s.parts /\ t.announced = s.announced /\ t.torn = s.torn

LEMMA BegunFollows ==
  ASSUME NEW s \in CallRec, NEW g, NEW t, Begun(s, g, t), NEW d, NEW x, Follows(s, d, x)
  PROVE  Follows(t, d, x)
<1> DEFINE N == Len(s.node)
<1>1. /\ Len(t.node) = N + 1 /\ N \in Nat /\ t.node[N + 1] = g
      /\ \A m \in 1 .. N : t.node[m] = s.node[m] /\ m \in 1 .. N + 1
      /\ \A m \in 1 .. N + 1 : m = N + 1 \/ m \in 1 .. N
  BY CallTypes, OneMore DEF Begun
<1>2. /\ g.value = <<>> /\ g.revs = <<>> /\ (g.kind = Text => g.blob = FALSE)
      /\ t.parts = s.parts /\ t.announced = s.announced /\ t.torn = s.torn
  BY DEF Begun
<1> HIDE DEF N
<1>3. Amiss(s) => Amiss(t)
  BY <1>1, <1>2 DEF Amiss, Revised, N
<1>4. Written(s, d) => Written(t, d)
  BY <1>2 DEF Written
<1>5. ASSUME Awaiting(s, d.pending, x) PROVE Awaiting(t, d.pending, x)
  <2>1. ASSUME NEW k \in 1 .. N, Writing(s, k, d.pending, x) PROVE Writing(t, k, d.pending, x)
    <3>1. \A m \in 1 .. k - 1 : m \in 1 .. N
      BY <1>1
    <3>2. QED
      BY <1>1, <1>2, <2>1, <3>1 DEF Writing
  <2>2. ASSUME d.pending # <<>> PROVE \E k \in 1 .. Len(t.node) : Writing(t, k, d.pending, x)
    BY <1>1, <1>5, <2>1, <2>2 DEF Awaiting, N
  <2>3. ASSUME d.pending = <<>>, NEW m \in 1 .. Len(t.node), m # x, t.node[m].kind = Text, t.node[m].value # <<>>
        PROVE  m \in t.announced
    <3>1. m \in 1 .. N
      BY <1>1, <1>2, <2>3
    <3>2. QED
      BY <1>1, <1>2, <1>5, <2>3, <3>1 DEF Awaiting, N
  <2>4. QED
    BY <2>2, <2>3 DEF Awaiting
<1>6. ASSUME ToldAsIs(s) PROVE ToldAsIs(t)
  <2>1. s.announced \subseteq 1 .. N
    BY <1>6 DEF ToldAsIs, N
  <2>2. toldParts(t) = toldParts(s)
    BY <1>1, <1>2, <2>1 DEF toldParts, N
  <2>3. ASSUME NEW m \in 1 .. N + 1, t.node[m].kind = Text PROVE t.node[m].blob = FALSE /\ (m \in t.announced => t.node[m].done)
    <3>1. CASE m = N + 1
      BY <1>1, <1>2, <2>1, <2>3, <3>1
    <3>2. CASE m \in 1 .. N
      BY <1>1, <1>2, <1>6, <2>3, <3>2 DEF ToldAsIs, N
    <3>3. QED
      BY <1>1, <3>1, <3>2
  <2>4. ASSUME NEW i \in 1 .. Len(t.parts), t.parts[i].kind = Text
        PROVE  \E m \in 1 .. N + 1 : m \in t.announced /\ t.node[m].kind = Text /\ t.node[m].value = t.parts[i].text
    <3>1. PICK m \in 1 .. N : m \in s.announced /\ s.node[m].kind = Text /\ s.node[m].value = s.parts[i].text
      BY <1>2, <1>6, <2>4 DEF ToldAsIs, N
    <3>2. QED
      BY <1>1, <1>2, <3>1
  <2>5. t.announced \subseteq 1 .. N + 1 /\ Cardinality(toldParts(t)) <= Len(t.parts)
    BY <1>1, <1>2, <1>6, <2>1, <2>2 DEF ToldAsIs
  <2>6. QED
    BY <1>1, <2>3, <2>4, <2>5 DEF ToldAsIs
<1>7. QED
  BY <1>3, <1>4, <1>5, <1>6 DEF Follows

\* A text grows while no other part waits: it is the text under way, and the document has its piece.
Alone(s, n) == \A m \in 1 .. Len(s.node) : m # n /\ isPart(s.node[m]) => m \in s.announced

LEMMA AloneWaits ==
  ASSUME NEW s, NEW n \in 1 .. Len(s.node), s.node[n].kind = Text, n \notin s.announced, Alone(s, n),
         NEW text, Awaiting(s, text, NoNode)
  PROVE  s.node[n].value = text
<1>1. CASE text # <<>>
  <2>1. PICK m \in 1 .. Len(s.node) : s.node[m].kind = Text /\ s.node[m].value = text /\ m \notin s.announced
    BY <1>1 DEF Awaiting, Writing
  <2>2. m = n
    BY <1>1, <2>1 DEF Alone, isPart
  <2>3. QED
    BY <2>1, <2>2
<1>2. CASE text = <<>>
  BY <1>2 DEF Awaiting, NoNode
<1>3. QED
  BY <1>1, <1>2

LEMMA TextGrows ==
  ASSUME ~gone, NEW s, NEW n \in 1 .. Len(s.node), s.node[n].kind = Text, n \notin s.announced, Alone(s, n),
         NEW d, Written(s, d), Awaiting(s, d.pending, NoNode), ToldAsIs(s), NEW x \in Seq(Nat), x # <<>>,
         NEW t, Turned(s, n, t), t.node[n].value = s.node[n].value \o x, t.node[n].blob = FALSE
  PROVE  Follows(t, docText(d, x), NoNode)
<1> DEFINE e == docText(d, x)
<1>1. /\ d \in DocRec /\ s.parts \in Seq(PartRec) /\ d.sent = Len(s.parts)
      /\ d.open => d.parts # <<>> /\ d.parts[Len(d.parts)].kind = Text
      /\ merged(d.parts) = merged(withText(s.parts, d.pending))
  BY DEF Written
<1>2. /\ e \in DocRec /\ e.parts # <<>> /\ e.parts[Len(e.parts)].kind = Text
      /\ e.pending = d.pending \o x /\ e.sent = d.sent
      /\ merged(e.parts) = joined(merged(d.parts), textPart(x))
  BY <1>1, DocTextIs
<1>3. d.pending \in Seq(Nat)
  BY <1>1 DEF DocRec
<1> HIDE DEF e
<1>4. merged(e.parts) = merged(withText(s.parts, e.pending))
  BY <1>1, <1>2, <1>3, PendingText
<1>5. s.node[n].value = d.pending
  BY AloneWaits
<1>6. /\ Len(t.node) = Len(s.node) /\ t.node[n].kind = Text /\ t.parts = s.parts /\ t.announced = s.announced
      /\ \A m \in 1 .. Len(s.node) : m # n => t.node[m] = s.node[m]
  BY DEF Turned
<1>7. Written(t, e)
  BY <1>1, <1>2, <1>4, <1>6 DEF Written
<1>8. Writing(t, n, e.pending, NoNode)
  <2>1. \A m \in 1 .. n - 1 : m \in 1 .. Len(s.node) /\ m # n
    OBVIOUS
  <2>2. QED
    BY <1>2, <1>5, <1>6, <2>1 DEF Writing, Alone
<1>9. e.pending # <<>>
  <2>1. Len(x) # 0 /\ Len(x) \in Nat /\ Len(d.pending) \in Nat
    BY <1>3
  <2>2. Len(d.pending \o x) # 0
    BY <1>3, <2>1
  <2>3. QED
    BY <1>2, <2>2
<1>10. Awaiting(t, e.pending, NoNode)
  BY <1>6, <1>8, <1>9 DEF Awaiting
<1>11. ToldAsIs(t)
  BY TurnedTold
<1>12. QED
  BY <1>7, <1>10, <1>11 DEF Follows, e

LEMMA OneAfter ==
  ASSUME NEW S, NEW a \in Seq(S), NEW b \in S
  PROVE  Append(a, b) # <<>> /\ Append(a, b) = a \o <<b>>
<1>1. Len(Append(a, b)) = Len(a) + 1 /\ Len(a) \in Nat /\ Append(a, b) = a \o <<b>>
  OBVIOUS
<1> DEFINE v == Append(a, b)
<1> HIDE DEF v
<1>2. Len(v) # 0
  BY <1>1 DEF v
<1>3. v # <<>>
  BY <1>2
<1>4. QED
  BY <1>1, <1>3 DEF v

LEMMA DeltaFollows ==
  ASSUME ~gone, NEW s \in CallRec, NEW n \in 1 .. Len(s.node), NEW piece \in Nat, NEW d, Follows(s, d, NoNode)
  PROVE  Follows(SinkDelta(s, n, piece), IF s.node[n].kind = Text THEN docText(d, <<piece>>) ELSE d, NoNode)
<1> DEFINE f == s.node[n]
           g == Append1(f, piece)
           t == SinkDelta(s, n, piece)
           x == <<piece>>
           text == f.kind = Text
<1>1. f \in FieldRec /\ g \in FieldRec
  BY CallTypes, PieceHeld
<1>2. g.kind = f.kind /\ g.blob = f.blob /\ g.value = Append(f.value, piece)
      /\ g.revs = IF f.done THEN Append(f.revs, f.value) ELSE f.revs
  BY <1>1 DEF FieldRec, Append1
<1>3. f.value \in Seq(Int) /\ f.revs \in Seq(Seq(Int))
  BY <1>1, FieldTypes
<1>4. t.node = [s.node EXCEPT ![n] = g] /\ t.parts = s.parts /\ t.announced = s.announced
      /\ t.torn = (s.torn \/ (s.node[n].kind = Text /\ pendingBeside(s, n, Kinds)))
  BY DEF SinkDelta, CallRec
<1> HIDE DEF t
<1>5. Turned(s, n, t) /\ t.node[n] = g
  <2> HIDE DEF g
  <2>1. QED
    BY <1>1, <1>2, <1>4, TurnedAt
<1>6. f.revs # <<>> => g.revs # <<>>
  <2>1. Append(f.revs, f.value) # <<>>
    <3> HIDE DEF f
    <3>1. QED
      BY <1>3, OneAfter
  <2>2. QED
    BY <1>2, <2>1
<1>7. CASE Amiss(s)
  <2> HIDE DEF f, g
  <2>1. Amiss(t)
    BY <1>4, <1>5, <1>6, <1>7, TurnedAmiss DEF f
  <2>2. QED
    BY <2>1 DEF Follows, t
<1>8. CASE ~Amiss(s) /\ f.kind # Text
  <2> HIDE DEF g
  <2>1. Written(s, d) /\ Awaiting(s, d.pending, NoNode) /\ ToldAsIs(s)
    BY <1>8 DEF Follows
  <2>2. Written(t, d)
    BY <1>4, <2>1 DEF Written
  <2>3. Awaiting(t, d.pending, NoNode)
    BY <1>5, <1>8, <2>1, TurnedOther
  <2>4. ToldAsIs(t)
    BY <1>5, <1>8, <2>1, TurnedTold
  <2>5. QED
    BY <1>8, <2>2, <2>3, <2>4 DEF Follows, t
<1>9. CASE ~Amiss(s) /\ f.kind = Text /\ Amiss(t)
  BY <1>9 DEF Follows, t
<1>10. CASE ~Amiss(s) /\ f.kind = Text /\ ~Amiss(t)
  <2>1. Written(s, d) /\ Awaiting(s, d.pending, NoNode) /\ ToldAsIs(s)
    BY <1>10 DEF Follows
  <2>2. Alone(s, n)
    <3>1. ~pendingBeside(s, n, Kinds)
      BY <1>4, <1>10 DEF Amiss
    <3>2. \A m \in 1 .. Len(s.node) : s.node[m].kind \in Kinds
      BY CallTypes, FieldTypes
    <3>3. QED
      BY <3>1, <3>2 DEF pendingBeside, Alone
  <2>3. g.revs = <<>>
    <3>1. n \in 1 .. Len(t.node)
      BY <1>5 DEF Turned
    <3>2. QED
      BY <1>2, <1>5, <1>10, <3>1 DEF Amiss, Revised
  <2>4. ~f.done
    <3> HIDE DEF f
    <3>1. Append(f.revs, f.value) # <<>>
      BY <1>3, OneAfter
    <3>2. QED
      BY <1>2, <2>3, <3>1
  <2>5. n \notin s.announced /\ f.blob = FALSE
    BY <1>10, <2>1, <2>4 DEF ToldAsIs
  <2>6. x \in Seq(Nat) /\ x # <<>>
    OBVIOUS
  <2>7. g.value = f.value \o x
    <3>1. piece \in Int
      OBVIOUS
    <3> HIDE DEF f, g
    <3>2. Append(f.value, piece) = f.value \o <<piece>>
      BY <1>3, <3>1, OneAfter
    <3>3. QED
      BY <1>2, <3>2
  <2> HIDE DEF g, x
  <2>8. Follows(t, docText(d, x), NoNode)
    BY <1>2, <1>5, <1>10, <2>1, <2>2, <2>5, <2>6, <2>7, TextGrows
  <2>9. QED
    BY <1>10, <2>8 DEF t, x
<1>11. QED
  BY <1>7, <1>8, <1>9, <1>10

\* A blob changes no text.
LEMMA BlobFollows ==
  ASSUME NEW s \in CallRec, NEW n \in 1 .. Len(s.node), s.node[n].kind # Text, NEW d, NEW x, Follows(s, d, x)
  PROVE  Follows([s EXCEPT !.node[n].blob = TRUE], d, x)
<1> DEFINE g == [s.node[n] EXCEPT !.blob = TRUE]
           t == [s EXCEPT !.node[n].blob = TRUE]
<1>1. s.node[n] \in FieldRec
  BY CallTypes
<1>2. g \in FieldRec /\ g.kind = s.node[n].kind /\ g.revs = s.node[n].revs
  BY <1>1 DEF FieldRec
<1>3. t.node = [s.node EXCEPT ![n] = g] /\ t.parts = s.parts /\ t.announced = s.announced /\ t.torn = s.torn
  BY DEF CallRec
<1> HIDE DEF t, g
<1>4. Turned(s, n, t) /\ t.node[n] = g
  BY <1>2, <1>3, TurnedAt
<1>5. Amiss(s) => Amiss(t)
  BY <1>2, <1>3, <1>4, TurnedAmiss
<1>6. Written(s, d) => Written(t, d)
  BY <1>3 DEF Written
<1>7. Awaiting(s, d.pending, x) => Awaiting(t, d.pending, x)
  BY <1>4, TurnedOther
<1>8. ToldAsIs(s) => ToldAsIs(t)
  BY <1>4, TurnedTold
<1>9. QED
  BY <1>5, <1>6, <1>7, <1>8 DEF Follows, t

\* An item's end leaves the text as it streamed, revises it, or states one that had not streamed.
LEMMA ItemEndIs ==
  ASSUME NEW f \in FieldRec, ~f.done, NEW final \in Finals, NEW kind \in Kinds, kind = f.kind,
         NEW g, g = itemEnd(f, final, kind)
  PROVE  /\ g \in FieldRec /\ g.kind = f.kind /\ (f.revs # <<>> => g.revs # <<>>)
         /\ kind = Text => g.blob = f.blob /\ (g.revs # <<>> \/ g.value = f.value \/ f.value = <<>>)
<1> DEFINE value == IF final = "as streamed" THEN f.value
                    ELSE IF final = "corrected" THEN <<Correction>> ELSE <<>>
           whole == FinishWith(f, value)
           ended == IF value # <<>> \/ f.value = <<>> \/ kind = ToolCall THEN whole ELSE f
<1>1. g \in FieldRec
  BY ItemEndHeld
<1>2. g = IF kind = Thinking THEN [ended EXCEPT !.blob = TRUE] ELSE ended
  BY DEF itemEnd
<1>3. f.value \in Seq(Int) /\ f.revs \in Seq(Seq(Int))
  BY FieldTypes
<1>4. whole.kind = f.kind /\ whole.value = value /\ whole.blob = f.blob
      /\ whole.revs = IF f.value # <<>> /\ value # f.value THEN Append(f.revs, f.value) ELSE f.revs
  BY DEF FinishWith, FieldRec
<1>5. Append(f.revs, f.value) # <<>>
  BY <1>3, OneAfter
<1>6. [ended EXCEPT !.blob = TRUE].kind = ended.kind /\ [ended EXCEPT !.blob = TRUE].revs = ended.revs
  <2>1. whole = [f EXCEPT !.value = value, !.done = TRUE, !.revs = IF f.value # <<>> /\ value # f.value THEN Append(f.revs, f.value) ELSE f.revs]
    BY DEF FinishWith
  <2>2. DOMAIN whole = {"kind", "value", "done", "revs", "blob"} /\ DOMAIN f = {"kind", "value", "done", "revs", "blob"}
    BY <2>1 DEF FieldRec
  <2>3. DOMAIN ended = {"kind", "value", "done", "revs", "blob"}
    BY <2>2
  <2> HIDE DEF ended
  <2>4. QED
    BY <2>3
<1> HIDE DEF whole
<1>7. ended.kind = f.kind /\ (f.revs # <<>> => ended.revs # <<>>) /\ ended.blob = f.blob
      /\ (ended.revs # <<>> \/ ended.value = f.value \/ f.value = <<>>)
  <2> HIDE DEF value
  <2>1. CASE ended = f
    BY <2>1
  <2>2. CASE ended = whole
    BY <1>4, <1>5, <2>2
  <2>3. QED
    BY <2>1, <2>2
<1> HIDE DEF ended
<1>8. kind = Text => g = ended
  BY <1>2 DEF Text, Thinking
<1>9. g.kind = f.kind /\ (f.revs # <<>> => g.revs # <<>>)
  BY <1>2, <1>6, <1>7
<1>10. QED
  BY <1>1, <1>7, <1>8, <1>9

LEMMA FollowsAnyway ==
  ASSUME NEW s, NEW d, NEW n, Follows(s, d, NoNode)
  PROVE  Follows(s, d, n)
<1>1. ASSUME Awaiting(s, d.pending, NoNode) PROVE Awaiting(s, d.pending, n)
  <2>1. \A k \in 1 .. Len(s.node) : Writing(s, k, d.pending, NoNode) => Writing(s, k, d.pending, n)
    BY DEF Writing, NoNode
  <2>2. QED
    BY <1>1, <2>1 DEF Awaiting, NoNode
<1>2. QED
  BY <1>1 DEF Follows

\* The end of a node's item, before it is announced.
LEMMA EndFollows ==
  ASSUME NEW s, NEW n, NEW t, Turned(s, n, t), t.torn = s.torn, NEW d, Follows(s, d, NoNode),
         s.node[n].revs # <<>> => t.node[n].revs # <<>>, ~s.node[n].done,
         s.node[n].kind = Text =>
            /\ t.node[n].blob = s.node[n].blob
            /\ t.node[n].revs # <<>> \/ t.node[n].value = s.node[n].value \/ s.node[n].value = <<>>
  PROVE  Follows(t, d, n)
<1>1. /\ n \in 1 .. Len(s.node) /\ Len(t.node) = Len(s.node) /\ t.node[n].kind = s.node[n].kind
      /\ \A m \in 1 .. Len(s.node) : m # n => t.node[m] = s.node[m]
      /\ t.parts = s.parts /\ t.announced = s.announced
  BY DEF Turned
<1>2. CASE Amiss(s)
  <2>1. Amiss(t)
    BY <1>2, TurnedAmiss
  <2>2. QED
    BY <2>1 DEF Follows
<1>3. CASE Amiss(t)
  BY <1>3 DEF Follows
<1>4. CASE ~Amiss(s) /\ ~Amiss(t)
  <2>1. Written(s, d) /\ Awaiting(s, d.pending, NoNode) /\ ToldAsIs(s)
    BY <1>4 DEF Follows
  <2>2. Written(t, d)
    BY <1>1, <2>1 DEF Written
  <2>3. s.node[n].kind = Text => n \notin s.announced /\ t.node[n].blob = FALSE
    BY <1>1, <2>1 DEF ToldAsIs
  <2>4. ToldAsIs(t)
    BY <2>1, <2>3, TurnedTold
  <2>5. s.node[n].kind = Text => t.node[n].value = s.node[n].value \/ s.node[n].value = <<>>
    BY <1>1, <1>4 DEF Amiss, Revised
  <2>6. \A m \in 1 .. Len(s.node) : m # n => (isPart(t.node[m]) <=> isPart(s.node[m]))
    BY <1>1
  <2>7. ASSUME NEW k \in 1 .. Len(s.node), Writing(s, k, d.pending, NoNode), d.pending # <<>>
        PROVE  Writing(t, k, d.pending, n)
    <3>1. t.node[k].kind = Text /\ t.node[k].value = d.pending /\ k \notin t.announced
      <4>1. CASE k = n
        BY <1>1, <2>5, <2>7, <4>1 DEF Writing
      <4>2. CASE k # n
        BY <1>1, <2>7, <4>2 DEF Writing
      <4>3. QED
        BY <4>1, <4>2
    <3>2. ASSUME NEW m \in 1 .. k - 1, m # n, isPart(t.node[m]) PROVE m \in t.announced
      <4>1. m \in 1 .. Len(s.node) /\ m # NoNode
        BY DEF NoNode
      <4>2. QED
        BY <1>1, <2>6, <2>7, <3>2, <4>1 DEF Writing
    <3>3. QED
      BY <3>1, <3>2 DEF Writing
  <2>8. \A m \in 1 .. Len(s.node) : m # NoNode
    BY DEF NoNode
  <2>9. Awaiting(t, d.pending, n)
    BY <1>1, <2>1, <2>7, <2>8 DEF Awaiting
  <2>10. QED
    BY <2>2, <2>4, <2>9 DEF Follows
<1>5. QED
  BY <1>2, <1>3, <1>4

\* What announcing a node does: it ends the node, and tells its part if it has one.
Told(s, d, n, t, e) ==
  /\ n \in 1 .. Len(s.node) /\ Len(t.node) = Len(s.node)
  /\ \A m \in 1 .. Len(s.node) : m # n => t.node[m] = s.node[m]
  /\ t.node[n] = FinishNode(s.node[n]) /\ t.announced = s.announced \cup {n}
  /\ IF isPart(t.node[n])
     THEN /\ t.parts = Append(s.parts, partOf(t.node[n])) /\ e = docPart(d, partOf(t.node[n]))
          /\ t.torn = (s.torn \/ pendingBeside(t, n, {Text}))
     ELSE t.parts = s.parts /\ e = d /\ t.torn = s.torn

LEMMA AnnouncedTold ==
  ASSUME NEW p, p.s \in CallRec, NEW n \in 1 .. Len(p.s.node)
  PROVE  Told(p.s, p.d, n, Announced(p, n).s, Announced(p, n).d)
<1> DEFINE s == p.s
           g == FinishNode(s.node[n])
           ended == [s EXCEPT !.node[n] = FinishNode(@), !.announced = @ \cup {n}]
           part == partOf(ended.node[n])
           torn == s.torn \/ pendingBeside(ended, n, {Text})
           said == [ended EXCEPT !.parts = Append(@, partOf(ended.node[n])), !.err = @ \/ gone,
                                 !.torn = @ \/ pendingBeside(ended, n, {Text})]
           t == Announced(p, n).s
           e == Announced(p, n).d
<1>1. s.node \in Seq(FieldRec) /\ DOMAIN s.node = 1 .. Len(s.node)
  BY CallTypes
<1>2. ended.node = [s.node EXCEPT ![n] = g] /\ ended.announced = s.announced \cup {n} /\ ended.parts = s.parts /\ ended.torn = s.torn
  BY DEF CallRec
<1>3. said.node = ended.node /\ said.announced = ended.announced /\ said.parts = Append(ended.parts, part)
      /\ said.torn = torn
  <2>1. ended = [s EXCEPT !.node = [s.node EXCEPT ![n] = g], !.announced = s.announced \cup {n}]
    OBVIOUS
  <2>2. DOMAIN ended = DOMAIN s
    BY <2>1
  <2>3. {"node", "announced", "parts", "err", "torn"} \subseteq DOMAIN ended
    BY <2>2 DEF CallRec
  <2> HIDE DEF ended
  <2>4. QED
    BY <1>2, <2>3
<1>4. IF isPart(ended.node[n]) THEN t = said /\ e = docPart(p.d, part) ELSE t = ended /\ e = p.d
  BY DEF Announced
<1> HIDE DEF said, t, e
<1>5. t.node = ended.node
  BY <1>3, <1>4
<1>6. pendingBeside(t, n, {Text}) <=> pendingBeside(ended, n, {Text})
  <2>1. t.announced = ended.announced
    BY <1>3, <1>4
  <2> HIDE DEF ended
  <2>2. QED
    BY <1>5, <2>1 DEF pendingBeside
<1> HIDE DEF ended
<1>7. Len(t.node) = Len(s.node) /\ t.node[n] = g /\ \A m \in 1 .. Len(s.node) : m # n => t.node[m] = s.node[m]
  <2> HIDE DEF g, s
  <2>1. t.node = [s.node EXCEPT ![n] = g]
    BY <1>2, <1>5
  <2>2. n \in 1 .. Len(s.node)
    BY DEF s
  <2>3. QED
    BY <1>1, <2>1, <2>2
<1>8. t.announced = s.announced \cup {n}
  BY <1>2, <1>3, <1>4
<1>9. CASE isPart(ended.node[n])
  <2>1. t.parts = Append(s.parts, partOf(t.node[n])) /\ e = docPart(p.d, partOf(t.node[n])) /\ t.torn = torn
    BY <1>2, <1>3, <1>4, <1>5, <1>9
  <2>2. t.torn = (s.torn \/ pendingBeside(t, n, {Text}))
    BY <1>6, <2>1
  <2>3. isPart(t.node[n])
    BY <1>5, <1>9
  <2>4. QED
    BY <1>7, <1>8, <2>1, <2>2, <2>3 DEF Told, t, e
<1>10. CASE ~isPart(ended.node[n])
  <2>1. t.parts = s.parts /\ e = p.d /\ t.torn = s.torn
    BY <1>2, <1>4, <1>10
  <2>2. ~isPart(t.node[n])
    BY <1>5, <1>10
  <2>3. QED
    BY <1>7, <1>8, <2>1, <2>2 DEF Told, t, e
<1>11. QED
  BY <1>9, <1>10

LEMMA FinishNodeIs ==
  ASSUME NEW f \in FieldRec
  PROVE  FinishNode(f).done /\ FinishNode(f).blob = f.blob
  BY DEF FinishNode, FinishWith, FieldRec

\* One part more, and a list that has it.
LEMMA PartWritten ==
  ASSUME ~gone, NEW s, NEW d, Written(s, d), NEW part \in PartRec,
         part.kind = Text => part.blob = FALSE /\ part.text # <<>>,
         d.pending = <<>> \/ isPending(d, part),
         NEW t, t.parts = Append(s.parts, part)
  PROVE  Written(t, docPart(d, part)) /\ docPart(d, part).pending = <<>>
<1> DEFINE e == docPart(d, part)
<1>1. d \in DocRec /\ s.parts \in Seq(PartRec) /\ d.sent = Len(s.parts) /\ d.parts \in Seq(PartRec)
      /\ merged(d.parts) = merged(withText(s.parts, d.pending))
      /\ (d.open => d.parts # <<>> /\ d.parts[Len(d.parts)].kind = Text)
  BY DEF Written, DocRec
<1>2. /\ e \in DocRec /\ e.pending = <<>> /\ e.sent = d.sent + 1
      /\ isPending(d, part) => e.parts = d.parts /\ e.open = d.open
      /\ ~isPending(d, part) => e.parts = Append(d.parts, part) /\ e.open = FALSE
  BY <1>1, DocPartIs
<1> HIDE DEF e
<1>3. t.parts \in Seq(PartRec) /\ Len(t.parts) = Len(s.parts) + 1
  BY <1>1
<1>4. withText(t.parts, e.pending) = t.parts
  BY <1>2 DEF withText
<1>5. merged(e.parts) = merged(t.parts) /\ (e.open => e.parts # <<>> /\ e.parts[Len(e.parts)].kind = Text)
  <2>1. CASE isPending(d, part)
    <3>1. part = textPart(d.pending) /\ d.pending # <<>>
      <4>1. part.kind = Text /\ part.text = d.pending /\ part.blob = FALSE
        BY <2>1 DEF isPending
      <4>2. part = [kind |-> part.kind, text |-> part.text, blob |-> part.blob]
        BY DEF PartRec
      <4>3. QED
        BY <4>1, <4>2 DEF textPart
    <3>2. withText(s.parts, d.pending) = t.parts
      BY <3>1 DEF withText
    <3>3. QED
      BY <1>1, <1>2, <2>1, <3>2
  <2>2. CASE ~isPending(d, part)
    <3>1. withText(s.parts, d.pending) = s.parts
      BY <2>2 DEF withText
    <3>2. merged(Append(d.parts, part)) = joined(merged(d.parts), part)
          /\ merged(Append(s.parts, part)) = joined(merged(s.parts), part)
      BY <1>1, MergedMore
    <3>3. QED
      BY <1>1, <1>2, <2>2, <3>1, <3>2
  <2>3. QED
    BY <2>1, <2>2
<1>6. e.sent = Len(t.parts)
  BY <1>1, <1>2, <1>3
<1>7. QED
  BY <1>2, <1>3, <1>4, <1>5, <1>6 DEF Written, e

LEMMA ToldFollows ==
  ASSUME ~gone, NEW s \in CallRec, NEW d, NEW n, NEW t, NEW e, Told(s, d, n, t, e), Follows(s, d, n)
  PROVE  Follows(t, e, NoNode)
<1> DEFINE f == s.node[n]
           g == t.node[n]
<1>1. /\ n \in 1 .. Len(s.node) /\ Len(t.node) = Len(s.node)
      /\ \A m \in 1 .. Len(s.node) : m # n => t.node[m] = s.node[m]
      /\ g = FinishNode(f) /\ t.announced = s.announced \cup {n}
  BY DEF Told
<1>2. f \in FieldRec
  BY <1>1, CallTypes
<1>3. g \in FieldRec /\ g.value = f.value /\ g.revs = f.revs /\ g.kind = f.kind /\ g.blob = f.blob /\ g.done
  BY <1>1, <1>2, EndedHeld, FinishNodeIs
<1>4. isPart(g) <=> isPart(f)
  BY <1>3 DEF isPart
<1>5. s.torn => t.torn
  BY DEF Told
<1> HIDE DEF f, g
<1>6. \A m \in 1 .. Len(s.node) :
         /\ t.node[m].value = s.node[m].value /\ t.node[m].revs = s.node[m].revs /\ t.node[m].kind = s.node[m].kind
         /\ t.node[m].blob = s.node[m].blob /\ (isPart(t.node[m]) <=> isPart(s.node[m]))
         /\ (s.node[m].done => t.node[m].done)
  BY <1>1, <1>3, <1>4 DEF f, g
<1>7. CASE Amiss(s)
  <2>1. Amiss(t)
    BY <1>1, <1>5, <1>6, <1>7 DEF Amiss, Revised
  <2>2. QED
    BY <2>1 DEF Follows
<1>8. CASE Amiss(t)
  BY <1>8 DEF Follows
<1>9. CASE ~Amiss(s) /\ ~Amiss(t)
  <2>1. Written(s, d) /\ Awaiting(s, d.pending, n) /\ ToldAsIs(s)
    BY <1>9 DEF Follows
  <2>2. t.announced \subseteq 1 .. Len(t.node)
    BY <1>1, <2>1 DEF ToldAsIs
  <2>3. ASSUME NEW m \in 1 .. Len(t.node), t.node[m].kind = Text
        PROVE  t.node[m].blob = FALSE /\ (m \in t.announced => t.node[m].done)
    <3>1. t.node[m].blob = FALSE /\ (m \in s.announced => t.node[m].done)
      BY <1>1, <1>6, <2>1, <2>3 DEF ToldAsIs
    <3>2. CASE m = n
      BY <1>3, <3>1, <3>2 DEF g
    <3>3. CASE m # n
      BY <1>1, <3>1, <3>3
    <3>4. QED
      BY <3>2, <3>3
  <2>4. ASSUME NEW i \in 1 .. Len(s.parts), s.parts[i].kind = Text
        PROVE  \E m \in 1 .. Len(t.node) : m \in t.announced /\ t.node[m].kind = Text /\ t.node[m].value = s.parts[i].text
    <3>1. PICK m \in 1 .. Len(s.node) : m \in s.announced /\ s.node[m].kind = Text /\ s.node[m].value = s.parts[i].text
      BY <2>1, <2>4 DEF ToldAsIs
    <3>2. QED
      BY <1>1, <1>6, <3>1
  <2>5. Cardinality(toldParts(s)) <= Len(s.parts) /\ Len(s.parts) \in Nat /\ s.parts \in Seq(PartRec)
    BY <2>1 DEF ToldAsIs, Written
  <2>6. IsFiniteSet(toldParts(s)) /\ Cardinality(toldParts(s)) \in Nat
    <3>1. Len(s.node) \in Nat
      BY CallTypes
    <3>2. IsFiniteSet(1 .. Len(s.node))
      BY <3>1, FS_Interval
    <3>3. toldParts(s) \in SUBSET (1 .. Len(s.node))
      BY DEF toldParts
    <3>4. IsFiniteSet(toldParts(s))
      BY <3>2, <3>3, FS_Subset
    <3>5. QED
      BY <3>4, FS_CardinalityType
  <2>7. CASE isPart(g)
    <3> DEFINE part == partOf(g)
    <3>1. t.parts = Append(s.parts, part) /\ e = docPart(d, part) /\ ~pendingBeside(t, n, {Text})
      BY <1>9, <2>7 DEF Told, g, Amiss
    <3>2. part \in PartRec /\ part.kind = g.kind /\ part.text = g.value /\ part.blob = g.blob
      BY <1>3, FieldTypes DEF partOf, PartRec
    <3> HIDE DEF part
    <3>3. part.kind = Text => part.blob = FALSE /\ part.text # <<>>
      BY <1>1, <2>3, <2>7, <3>2 DEF isPart, g
    <3>4. \A m \in 1 .. Len(t.node) : m # n /\ t.node[m].kind = Text /\ isPart(t.node[m]) => m \in t.announced
      BY <3>1 DEF pendingBeside
    <3>5. d.pending = <<>> \/ isPending(d, part)
      <4>1. ASSUME d.pending # <<>> PROVE isPending(d, part)
        <5>1. PICK m \in 1 .. Len(s.node) : s.node[m].kind = Text /\ s.node[m].value = d.pending /\ m \notin s.announced
          BY <2>1, <4>1 DEF Awaiting, Writing
        <5>2. t.node[m].kind = Text /\ isPart(t.node[m])
          BY <1>6, <4>1, <5>1 DEF isPart
        <5>3. m = n
          BY <1>1, <3>4, <5>1, <5>2
        <5>4. QED
          BY <1>3, <3>2, <5>1, <5>3 DEF isPending, f
      <4>2. QED
        BY <4>1
    <3>6. Written(t, e) /\ e.pending = <<>>
      BY <2>1, <3>1, <3>2, <3>3, <3>5, PartWritten
    <3>7. Awaiting(t, e.pending, NoNode)
      <4>1. \A m \in 1 .. Len(t.node) : t.node[m].kind = Text /\ t.node[m].value # <<>> => m \in t.announced
        BY <1>1, <3>4 DEF isPart
      <4>2. QED
        BY <3>6, <4>1 DEF Awaiting
    <3>8. Len(t.parts) = Len(s.parts) + 1 /\ t.parts[Len(s.parts) + 1] = part /\ \A i \in 1 .. Len(s.parts) : t.parts[i] = s.parts[i]
      BY <2>5, <3>1, <3>2, OneMore
    <3>9. ASSUME NEW i \in 1 .. Len(t.parts), t.parts[i].kind = Text
          PROVE  \E m \in 1 .. Len(t.node) : m \in t.announced /\ t.node[m].kind = Text /\ t.node[m].value = t.parts[i].text
      <4>1. CASE i = Len(s.parts) + 1
        <5>1. n \in t.announced /\ t.node[n].kind = Text /\ t.node[n].value = t.parts[i].text
          BY <1>1, <3>2, <3>8, <3>9, <4>1 DEF g
        <5>2. QED
          BY <1>1, <5>1
      <4>2. CASE i \in 1 .. Len(s.parts)
        BY <2>4, <3>8, <3>9, <4>2
      <4>3. QED
        BY <2>5, <3>8, <4>1, <4>2
    <3>10. Cardinality(toldParts(t)) <= Len(t.parts)
      <4>1. toldParts(t) = toldParts(s) \cup {n}
        BY <1>1, <1>6, <2>7 DEF toldParts, g
      <4>2. Cardinality(toldParts(t)) = (IF n \in toldParts(s) THEN Cardinality(toldParts(s)) ELSE Cardinality(toldParts(s)) + 1)
        BY <2>6, <4>1, FS_AddElement
      <4>3. QED
        BY <2>5, <2>6, <3>8, <4>2
    <3>11. ToldAsIs(t)
      BY <2>2, <2>3, <3>9, <3>10 DEF ToldAsIs
    <3>12. QED
      BY <3>6, <3>7, <3>11 DEF Follows
  <2>8. CASE ~isPart(g)
    <3>1. t.parts = s.parts /\ e = d
      BY <2>8 DEF Told, g
    <3>2. f.kind = Text /\ f.value = <<>>
      BY <1>4, <2>8 DEF isPart
    <3>3. Written(t, e)
      BY <2>1, <3>1 DEF Written
    <3>4. ASSUME NEW k \in 1 .. Len(s.node), Writing(s, k, d.pending, n), d.pending # <<>>
          PROVE  Writing(t, k, d.pending, NoNode)
      <4>1. k # n
        BY <3>2, <3>4 DEF Writing, f
      <4>2. t.node[k].kind = Text /\ t.node[k].value = d.pending /\ k \notin t.announced
        BY <1>1, <1>6, <3>4, <4>1 DEF Writing
      <4>3. ASSUME NEW m \in 1 .. k - 1, isPart(t.node[m]) PROVE m \in t.announced
        <5>1. m \in 1 .. Len(s.node)
          OBVIOUS
        <5>2. m # n
          BY <2>8, <4>3 DEF g
        <5>3. QED
          BY <1>1, <1>6, <3>4, <4>3, <5>1, <5>2 DEF Writing
      <4>4. QED
        BY <4>2, <4>3 DEF Writing
    <3>5. ASSUME d.pending = <<>>, NEW m \in 1 .. Len(t.node), t.node[m].kind = Text, t.node[m].value # <<>>
          PROVE  m \in t.announced
      <4>1. m # n
        BY <1>3, <3>2, <3>5 DEF g
      <4>2. QED
        BY <1>1, <1>6, <2>1, <3>5, <4>1 DEF Awaiting
    <3>6. Awaiting(t, e.pending, NoNode)
      BY <1>1, <2>1, <3>1, <3>4, <3>5 DEF Awaiting
    <3>7. toldParts(t) = toldParts(s)
      BY <1>1, <1>6, <2>8 DEF toldParts, g
    <3>8. ToldAsIs(t)
      BY <2>2, <2>3, <2>4, <2>5, <3>1, <3>7 DEF ToldAsIs
    <3>9. QED
      BY <3>3, <3>6, <3>8 DEF Follows
  <2>9. QED
    BY <2>7, <2>8
<1>10. QED
  BY <1>7, <1>8, <1>9

\* The document follows the call, and the node kept for reasoning is one.
ThinkIs(s) == s.think # NoNode => s.node[s.think].kind = Thinking
Tells(s, d, x) == Follows(s, d, x) /\ ThinkIs(s)

LEMMA ThinkStays ==
  ASSUME NEW s, NEW e, SinkInv(s, e), NEW t, t.think = s.think, ThinkIs(s),
         \A m \in 1 .. Len(s.node) : t.node[m].kind = s.node[m].kind
  PROVE  ThinkIs(t)
<1>1. Pointers(s) /\ Len(s.node) \in Nat
  BY CallTypes DEF SinkInv
<1>2. CASE s.think # NoNode
  <2>1. s.think \in 1 .. Len(s.node)
    BY <1>1, <1>2 DEF Pointers, NoNode
  <2>2. QED
    BY <2>1 DEF ThinkIs
<1>3. CASE s.think = NoNode
  BY <1>3 DEF ThinkIs
<1>4. QED
  BY <1>2, <1>3

LEMMA SameTells ==
  ASSUME NEW s, NEW t, SaysSame(s, t), NEW d, NEW x, Tells(s, d, x),
         t.think = s.think \/ (t.think # NoNode => t.node[t.think].kind = Thinking)
  PROVE  Tells(t, d, x)
<1>1. Follows(t, d, x)
  BY SameFollows DEF Tells
<1>2. ThinkIs(t)
  BY DEF Tells, ThinkIs, SaysSame
<1>3. QED
  BY <1>1, <1>2 DEF Tells

LEMMA SawTells ==
  ASSUME NEW s, NEW e, SinkInv(s, e), NEW d, NEW x, Tells(s, d, x)
  PROVE  Tells(saw(s), d, x)
<1> DEFINE t == saw(s)
<1>1. s \in CallRec
  BY DEF SinkInv
<1>2. t.node = s.node /\ t.parts = s.parts /\ t.announced = s.announced /\ t.torn = s.torn /\ t.think = s.think
  BY <1>1 DEF saw, CallRec
<1> HIDE DEF t
<1>3. Tells(t, d, x)
  BY <1>2, SameTells DEF SaysSame
<1>4. QED
  BY <1>3 DEF t

LEMMA StartTells ==
  ASSUME NEW s, NEW e, SinkInv(s, e), NEW kind \in Kinds, NEW d, NEW x, Tells(s, d, x)
  PROVE  /\ Tells(Start(s, kind), d, x) /\ Start(s, kind).node[Len(s.node) + 1].kind = kind
         /\ Start(s, kind).think = s.think /\ Start(s, kind).text = s.text
<1> DEFINE t == Start(s, kind)
           g == Open(kind)
<1>1. s \in CallRec
  BY DEF SinkInv
<1>2. g \in FieldRec /\ g.value = <<>> /\ g.revs = <<>> /\ g.blob = FALSE /\ g.kind = kind
  BY OpenHolds DEF Open
<1>3. t.node = Append(s.node, g) /\ t.parts = s.parts /\ t.announced = s.announced /\ t.torn = s.torn
      /\ t.think = s.think /\ t.text = s.text
  BY <1>1 DEF Start, CallRec
<1> HIDE DEF t, g
<1>4. Begun(s, g, t)
  BY <1>2, <1>3 DEF Begun
<1>5. Follows(t, d, x)
  BY <1>1, <1>4, BegunFollows DEF Tells
<1>6. t.node[Len(s.node) + 1] = g /\ \A m \in 1 .. Len(s.node) : t.node[m] = s.node[m]
  BY <1>1, <1>2, <1>3, CallTypes, OneMore
<1>7. ThinkIs(t)
  BY <1>3, <1>6, ThinkStays DEF Tells
<1>8. QED
  BY <1>2, <1>3, <1>5, <1>6, <1>7 DEF Tells, t

LEMMA TextBegunTells ==
  ASSUME NEW s, NEW e, SinkInv(s, e), NEW t, t = [Start(s, Text) EXCEPT !.text = Len(s.node) + 1], NEW d, NEW x, Tells(s, d, x)
  PROVE  Tells(t, d, x)
<1> DEFINE b == Start(s, Text)
           n == Len(s.node) + 1
<1>1. SinkInv(b, e) /\ Tells(b, d, x)
  BY StartKept, StartTells DEF Kinds
<1>2. t = [b EXCEPT !.text = n]
  OBVIOUS
<1> HIDE DEF b, n
<1>3. b \in CallRec
  BY <1>1 DEF SinkInv
<1>4. t.node = b.node /\ t.parts = b.parts /\ t.announced = b.announced /\ t.torn = b.torn /\ t.think = b.think
  BY <1>2, <1>3 DEF CallRec
<1>5. QED
  BY <1>1, <1>4, SameTells DEF SaysSame

LEMMA ThinkBegunTells ==
  ASSUME NEW s, NEW e, SinkInv(s, e), NEW t, t = [Start(s, Thinking) EXCEPT !.think = Len(s.node) + 1], NEW d, NEW x, Tells(s, d, x)
  PROVE  Tells(t, d, x)
<1> DEFINE b == Start(s, Thinking)
           n == Len(s.node) + 1
<1>1. SinkInv(b, e) /\ Tells(b, d, x) /\ b.node[n].kind = Thinking
  BY StartKept, StartTells DEF Kinds
<1>2. t = [b EXCEPT !.think = n]
  OBVIOUS
<1> HIDE DEF b, n
<1>3. b \in CallRec
  BY <1>1 DEF SinkInv
<1>4. t.node = b.node /\ t.parts = b.parts /\ t.announced = b.announced /\ t.torn = b.torn /\ t.think = n
  BY <1>2, <1>3 DEF CallRec
<1>5. QED
  BY <1>1, <1>4, SameTells DEF SaysSame

LEMMA KeyTells ==
  ASSUME NEW s, NEW e, SinkInv(s, e), NEW n, NEW k \in ItemKeys, NEW d, NEW x, Tells(s, d, x)
  PROVE  Tells(KeyAt(s, k, n), d, x) /\ KeyAt(s, k, n).node = s.node
<1> DEFINE t == KeyAt(s, k, n)
<1>1. s \in CallRec
  BY DEF SinkInv
<1>2. t.node = s.node /\ t.parts = s.parts /\ t.announced = s.announced /\ t.torn = s.torn /\ t.think = s.think
  BY <1>1 DEF KeyAt, CallRec
<1> HIDE DEF t
<1>3. Tells(t, d, x)
  BY <1>2, SameTells DEF SaysSame
<1>4. QED
  BY <1>2, <1>3 DEF t

LEMMA KeyBegunTells ==
  ASSUME NEW s, NEW e, SinkInv(s, e), NEW kind \in Kinds, NEW k \in ItemKeys, NEW d, NEW x, Tells(s, d, x)
  PROVE  Tells(BegunAt(s, kind, k), d, x)
<1> DEFINE b == Start(s, kind)
           n == Len(s.node) + 1
           t == BegunAt(s, kind, k)
<1>1. SinkInv(b, e) /\ Tells(b, d, x)
  BY StartKept, StartTells
<1>2. t = KeyAt(b, k, n)
  BY DEF BegunAt, KeyAt
<1> HIDE DEF b, n, t
<1>3. Tells(KeyAt(b, k, n), d, x)
  BY <1>1, KeyTells
<1>4. QED
  BY <1>2, <1>3 DEF t

LEMMA SetKeyTells ==
  ASSUME NEW s, NEW e, SinkInv(s, e), NEW n, NEW k \in ItemKeys \cup {NoKey}, NEW d, NEW x, Tells(s, d, x)
  PROVE  Tells(SetKey(s, k, n), d, x) /\ SetKey(s, k, n).node = s.node
<1>1. CASE k = NoKey
  BY <1>1 DEF SetKey
<1>2. CASE k # NoKey
  <2>1. SetKey(s, k, n) = KeyAt(s, k, n) /\ k \in ItemKeys
    BY <1>2 DEF SetKey, KeyAt
  <2>2. QED
    BY <2>1, KeyTells
<1>3. QED
  BY <1>1, <1>2

LEMMA NodeMadeTells ==
  ASSUME NEW s, NEW e, SinkInv(s, e), NEW k \in ItemKeys \cup {NoKey}, NEW kind \in Kinds, NEW d, NEW x, Tells(s, d, x)
  PROVE  Tells(makeNode(s, k, kind), d, x) /\ makeNode(s, k, kind).node[newest(s) + 1].kind = kind
<1> DEFINE b == Start(s, kind)
           n == Len(s.node) + 1
<1>1. SinkInv(b, e) /\ Tells(b, d, x) /\ b.node[n].kind = kind
  BY StartKept, StartTells
<1>2. makeNode(s, k, kind) = SetKey(b, k, n) /\ newest(s) + 1 = n
  BY DEF makeNode, newest
<1> HIDE DEF b, n
<1>3. Tells(SetKey(b, k, n), d, x) /\ SetKey(b, k, n).node = b.node
  BY <1>1, SetKeyTells
<1>4. QED
  BY <1>1, <1>2, <1>3

LEMMA NodeForTells ==
  ASSUME NEW e, SinkInv(call, e), NEW k \in ItemKeys \cup {NoKey}, NEW kind \in Kinds, NEW d, NEW x, Tells(call, d, x)
  PROVE  /\ Tells(nodeFor(k, kind).s, d, x)
         /\ nodeFor(k, kind).s.node[nodeFor(k, kind).n].kind = kind
<1> DEFINE s == saw(call)
           known == k # NoKey /\ call.key[k] # NoNode /\ call.node[call.key[k]].kind = kind
           adopted == CHOOSE n \in candidates(k, kind) : \A m \in candidates(k, kind) : m <= n
<1>1. SinkInv(s, e) /\ s.node = call.node /\ Len(call.node) \in Nat /\ Tells(s, d, x)
  BY SawKept, SawTells, CallTypes DEF SinkInv
<1>2. CASE known
  <2>1. nodeFor(k, kind) = [s |-> s, n |-> call.key[k]]
    BY <1>2 DEF nodeFor
  <2> HIDE DEF s
  <2>2. QED
    BY <1>1, <1>2, <2>1
<1>3. CASE ~known /\ candidates(k, kind) # {}
  <2>1. nodeFor(k, kind) = [s |-> SetKey(s, k, adopted), n |-> adopted]
    BY <1>3 DEF nodeFor
  <2>2. \A n \in candidates(k, kind) : n \in 1 .. Len(call.node) /\ call.node[n].kind = kind
    BY DEF candidates
  <2>3. \E n \in candidates(k, kind) : \A m \in candidates(k, kind) : m <= n
    BY <1>1, <1>3, <2>2, GreatestOfRange
  <2>4. call.node[adopted].kind = kind
    BY <2>2, <2>3
  <2> HIDE DEF s, adopted
  <2>5. Tells(SetKey(s, k, adopted), d, x) /\ SetKey(s, k, adopted).node = s.node
    BY <1>1, SetKeyTells
  <2>6. QED
    BY <1>1, <2>1, <2>4, <2>5
<1>4. CASE ~known /\ candidates(k, kind) = {}
  <2>1. nodeFor(k, kind) = [s |-> makeNode(s, k, kind), n |-> newest(call) + 1]
    BY <1>4 DEF nodeFor
  <2>2. newest(call) = newest(s)
    BY <1>1 DEF newest
  <2> HIDE DEF s
  <2>3. Tells(makeNode(s, k, kind), d, x) /\ makeNode(s, k, kind).node[newest(s) + 1].kind = kind
    BY <1>1, NodeMadeTells
  <2>4. QED
    BY <2>1, <2>2, <2>3
<1>5. QED
  BY <1>2, <1>3, <1>4

\* What a delta leaves.
LEMMA DeltaTells ==
  ASSUME ~gone, NEW s, SinkInv(s, events), events \in Nat, NEW n \in 1 .. Len(s.node), NEW d, Delta(s, d, n, piece1), Tells(s, d, NoNode)
  PROVE  Tells(call', doc', NoNode)
<1> DEFINE piece == events + 1
           t == SinkDelta(s, n, piece)
<1>1. call' = t /\ doc' = IF s.node[n].kind = Text THEN docText(d, <<piece>>) ELSE d
  BY DEF Delta, piece1
<1>2. s \in CallRec /\ piece \in Nat
  BY DEF SinkInv
<1> DEFINE g == Append1(s.node[n], piece)
<1>3. t.node = [s.node EXCEPT ![n] = g] /\ t.think = s.think
  BY <1>2 DEF SinkDelta, CallRec
<1>4. g.kind = s.node[n].kind
  <2>1. s.node[n] \in FieldRec
    BY <1>2, CallTypes
  <2>2. QED
    BY <2>1 DEF Append1, FieldRec
<1>5. DOMAIN s.node = 1 .. Len(s.node)
  BY <1>2, CallTypes
<1> HIDE DEF piece, t, g
<1>6. \A m \in 1 .. Len(s.node) : t.node[m].kind = s.node[m].kind
  BY <1>3, <1>4, <1>5
<1>7. ThinkIs(t)
  BY <1>3, <1>6, ThinkStays DEF Tells
<1>8. Follows(t, IF s.node[n].kind = Text THEN docText(d, <<piece>>) ELSE d, NoNode)
  BY <1>2, DeltaFollows DEF Tells, t
<1>9. QED
  BY <1>1, <1>7, <1>8 DEF Tells

LEMMA AnnouncedTells ==
  ASSUME ~gone, NEW p, NEW e, SinkInv(p.s, e), NEW n \in 1 .. Len(p.s.node), Tells(p.s, p.d, n)
  PROVE  Tells(Announced(p, n).s, Announced(p, n).d, NoNode)
<1> DEFINE s == p.s
           q == Announced(p, n)
<1>1. s \in CallRec /\ e \in Nat \cup {e}
  BY DEF SinkInv
<1>2. Told(s, p.d, n, q.s, q.d)
  BY <1>1, AnnouncedTold
<1>3. q.s.think = s.think
  BY <1>1 DEF Announced, CallRec
<1> HIDE DEF q
<1>4. Follows(q.s, q.d, NoNode)
  BY <1>1, <1>2, ToldFollows DEF Tells
<1>5. \A m \in 1 .. Len(s.node) : q.s.node[m].kind = s.node[m].kind
  <2>1. s.node[n] \in FieldRec
    BY <1>1, CallTypes
  <2>2. FinishNode(s.node[n]).kind = s.node[n].kind
    BY <2>1, EndedHeld
  <2>3. QED
    BY <1>2, <2>2 DEF Told
<1> HIDE DEF s
<1>6. ThinkIs(q.s)
  BY <1>3, <1>5, ThinkStays DEF Tells, s
<1>7. QED
  BY <1>4, <1>6 DEF Tells, q

LEMMA AnyTells == ASSUME NEW s, NEW d, NEW n, Tells(s, d, NoNode) PROVE Tells(s, d, n)
  BY FollowsAnyway DEF Tells

LEMMA BlobTells ==
  ASSUME NEW s, NEW e, SinkInv(s, e), NEW n \in 1 .. Len(s.node), s.node[n].kind # Text, NEW d, NEW x, Tells(s, d, x)
  PROVE  Tells([s EXCEPT !.node[n].blob = TRUE], d, x)
<1> DEFINE t == [s EXCEPT !.node[n].blob = TRUE]
           g == [s.node[n] EXCEPT !.blob = TRUE]
<1>1. s \in CallRec /\ DOMAIN s.node = 1 .. Len(s.node) /\ s.node[n] \in FieldRec
  BY CallTypes DEF SinkInv
<1>2. Follows(t, d, x)
  BY <1>1, BlobFollows DEF Tells
<1>3. t.node = [s.node EXCEPT ![n] = g] /\ t.think = s.think /\ g.kind = s.node[n].kind
  BY <1>1 DEF CallRec, FieldRec
<1> HIDE DEF t, g
<1>4. \A m \in 1 .. Len(s.node) : t.node[m].kind = s.node[m].kind
  BY <1>1, <1>3
<1>5. ThinkIs(t)
  BY <1>3, <1>4, ThinkStays DEF Tells
<1>6. QED
  BY <1>2, <1>5 DEF Tells, t

\* The events one by one: the document follows the call.
Before == StreamInv /\ ~gone /\ Tells(call, doc, NoNode)
After == Tells(call', doc', NoNode)

LEMMA NowTells ==
  ASSUME Before
  PROVE  /\ StreamInv /\ SinkInv(saw(call), events) /\ Tells(saw(call), doc, NoNode) /\ saw(call).node = call.node
         /\ saw(call).key = call.key /\ saw(call).think = call.think /\ saw(call).text = call.text
         /\ newest(call) = Len(saw(call).node) /\ Pointers(saw(call)) /\ Len(call.node) \in Nat /\ events \in Nat
         /\ SinkInv(call, events) /\ ~gone
<1>1. SinkInv(call, events)
  BY DEF Before, StreamInv
<1>2. Tells(saw(call), doc, NoNode)
  BY <1>1, SawTells DEF Before
<1>3. Pointers(saw(call))
  BY NowSeen DEF SinkInv, Before
<1>4. QED
  BY <1>1, <1>2, <1>3, NowSeen DEF Before

LEMMA UsageTells == ASSUME Before, UsageReport PROVE After
<1> DEFINE s == saw(call)
<1>1. call' = [s EXCEPT !.err = gone] /\ doc' = docUsage(doc)
  BY DEF UsageReport
<1>2. SinkInv(s, events) /\ Tells(s, doc, NoNode)
  BY NowTells
<1> HIDE DEF s
<1>3. s \in CallRec
  BY <1>2 DEF SinkInv
<1>4. call'.node = s.node /\ call'.parts = s.parts /\ call'.announced = s.announced /\ call'.torn = s.torn /\ call'.think = s.think
  BY <1>1, <1>3 DEF CallRec
<1>5. Tells(s, docUsage(doc), NoNode)
  BY <1>2, UsageFollows DEF Tells
<1>6. QED
  BY <1>1, <1>4, <1>5, SameTells DEF SaysSame, After

LEMMA ClosedTells ==
  ASSUME Before, NEW p0, p0.s = saw(call), p0.d = doc, NEW p, p = closeReasoning(p0)
  PROVE  SinkInv(p.s, events) /\ Tells(p.s, p.d, NoNode)
<1> DEFINE n == p0.s.think
<1>1. SinkInv(p0.s, events) /\ Tells(p0.s, p0.d, NoNode) /\ Pointers(p0.s) /\ Len(p0.s.node) \in Nat /\ ~gone /\ gone \in BOOLEAN
      /\ events \in Nat
  BY NowTells DEF StreamInv
<1>2. CASE p = p0
  BY <1>1, <1>2
<1>3. CASE p # p0
  <2>1. n # NoNode /\ p = Announced(p0, n)
    BY <1>3 DEF closeReasoning
  <2>2. n \in 1 .. Len(p0.s.node)
    BY <1>1, <2>1 DEF Pointers, NoNode
  <2> HIDE DEF n
  <2>3. SinkInv(Announced(p0, n).s, events)
    BY <1>1, <2>2, AnnouncedKept
  <2>4. Tells(p0.s, p0.d, n)
    BY <1>1, AnyTells
  <2>5. Tells(Announced(p0, n).s, Announced(p0, n).d, NoNode)
    BY <1>1, <2>2, <2>4, AnnouncedTells
  <2>6. QED
    BY <2>1, <2>3, <2>5
<1>4. QED
  BY <1>2, <1>3

LEMMA ContentTells == ASSUME Before, OpenaiContent PROVE After
<1> DEFINE p0 == [Now EXCEPT !.s = saw(@)]
           p == closeReasoning(p0)
           s == IF p.s.text # NoNode THEN p.s ELSE [Start(p.s, Text) EXCEPT !.text = newest(p.s) + 1]
<1>1. p0.s = saw(call) /\ p0.d = doc /\ ~gone /\ events \in Nat
  BY NowSeen, NowTells
<1>2. Delta(s, p.d, s.text, piece1)
  BY DEF OpenaiContent
<1>3. SinkInv(p.s, events) /\ Tells(p.s, p.d, NoNode)
  <2> HIDE DEF p0
  <2>1. QED
    BY <1>1, ClosedTells
<1>4. p.s.text # NoNode => s = p.s
  OBVIOUS
<1>5. p.s.text = NoNode => s = [Start(p.s, Text) EXCEPT !.text = Len(p.s.node) + 1]
  BY DEF newest
<1> HIDE DEF p0, p, s
<1>6. SinkInv(s, events) /\ s.text \in 1 .. Len(s.node) /\ Tells(s, p.d, NoNode)
  <2>1. CASE p.s.text # NoNode
    <3>1. Pointers(p.s) /\ Len(p.s.node) \in Nat
      BY <1>3, CallTypes DEF SinkInv
    <3>2. QED
      BY <1>3, <1>4, <2>1, <3>1 DEF Pointers, NoNode
  <2>2. CASE p.s.text = NoNode
    <3>1. s = [Start(p.s, Text) EXCEPT !.text = Len(p.s.node) + 1]
      BY <1>5, <2>2
    <3>2. SinkInv(s, events) /\ s.text \in 1 .. Len(s.node)
      BY <1>3, <3>1, TextBegun
    <3>3. Tells(s, p.d, NoNode)
      BY <1>3, <3>1, TextBegunTells
    <3>4. QED
      BY <3>2, <3>3
  <2>3. QED
    BY <2>1, <2>2
<1>7. QED
  BY <1>1, <1>2, <1>6, DeltaTells DEF After

LEMMA ReasoningTells == ASSUME Before, OpenaiReasoning PROVE After
<1> DEFINE open == call.think # NoNode /\ ~call.node[call.think].done
           s == IF open THEN saw(call) ELSE [Start(saw(call), Thinking) EXCEPT !.think = newest(call) + 1]
<1>1. Delta(s, doc, s.think, piece1)
  BY DEF OpenaiReasoning
<1>2. SinkInv(saw(call), events) /\ Tells(saw(call), doc, NoNode) /\ ~gone /\ events \in Nat
  BY NowTells
<1>3. CASE open
  <2>1. s = saw(call) /\ call.think # NoNode
    BY <1>3
  <2> HIDE DEF s
  <2>2. s.think \in 1 .. Len(s.node)
    BY <2>1, NowTells DEF Pointers, NoNode
  <2>3. QED
    BY <1>1, <1>2, <2>1, <2>2, DeltaTells DEF After
<1>4. CASE ~open
  <2>1. s = [Start(saw(call), Thinking) EXCEPT !.think = Len(saw(call).node) + 1]
    BY <1>4, NowTells
  <2> HIDE DEF s
  <2>2. s.think \in 1 .. Len(s.node) /\ SinkInv(s, events)
    BY <1>2, <2>1, ThinkBegun
  <2>3. Tells(s, doc, NoNode)
    BY <1>2, <2>1, ThinkBegunTells
  <2>4. QED
    BY <1>1, <1>2, <2>2, <2>3, DeltaTells DEF After
<1>5. QED
  BY <1>3, <1>4

LEMMA ToolCallTells == ASSUME Before, NEW k \in ItemKeys, OpenaiToolCall(k) PROVE After
<1> DEFINE known == call.key[k] # NoNode
           s == IF known THEN saw(call) ELSE [Start(saw(call), ToolCall) EXCEPT !.key[k] = newest(call) + 1]
<1>1. Delta(s, doc, s.key[k], piece1)
  BY DEF OpenaiToolCall
<1>2. SinkInv(saw(call), events) /\ Tells(saw(call), doc, NoNode) /\ ~gone /\ events \in Nat
  BY NowTells
<1>3. CASE known
  <2>1. s = saw(call) /\ call.key[k] # NoNode
    BY <1>3
  <2> HIDE DEF s
  <2>2. s.key[k] \in 1 .. Len(s.node)
    BY <2>1, NowTells DEF Pointers, NoNode
  <2>3. QED
    BY <1>1, <1>2, <2>1, <2>2, DeltaTells DEF After
<1>4. CASE ~known
  <2>1. s = BegunAt(saw(call), ToolCall, k)
    BY <1>4, NowTells DEF BegunAt
  <2> HIDE DEF s
  <2>2. s.key[k] \in 1 .. Len(s.node) /\ SinkInv(s, events)
    BY <1>2, <2>1, KeyBegun DEF Kinds
  <2>3. Tells(s, doc, NoNode)
    BY <1>2, <2>1, KeyBegunTells DEF Kinds
  <2>4. QED
    BY <1>1, <1>2, <2>2, <2>3, DeltaTells DEF After
<1>5. QED
  BY <1>3, <1>4

LEMMA DetailsTells == ASSUME Before, OpenaiDetails PROVE After
<1> DEFINE s == saw(call)
<1>1. call' = [s EXCEPT !.details = TRUE] /\ doc' = doc
  BY DEF OpenaiDetails
<1>2. SinkInv(s, events) /\ Tells(s, doc, NoNode)
  BY NowTells
<1> HIDE DEF s
<1>3. s \in CallRec
  BY <1>2 DEF SinkInv
<1>4. call'.node = s.node /\ call'.parts = s.parts /\ call'.announced = s.announced /\ call'.torn = s.torn /\ call'.think = s.think
  BY <1>1, <1>3 DEF CallRec
<1>5. QED
  BY <1>1, <1>2, <1>4, SameTells DEF SaysSame, After

LEMMA FailureTells == ASSUME Before, ResponsesFailed PROVE After
<1>1. call' = [call EXCEPT !.failure = TRUE] /\ doc' = doc /\ call \in CallRec
  BY NowTells DEF ResponsesFailed, SinkInv
<1>2. call'.node = call.node /\ call'.parts = call.parts /\ call'.announced = call.announced /\ call'.torn = call.torn
      /\ call'.think = call.think
  BY <1>1 DEF CallRec
<1>3. QED
  BY <1>1, <1>2, SameTells DEF SaysSame, After, Before

LEMMA StoppedTells ==
  ASSUME Before, NEW k \in ItemKeys, blockOpen(k), NEW p, p.s = saw(call), p.d = doc
  PROVE  Tells(Announced(p, block(k)).s, Announced(p, block(k)).d, NoNode)
<1>1. block(k) \in 1 .. Len(p.s.node)
  BY NowTells DEF blockOpen, block, Pointers, NoNode
<1>2. SinkInv(p.s, events) /\ Tells(p.s, p.d, block(k)) /\ ~gone
  BY NowTells, AnyTells
<1>3. QED
  BY <1>1, <1>2, AnnouncedTells

LEMMA BlockStartTells == ASSUME Before, NEW k \in ItemKeys, NEW kind \in Kinds, AnthropicStart(k, kind) PROVE After
<1> DEFINE p0 == [Now EXCEPT !.s = saw(@)]
           p == IF blockOpen(k) THEN Announced(p0, block(k)) ELSE p0
           b == [Start(p.s, kind) EXCEPT !.key[k] = newest(p.s) + 1]
<1>1. Becomes([p EXCEPT !.s = [Start(@, kind) EXCEPT !.key[k] = newest(p.s) + 1]])
  BY DEF AnthropicStart
<1>2. p0.s = saw(call) /\ p0.d = doc
  BY NowSeen, NowTells
<1>3. SinkInv(p.s, events) /\ Tells(p.s, p.d, NoNode)
  <2>1. CASE blockOpen(k)
    <3>1. p = Announced(p0, block(k))
      BY <2>1
    <3> HIDE DEF p, p0
    <3>2. QED
      BY <1>2, <2>1, <3>1, BlockStopped, StoppedTells, NowTells
  <2>2. CASE ~blockOpen(k)
    BY <1>2, <2>2, NowTells
  <2>3. QED
    BY <2>1, <2>2
<1>4. "s" \in DOMAIN p
  <2>1. "s" \in DOMAIN p0
    BY DEF Now
  <2>2. "s" \in DOMAIN Announced(p0, block(k))
    BY DEF Announced
  <2> HIDE DEF p0
  <2>3. QED
    BY <2>1, <2>2
<1>5. [p EXCEPT !.s = [Start(@, kind) EXCEPT !.key[k] = newest(p.s) + 1]] = [p EXCEPT !.s = b]
  OBVIOUS
<1>6. b = BegunAt(p.s, kind, k)
  BY DEF newest, BegunAt
<1> HIDE DEF p, b
<1>7. call' = b /\ doc' = p.d
  BY <1>1, <1>4, <1>5 DEF Becomes
<1>8. QED
  BY <1>3, <1>6, <1>7, KeyBegunTells DEF After

LEMMA BlockDeltaTells == ASSUME Before, NEW k \in ItemKeys, NEW kind \in Kinds, AnthropicDelta(k, kind) PROVE After
<1> DEFINE s == IF block(k) # NoNode THEN saw(call)
                ELSE [Start(saw(call), kind) EXCEPT !.key[k] = newest(call) + 1]
<1>1. SinkInv(saw(call), events) /\ Tells(saw(call), doc, NoNode) /\ ~gone /\ events \in Nat
  BY NowTells
<1>2. CASE block(k) = NoNode /\ kind = ToolCall
  <2>1. call' = saw(call) /\ doc' = doc
    BY <1>2 DEF AnthropicDelta
  <2>2. QED
    BY <1>1, <2>1 DEF After
<1>3. CASE ~(block(k) = NoNode /\ kind = ToolCall)
  <2>1. Delta(s, doc, s.key[k], piece1)
    BY <1>3 DEF AnthropicDelta
  <2>2. CASE block(k) # NoNode
    <3>1. s = saw(call) /\ call.key[k] # NoNode
      BY <2>2 DEF block
    <3> HIDE DEF s
    <3>2. s.key[k] \in 1 .. Len(s.node)
      BY <3>1, NowTells DEF Pointers, NoNode
    <3>3. QED
      BY <1>1, <2>1, <3>1, <3>2, DeltaTells DEF After
  <2>3. CASE block(k) = NoNode
    <3>1. s = BegunAt(saw(call), kind, k)
      BY <2>3, NowTells DEF BegunAt
    <3> HIDE DEF s
    <3>2. s.key[k] \in 1 .. Len(s.node) /\ SinkInv(s, events)
      BY <1>1, <3>1, KeyBegun
    <3>3. Tells(s, doc, NoNode)
      BY <1>1, <3>1, KeyBegunTells
    <3>4. QED
      BY <1>1, <2>1, <3>2, <3>3, DeltaTells DEF After
  <2>4. QED
    BY <2>2, <2>3
<1>4. QED
  BY <1>2, <1>3

LEMMA SignatureTells == ASSUME Before, NEW k \in ItemKeys, AnthropicSignature(k) PROVE After
<1> DEFINE s == saw(call)
           n == block(k)
<1>1. call' = [s EXCEPT !.node[n].blob = TRUE] /\ doc' = doc
  BY DEF AnthropicSignature
<1>2. n \in 1 .. Len(s.node) /\ SinkInv(s, events) /\ Tells(s, doc, NoNode) /\ s.node[n].kind = Thinking
  BY NowTells DEF AnthropicSignature, blockOpen, block, Pointers, NoNode
<1> HIDE DEF s, n
<1>3. s.node[n].kind # Text
  BY <1>2 DEF Text, Thinking
<1>4. Tells([s EXCEPT !.node[n].blob = TRUE], doc, NoNode)
  BY <1>2, <1>3, BlobTells
<1>5. QED
  BY <1>1, <1>4 DEF After

LEMMA BlockStopTells == ASSUME Before, NEW k \in ItemKeys, AnthropicStop(k) PROVE After
<1> DEFINE p0 == [Now EXCEPT !.s = saw(@)]
<1>1. CASE blockOpen(k)
  <2>1. call' = Announced(p0, block(k)).s /\ doc' = Announced(p0, block(k)).d
    BY <1>1 DEF AnthropicStop, Becomes
  <2>2. p0.s = saw(call) /\ p0.d = doc
    BY NowSeen, NowTells
  <2> HIDE DEF p0
  <2>3. QED
    BY <1>1, <2>1, <2>2, StoppedTells DEF After
<1>2. CASE ~blockOpen(k)
  <2>1. call' = saw(call) /\ doc' = doc
    BY <1>2 DEF AnthropicStop
  <2>2. QED
    BY <2>1, NowTells DEF After
<1>3. QED
  BY <1>1, <1>2

LEMMA ItemAddedTells ==
  ASSUME Before, NEW k \in ItemKeys \cup {NoKey}, NEW kind \in Kinds, ResponsesAdded(k, kind) PROVE After
<1>1. call' = makeNode(saw(call), k, kind) /\ doc' = doc
  BY DEF ResponsesAdded
<1>2. QED
  BY <1>1, NowTells, NodeMadeTells DEF After

LEMMA ItemDeltaTells ==
  ASSUME Before, NEW k \in ItemKeys \cup {NoKey}, NEW kind \in Kinds, ResponsesDelta(k, kind) PROVE After
<1> DEFINE f == nodeFor(k, kind)
<1>1. Delta(f.s, doc, f.n, piece1)
  BY DEF ResponsesDelta
<1>2. SinkInv(f.s, events) /\ f.n \in 1 .. Len(f.s.node) /\ events \in Nat /\ ~gone
  BY NowTells, NodeForItem
<1>3. Tells(f.s, doc, NoNode)
  BY NowTells, NodeForTells DEF Before
<1> HIDE DEF f
<1>4. QED
  BY <1>1, <1>2, <1>3, DeltaTells DEF After

LEMMA ItemDoneTells ==
  ASSUME Before, NEW k \in ItemKeys \cup {NoKey}, NEW kind \in Kinds, NEW final \in Finals, ResponsesDone(k, kind, final)
  PROVE  After
<1> DEFINE f == nodeFor(k, kind)
           field == f.s.node[f.n]
           full == itemEnd(field, final, kind)
           t == NodeAt(f.s, f.n, full)
           p == [s |-> t, d |-> doc]
<1>1. Becomes(Announced(p, f.n)) /\ ~field.done
  BY DEF ResponsesDone, itemEnd, NodeAt
<1>2. SinkInv(f.s, events) /\ f.n \in 1 .. Len(f.s.node) /\ events \in Nat /\ ~gone /\ gone \in BOOLEAN
  BY NowTells, NodeForItem DEF StreamInv
<1>3. Tells(f.s, doc, NoNode) /\ field.kind = kind
  BY NowTells, NodeForTells DEF Before
<1> HIDE DEF f
<1>4. field \in FieldRec /\ f.s \in CallRec
  BY <1>2, CallTypes DEF SinkInv
<1> HIDE DEF field
<1>5. /\ full \in FieldRec /\ full.kind = field.kind /\ (field.revs # <<>> => full.revs # <<>>)
      /\ kind = Text => full.blob = field.blob /\ (full.revs # <<>> \/ full.value = field.value \/ field.value = <<>>)
  BY <1>1, <1>3, <1>4, ItemEndIs
<1>6. held(field) \subseteq held(full) /\ held(full) \subseteq held(field) \cup {Correction}
  BY <1>1, <1>4, ItemEndHeld
<1> HIDE DEF full
<1>7. SinkInv(t, events) /\ Len(t.node) = Len(f.s.node) /\ t.think = f.s.think
  <2>1. FieldMore(f.s, events, f.n, full)
    BY <1>2, <1>5, <1>6 DEF FieldMore, field
  <2>2. QED
    BY <2>1, FieldSwapped
<1>8. t.node = [f.s.node EXCEPT ![f.n] = full] /\ t.parts = f.s.parts /\ t.announced = f.s.announced /\ t.torn = f.s.torn
  BY <1>4 DEF NodeAt, CallRec
<1> HIDE DEF t
<1>9. Turned(f.s, f.n, t) /\ t.node[f.n] = full
  BY <1>2, <1>4, <1>5, <1>8, TurnedAt DEF field
<1>10. Follows(t, doc, f.n)
  BY <1>1, <1>3, <1>5, <1>8, <1>9, EndFollows DEF Tells, field
<1>11. \A m \in 1 .. Len(f.s.node) : t.node[m].kind = f.s.node[m].kind
  BY <1>9 DEF Turned
<1>12. ThinkIs(t)
  BY <1>2, <1>3, <1>7, <1>11, ThinkStays DEF Tells
<1>13. p.s = t /\ p.d = doc
  OBVIOUS
<1> HIDE DEF p
<1>14. Tells(p.s, p.d, f.n) /\ SinkInv(p.s, events) /\ f.n \in 1 .. Len(p.s.node)
  BY <1>2, <1>7, <1>10, <1>12, <1>13 DEF Tells
<1>15. Tells(Announced(p, f.n).s, Announced(p, f.n).d, NoNode)
  BY <1>2, <1>14, AnnouncedTells
<1>16. QED
  BY <1>1, <1>15 DEF Becomes, After

\* A completions answer is one text, and nothing is announced of it.
OneText(s) == s.announced = {} /\ \A n \in 1 .. Len(s.node) : s.node[n].kind = Text

LEMMA CompletionsTells ==
  ASSUME Before, Len(call.node) <= 1, call.text = NoNode => Len(call.node) = 0, OneText(call),
         NEW more \in {<<piece1>>, <<Blank, piece1>>}, CompletionsText(more)
  PROVE  After /\ OneText(call')
<1> DEFINE s == IF call.text # NoNode THEN saw(call) ELSE [Start(saw(call), Text) EXCEPT !.text = newest(call) + 1]
           n == s.text
           f == s.node[n]
           g == [f EXCEPT !.value = f.value \o more]
           t == [s EXCEPT !.node = [s.node EXCEPT ![n] = g], !.got = s.got \cup {piece1}, !.err = gone]
<1>1. call' = t /\ doc' = docText(doc, more)
  BY DEF CompletionsText
<1>2. SinkInv(s, events) /\ n \in 1 .. Len(s.node) /\ Len(s.node) = 1 /\ Tells(s, doc, NoNode) /\ OneText(s)
  <2>1. CASE call.text # NoNode
    <3>1. s = saw(call)
      BY <2>1
    <3>2. call.text \in 1 .. Len(call.node) /\ Len(call.node) = 1
      <4>1. call.text \in 0 .. Len(call.node) /\ call.text # 0 /\ Len(call.node) \in Nat
        BY <2>1, NowTells DEF Pointers, NoNode
      <4>2. \A m \in Nat : m <= 1 /\ call.text \in 0 .. m /\ call.text # 0 => call.text \in 1 .. m /\ m = 1
        OBVIOUS
      <4>3. QED
        BY <4>1, <4>2
    <3>3. saw(call).announced = call.announced
      BY NowTells DEF SinkInv, saw, CallRec
    <3> HIDE DEF s
    <3>4. QED
      BY <3>1, <3>2, <3>3, NowTells DEF OneText
  <2>2. CASE call.text = NoNode
    <3> DEFINE a == saw(call)
               b == Start(a, Text)
    <3>1. s = [b EXCEPT !.text = Len(a.node) + 1] /\ Len(a.node) = 0
      BY <2>2, NowTells
    <3>2. SinkInv(a, events) /\ Tells(a, doc, NoNode) /\ a.announced = {}
      <4>1. saw(call).announced = call.announced
        BY NowTells DEF SinkInv, saw, CallRec
      <4>2. QED
        BY <4>1, NowTells DEF OneText
    <3>3. SinkInv(b, events) /\ b.node[Len(a.node) + 1].kind = Text
      <4> HIDE DEF a
      <4>1. QED
        BY <3>2, StartKept, StartTells DEF Kinds
    <3>4. b.announced = a.announced
      BY <3>2 DEF Start, SinkInv, CallRec
    <3> HIDE DEF s, a
    <3>5. SinkInv(s, events) /\ s.text \in 1 .. Len(s.node) /\ Len(s.node) = Len(a.node) + 1
      BY <3>1, <3>2, TextBegun
    <3>6. Tells(s, doc, NoNode)
      BY <3>1, <3>2, TextBegunTells
    <3> HIDE DEF b
    <3>7. s.node = b.node /\ s.announced = {}
      BY <3>1, <3>2, <3>3, <3>4 DEF SinkInv, CallRec
    <3>8. Len(s.node) = 1 /\ s.node[1].kind = Text
      BY <3>1, <3>3, <3>5, <3>7
    <3>9. OneText(s)
      <4>1. \A m \in 1 .. 1 : m = 1
        OBVIOUS
      <4>2. QED
        BY <3>7, <3>8, <4>1 DEF OneText
    <3>10. QED
      BY <3>5, <3>6, <3>8, <3>9
  <2>3. QED
    BY <2>1, <2>2
<1> HIDE DEF s
<1>3. s \in CallRec /\ DOMAIN s.node = 1 .. Len(s.node) /\ f \in FieldRec
  BY <1>2, CallTypes DEF SinkInv
<1>4. n = 1 /\ f.kind = Text
  BY <1>2 DEF OneText
<1>5. g.kind = f.kind /\ g.value = f.value \o more /\ g.blob = f.blob /\ g.revs = f.revs
  BY <1>3 DEF FieldRec
<1>6. more \in Seq(Nat) /\ more # <<>>
  <2>1. piece1 \in Nat
    BY NowTells DEF piece1
  <2>2. <<piece1>> \in Seq(Nat) /\ <<Blank, piece1>> \in Seq(Nat) /\ <<piece1>> # <<>> /\ <<Blank, piece1>> # <<>>
    BY <2>1 DEF Blank
  <2>3. QED
    BY <2>2
<1>7. t.node = [s.node EXCEPT ![n] = g] /\ t.parts = s.parts /\ t.announced = s.announced /\ t.torn = s.torn /\ t.think = s.think
  BY <1>3 DEF CallRec
<1>8. g \in FieldRec
  <2>1. more \in Seq(Int)
    <3>1. \A z \in Seq(Nat) : z \in Seq(Int)
      OBVIOUS
    <3>2. QED
      BY <1>6, <3>1
  <2>2. QED
    BY <1>3, <2>1, TextHeld
<1> HIDE DEF t, g, f, n
<1>9. Turned(s, n, t) /\ t.node[n] = g
  BY <1>2, <1>3, <1>5, <1>7, <1>8, TurnedAt DEF f
<1>10. Follows(t, docText(doc, more), NoNode)
  <2>1. CASE Amiss(s)
    <3>1. Amiss(t)
      BY <1>5, <1>7, <1>9, <2>1, TurnedAmiss DEF f
    <3>2. QED
      BY <3>1 DEF Follows
  <2>2. CASE ~Amiss(s)
    <3>1. Written(s, doc) /\ Awaiting(s, doc.pending, NoNode) /\ ToldAsIs(s)
      BY <1>2, <2>2 DEF Tells, Follows
    <3>2. Alone(s, n) /\ n \notin s.announced
      BY <1>2, <1>4 DEF Alone, OneText
    <3>3. t.node[n].blob = FALSE
      BY <1>2, <1>4, <1>5, <1>9, <3>1 DEF ToldAsIs, f
    <3>4. t.node[n].value = s.node[n].value \o more
      BY <1>5, <1>9 DEF f
    <3>5. ~gone
      BY NowTells
    <3>6. QED
      BY <1>2, <1>4, <1>6, <1>9, <3>1, <3>2, <3>3, <3>4, <3>5, TextGrows DEF f
  <2>3. QED
    BY <2>1, <2>2
<1>11. \A m \in 1 .. Len(s.node) : t.node[m].kind = s.node[m].kind
  BY <1>9 DEF Turned
<1>12. ThinkIs(t)
  BY <1>2, <1>7, <1>11, ThinkStays DEF Tells
<1>13. OneText(t)
  <2>1. Len(t.node) = Len(s.node)
    BY <1>9 DEF Turned
  <2>2. QED
    BY <1>2, <1>7, <1>11, <2>1 DEF OneText
<1>14. QED
  BY <1>1, <1>10, <1>12, <1>13 DEF Tells, After

\* The end of the stream.
LEMMA DetailsTell ==
  ASSUME NEW s, NEW e \in Nat, SinkInv(s, e), NEW d, Tells(s, d, NoNode)
  PROVE  Tells(withDetails(s), d, NoNode)
<1> DEFINE t == withDetails(s)
<1>1. s \in CallRec /\ Pointers(s) /\ Len(s.node) \in Nat
  BY CallTypes DEF SinkInv
<1>2. CASE ~s.details
  BY <1>2 DEF withDetails
<1>3. CASE s.details /\ s.think # NoNode
  <2>1. t = [s EXCEPT !.node[s.think].blob = TRUE]
    BY <1>3 DEF withDetails
  <2>2. s.think \in 1 .. Len(s.node)
    BY <1>1, <1>3 DEF Pointers, NoNode
  <2>3. s.node[s.think].kind # Text
    BY <1>3 DEF Tells, ThinkIs, Text, Thinking
  <2> HIDE DEF t
  <2>4. Tells([s EXCEPT !.node[s.think].blob = TRUE], d, NoNode)
    BY <2>2, <2>3, BlobTells
  <2>5. QED
    BY <2>1, <2>4 DEF t
<1>4. CASE s.details /\ s.think = NoNode
  <2> DEFINE g == [Open(Thinking) EXCEPT !.blob = TRUE]
             n == Len(s.node) + 1
             order == <<n>> \o s.order
             more == Append(s.node, g)
  <2>1. t = [s EXCEPT !.node = more, !.think = n, !.order = order]
    BY <1>4 DEF withDetails
  <2>2. g \in FieldRec /\ g.value = <<>> /\ g.revs = <<>> /\ g.kind = Thinking
    BY OpenHolds DEF Open, Kinds
  <2> HIDE DEF t, g, order, more
  <2>3. t.node = more /\ t.parts = s.parts /\ t.announced = s.announced /\ t.torn = s.torn /\ t.think = n
    BY <1>1, <2>1 DEF CallRec
  <2>4. Begun(s, g, t)
    BY <2>2, <2>3 DEF Begun, Text, Thinking, more
  <2>5. Follows(t, d, NoNode)
    BY <1>1, <2>4, BegunFollows DEF Tells
  <2>6. t.node[n] = g
    BY <1>1, <2>2, <2>3, CallTypes, OneMore DEF more
  <2>7. ThinkIs(t)
    BY <2>2, <2>3, <2>6 DEF ThinkIs
  <2>8. QED
    BY <2>5, <2>7 DEF Tells, t
<1>5. QED
  BY <1>2, <1>3, <1>4

LEMMA AllFinishedTells ==
  ASSUME NEW s \in CallRec, NEW d, NEW x, Follows(s, d, x)
  PROVE  Follows(allFinished(s), d, x)
<1> DEFINE t == allFinished(s)
           ended == [n \in DOMAIN s.node |-> FinishNode(s.node[n])]
<1>1. /\ Len(s.node) \in Nat /\ DOMAIN s.node = 1 .. Len(s.node)
      /\ \A m \in 1 .. Len(s.node) : s.node[m] \in FieldRec
  BY CallTypes
<1>2. DOMAIN ended = 1 .. Len(s.node) /\ \A m \in 1 .. Len(s.node) : ended[m] = FinishNode(s.node[m])
  BY <1>1
<1>3. ended \in Seq(FieldRec) /\ Len(ended) = Len(s.node)
  <2>1. \A m \in 1 .. Len(s.node) : FinishNode(s.node[m]) \in FieldRec
    BY <1>1, EndedHeld
  <2>2. ended = [n \in 1 .. Len(s.node) |-> FinishNode(s.node[n])]
    BY <1>1
  <2>3. ended \in [1 .. Len(s.node) -> FieldRec]
    BY <2>1, <2>2
  <2> HIDE DEF ended
  <2>4. QED
    BY <1>1, <1>2, <2>3
<1>4. t.node = ended /\ t.parts = s.parts /\ t.announced = s.announced /\ t.torn = s.torn
  BY DEF allFinished, CallRec
<1> HIDE DEF t, ended
<1>5. /\ Len(t.node) = Len(s.node)
      /\ \A m \in 1 .. Len(s.node) :
           /\ t.node[m].value = s.node[m].value /\ t.node[m].revs = s.node[m].revs /\ t.node[m].kind = s.node[m].kind
           /\ t.node[m].blob = s.node[m].blob /\ t.node[m].done
           /\ (isPart(t.node[m]) <=> isPart(s.node[m]))
  <2>1. ASSUME NEW m \in 1 .. Len(s.node)
        PROVE  /\ t.node[m].value = s.node[m].value /\ t.node[m].revs = s.node[m].revs /\ t.node[m].kind = s.node[m].kind
               /\ t.node[m].blob = s.node[m].blob /\ t.node[m].done
    BY <1>1, <1>2, <1>4, EndedHeld, FinishNodeIs
  <2>2. QED
    BY <1>3, <1>4, <2>1 DEF isPart
<1>6. Amiss(s) => Amiss(t)
  BY <1>4, <1>5 DEF Amiss, Revised
<1>7. Written(s, d) => Written(t, d)
  BY <1>4 DEF Written
<1>8. ASSUME Awaiting(s, d.pending, x) PROVE Awaiting(t, d.pending, x)
  <2>1. ASSUME NEW k \in 1 .. Len(s.node), Writing(s, k, d.pending, x) PROVE Writing(t, k, d.pending, x)
    <3>1. \A m \in 1 .. k - 1 : m \in 1 .. Len(s.node)
      BY <1>1
    <3>2. QED
      BY <1>4, <1>5, <2>1, <3>1 DEF Writing
  <2>2. QED
    BY <1>4, <1>5, <1>8, <2>1 DEF Awaiting
<1>9. ASSUME ToldAsIs(s) PROVE ToldAsIs(t)
  <2>1. toldParts(t) = toldParts(s)
    BY <1>4, <1>5 DEF toldParts
  <2>2. ASSUME NEW i \in 1 .. Len(t.parts), t.parts[i].kind = Text
        PROVE  \E m \in 1 .. Len(t.node) : m \in t.announced /\ t.node[m].kind = Text /\ t.node[m].value = t.parts[i].text
    BY <1>4, <1>5, <1>9, <2>2 DEF ToldAsIs
  <2>3. \A m \in 1 .. Len(t.node) : t.node[m].kind = Text => t.node[m].blob = FALSE /\ (m \in t.announced => t.node[m].done)
    BY <1>5, <1>9 DEF ToldAsIs
  <2>4. t.announced \subseteq 1 .. Len(t.node) /\ Cardinality(toldParts(t)) <= Len(t.parts)
    BY <1>4, <1>5, <1>9, <2>1 DEF ToldAsIs
  <2>5. QED
    BY <2>2, <2>3, <2>4 DEF ToldAsIs
<1>10. QED
  BY <1>6, <1>7, <1>8, <1>9 DEF Follows, t

LEMMA FinishedTells == ASSUME Before PROVE Follows(finished(call), doc, NoNode)
<1> DEFINE s == IF dialect = "openai" THEN withDetails(call) ELSE call
<1>1. SinkInv(s, events) /\ Tells(s, doc, NoNode)
  BY NowTells, DetailsPlaced, DetailsTell DEF Before
<1>2. s \in CallRec
  BY <1>1 DEF SinkInv
<1>3. finished(call) = allFinished(s)
  BY DEF finished
<1> HIDE DEF s
<1>4. QED
  BY <1>1, <1>2, <1>3, AllFinishedTells DEF Tells

\* Whatever is announced at the end, one node after the other.
LEMMA RemainingTells ==
  ASSUME ~gone, gone \in BOOLEAN, NEW p, NEW e \in Nat, SinkInv(p.s, e), Follows(p.s, p.d, NoNode)
  PROVE  Follows(announceRemaining(p).s, announceRemaining(p).d, NoNode)
<1> DEFINE L == Len(p.s.order)
           list == "told"
           c == p.s
<1>1. L \in Nat /\ \A i \in 1 .. L : c.order[i] \in 1 .. Len(c.node)
  BY CallTypes DEF SinkInv, Ordered
<1>2. PICK f : Places(list, c, p, f, L) /\ announceRemaining(p) = f[L]
  BY <1>1, ToldByPlace
<1>3. \A i : place(list, c, i, f[i - 1])
               = IF c.order[i] \in f[i - 1].s.announced THEN f[i - 1] ELSE Announced(f[i - 1], c.order[i])
  BY DEF place
<1> HIDE DEF L, list, c
<1>4. f[0] = p /\ \A i \in 1 .. L : f[i] = place(list, c, i, f[i - 1])
  <2>1. Places(list, c, p, f, L) /\ L \in Nat
    BY <1>1, <1>2
  <2>2. QED
    BY <2>1, PlaceSteps
<1> DEFINE G == {k \in Nat : SinkInv(f[k].s, e) /\ Len(f[k].s.node) = Len(c.node) /\ Follows(f[k].s, f[k].d, NoNode)}
<1>5. 0 \in G
  BY <1>4 DEF c
<1>6. ASSUME NEW k \in 1 .. L, k - 1 \in G PROVE k \in G
  <2> DEFINE q == f[k - 1]
             n == c.order[k]
             r == f[k]
  <2>1. SinkInv(q.s, e) /\ Len(q.s.node) = Len(c.node) /\ Follows(q.s, q.d, NoNode) /\ n \in 1 .. Len(c.node) /\ k \in Nat
    BY <1>1, <1>6
  <2>2. r = q \/ r = Announced(q, n)
    BY <1>3, <1>4
  <2> HIDE DEF q, n, r, G
  <2>3. SinkInv(Announced(q, n).s, e) /\ Len(Announced(q, n).s.node) = Len(q.s.node)
    BY <2>1, AnnouncedKept DEF SameFields
  <2>4. q.s \in CallRec /\ n \in 1 .. Len(q.s.node) /\ Follows(q.s, q.d, n)
    BY <2>1, FollowsAnyway DEF SinkInv
  <2>5. Told(q.s, q.d, n, Announced(q, n).s, Announced(q, n).d)
    BY <2>4, AnnouncedTold
  <2>6. Follows(Announced(q, n).s, Announced(q, n).d, NoNode)
    BY <2>4, <2>5, ToldFollows
  <2>7. SinkInv(r.s, e) /\ Len(r.s.node) = Len(c.node) /\ Follows(r.s, r.d, NoNode)
    BY <2>1, <2>2, <2>3, <2>6
  <2>8. QED
    BY <2>1, <2>7 DEF r, G
<1> HIDE DEF G
<1>7. L \in G
  BY <1>1, <1>5, <1>6, UpTo
<1>8. QED
  BY <1>2, <1>7 DEF G

\* The first nodes of a message: the parts among them, in their order, and how many those are.
FirstParts(c, i) == {n \in 1 .. i : isPart(c.node[n])}
FirstIs(c, i, list) ==
  /\ list \in Seq(PartRec) /\ Len(list) = Cardinality(FirstParts(c, i)) /\ IsFiniteSet(FirstParts(c, i))
  /\ \A j \in 1 .. Len(list) : \E n \in 1 .. i : isPart(c.node[n]) /\ list[j] = partOf(c.node[n])

LEMMA FirstMore ==
  ASSUME NEW c, NEW i \in Nat, i # 0, c.node[i] \in FieldRec, NEW list, FirstIs(c, i - 1, list),
         NEW more, more = IF isPart(c.node[i]) THEN Append(list, partOf(c.node[i])) ELSE list
  PROVE  FirstIs(c, i, more)
<1>1. /\ list \in Seq(PartRec) /\ Len(list) = Cardinality(FirstParts(c, i - 1)) /\ IsFiniteSet(FirstParts(c, i - 1))
      /\ \A j \in 1 .. Len(list) : \E n \in 1 .. i - 1 : isPart(c.node[n]) /\ list[j] = partOf(c.node[n])
  BY DEF FirstIs
<1>2. \A n \in 1 .. i : n = i \/ n \in 1 .. i - 1
  OBVIOUS
<1>3. i \in 1 .. i /\ i \notin 1 .. i - 1 /\ \A n \in 1 .. i - 1 : n \in 1 .. i
  OBVIOUS
<1>4. CASE isPart(c.node[i])
  <2> DEFINE part == partOf(c.node[i])
  <2>1. part \in PartRec
    BY FieldTypes DEF partOf, PartRec
  <2>2. more = Append(list, part)
    BY <1>4
  <2> HIDE DEF part
  <2>3. more \in Seq(PartRec) /\ Len(more) = Len(list) + 1 /\ more[Len(list) + 1] = part /\ \A j \in 1 .. Len(list) : more[j] = list[j]
    BY <1>1, <2>1, <2>2, OneMore
  <2>4. FirstParts(c, i) = FirstParts(c, i - 1) \cup {i} /\ i \notin FirstParts(c, i - 1)
    BY <1>2, <1>3, <1>4 DEF FirstParts
  <2>5. IsFiniteSet(FirstParts(c, i)) /\ Cardinality(FirstParts(c, i)) = Cardinality(FirstParts(c, i - 1)) + 1
    <3> DEFINE A == FirstParts(c, i - 1)
    <3> HIDE DEF A
    <3>1. IsFiniteSet(A) /\ i \notin A /\ FirstParts(c, i) = A \cup {i}
      BY <1>1, <2>4 DEF A
    <3>2. IsFiniteSet(A \cup {i}) /\ Cardinality(A \cup {i}) = IF i \in A THEN Cardinality(A) ELSE Cardinality(A) + 1
      BY <3>1, FS_AddElement
    <3>3. QED
      BY <3>1, <3>2 DEF A
  <2>6. ASSUME NEW j \in 1 .. Len(more) PROVE \E n \in 1 .. i : isPart(c.node[n]) /\ more[j] = partOf(c.node[n])
    <3>1. CASE j = Len(list) + 1
      BY <1>3, <1>4, <2>3, <3>1 DEF part
    <3>2. CASE j \in 1 .. Len(list)
      BY <1>1, <1>3, <2>3, <3>2
    <3>3. Len(list) \in Nat
      BY <1>1
    <3>4. QED
      BY <2>3, <3>1, <3>2, <3>3
  <2>7. QED
    BY <1>1, <2>3, <2>5, <2>6 DEF FirstIs
<1>5. CASE ~isPart(c.node[i])
  <2>1. FirstParts(c, i) = FirstParts(c, i - 1) /\ more = list
    BY <1>2, <1>3, <1>5 DEF FirstParts
  <2>2. QED
    BY <1>1, <1>3, <2>1 DEF FirstIs
<1>6. QED
  BY <1>4, <1>5

\* The message of a call whose nodes are in the order they began.
InOrder(c) ==
  /\ Len(c.order) = Len(c.node) /\ Len(c.node) \in Nat /\ \A i \in 1 .. Len(c.node) : c.order[i] = i /\ c.node[i] \in FieldRec

LEMMA MessageInOrder ==
  ASSUME NEW c, InOrder(c)
  PROVE  \E f : /\ MessageFromNodes(c) = f[Len(c.node)] /\ f[0] = <<>>
                /\ \A i \in 1 .. Len(c.node) : f[i] = IF isPart(c.node[i]) THEN Append(f[i - 1], partOf(c.node[i])) ELSE f[i - 1]
                /\ \A i \in 0 .. Len(c.node) : FirstIs(c, i, f[i])
<1> DEFINE L == Len(c.node)
           list == "message"
           first == <<>>
<1>1. L \in Nat /\ Len(c.order) = L /\ (\A i \in 1 .. L : c.order[i] = i /\ c.node[i] \in FieldRec)
  BY DEF InOrder
<1>2. PICK f : Places(list, c, first, f, L) /\ MessageFromNodes(c) = f[L]
  BY <1>1, MessageByPlace
<1>3. \A i : place(list, c, i, f[i - 1])
               = IF isPart(c.node[c.order[i]]) THEN Append(f[i - 1], partOf(c.node[c.order[i]])) ELSE f[i - 1]
  BY DEF place
<1> HIDE DEF L, list, first
<1>4. f[0] = first /\ \A i \in 1 .. L : f[i] = place(list, c, i, f[i - 1])
  <2>1. L \in Nat
    BY <1>1
  <2>2. Places(list, c, first, f, L)
    BY <1>2
  <2>3. QED
    BY <2>1, <2>2, PlaceSteps
<1>5. \A i \in 1 .. L : f[i] = IF isPart(c.node[i]) THEN Append(f[i - 1], partOf(c.node[i])) ELSE f[i - 1]
  BY <1>1, <1>3, <1>4
<1>6. FirstIs(c, 0, f[0])
  <2>1. FirstParts(c, 0) = {}
    BY DEF FirstParts
  <2>2. f[0] \in Seq(PartRec) /\ Len(f[0]) = 0
    BY <1>4 DEF first
  <2>3. IsFiniteSet(FirstParts(c, 0)) /\ Cardinality(FirstParts(c, 0)) = 0
    BY <2>1, FS_EmptySet
  <2>4. \A j \in 1 .. Len(f[0]) : FALSE
    BY <2>2
  <2>5. QED
    BY <2>2, <2>3, <2>4 DEF FirstIs
<1>7. ASSUME NEW i \in 0 .. L PROVE FirstIs(c, i, f[i])
  <2> DEFINE G == {k \in Nat : FirstIs(c, k, f[k])}
  <2>1. 0 \in G
    BY <1>6
  <2>2. ASSUME NEW k \in 1 .. i, k - 1 \in G PROVE k \in G
    <3> DEFINE a == f[k - 1]
               b == f[k]
    <3>1. k \in 1 .. L /\ k \in Nat /\ k # 0
      BY <1>1
    <3>2. FirstIs(c, k - 1, a) /\ b = IF isPart(c.node[k]) THEN Append(a, partOf(c.node[k])) ELSE a
      BY <1>5, <2>2, <3>1
    <3> HIDE DEF a, b, G
    <3>3. FirstIs(c, k, b)
      BY <1>1, <3>1, <3>2, FirstMore
    <3>4. QED
      BY <3>1, <3>3 DEF b, G
  <2> HIDE DEF G
  <2>3. i \in G
    BY <1>1, <2>1, <2>2, UpTo
  <2>4. QED
    BY <2>3 DEF G
<1>8. QED
  BY <1>2, <1>4, <1>5, <1>7 DEF L, first

\* What is left to write of a message once its call returned: the text under way comes next.
Rest(d, parts) ==
  /\ d \in DocRec /\ parts \in Seq(PartRec) /\ d.sent <= Len(parts)
  /\ merged(d.parts) = merged(withText(SubSeq(parts, 1, d.sent), d.pending))
  /\ d.pending # <<>> => d.sent + 1 <= Len(parts) /\ parts[d.sent + 1] = textPart(d.pending)
  /\ \A j \in 1 .. Len(parts) : parts[j].kind = Text => parts[j].text # <<>>

LEMMA TextsThere ==
  ASSUME NEW c, NEW i, NEW list, FirstIs(c, i, list)
  PROVE  \A j \in 1 .. Len(list) : list[j].kind = Text => list[j].text # <<>>
<1>1. \A n : partOf(c.node[n]).kind = c.node[n].kind /\ partOf(c.node[n]).text = c.node[n].value
  BY DEF partOf
<1>2. ASSUME NEW j \in 1 .. Len(list), list[j].kind = Text PROVE list[j].text # <<>>
  <2>1. PICK n \in 1 .. i : isPart(c.node[n]) /\ list[j] = partOf(c.node[n])
    BY DEF FirstIs
  <2>2. c.node[n].kind = Text
    BY <1>1, <1>2, <2>1
  <2>3. QED
    BY <1>1, <2>1, <2>2 DEF isPart
<1>3. QED
  BY <1>2

LEMMA RestLeft ==
  ASSUME NEW c, NEW e, SinkInv(c, e), InOrder(c), NEW d, Written(c, d), Awaiting(c, d.pending, NoNode), ToldAsIs(c),
         NEW M, M = MessageFromNodes(c), IsPrefix(c.parts, M)
  PROVE  Rest(d, M)
<1> DEFINE L == Len(c.node)
           sent == d.sent
<1>1. /\ d \in DocRec /\ c.parts \in Seq(PartRec) /\ sent = Len(c.parts) /\ sent \in Nat /\ d.pending \in Seq(Nat)
      /\ merged(d.parts) = merged(withText(c.parts, d.pending))
  BY DEF Written, DocRec
<1>2. L \in Nat /\ \A n \in 1 .. L : c.node[n] \in FieldRec
  BY DEF InOrder
<1>3. PICK f : /\ MessageFromNodes(c) = f[L]
               /\ \A i \in 1 .. L : f[i] = IF isPart(c.node[i]) THEN Append(f[i - 1], partOf(c.node[i])) ELSE f[i - 1]
               /\ \A i \in 0 .. L : FirstIs(c, i, f[i])
  BY MessageInOrder
<1>4. M = f[L] /\ FirstIs(c, L, M)
  BY <1>2, <1>3
<1>5. M \in Seq(PartRec) /\ Len(M) \in Nat
  BY <1>4 DEF FirstIs
<1>6. \A j \in 1 .. Len(M) : M[j].kind = Text => M[j].text # <<>>
  BY <1>4, TextsThere
<1>7. sent <= Len(M) /\ SubSeq(M, 1, sent) = c.parts /\ \A j \in 1 .. sent : c.parts[j] = M[j]
  <2>1. Len(c.parts) <= Len(M) /\ \A j \in 1 .. Len(c.parts) : c.parts[j] = M[j]
    <3>1. Len(c.parts) <= Len(M) /\ c.parts = SubSeq(M, 1, Len(c.parts))
      BY <1>1, <1>5 DEF IsPrefix
    <3>2. QED
      BY <1>1, <1>5, <3>1
  <2> DEFINE v == SubSeq(M, 1, sent)
  <2>2. v \in Seq(PartRec) /\ Len(v) = sent /\ \A j \in 1 .. sent : v[j] = M[j]
    BY <1>1, <1>5, <2>1
  <2> HIDE DEF v, sent
  <2>3. v = c.parts
    BY <1>1, <2>1, <2>2
  <2>4. QED
    BY <1>1, <2>1, <2>3 DEF v
\* Parts once appended stay where they are.
<1>8. ASSUME NEW i \in 1 .. L PROVE Len(f[i]) <= Len(M) /\ \A j \in 1 .. Len(f[i]) : M[j] = f[i][j]
  <2> DEFINE More(k) == Len(f[i]) <= Len(f[k]) /\ \A j \in 1 .. Len(f[i]) : f[k][j] = f[i][j]
             G == {k \in Nat : k < i \/ More(k)}
  <2>1. 0 \in G
    OBVIOUS
  <2>2. ASSUME NEW k \in 1 .. L, k - 1 \in G PROVE k \in G
    <3>1. CASE k < i
      BY <1>2, <3>1
    <3>2. CASE k = i
      BY <1>2, <3>2
    <3>3. CASE k > i
      <4> DEFINE a == f[k - 1]
                 b == f[k]
                 first == f[i]
                 part == partOf(c.node[k])
      <4>1. b = a \/ b = Append(a, part)
        BY <1>3
      <4>2. k - 1 \in 0 .. L /\ ~(k - 1 < i) /\ k \in Nat
        BY <1>2, <3>3
      <4>3. a \in Seq(PartRec) /\ Len(first) <= Len(a) /\ \A j \in 1 .. Len(first) : a[j] = first[j]
        BY <1>3, <2>2, <4>2 DEF FirstIs
      <4>4. first \in Seq(PartRec)
        BY <1>3 DEF FirstIs
      <4>5. part \in PartRec
        BY <1>2, FieldTypes DEF partOf, PartRec
      <4> HIDE DEF a, b, first, part
      <4>6. Len(first) <= Len(b) /\ \A j \in 1 .. Len(first) : b[j] = first[j]
        <5>1. CASE b = a
          BY <4>3, <5>1
        <5>2. CASE b = Append(a, part)
          <6>1. Len(b) = Len(a) + 1 /\ \A j \in 1 .. Len(a) : b[j] = a[j]
            BY <4>3, <4>5, <5>2, OneMore
          <6>2. \A j \in 1 .. Len(first) : j \in 1 .. Len(a)
            BY <4>3, <4>4
          <6>3. Len(a) \in Nat /\ Len(first) \in Nat
            BY <4>3, <4>4
          <6>4. QED
            BY <4>3, <6>1, <6>2, <6>3
        <5>3. QED
          BY <4>1, <5>1, <5>2
      <4>7. More(k)
        BY <4>6 DEF b, first
      <4> HIDE DEF More
      <4>8. QED
        BY <4>2, <4>7
    <3>4. QED
      BY <1>2, <3>1, <3>2, <3>3
  <2> HIDE DEF G, L
  <2>3. L \in G
    BY <1>2, <2>1, <2>2, UpTo
  <2>4. More(L)
    <3>1. ~(L < i)
      BY <1>2
    <3> HIDE DEF More
    <3>2. QED
      BY <2>3, <3>1 DEF G
  <2>5. QED
    BY <1>4, <2>4
<1>9. ASSUME d.pending # <<>> PROVE sent + 1 <= Len(M) /\ M[sent + 1] = textPart(d.pending)
  <2>1. PICK n \in 1 .. L : Writing(c, n, d.pending, NoNode)
    BY <1>9 DEF Awaiting
  <2>2. /\ c.node[n].kind = Text /\ c.node[n].value = d.pending /\ n \notin c.announced /\ n \in Nat
        /\ \A m \in 1 .. n - 1 : isPart(c.node[m]) => m \in c.announced
    BY <2>1 DEF Writing, NoNode
  <2>3. isPart(c.node[n]) /\ partOf(c.node[n]) = textPart(d.pending)
    <3>1. c.node[n].blob = FALSE
      BY <2>2 DEF ToldAsIs
    <3>2. QED
      BY <1>9, <2>2, <3>1 DEF isPart, partOf, textPart
  <2> DEFINE before == f[n - 1]
             a == Len(before)
             upto == f[n]
  <2>4. n - 1 \in 0 .. L
    BY <1>2, <2>2
  <2>5. FirstIs(c, n - 1, before) /\ upto = Append(before, textPart(d.pending))
    BY <1>3, <2>3, <2>4
  <2>6. before \in Seq(PartRec) /\ a \in Nat /\ a = Cardinality(FirstParts(c, n - 1))
    BY <2>5 DEF FirstIs
  <2>7. textPart(d.pending) \in PartRec /\ textPart(d.pending).kind = Text /\ textPart(d.pending).text = d.pending
    <3>1. \A z \in Seq(Nat) : z \in Seq(Int)
      OBVIOUS
    <3>2. QED
      BY <1>1, <3>1, TextPartIs
  <2>8. Len(upto) <= Len(M) /\ \A j \in 1 .. Len(upto) : M[j] = upto[j]
    BY <1>8
  <2> HIDE DEF before, upto
  <2>9. Len(upto) = a + 1 /\ upto[a + 1] = textPart(d.pending) /\ a + 1 \in 1 .. Len(upto)
    BY <2>5, <2>6, <2>7, OneMore
  <2>10. a + 1 <= Len(M) /\ M[a + 1] = textPart(d.pending)
    BY <2>8, <2>9
  <2>11. a <= sent
    <3>1. FirstParts(c, n - 1) \subseteq toldParts(c)
      <4>1. \A m \in 1 .. n - 1 : m \in 1 .. L
        BY <1>2, <2>2
      <4>2. QED
        BY <2>2, <4>1 DEF FirstParts, toldParts
    <3>2. IsFiniteSet(1 .. L)
      BY <1>2, FS_Interval
    <3>3. toldParts(c) \in SUBSET (1 .. L)
      BY DEF toldParts
    <3>4. IsFiniteSet(toldParts(c))
      BY <3>2, <3>3, FS_Subset
    <3>5. Cardinality(FirstParts(c, n - 1)) <= Cardinality(toldParts(c))
      BY <3>1, <3>4, FS_Subset
    <3>6. Cardinality(toldParts(c)) <= sent /\ Cardinality(toldParts(c)) \in Nat
      BY <1>1, <3>4, FS_CardinalityType DEF ToldAsIs
    <3>7. QED
      BY <1>1, <2>6, <3>5, <3>6
  <2>12. ASSUME a < sent PROVE FALSE
    <3> DEFINE j == a + 1
    <3>1. j \in 1 .. Len(c.parts) /\ c.parts[j] = textPart(d.pending)
      BY <1>1, <1>7, <2>6, <2>10, <2>12
    <3> HIDE DEF j
    <3>2. PICK m \in 1 .. L : m \in c.announced /\ c.node[m].value = d.pending
      BY <2>7, <3>1 DEF ToldAsIs
    <3>3. m # n
      BY <2>2, <3>2
    <3> DEFINE x == d.pending[1]
    <3>4. 1 \in 1 .. Len(d.pending) /\ x \in Nat
      BY <1>1, <1>9
    <3> HIDE DEF x
    <3>5. x \in held(c.node[m]) /\ x \in held(c.node[n])
      <4>1. c.node[m].value[1] = x /\ c.node[n].value[1] = x /\ 1 \in 1 .. Len(c.node[m].value) /\ 1 \in 1 .. Len(c.node[n].value)
        BY <2>2, <3>2, <3>4 DEF x
      <4>2. QED
        BY <1>2, <4>1, HeldIs
    <3>6. x = Correction
      <4>1. HeldOnce(c)
        BY DEF SinkInv
      <4>2. held(c.node[m]) \cap held(c.node[n]) \subseteq {Correction}
        BY <3>3, <4>1 DEF HeldOnce
      <4>3. QED
        BY <3>5, <4>2
    <3>7. QED
      BY <3>4, <3>6 DEF Correction
  <2>13. a = sent
    BY <1>1, <2>6, <2>11, <2>12
  <2>14. QED
    BY <2>10, <2>13
<1>10. QED
  BY <1>1, <1>5, <1>6, <1>7, <1>9 DEF Rest

\* The tail is written place by place.
LEMMA TailByPlace ==
  ASSUME NEW d, NEW parts, Len(parts) \in Nat, NEW first, first = [sent |-> d.sent, parts |-> parts]
  PROVE  \E f : Places("rest", first, d, f, Len(parts)) /\ tail(d, parts) = f[Len(parts)]
<1> DEFINE entry(f, i) == IF i = 0 THEN d ELSE IF i <= d.sent THEN f[i - 1] ELSE wroteRest(f[i - 1], parts[i])
           Made(f) == f = [i \in 0 .. Len(parts) |-> entry(f, i)]
           wrote == CHOOSE f : Made(f)
<1>1. tail(d, parts) = wrote[Len(parts)]
  BY Zenon DEF tail
<1>2. \A f, i : entry(f, i) = IF i = 0 THEN d ELSE place("rest", first, i, f[i - 1])
  BY DEF place
<1> HIDE DEF entry
<1>3. \A f : Made(f) <=> Places("rest", first, d, f, Len(parts))
  <2> TAKE f
  <2>1. [i \in 0 .. Len(parts) |-> entry(f, i)]
          = [i \in 0 .. Len(parts) |-> IF i = 0 THEN d ELSE place("rest", first, i, f[i - 1])]
    BY <1>2
  <2>2. QED
    BY <2>1 DEF Places
<1> HIDE DEF Made
<1>4. \E f : Made(f)
  BY <1>3, PlaceByPlace
<1>5. Made(wrote)
  BY <1>4
<1> HIDE DEF wrote
<1>6. QED
  BY <1>1, <1>3, <1>5

\* One place of the tail: its part is written, unless it is the text under way.
LEMMA PlaceWritten ==
  ASSUME ~gone, NEW d \in DocRec, NEW part \in PartRec, part.kind = Text => part.text # <<>>,
         NEW list \in Seq(PartRec), merged(d.parts) = merged(withText(list, d.pending)),
         d.pending # <<>> => part = textPart(d.pending),
         NEW e, e = wroteRest(d, part)
  PROVE  e \in DocRec /\ e.pending = <<>> /\ merged(e.parts) = merged(Append(list, part))
<1>1. d.parts \in Seq(PartRec) /\ <<>> \in Seq(Nat)
  BY DEF DocRec
<1>2. CASE isPending(d, part)
  <2>1. d.pending # <<>> /\ part = textPart(d.pending)
    BY <1>2 DEF isPending
  <2>2. e = [d EXCEPT !.pending = <<>>]
    BY <1>2 DEF wroteRest
  <2>3. e \in DocRec /\ e.pending = <<>> /\ e.parts = d.parts
    BY <1>1, <2>2 DEF DocRec
  <2>4. withText(list, d.pending) = Append(list, part)
    BY <2>1 DEF withText
  <2>5. QED
    BY <2>3, <2>4
<1>3. CASE ~isPending(d, part)
  <2>1. d.pending = <<>>
    BY <1>3 DEF isPending, textPart
  <2> DEFINE more == Append(d.parts, part)
  <2>2. more \in Seq(PartRec) /\ merged(more) = joined(merged(d.parts), part) /\ merged(Append(list, part)) = joined(merged(list), part)
    BY <1>1, MergedMore
  <2>3. e = [d EXCEPT !.parts = more, !.open = FALSE]
    BY <1>3 DEF wroteRest
  <2> HIDE DEF more
  <2>4. e \in DocRec /\ e.pending = d.pending /\ e.parts = more
    BY <2>2, <2>3 DEF DocRec
  <2>5. withText(list, d.pending) = list
    BY <2>1 DEF withText
  <2>6. QED
    BY <2>1, <2>2, <2>4, <2>5
<1>4. QED
  BY <1>2, <1>3

LEMMA TailWritten ==
  ASSUME ~gone, NEW d, NEW parts, Rest(d, parts)
  PROVE  merged(tail(d, parts).parts) = merged(parts) /\ tail(d, parts) \in DocRec
<1> DEFINE L == Len(parts)
           sent == d.sent
           upto(i) == SubSeq(parts, 1, i)
           first == [sent |-> d.sent, parts |-> parts]
           list == "rest"
<1>1. /\ d \in DocRec /\ parts \in Seq(PartRec) /\ sent <= L /\ L \in Nat /\ sent \in Nat
      /\ merged(d.parts) = merged(withText(upto(sent), d.pending))
      /\ d.pending # <<>> => sent + 1 <= L /\ parts[sent + 1] = textPart(d.pending)
      /\ \A j \in 1 .. L : parts[j].kind = Text => parts[j].text # <<>>
  BY DEF Rest, DocRec
<1>2. PICK f : Places(list, first, d, f, L) /\ tail(d, parts) = f[L]
  BY <1>1, TailByPlace
<1>3. \A i : place(list, first, i, f[i - 1]) = IF i <= sent THEN f[i - 1] ELSE wroteRest(f[i - 1], parts[i])
  BY DEF place
<1>4. \A i \in 1 .. L : upto(i) = Append(upto(i - 1), parts[i]) /\ upto(i - 1) \in Seq(PartRec) /\ parts[i] \in PartRec
  <2>1. ASSUME NEW i \in 1 .. L PROVE upto(i) = Append(upto(i - 1), parts[i]) /\ upto(i - 1) \in Seq(PartRec) /\ parts[i] \in PartRec
    <3> DEFINE a == SubSeq(parts, 1, i)
               b == SubSeq(parts, 1, i - 1)
    <3>1. a \in Seq(PartRec) /\ Len(a) = i /\ (\A j \in 1 .. i : a[j] = parts[j]) /\ parts[i] \in PartRec
      BY <1>1
    <3>2. b \in Seq(PartRec) /\ Len(b) = i - 1 /\ (\A j \in 1 .. i - 1 : b[j] = parts[j])
      BY <1>1
    <3> HIDE DEF a, b
    <3> DEFINE c == Append(b, parts[i])
    <3>3. c \in Seq(PartRec) /\ Len(c) = i /\ c[i] = parts[i] /\ \A j \in 1 .. i - 1 : c[j] = b[j]
      BY <3>1, <3>2
    <3> HIDE DEF c
    <3>4. \A j \in 1 .. i : j = i \/ j \in 1 .. i - 1
      OBVIOUS
    <3>5. a = c
      BY <3>1, <3>2, <3>3, <3>4
    <3>6. QED
      BY <3>1, <3>2, <3>5 DEF a, b, c
  <2>2. QED
    BY <2>1
<1> HIDE DEF L, first, list, upto
<1>5. f[0] = d /\ \A i \in 1 .. L : f[i] = place(list, first, i, f[i - 1])
  <2>1. L \in Nat /\ Places(list, first, d, f, L)
    BY <1>1, <1>2
  <2>2. QED
    BY <2>1, PlaceSteps
<1>6. \A i \in 1 .. L : f[i] = IF i <= sent THEN f[i - 1] ELSE wroteRest(f[i - 1], parts[i])
  BY <1>3, <1>5
<1> DEFINE G == {k \in Nat : /\ k <= sent => f[k] = d
                             /\ k >= sent => /\ f[k] \in DocRec /\ merged(f[k].parts) = merged(withText(upto(k), f[k].pending))
                                             /\ f[k].pending # <<>> => k = sent /\ f[k].pending = d.pending}
<1>7. 0 \in G
  BY <1>1, <1>5
<1>8. ASSUME NEW k \in 1 .. L, k - 1 \in G PROVE k \in G
  <2> HIDE DEF sent
  <2>1. CASE k <= sent
    <3>1. f[k] = d
      BY <1>1, <1>6, <1>8, <2>1
    <3>2. k >= sent => k = sent
      BY <1>1, <2>1
    <3>3. QED
      BY <1>1, <3>1, <3>2 DEF sent
  <2>2. CASE ~(k <= sent)
    <3> DEFINE before == f[k - 1]
               after == f[k]
               sofar == upto(k - 1)
               part == parts[k]
    <3>1. k - 1 >= sent /\ k > sent /\ k \in Nat
      BY <1>1, <2>2
    <3>2. /\ before \in DocRec /\ merged(before.parts) = merged(withText(sofar, before.pending))
          /\ before.pending # <<>> => k - 1 = sent /\ before.pending = d.pending
      BY <1>8, <3>1
    <3>3. after = wroteRest(before, part)
      BY <1>6, <2>2
    <3>4. part \in PartRec /\ sofar \in Seq(PartRec) /\ upto(k) = Append(sofar, part) /\ (part.kind = Text => part.text # <<>>)
      BY <1>1, <1>4
    <3>5. before.pending # <<>> => part = textPart(before.pending)
      <4>1. k - 1 = sent => sent + 1 = k
        BY <1>1
      <4>2. QED
        BY <1>1, <3>2, <4>1
    <3> HIDE DEF before, after, sofar, part
    <3>6. after \in DocRec /\ after.pending = <<>> /\ merged(after.parts) = merged(Append(sofar, part))
      BY <3>2, <3>3, <3>4, <3>5, PlaceWritten
    <3>7. merged(after.parts) = merged(withText(upto(k), after.pending))
      BY <3>4, <3>6 DEF withText
    <3>8. QED
      BY <2>2, <3>1, <3>6, <3>7 DEF after
  <2>3. QED
    BY <2>1, <2>2
<1> HIDE DEF G
<1>9. L \in G
  BY <1>1, <1>7, <1>8, UpTo
<1>10. f[L] \in DocRec /\ merged(f[L].parts) = merged(withText(upto(L), f[L].pending)) /\ (f[L].pending # <<>> => L = sent /\ f[L].pending = d.pending)
  <2>1. L >= sent
    BY <1>1
  <2>2. QED
    BY <1>9, <2>1 DEF G
<1>11. f[L].pending = <<>>
  <2>1. ~(sent + 1 <= L) \/ L # sent
    BY <1>1
  <2>2. QED
    BY <1>1, <1>10, <2>1
<1>12. withText(upto(L), f[L].pending) = upto(L)
  BY <1>11 DEF withText
<1>13. upto(L) = parts
  BY <1>1 DEF upto, L
<1>14. QED
  BY <1>2, <1>10, <1>12, <1>13

\* A call that was announced as its message has it, and changed no text.
Expected(c, m) ==
  /\ m.has /\ IsPrefix(c.parts, m.parts) /\ (\A i \in DOMAIN c.order : c.order[i] = i) /\ ~c.torn
  /\ ~Revised(c) /\ m.parts = MessageFromNodes(c)

LEMMA OrderIs ==
  ASSUME NEW c, NEW e, SinkInv(c, e), \A i \in DOMAIN c.order : c.order[i] = i
  PROVE  InOrder(c)
<1> DEFINE L == Len(c.node)
           K == Len(c.order)
<1>1. L \in Nat /\ K \in Nat /\ DOMAIN c.order = 1 .. K /\ \A n \in 1 .. L : c.node[n] \in FieldRec
  BY CallTypes DEF SinkInv
<1>2. (\A i \in 1 .. K : i \in 1 .. L) /\ (\A n \in 1 .. L : n \in 1 .. K)
  <2>1. \A i \in 1 .. K : c.order[i] = i /\ c.order[i] \in 1 .. L
    BY <1>1 DEF SinkInv, Ordered
  <2>2. \A n \in 1 .. L : \E i \in 1 .. K : c.order[i] = n
    BY DEF SinkInv, Ordered
  <2>3. QED
    BY <2>1, <2>2
<1> HIDE DEF L, K
<1>3. K = L
  <2>1. K <= L
    <3>1. K = 0 \/ K \in 1 .. K
      BY <1>1
    <3>2. QED
      BY <1>1, <1>2, <3>1
  <2>2. L <= K
    <3>1. L = 0 \/ L \in 1 .. L
      BY <1>1
    <3>2. QED
      BY <1>1, <1>2, <3>1
  <2>3. QED
    BY <1>1, <2>1, <2>2
<1>4. \A i \in 1 .. L : c.order[i] = i
  BY <1>1, <1>3
<1>5. QED
  BY <1>1, <1>3, <1>4 DEF InOrder, L, K

LEMMA ReturnedRest ==
  ASSUME NEW c, NEW e, SinkInv(c, e), NEW d, Follows(c, d, NoNode), NEW m, Expected(c, m)
  PROVE  Rest(d, m.parts)
<1>1. Written(c, d) /\ Awaiting(c, d.pending, NoNode) /\ ToldAsIs(c)
  BY DEF Expected, Follows, Amiss
<1>2. InOrder(c) /\ m.parts = MessageFromNodes(c) /\ IsPrefix(c.parts, m.parts)
  BY OrderIs DEF Expected
<1>3. QED
  BY <1>1, <1>2, RestLeft

\* While the call streams the document follows it; once it returned, what is left to write of
\* the message follows the document.
Unwritten == doc \in DocRec /\ doc.parts = <<>> /\ doc.pending = <<>> /\ doc.sent = 0
DocInv ==
  /\ phase = "streaming" =>
       /\ ~gone => Tells(call, doc, NoNode) /\ (dialect = "completions" => OneText(call))
       /\ events = 0 => Unwritten
  /\ phase = "returned" /\ ~gone /\ Expected(call, comp) => Rest(doc, comp.parts)
  /\ phase = "closed" /\ ~gone /\ Expected(call, comp) => merged(doc.parts) = merged(comp.parts)

LEMMA DocumentIsOf == DocInv => DocumentIsTheMessage
<1>1. AnnouncedInTurn /\ NoTextRevised /\ NoBlankTrimmed /\ comp.has => Expected(call, comp)
  BY DEF AnnouncedInTurn, NoTextRevised, NoBlankTrimmed, Expected, Revised
<1>2. QED
  BY <1>1 DEF DocInv, DocumentIsTheMessage

LEMMA DocInvInit == Init => DocInv
<1> SUFFICES ASSUME Init PROVE DocInv
  OBVIOUS
<1>1. /\ call = [order |-> <<>>, node |-> <<>>, key |-> [k \in ItemKeys |-> NoNode], think |-> NoNode, text |-> NoNode,
                 announced |-> {}, details |-> FALSE, parts |-> <<>>, got |-> {}, torn |-> FALSE, saw |-> FALSE,
                 err |-> FALSE, failure |-> FALSE]
      /\ doc = [begun |-> FALSE, parts |-> <<>>, open |-> FALSE, pending |-> <<>>, sent |-> 0, ended |-> "no"]
      /\ phase = "streaming"
  BY DEF Init
<1>2. /\ call.node = <<>> /\ call.announced = {} /\ call.parts = <<>> /\ call.think = NoNode
      /\ doc.parts = <<>> /\ doc.open = FALSE /\ doc.pending = <<>> /\ doc.sent = 0
  BY <1>1
<1>3. <<>> \in Seq(PartRec) /\ <<>> \in Seq(Nat) /\ Len(<<>>) = 0 /\ 0 \in Nat
  OBVIOUS
<1>4. doc \in DocRec
  BY <1>1, <1>3 DEF DocRec
<1>5. Len(call.node) = 0 /\ Len(call.parts) = 0 /\ call.parts \in Seq(PartRec)
  BY <1>2, <1>3
<1>6. Written(call, doc)
  <2>1. withText(call.parts, doc.pending) = call.parts
    BY <1>2 DEF withText
  <2>2. doc.sent = Len(call.parts)
    BY <1>2, <1>5
  <2>3. QED
    BY <1>2, <1>4, <1>5, <2>1, <2>2 DEF Written
<1>7. Awaiting(call, doc.pending, NoNode)
  BY <1>2, <1>5 DEF Awaiting
<1>8. ToldAsIs(call)
  <2>1. toldParts(call) = {}
    BY <1>2 DEF toldParts
  <2>2. Cardinality(toldParts(call)) = 0
    BY <2>1, FS_EmptySet
  <2>3. QED
    BY <1>2, <1>5, <2>2 DEF ToldAsIs
<1>9. Tells(call, doc, NoNode)
  BY <1>2, <1>6, <1>7, <1>8 DEF Tells, Follows, ThinkIs
<1>10. OneText(call) /\ Unwritten
  BY <1>2, <1>4, <1>5 DEF OneText, Unwritten
<1>11. QED
  BY <1>1, <1>9, <1>10 DEF DocInv

\* Every event of a stream but a text of completions.
LEMMA EventTells ==
  ASSUME Before,
         \/ UsageReport \/ OpenaiContent \/ OpenaiReasoning \/ OpenaiDetails \/ ResponsesFailed
         \/ \E k \in ItemKeys : OpenaiToolCall(k) \/ AnthropicSignature(k) \/ AnthropicStop(k)
         \/ \E k \in ItemKeys, kind \in Kinds : AnthropicStart(k, kind) \/ AnthropicDelta(k, kind)
         \/ \E k \in ItemKeys \cup {NoKey}, kind \in Kinds :
              ResponsesAdded(k, kind) \/ ResponsesDelta(k, kind) \/ \E final \in Finals : ResponsesDone(k, kind, final)
  PROVE  After
<1>1. CASE UsageReport \/ OpenaiContent \/ OpenaiReasoning \/ OpenaiDetails \/ ResponsesFailed
  BY <1>1, UsageTells, ContentTells, ReasoningTells, DetailsTells, FailureTells
<1>2. ASSUME NEW k \in ItemKeys, OpenaiToolCall(k) \/ AnthropicSignature(k) \/ AnthropicStop(k) PROVE After
  BY <1>2, ToolCallTells, SignatureTells, BlockStopTells
<1>3. ASSUME NEW k \in ItemKeys, NEW kind \in Kinds, AnthropicStart(k, kind) \/ AnthropicDelta(k, kind) PROVE After
  BY <1>3, BlockStartTells, BlockDeltaTells
<1>4. ASSUME NEW k \in ItemKeys \cup {NoKey}, NEW kind \in Kinds, ResponsesAdded(k, kind) \/ ResponsesDelta(k, kind) PROVE After
  BY <1>4, ItemAddedTells, ItemDeltaTells
<1>5. ASSUME NEW k \in ItemKeys \cup {NoKey}, NEW kind \in Kinds, NEW final \in Finals, ResponsesDone(k, kind, final) PROVE After
  BY <1>5, ItemDoneTells
<1>6. QED
  BY <1>1, <1>2, <1>3, <1>4, <1>5

\* The three ways a call returns: what is left to write.
LEMMA StreamEndRest ==
  ASSUME Before, StreamEnds, Expected(call', comp') PROVE Rest(doc', comp'.parts)
<1> DEFINE s == finished(call)
           p0 == [s |-> s, d |-> doc]
           p == IF dialect = "openai" THEN announceRemaining(p0) ELSE p0
<1>1. Becomes(p)
  BY DEF StreamEnds
<1>2. SinkInv(s, events) /\ events \in Nat /\ gone \in BOOLEAN /\ ~gone /\ Follows(s, doc, NoNode)
  BY FinishedKept, FinishedTells, NowTells DEF StreamInv
<1> HIDE DEF s
<1>3. p0.s = s /\ p0.d = doc
  OBVIOUS
<1> HIDE DEF p0
<1>4. SinkInv(p.s, events) /\ Follows(p.s, p.d, NoNode)
  <2>1. SinkInv(announceRemaining(p0).s, events)
    BY <1>2, <1>3, RemainingTold
  <2>2. Follows(announceRemaining(p0).s, announceRemaining(p0).d, NoNode)
    BY <1>2, <1>3, RemainingTells
  <2>3. QED
    BY <1>2, <1>3, <2>1, <2>2
<1>5. call' = p.s /\ doc' = p.d
  BY <1>1 DEF Becomes
<1> HIDE DEF p
<1>6. Expected(p.s, comp')
  BY <1>5
<1>7. QED
  BY <1>4, <1>5, <1>6, ReturnedRest

LEMMA StreamBreakRest ==
  ASSUME Before, StreamBreaks, Expected(call', comp') PROVE Rest(doc', comp'.parts)
<1> DEFINE s == finished(call)
<1>1. call' = s /\ doc' = doc
  BY DEF StreamBreaks
<1>2. SinkInv(s, events) /\ Follows(s, doc, NoNode)
  BY FinishedKept, FinishedTells, NowTells
<1> HIDE DEF s
<1>3. Expected(s, comp')
  BY <1>1
<1>4. QED
  BY <1>1, <1>2, <1>3, ReturnedRest

LEMMA WholeRest ==
  ASSUME StreamInv, Unwritten, NEW n \in 1 .. 2, NEW kinds \in [1 .. n -> Kinds], ArrivesWhole(kinds)
  PROVE  Rest(doc', comp'.parts)
<1> DEFINE fields == [i \in DOMAIN kinds |-> Whole(kinds[i], <<i>>)]
           order == [i \in DOMAIN kinds |-> i]
           s == [call EXCEPT !.node = fields, !.order = order, !.saw = TRUE]
<1>1. doc' = doc /\ comp'.parts = MessageFromNodes(s)
  BY DEF ArrivesWhole
<1>2. call \in CallRec /\ n \in Nat
  BY DEF StreamInv, SinkInv
<1>3. ASSUME NEW i \in 1 .. n PROVE fields[i] \in FieldRec /\ order[i] = i
  <2> DEFINE g == Open(kinds[i])
             v == <<i>>
  <2>1. v \in Seq(Int) /\ g \in FieldRec
    <3>1. i \in Int /\ kinds[i] \in Kinds
      OBVIOUS
    <3>2. g \in FieldRec
      BY <3>1, OpenHolds
    <3>3. v \in Seq(Int)
      BY <3>1
    <3>4. QED
      BY <3>2, <3>3
  <2>2. fields[i] = [g EXCEPT !.value = v, !.done = TRUE]
    BY DEF Whole
  <2> HIDE DEF fields, g, v
  <2>3. QED
    BY <2>1, <2>2 DEF FieldRec
<1>4. DOMAIN fields = 1 .. n /\ DOMAIN order = 1 .. n
  OBVIOUS
<1>5. Len(fields) = n /\ Len(order) = n
  <2>1. fields \in [1 .. n -> FieldRec]
    <3>1. fields = [i \in 1 .. n |-> Whole(kinds[i], <<i>>)]
      OBVIOUS
    <3>2. \A i \in 1 .. n : Whole(kinds[i], <<i>>) \in FieldRec
      BY <1>3
    <3>3. QED
      BY <3>1, <3>2
  <2>2. order \in [1 .. n -> Nat]
    OBVIOUS
  <2> HIDE DEF fields, order
  <2>3. QED
    BY <1>2, <1>4, <2>1, <2>2
<1> HIDE DEF fields, order
<1>6. s.node = fields /\ s.order = order
  BY <1>2 DEF CallRec
<1> HIDE DEF s
<1>7. InOrder(s)
  BY <1>2, <1>3, <1>5, <1>6 DEF InOrder
<1> DEFINE M == MessageFromNodes(s)
<1>8. FirstIs(s, Len(s.node), M)
  <2>1. n \in 0 .. n /\ Len(s.node) = n
    BY <1>2, <1>5, <1>6
  <2>2. QED
    BY <1>7, <2>1, MessageInOrder
<1>9. M \in Seq(PartRec) /\ \A j \in 1 .. Len(M) : M[j].kind = Text => M[j].text # <<>>
  BY <1>8, TextsThere DEF FirstIs
<1> HIDE DEF M
<1>10. SubSeq(M, 1, 0) = <<>>
  BY <1>9
<1>11. merged(doc.parts) = merged(withText(SubSeq(M, 1, doc.sent), doc.pending))
  BY <1>10 DEF Unwritten, withText
<1>12. doc.sent <= Len(M)
  BY <1>9 DEF Unwritten
<1>13. QED
  BY <1>1, <1>9, <1>11, <1>12 DEF Rest, Unwritten, M

LEMMA DocInvStep == ReceivedInv /\ DocInv /\ [Next]_vars => DocInv'
<1> SUFFICES ASSUME ReceivedInv, DocInv, [Next]_vars PROVE DocInv'
  OBVIOUS
<1>1. phase = "streaming" => StreamInv
  BY DEF ReceivedInv, StreamInv
<1>2. phase = "streaming" /\ ~gone => Before
  BY <1>1 DEF DocInv, Before
<1>3. /\ Tells(call, doc, NoNode)' <=> Tells(call', doc', NoNode)
      /\ OneText(call)' <=> OneText(call')
      /\ Expected(call, comp)' <=> Expected(call', comp')
      /\ Rest(doc, comp.parts)' <=> Rest(doc', comp'.parts)
      /\ merged(doc.parts)' = merged(doc'.parts) /\ merged(comp.parts)' = merged(comp'.parts)
  OBVIOUS
<1>4. ASSUME phase = "streaming", Receives, Before => After, ~gone /\ dialect = "completions" => OneText(call') PROVE DocInv'
  <2>1. phase' = "streaming" /\ events' = events + 1 /\ gone' = gone /\ dialect' = dialect
    BY <1>4 DEF Receives
  <2>2. events' # 0
    BY <1>1, <1>4, <2>1 DEF StreamInv
  <2>3. ~gone' => Tells(call', doc', NoNode)
    BY <1>2, <1>4, <2>1 DEF After
  <2>4. ~gone' /\ dialect' = "completions" => OneText(call')
    BY <1>4, <2>1
  <2>5. QED
    BY <1>3, <2>1, <2>2, <2>3, <2>4 DEF DocInv
<1>5. ASSUME phase' = "returned", ~gone' /\ Expected(call', comp') => Rest(doc', comp'.parts) PROVE DocInv'
  BY <1>3, <1>5 DEF DocInv
<1>6. CASE \/ UsageReport \/ OpenaiContent \/ OpenaiReasoning \/ OpenaiDetails \/ ResponsesFailed
           \/ \E k \in ItemKeys : OpenaiToolCall(k) \/ AnthropicSignature(k) \/ AnthropicStop(k)
           \/ \E k \in ItemKeys, kind \in Kinds : AnthropicStart(k, kind) \/ AnthropicDelta(k, kind)
           \/ \E k \in ItemKeys \cup {NoKey}, kind \in Kinds :
                ResponsesAdded(k, kind) \/ ResponsesDelta(k, kind) \/ \E final \in Finals : ResponsesDone(k, kind, final)
  <2>1. Receives
    BY <1>6, EventReceived
  <2>2. phase = "streaming" /\ StreamInv
    BY <1>1, <2>1 DEF Receives
  <2>3. UsageReport \/ dialect # "completions"
    BY <1>6, <2>2, EventKept
  <2>4. Before => After
    BY <1>6, EventTells
  <2>5. UsageReport /\ OneText(call) => OneText(call')
    <3>1. SinkInv(call, events)
      BY <2>2 DEF StreamInv
    <3>2. saw(call).node = call.node /\ saw(call).announced = call.announced /\ saw(call) \in CallRec
      BY <3>1 DEF SinkInv, saw, CallRec
    <3>3. UsageReport => call'.node = saw(call).node /\ call'.announced = saw(call).announced
      BY <3>2 DEF UsageReport, CallRec
    <3>4. QED
      BY <3>2, <3>3 DEF OneText
  <2>6. ~gone /\ dialect = "completions" => OneText(call')
    BY <2>2, <2>3, <2>5 DEF DocInv
  <2>7. QED
    BY <1>4, <2>1, <2>2, <2>4, <2>6
<1>7. ASSUME NEW more \in {<<piece1>>, <<Blank, piece1>>}, CompletionsText(more) PROVE DocInv'
  <2>1. dialect = "completions" /\ Receives
    BY <1>7 DEF CompletionsText
  <2>2. phase = "streaming"
    BY <2>1 DEF Receives
  <2>3. Len(call.node) <= 1 /\ (call.text = NoNode => Len(call.node) = 0)
    BY <2>1, <2>2 DEF ReceivedInv
  <2>4. ~gone => Before /\ OneText(call)
    BY <1>2, <2>1, <2>2 DEF DocInv
  <2>5. ~gone => After /\ OneText(call')
    BY <1>7, <2>3, <2>4, CompletionsTells
  <2>6. Before => ~gone
    BY DEF Before
  <2>7. QED
    BY <1>4, <2>1, <2>2, <2>5, <2>6
<1>8. CASE StreamEnds \/ StreamBreaks
  <2>1. phase = "streaming" /\ phase' = "returned" /\ gone' = gone
    BY <1>8 DEF StreamEnds, StreamBreaks
  <2>2. ~gone' => Before
    BY <1>2, <2>1
  <2>3. ~gone' /\ Expected(call', comp') => Rest(doc', comp'.parts)
    BY <1>8, <2>2, StreamEndRest, StreamBreakRest
  <2>4. QED
    BY <1>5, <2>1, <2>3
<1>9. ASSUME NEW n \in 1 .. 2, NEW kinds \in [1 .. n -> Kinds], ArrivesWhole(kinds) PROVE DocInv'
  <2>1. phase = "streaming" /\ phase' = "returned" /\ events = 0
    BY <1>9 DEF ArrivesWhole
  <2>2. StreamInv /\ Unwritten
    BY <1>1, <2>1 DEF DocInv
  <2>3. Rest(doc', comp'.parts)
    BY <1>9, <2>2, WholeRest
  <2>4. QED
    BY <1>5, <2>1, <2>3
<1>10. CASE Finish
  <2>1. phase = "returned" /\ phase' = "closed" /\ gone' = gone /\ call' = call /\ comp' = comp
    BY <1>10 DEF Finish
  <2> DEFINE t == tail(doc, comp.parts)
             e == [t EXCEPT !.begun = TRUE, !.open = FALSE, !.ended = IF comp.err THEN "error" ELSE "result"]
  <2>2. ASSUME ~gone, Expected(call, comp) PROVE merged(doc'.parts) = merged(comp'.parts)
    <3>1. comp.has /\ Rest(doc, comp.parts)
      BY <2>1, <2>2 DEF DocInv, Expected
    <3>2. doc' = e
      BY <1>10, <3>1 DEF Finish
    <3>3. merged(t.parts) = merged(comp.parts) /\ t \in DocRec
      BY <2>2, <3>1, TailWritten
    <3> HIDE DEF t
    <3>4. e.parts = t.parts
      BY <3>3 DEF DocRec
    <3>5. QED
      BY <2>1, <3>2, <3>3, <3>4
  <2>3. ~gone' /\ Expected(call', comp') => merged(doc'.parts) = merged(comp'.parts)
    BY <2>1, <2>2
  <2>4. QED
    BY <1>3, <2>1, <2>3 DEF DocInv
<1>11. CASE ClientLeaves
  <2>1. gone' = TRUE /\ phase' = phase /\ events' = events /\ doc' = doc
    BY <1>11 DEF ClientLeaves
  <2>2. phase = "streaming" /\ events = 0 => Unwritten
    BY DEF DocInv
  <2>3. phase' = "streaming" /\ events' = 0 => Unwritten'
    BY <2>1, <2>2 DEF Unwritten
  <2>4. QED
    BY <2>1, <2>3 DEF DocInv
<1>12. CASE UNCHANGED vars
  BY <1>12 DEF vars, DocInv, Unwritten
<1>13. QED
  BY <1>6, <1>7, <1>8, <1>9, <1>10, <1>11, <1>12 DEF Next

\* The document a client reads is, text for text and part for part, the message the call
\* returned, however much of it went out while the call streamed, was announced part by
\* part or was left for the end, and wherever the stream broke off.
THEOREM DocumentIsMessage == Spec => []DocumentIsTheMessage
<1>1. Init => ReceivedInv /\ DocInv
  BY ReceivedInvInit, DocInvInit
<1>2. ReceivedInv /\ DocInv /\ [Next]_vars => (ReceivedInv /\ DocInv)'
  BY ReceivedInvStep, DocInvStep
<1>3. DocInv => DocumentIsTheMessage
  BY DocumentIsOf
<1>4. QED
  BY <1>1, <1>2, <1>3, PTL DEF Spec

-----------------------------------------------------------------------------
(* Documents that come apart ***********************************************)

\* The scanner behind a run of bytes.
ScanRec == [state : {"outside", "lead", "tag", "comment", "CDATA", "PI"}, depth : Int, started : BOOLEAN,
            tagKind : {"open", "close", "selfClosing"}, lead : Seq(Byte), quote : {"none"} \cup Quotes, ended : BOOLEAN]

LEMMA ScannedByPlace ==
  ASSUME NEW s, NEW bytes, Len(bytes) \in Nat
  PROVE  \E f : Places("scanned", bytes, s, f, Len(bytes)) /\ scanned(s, bytes) = f[Len(bytes)]
<1> DEFINE entry(f, i) == IF i = 0 THEN s ELSE feed(f[i - 1], bytes[i])
           Made(f) == f = [i \in 0 .. Len(bytes) |-> entry(f, i)]
           behind == CHOOSE f : Made(f)
<1>1. scanned(s, bytes) = behind[Len(bytes)]
  BY Zenon DEF scanned
<1>2. \A f, i : entry(f, i) = IF i = 0 THEN s ELSE place("scanned", bytes, i, f[i - 1])
  BY DEF place
<1> HIDE DEF entry
<1>3. \A f : Made(f) <=> Places("scanned", bytes, s, f, Len(bytes))
  <2> TAKE f
  <2>1. [i \in 0 .. Len(bytes) |-> entry(f, i)]
          = [i \in 0 .. Len(bytes) |-> IF i = 0 THEN s ELSE place("scanned", bytes, i, f[i - 1])]
    BY <1>2
  <2>2. QED
    BY <2>1 DEF Places
<1> HIDE DEF Made
<1>4. \E f : Made(f)
  BY <1>3, PlaceByPlace
<1>5. Made(behind)
  BY <1>4
<1> HIDE DEF behind
<1>6. QED
  BY <1>1, <1>3, <1>5

Behind(f, s, bytes) == f[0] = s /\ \A i \in 1 .. Len(bytes) : f[i] = feed(f[i - 1], bytes[i])

LEMMA ScannedSteps ==
  ASSUME NEW s, NEW bytes, Len(bytes) \in Nat
  PROVE  \E f : Behind(f, s, bytes) /\ scanned(s, bytes) = f[Len(bytes)]
<1> DEFINE n == Len(bytes)
           list == "scanned"
<1>1. PICK f : Places(list, bytes, s, f, n) /\ scanned(s, bytes) = f[n]
  BY ScannedByPlace
<1> HIDE DEF n, list
<1>2. n \in Nat
  BY DEF n
<1>3. f[0] = s /\ \A i \in 1 .. n : f[i] = place(list, bytes, i, f[i - 1])
  BY <1>1, <1>2, PlaceSteps
<1>4. \A i : place(list, bytes, i, f[i - 1]) = feed(f[i - 1], bytes[i])
  BY DEF place, list
<1>5. QED
  BY <1>1, <1>3, <1>4 DEF n, Behind

\* What holds at the start and of a byte when of the byte before it holds behind the run.
LEMMA ScannedThrough ==
  ASSUME NEW s, NEW bytes, Len(bytes) \in Nat, NEW X, NEW Holds \in SUBSET (Nat \X X), <<0, s>> \in Holds,
         \A i \in 1 .. Len(bytes), x \in X : <<i - 1, x>> \in Holds => <<i, feed(x, bytes[i])>> \in Holds
  PROVE  <<Len(bytes), scanned(s, bytes)>> \in Holds
<1>1. PICK f : f[0] = s /\ scanned(s, bytes) = f[Len(bytes)] /\ \A i \in 1 .. Len(bytes) : f[i] = feed(f[i - 1], bytes[i])
  BY ScannedSteps DEF Behind
<1> DEFINE n == Len(bytes)
           G == {i \in Nat : <<i, f[i]>> \in Holds}
<1>2. 0 \in G
  BY <1>1
<1>3. ASSUME NEW k \in 1 .. n, k - 1 \in G PROVE k \in G
  <2>1. <<k - 1, f[k - 1]>> \in Holds
    BY <1>3
  <2>2. f[k - 1] \in X
    BY <2>1
  <2>3. <<k, feed(f[k - 1], bytes[k])>> \in Holds
    BY <2>1, <2>2
  <2>4. QED
    BY <1>1, <2>3
<1> HIDE DEF G
<1>4. n \in G
  BY <1>2, <1>3, UpTo
<1>5. QED
  BY <1>1, <1>4 DEF G

LEMMA ScannedWithin ==
  ASSUME NEW s, NEW bytes, Len(bytes) \in Nat, NEW X, s \in X,
         \A i \in 1 .. Len(bytes), x \in X : feed(x, bytes[i]) \in X
  PROVE  scanned(s, bytes) \in X
<1> DEFINE Holds == Nat \X X
<1>1. <<Len(bytes), scanned(s, bytes)>> \in Holds
  <2>1. Holds \in SUBSET (Nat \X X) /\ <<0, s>> \in Holds
    OBVIOUS
  <2>2. \A i \in 1 .. Len(bytes), x \in X : <<i - 1, x>> \in Holds => <<i, feed(x, bytes[i])>> \in Holds
    OBVIOUS
  <2> HIDE DEF Holds
  <2>3. QED
    BY <2>1, <2>2, ScannedThrough
<1>2. QED
  BY <1>1

LEMMA ScannedOne ==
  ASSUME NEW s, NEW b
  PROVE  scanned(s, <<b>>) = feed(s, b)
<1> DEFINE one == <<b>>
<1>1. Len(one) = 1 /\ one[1] = b /\ Len(one) \in Nat /\ 1 \in 1 .. 1
  OBVIOUS
<1> HIDE DEF one
<1>2. PICK f : Behind(f, s, one) /\ scanned(s, one) = f[Len(one)]
  BY <1>1, ScannedSteps
<1>3. f[1] = feed(f[0], b)
  <2>1. f[1] = feed(f[1 - 1], one[1])
    BY <1>1, <1>2 DEF Behind
  <2>2. 1 - 1 = 0
    OBVIOUS
  <2>3. QED
    BY <1>1, <2>1, <2>2
<1>4. QED
  BY <1>1, <1>2, <1>3 DEF one, Behind

LEMMA ScannedBoth ==
  ASSUME NEW s, NEW a \in Seq(Byte), NEW b \in Seq(Byte)
  PROVE  scanned(s, a \o b) = scanned(scanned(s, a), b)
<1> DEFINE ab == a \o b
           m == Len(a)
           n == Len(b)
<1>1. m \in Nat /\ n \in Nat /\ Len(ab) = m + n /\ Len(ab) \in Nat
  OBVIOUS
<1>2. (\A i \in 1 .. m : ab[i] = a[i]) /\ (\A i \in 1 .. n : ab[m + i] = b[i])
  OBVIOUS
<1> HIDE DEF ab
<1>3. PICK f : Behind(f, s, ab) /\ scanned(s, ab) = f[Len(ab)]
  BY <1>1, ScannedSteps
<1>4. PICK g : Behind(g, s, a) /\ scanned(s, a) = g[Len(a)]
  BY <1>1, ScannedSteps
<1>5. PICK h : Behind(h, scanned(s, a), b) /\ scanned(scanned(s, a), b) = h[Len(b)]
  BY <1>1, ScannedSteps
<1>6. /\ f[0] = s /\ \A i \in 1 .. Len(ab) : f[i] = feed(f[i - 1], ab[i])
      /\ g[0] = s /\ \A i \in 1 .. m : g[i] = feed(g[i - 1], a[i])
      /\ h[0] = g[m] /\ \A i \in 1 .. n : h[i] = feed(h[i - 1], b[i])
  BY <1>3, <1>4, <1>5 DEF Behind
<1>7. scanned(scanned(s, a), b) = h[n]
  BY <1>5
<1> HIDE DEF m, n
<1>8. f[m] = g[m]
  <2> DEFINE G == {k \in Nat : f[k] = g[k]}
  <2>1. 0 \in G
    BY <1>6
  <2>2. ASSUME NEW k \in 1 .. m, k - 1 \in G PROVE k \in G
    <3>1. k \in 1 .. Len(ab) /\ k \in Nat
      BY <1>1
    <3>2. f[k] = feed(f[k - 1], ab[k]) /\ g[k] = feed(g[k - 1], a[k])
      BY <1>6, <3>1
    <3>3. QED
      BY <1>2, <2>2, <3>1, <3>2
  <2> HIDE DEF G
  <2>3. m \in G
    BY <1>1, <2>1, <2>2, UpTo
  <2>4. QED
    BY <2>3 DEF G
<1>9. f[m + n] = h[n]
  <2> DEFINE G == {k \in Nat : f[m + k] = h[k]}
  <2>1. 0 \in G
    <3>1. m + 0 = m
      BY <1>1
    <3>2. QED
      BY <1>8, <1>6, <3>1
  <2>2. ASSUME NEW k \in 1 .. n, k - 1 \in G PROVE k \in G
    <3>1. m + k \in 1 .. Len(ab) /\ k \in Nat /\ (m + k) - 1 = m + (k - 1)
      BY <1>1
    <3>2. f[m + k] = feed(f[m + (k - 1)], ab[m + k]) /\ h[k] = feed(h[k - 1], b[k])
      BY <1>6, <3>1
    <3>3. ab[m + k] = b[k] /\ f[m + (k - 1)] = h[k - 1]
      BY <1>2, <2>2
    <3>4. QED
      BY <3>1, <3>2, <3>3
  <2> HIDE DEF G
  <2>3. n \in G
    BY <1>1, <2>1, <2>2, UpTo
  <2>4. QED
    BY <2>3 DEF G
<1>10. QED
  BY <1>1, <1>3, <1>9, <1>7 DEF ab

\* The scanner between two tokens, inside a tag, in an attribute's value, behind the first
\* bytes of a "<", and in a comment, a CDATA section or a processing instruction.
Placed(d) == {x \in ScanRec : x.depth = d /\ ~x.ended /\ (x.started <=> d > 0)}
Idle(d) == {x \in Placed(d) : x.state = "outside" /\ x.quote = "none"}
InTag(d, kind) == {x \in Placed(d) : x.state = "tag" /\ x.tagKind = kind /\ x.quote = "none"}
InValue(d, q) == {x \in Placed(d) : x.state = "tag" /\ x.tagKind = "open" /\ x.quote = q}
Leading(d, l) == {x \in Placed(d) : x.state = "lead" /\ x.lead = l /\ x.quote = "none"}
InRun(d, st, l) == {x \in Placed(d) : x.state = st /\ x.lead = l /\ x.quote = "none"}

\* A scanner changed in some of its fields.
Closes(t, x, n, a, e) == t = [x EXCEPT !.state = "outside", !.started = a, !.depth = n, !.ended = e]
Leads(t, x, l, st, kind) == t = [x EXCEPT !.lead = l, !.state = st, !.tagKind = kind]

LEMMA ScanClosed ==
  ASSUME NEW x \in ScanRec, x.quote = "none", NEW n \in Int, NEW a \in BOOLEAN, NEW e \in BOOLEAN, NEW t, Closes(t, x, n, a, e)
  PROVE  (e => t.ended) /\ (~e /\ (a <=> n > 0) => t \in Idle(n))
<1>1. t \in ScanRec /\ t.state = "outside" /\ t.depth = n /\ t.quote = "none" /\ t.started = a /\ t.ended = e
  BY DEF Closes, ScanRec
<1>2. QED
  BY <1>1 DEF Idle, Placed

LEMMA ScanLed ==
  ASSUME NEW d, NEW x \in Placed(d), x.quote = "none", NEW l \in Seq(Byte),
         NEW st \in {"outside", "lead", "tag", "comment", "CDATA", "PI"},
         NEW kind \in {"open", "close", "selfClosing"}, NEW t, Leads(t, x, l, st, kind)
  PROVE  t \in InRun(d, st, l) /\ (st = "tag" => t \in InTag(d, kind))
<1>1. x \in ScanRec /\ x.depth = d /\ ~x.ended /\ (x.started <=> d > 0)
  BY DEF Placed
<1>2. /\ t \in ScanRec /\ t.lead = l /\ t.state = st /\ t.tagKind = kind /\ t.depth = x.depth /\ t.quote = x.quote
      /\ t.started = x.started /\ t.ended = x.ended
  BY <1>1 DEF Leads, ScanRec
<1>3. QED
  BY <1>1, <1>2 DEF InRun, InTag, Placed

LEMMA TagBytes ==
  ASSUME NEW d \in Nat, NEW kind \in {"open", "close"}, NEW x \in InTag(d, kind)
  PROVE  /\ feed(x, White) \in InTag(d, kind) /\ feed(x, Letter) \in InTag(d, kind)
         /\ kind = "open" => /\ feed(x, "=") \in InTag(d, kind)
                             /\ \A q \in Quotes : feed(x, q) \in InValue(d, q)
                             /\ feed(x, "/") \in InTag(d, "selfClosing")
                             /\ feed(x, ">") \in Idle(d + 1)
         /\ kind = "close" /\ d = 1 => feed(x, ">").ended
         /\ kind = "close" /\ d > 1 => feed(x, ">") \in Idle(d - 1)
<1>1. x \in ScanRec /\ x.depth = d /\ x.ended = FALSE /\ (x.started <=> d > 0) /\ x.state = "tag" /\ x.tagKind = kind /\ x.quote = "none"
  BY DEF InTag, Placed, ScanRec
<1>2. \A b : feed(x, b) = tag(x, b)
  BY <1>1 DEF feed
<1>3. \A b : b \notin Quotes => tag(x, b) = tagUnquoted(x, b)
  BY <1>1 DEF tag
<1>4. ASSUME NEW b \in {White, Letter, "="} PROVE feed(x, b) \in InTag(d, kind)
  <2>1. b \notin Quotes /\ b # "/" /\ b # ">"
    BY <1>4 DEF White, Letter, Quotes
  <2>2. feed(x, b) = [x EXCEPT !.tagKind = x.tagKind]
    BY <1>1, <1>2, <1>3, <2>1 DEF tagUnquoted
  <2>3. QED
    BY <1>1, <2>2 DEF InTag, Placed, ScanRec
<1>5. ASSUME NEW q \in Quotes, kind = "open" PROVE feed(x, q) \in InValue(d, q)
  <2>1. feed(x, q) = [x EXCEPT !.quote = q]
    BY <1>1, <1>2 DEF tag
  <2>2. QED
    BY <1>1, <1>5, <2>1 DEF InValue, Placed, ScanRec
<1>6. kind = "open" => feed(x, "/") \in InTag(d, "selfClosing")
  <2>1. feed(x, "/") = [x EXCEPT !.tagKind = "selfClosing"]
    BY <1>1, <1>2, <1>3 DEF tagUnquoted, Quotes
  <2>2. QED
    BY <1>1, <2>1 DEF InTag, Placed, ScanRec
<1>7. feed(x, ">") = closeTag(x)
  BY <1>1, <1>2, <1>3 DEF tagUnquoted, Quotes
<1>8. ASSUME kind = "open" PROVE feed(x, ">") \in Idle(d + 1)
  <2> DEFINE t == closeTag(x)
             n == d + 1
             a == TRUE
             e == FALSE
  <2>1. n \in Int /\ a \in BOOLEAN /\ e \in BOOLEAN /\ n > 0
    OBVIOUS
  <2>2. Closes(t, x, n, a, e)
    BY <1>1, <1>8 DEF Closes, closeTag, ScanRec
  <2>3. a /\ ~e
    OBVIOUS
  <2> HIDE DEF t, n, a, e
  <2>4. t \in Idle(n)
    BY <1>1, <2>1, <2>2, <2>3, ScanClosed
  <2>5. QED
    BY <1>7, <2>4 DEF t, n
<1>9. ASSUME kind = "close", d > 0 PROVE (d = 1 => feed(x, ">").ended) /\ (d > 1 => feed(x, ">") \in Idle(d - 1))
  <2> DEFINE t == closeTag(x)
             n == d - 1
             a == TRUE
             e == (d = 1)
  <2>1. n \in Int /\ a \in BOOLEAN /\ e \in BOOLEAN /\ (~e => n > 0)
    BY <1>9
  <2>2. Closes(t, x, n, a, e)
    BY <1>1, <1>9 DEF Closes, closeTag, ScanRec
  <2>3. a /\ (d = 1 => e) /\ (d > 1 => ~e)
    OBVIOUS
  <2> HIDE DEF t, n, a, e
  <2>4. (e => t.ended) /\ (~e => t \in Idle(n))
    BY <1>1, <2>1, <2>2, <2>3, ScanClosed
  <2>5. QED
    BY <1>7, <2>3, <2>4 DEF t, n
<1>10. d = 1 \/ d > 1 => d > 0
  OBVIOUS
<1>11. QED
  BY <1>4, <1>5, <1>6, <1>8, <1>9, <1>10

LEMMA EmptyTagEnds ==
  ASSUME NEW d \in Nat, NEW x \in InTag(d, "selfClosing")
  PROVE  (d = 0 => feed(x, ">").ended) /\ (d > 0 => feed(x, ">") \in Idle(d))
<1>1. x \in ScanRec /\ x.depth = d /\ x.ended = FALSE /\ (x.started <=> d > 0) /\ x.state = "tag" /\ x.tagKind = "selfClosing" /\ x.quote = "none"
  BY DEF InTag, Placed, ScanRec
<1>2. feed(x, ">") = closeTag(x)
  BY <1>1 DEF feed, tag, tagUnquoted, Quotes
<1> DEFINE t == closeTag(x)
           a == TRUE
           e == (d = 0)
<1>3. a \in BOOLEAN /\ e \in BOOLEAN /\ d \in Int /\ a /\ (d = 0 => e) /\ (d > 0 => ~e)
  OBVIOUS
<1>4. Closes(t, x, d, a, e)
  <2>1. e = ~x.started
    BY <1>1 DEF ScanRec
  <2> HIDE DEF e
  <2>2. t = [[x EXCEPT !.state = "outside"] EXCEPT !.started = TRUE, !.ended = ~x.started]
    BY <1>1 DEF closeTag
  <2>3. QED
    BY <1>1, <2>1, <2>2 DEF Closes, ScanRec
<1> HIDE DEF t, a, e
<1>5. (e => t.ended) /\ (~e /\ d > 0 => t \in Idle(d))
  BY <1>1, <1>3, <1>4, ScanClosed
<1>6. QED
  BY <1>2, <1>3, <1>5 DEF t

LEMMA ValueBytes ==
  ASSUME NEW d \in Nat, NEW q \in Quotes, NEW x \in InValue(d, q), NEW b \in Byte
  PROVE  feed(x, b) \in IF b = q THEN InTag(d, "open") ELSE InValue(d, q)
<1>1. x \in ScanRec /\ x.depth = d /\ x.ended = FALSE /\ (x.started <=> d > 0) /\ x.state = "tag" /\ x.tagKind = "open" /\ x.quote = q /\ q # "none"
  BY DEF InValue, Placed, ScanRec, Quotes
<1>2. feed(x, b) = [x EXCEPT !.quote = IF b = q THEN "none" ELSE q]
  BY <1>1 DEF feed, tag
<1>3. QED
  BY <1>1, <1>2 DEF InTag, InValue, Placed, ScanRec

LEMMA IdleBytes ==
  ASSUME NEW d \in Nat, NEW x \in Idle(d), NEW b
  PROVE  (b # "<" => feed(x, b) \in Idle(d)) /\ feed(x, "<") \in Leading(d, <<>>)
<1>1. x \in ScanRec /\ x.depth = d /\ x.ended = FALSE /\ (x.started <=> d > 0) /\ x.state = "outside" /\ x.quote = "none"
  BY DEF Idle, Placed, ScanRec
<1>2. b # "<" => feed(x, b) = x
  BY <1>1 DEF feed
<1>3. feed(x, "<") = [x EXCEPT !.state = "lead", !.lead = <<>>]
  BY <1>1 DEF feed
<1>4. <<>> \in Seq(Byte)
  OBVIOUS
<1>5. QED
  BY <1>1, <1>2, <1>3, <1>4 DEF Leading, Placed, ScanRec

\* Runs of one, two and three bytes.

LEMMA ByteRun ==
  ASSUME NEW a \in Byte
  PROVE  <<a>> \in Seq(Byte) /\ Len(<<a>>) = 1 /\ <<a>>[1] = a
  OBVIOUS

LEMMA ByteRuns ==
  ASSUME NEW a \in Byte, NEW b \in Byte, NEW l \in Seq(Byte), l = <<a>>
  PROVE  Append(l, b) = <<a, b>>
<1> DEFINE m == Append(l, b)
<1>1. m \in Seq(Byte) /\ Len(m) = Len(l) + 1 /\ m[Len(l) + 1] = b /\ \A i \in 1 .. Len(l) : m[i] = l[i]
  BY OneMore
<1>2. Len(l) = 1 /\ l[1] = a
  OBVIOUS
<1> HIDE DEF m
<1>3. Len(m) = 2 /\ m[1] = a /\ m[2] = b
  BY <1>1, <1>2
<1>4. m = <<a, b>>
  BY <1>1, <1>3
<1>5. QED
  BY <1>4 DEF m

LEMMA ByteRuns3 ==
  ASSUME NEW a \in Byte, NEW b \in Byte, NEW c \in Byte, NEW l \in Seq(Byte), l = <<a, b>>
  PROVE  Append(l, c) = <<a, b, c>>
<1> DEFINE m == Append(l, c)
<1>1. m \in Seq(Byte) /\ Len(m) = Len(l) + 1 /\ m[Len(l) + 1] = c /\ \A i \in 1 .. Len(l) : m[i] = l[i]
  BY OneMore
<1>2. Len(l) = 2 /\ l[1] = a /\ l[2] = b
  OBVIOUS
<1> HIDE DEF m
<1>3. Len(m) = 3 /\ m[1] = a /\ m[2] = b /\ m[3] = c
  BY <1>1, <1>2
<1>4. m = <<a, b, c>>
  BY <1>1, <1>3
<1>5. QED
  BY <1>4 DEF m

LEMMA LengthsDiffer == ASSUME NEW l, NEW c, Len(l) # Len(c) PROVE l # c
  BY Zenon

LEMMA AsLong ==
  ASSUME NEW l \in Seq(Byte), NEW c \in Seq(Byte), Len(l) = 3, Len(c) = 3
  PROVE  ~IsStrictPrefix(l, c)
<1>1. SubSeq(l, 1, 3) = l /\ SubSeq(c, 1, 3) = c
  OBVIOUS
<1>2. QED
  BY <1>1 DEF IsStrictPrefix, IsPrefix

LEMMA ShorterRun ==
  ASSUME NEW l \in Seq(Byte), NEW c \in Seq(Byte), Len(l) < Len(c), NEW n \in Nat, n = Len(l), \A i \in 1 .. n : l[i] = c[i]
  PROVE  IsStrictPrefix(l, c)
<1>1. SubSeq(l, 1, n) = SubSeq(c, 1, n)
  OBVIOUS
<1>2. IsPrefix(l, c)
  BY <1>1 DEF IsPrefix
<1>3. ASSUME l = c PROVE FALSE
  BY <1>3
<1>4. QED
  BY <1>2, <1>3 DEF IsStrictPrefix

\* What a tag turns out to be.
LEMMA TagLeads ==
  ASSUME NEW d \in Nat, NEW x \in Leading(d, <<>>)
  PROVE  /\ feed(x, Letter) \in InTag(d, "open")
         /\ feed(x, "/") \in InTag(d, "close")
         /\ feed(x, "?") \in InRun(d, "PI", <<"?">>)
         /\ feed(x, "!") \in Leading(d, <<"!">>)
<1>1. x \in ScanRec /\ x.depth = d /\ x.ended = FALSE /\ (x.started <=> d > 0) /\ x.state = "lead" /\ x.quote = "none" /\ x.lead = <<>>
  BY DEF Leading, Placed, ScanRec
<1>2. \A b : feed(x, b) = lead(x, b)
  BY <1>1 DEF feed
<1>3. Letter \in Byte /\ "/" \in Byte /\ "?" \in Byte /\ "!" \in Byte /\ "-" \in Byte /\ "[" \in Byte /\ Letter # ">" /\ Letter \notin {"?", "!", "/"}
  BY DEF Byte, Letter
<1>4. \A b \in Byte : Append(x.lead, b) = <<b>>
  BY <1>1
<1>5. x.tagKind \in {"open", "close", "selfClosing"}
  BY <1>1 DEF ScanRec
<1>6. ASSUME NEW b \in Byte, NEW kind \in {"open", "close"}, (b = Letter /\ kind = "open") \/ (b = "/" /\ kind = "close")
      PROVE  feed(x, b) \in InTag(d, kind)
  <2> DEFINE l == <<b>>
             t == lead(x, b)
  <2>1. l[1] = b /\ l \in Seq(Byte) /\ Append(x.lead, b) = l
    BY <1>4, ByteRun
  <2>2. b # ">" /\ b # "?" /\ b # "!" /\ (b = "/" <=> kind = "close")
    BY <1>3, <1>6
  <2> HIDE DEF l
  <2> DEFINE st == "tag"
  <2>3. Leads(t, x, l, st, kind)
    BY <1>1, <1>6, <2>1, <2>2 DEF Leads, lead, ScanRec
  <2>4. st \in {"outside", "lead", "tag", "comment", "CDATA", "PI"} /\ kind \in {"open", "close", "selfClosing"} /\ st = "tag"
    OBVIOUS
  <2>5. x \in Placed(d)
    BY DEF Leading
  <2> HIDE DEF t, st
  <2>6. t \in InTag(d, kind)
    BY <1>1, <2>1, <2>3, <2>4, <2>5, ScanLed
  <2>7. QED
    BY <1>2, <2>6 DEF t
<1>7. ASSUME NEW b \in {"?", "!"}, NEW st, (b = "?" /\ st = "PI") \/ (b = "!" /\ st = "lead")
      PROVE  feed(x, b) \in InRun(d, st, <<b>>)
  <2> DEFINE l == <<b>>
             t == lead(x, b)
             k == x.tagKind
             c1 == <<"!", "-", "-">>
             c2 == <<"!", "[", Letter>>
  <2>1. b \in Byte
    BY <1>3
  <2>2. l[1] = b /\ l \in Seq(Byte) /\ Len(l) = 1 /\ Append(x.lead, b) = l
    BY <1>4, <2>1, ByteRun
  <2>3. Len(c1) = 3 /\ c1[1] = "!" /\ c1 \in Seq(Byte) /\ Len(c2) = 3
    BY <1>3
  <2> HIDE DEF l, c1, c2
  <2>4. b = "!" => IsStrictPrefix(l, c1)
    <3>1. 1 \in Nat /\ 1 = Len(l) /\ Len(l) < Len(c1) /\ (b = "!" => \A i \in 1 .. 1 : l[i] = c1[i])
      BY <2>2, <2>3
    <3>2. QED
      BY <2>2, <2>3, <3>1, ShorterRun
  <2>5. l # c1 /\ l # c2
    <3>1. Len(l) # Len(c1) /\ Len(l) # Len(c2)
      BY <2>2, <2>3
    <3>2. QED
      BY <3>1, LengthsDiffer
  <2>6. Leads(t, x, l, st, k)
    <3>1. CASE b = "?"
      <4>1. t = [[x EXCEPT !.lead = l] EXCEPT !.state = "PI"]
        BY <2>2, <3>1 DEF lead
      <4>2. QED
        BY <1>1, <1>7, <3>1, <4>1 DEF Leads, ScanRec
    <3>2. CASE b = "!"
      <4>1. t = [x EXCEPT !.lead = l]
        BY <2>2, <2>4, <2>5, <3>2 DEF lead, c1, c2
      <4>2. QED
        BY <1>1, <1>7, <3>2, <4>1 DEF Leads, ScanRec
    <3>3. QED
      BY <3>1, <3>2
  <2>7. st \in {"outside", "lead", "tag", "comment", "CDATA", "PI"} /\ x \in Placed(d)
    BY <1>7 DEF Leading
  <2> HIDE DEF t, k
  <2>8. t \in InRun(d, st, l)
    BY <1>1, <1>5, <2>2, <2>6, <2>7, ScanLed DEF k
  <2>9. QED
    BY <1>2, <2>8 DEF t, l
<1>8. Leading(d, <<"!">>) = InRun(d, "lead", <<"!">>)
  BY DEF Leading, InRun
<1>9. QED
  BY <1>3, <1>6, <1>7, <1>8

LEMMA RunLeads ==
  ASSUME NEW d \in Nat, NEW x
  PROVE  /\ x \in Leading(d, <<"!">>) => /\ feed(x, "-") \in Leading(d, <<"!", "-">>)
                                         /\ feed(x, "[") \in Leading(d, <<"!", "[">>)
         /\ x \in Leading(d, <<"!", "-">>) => feed(x, "-") \in InRun(d, "comment", <<"!", "-", "-">>)
         /\ x \in Leading(d, <<"!", "[">>) => feed(x, Letter) \in InRun(d, "CDATA", <<"!", "[", Letter>>)
<1> DEFINE c1 == <<"!", "-", "-">>
           c2 == <<"!", "[", Letter>>
<1>1. "-" \in Byte /\ "[" \in Byte /\ Letter \in Byte /\ "!" \in Byte
  BY DEF Byte
<1>2. /\ c1 \in Seq(Byte) /\ Len(c1) = 3 /\ c1[1] = "!" /\ c1[2] = "-"
      /\ c2 \in Seq(Byte) /\ Len(c2) = 3 /\ c2[1] = "!" /\ c2[2] = "["
  BY <1>1
<1> HIDE DEF c1, c2
<1>3. ASSUME NEW l0 \in Seq(Byte), x \in Leading(d, l0), NEW b \in Byte, NEW l \in Seq(Byte), l = Append(l0, b), l[1] = "!", NEW st,
             \/ st = "lead" /\ (IsStrictPrefix(l, c1) \/ IsStrictPrefix(l, c2)) /\ Len(l) < 3
             \/ st = "comment" /\ l = c1
             \/ st = "CDATA" /\ l = c2
      PROVE  feed(x, b) \in InRun(d, st, l)
  <2>1. x \in ScanRec /\ x.depth = d /\ x.ended = FALSE /\ (x.started <=> d > 0) /\ x.state = "lead" /\ x.quote = "none" /\ x.lead = l0
    BY <1>3 DEF Leading, Placed, ScanRec
  <2>2. feed(x, b) = lead(x, b)
    BY <2>1 DEF feed
  <2> DEFINE t == lead(x, b)
             k == x.tagKind
  <2>3. Leads(t, x, l, st, k)
    <3>1. CASE st = "lead"
      <4>1. l # c1 /\ l # c2 /\ (IsStrictPrefix(l, c1) \/ IsStrictPrefix(l, c2))
        <5>1. Len(l) < 3 /\ (IsStrictPrefix(l, c1) \/ IsStrictPrefix(l, c2))
          BY <1>3, <3>1
        <5>2. Len(l) # Len(c1) /\ Len(l) # Len(c2)
          <6>1. Len(l) \in Nat /\ Len(l) < 3
            BY <5>1
          <6>2. Len(c1) = 3 /\ Len(c2) = 3
            BY <1>2
          <6>3. \A n \in Nat : n < 3 => n # 3
            OBVIOUS
          <6>4. Len(l) # 3
            BY <6>1, <6>3, Zenon
          <6>5. QED
            BY <6>2, <6>4, Zenon
        <5>3. QED
          BY <5>1, <5>2, LengthsDiffer
      <4>2. t = [x EXCEPT !.lead = l]
        BY <1>3, <2>1, <4>1 DEF lead, c1, c2
      <4>3. QED
        BY <2>1, <3>1, <4>2 DEF Leads, ScanRec
    <3>2. l = Append(x.lead, b) /\ l[1] = "!" /\ l[1] # "?" /\ c1 # c2
      BY <1>2, <1>3, <2>1
    <3>3. CASE st = "comment"
      <4>1. l = c1 /\ l # c2 /\ ~IsStrictPrefix(l, c1) /\ ~IsStrictPrefix(l, c2)
        BY <1>2, <1>3, <3>2, <3>3, AsLong
      <4>2. t = [[x EXCEPT !.lead = l] EXCEPT !.state = "comment"]
        BY <3>2, <4>1, Zenon DEF lead, c1, c2
      <4>3. QED
        BY <2>1, <3>3, <4>2 DEF Leads, ScanRec
    <3>4. CASE st = "CDATA"
      <4>1. l = c2 /\ l # c1 /\ ~IsStrictPrefix(l, c1) /\ ~IsStrictPrefix(l, c2)
        BY <1>2, <1>3, <3>2, <3>4, AsLong
      <4>2. t = [[x EXCEPT !.lead = l] EXCEPT !.state = "CDATA"]
        BY <3>2, <4>1, Zenon DEF lead, c1, c2
      <4>3. QED
        BY <2>1, <3>4, <4>2 DEF Leads, ScanRec
    <3>5. QED
      BY <1>3, <3>1, <3>3, <3>4
  <2>4. st \in {"outside", "lead", "tag", "comment", "CDATA", "PI"} /\ k \in {"open", "close", "selfClosing"} /\ x \in Placed(d)
    BY <1>3, <2>1 DEF Leading, ScanRec
  <2> HIDE DEF t, k
  <2>5. t \in InRun(d, st, l)
    BY <2>1, <2>3, <2>4, ScanLed
  <2>6. QED
    BY <2>2, <2>5 DEF t
<1>4. \A l : Leading(d, l) = InRun(d, "lead", l)
  BY DEF Leading, InRun
<1>5. ASSUME NEW b \in Byte, NEW c \in {c1, c2}, c[2] = b, x \in Leading(d, <<"!">>) PROVE feed(x, b) \in Leading(d, <<"!", b>>)
  <2> DEFINE l0 == <<"!">>
             l == <<"!", b>>
  <2>1. l0 \in Seq(Byte) /\ l = Append(l0, b)
    BY <1>1, ByteRun, ByteRuns
  <2>2. l \in Seq(Byte) /\ Len(l) = 2 /\ l[1] = "!" /\ l[2] = b
    BY <1>1
  <2> HIDE DEF l0, l
  <2>3. c \in Seq(Byte) /\ Len(c) = 3 /\ c[1] = "!" /\ \A i \in 1 .. 2 : l[i] = c[i]
    BY <1>2, <1>5, <2>2
  <2>4. IsStrictPrefix(l, c) /\ Len(l) < 3
    <3>1. 2 \in Nat /\ 2 = Len(l) /\ Len(l) < Len(c)
      BY <2>2, <2>3
    <3>2. QED
      BY <2>2, <2>3, <3>1, ShorterRun
  <2>5. x \in Leading(d, l0)
    BY <1>5 DEF l0
  <2>6. feed(x, b) \in InRun(d, "lead", l)
    BY <1>3, <1>5, <2>1, <2>2, <2>4, <2>5
  <2>7. QED
    BY <1>4, <2>6 DEF l
<1>6. ASSUME NEW b \in Byte, NEW e \in Byte, NEW c \in {c1, c2}, c = <<"!", b, e>>, NEW st,
             (st = "comment" /\ c = c1) \/ (st = "CDATA" /\ c = c2), x \in Leading(d, <<"!", b>>)
      PROVE  feed(x, e) \in InRun(d, st, c)
  <2> DEFINE l0 == <<"!", b>>
  <2>1. l0 \in Seq(Byte)
    BY <1>1
  <2>2. c = Append(l0, e)
    BY <1>1, <1>6, <2>1, ByteRuns3
  <2> HIDE DEF l0
  <2>3. c[1] = "!" /\ c \in Seq(Byte) /\ x \in Leading(d, l0)
    BY <1>2, <1>6 DEF l0
  <2>4. QED
    BY <1>3, <1>6, <2>1, <2>2, <2>3
<1>7. QED
  BY <1>1, <1>2, <1>5, <1>6 DEF c1, c2

LEMMA ScannedNone == ASSUME NEW s PROVE scanned(s, <<>>) = s
<1> DEFINE none == <<>>
<1>1. Len(none) = 0 /\ Len(none) \in Nat
  OBVIOUS
<1> HIDE DEF none
<1>2. PICK f : Behind(f, s, none) /\ scanned(s, none) = f[Len(none)]
  BY <1>1, ScannedSteps
<1>3. QED
  BY <1>1, <1>2 DEF Behind, none

LEMMA ScannedMore ==
  ASSUME NEW s, NEW l \in Seq(Byte), NEW b \in Byte
  PROVE  scanned(s, Append(l, b)) = feed(scanned(s, l), b)
<1> DEFINE m == <<b>>
<1>1. m \in Seq(Byte) /\ Append(l, b) = l \o m
  OBVIOUS
<1>2. \A x : scanned(x, m) = feed(x, b)
  BY ScannedOne
<1> HIDE DEF m
<1>3. scanned(s, l \o m) = scanned(scanned(s, l), m)
  BY <1>1, ScannedBoth
<1>4. QED
  BY <1>1, <1>2, <1>3

LEMMA ScannedTwo ==
  ASSUME NEW s, NEW a \in Byte, NEW b \in Byte
  PROVE  <<a, b>> \in Seq(Byte) /\ scanned(s, <<a, b>>) = feed(feed(s, a), b)
<1> DEFINE l == <<a>>
<1>1. l \in Seq(Byte) /\ l = <<a>>
  BY ByteRun
<1>2. scanned(s, l) = feed(s, a)
  BY ScannedOne
<1> HIDE DEF l
<1>3. Append(l, b) = <<a, b>> /\ Append(l, b) \in Seq(Byte)
  BY <1>1, ByteRuns
<1>4. scanned(s, Append(l, b)) = feed(scanned(s, l), b)
  BY <1>1, ScannedMore
<1>5. QED
  BY <1>2, <1>3, <1>4

LEMMA ScannedThree ==
  ASSUME NEW s, NEW a \in Byte, NEW b \in Byte, NEW c \in Byte
  PROVE  <<a, b, c>> \in Seq(Byte) /\ scanned(s, <<a, b, c>>) = feed(feed(feed(s, a), b), c)
<1> DEFINE l == <<a, b>>
<1>1. l \in Seq(Byte) /\ l = <<a, b>> /\ scanned(s, l) = feed(feed(s, a), b)
  BY ScannedTwo
<1> HIDE DEF l
<1>2. Append(l, c) = <<a, b, c>>
  BY Zenon, <1>1, ByteRuns3
<1>3. Append(l, c) \in Seq(Byte)
  BY <1>1, OneMore
<1>4. scanned(s, Append(l, c)) = feed(scanned(s, l), c)
  BY <1>1, ScannedMore
<1>5. QED
  BY <1>1, <1>2, <1>3, <1>4

LEMMA ScannedFour ==
  ASSUME NEW s, NEW a \in Byte, NEW b \in Byte, NEW c \in Byte, NEW e \in Byte
  PROVE  <<a, b, c, e>> \in Seq(Byte) /\ scanned(s, <<a, b, c, e>>) = feed(feed(feed(feed(s, a), b), c), e)
<1> DEFINE l == <<a, b, c>>
           m == Append(l, e)
<1>1. l \in Seq(Byte) /\ scanned(s, l) = feed(feed(feed(s, a), b), c)
  BY ScannedThree
<1>2. Len(l) = 3 /\ l[1] = a /\ l[2] = b /\ l[3] = c
  OBVIOUS
<1> HIDE DEF l
<1>3. m \in Seq(Byte) /\ Len(m) = Len(l) + 1 /\ m[Len(l) + 1] = e /\ \A i \in 1 .. Len(l) : m[i] = l[i]
  BY <1>1, OneMore
<1>4. scanned(s, m) = feed(scanned(s, l), e)
  BY <1>1, ScannedMore
<1> HIDE DEF m
<1>5. Len(m) = 4 /\ m[1] = a /\ m[2] = b /\ m[3] = c /\ m[4] = e
  BY <1>2, <1>3
<1>6. m = <<a, b, c, e>>
  <2> DEFINE n == <<a, b, c, e>>
  <2>1. n \in Seq(Byte) /\ Len(n) = 4 /\ n[1] = a /\ n[2] = b /\ n[3] = c /\ n[4] = e
    OBVIOUS
  <2> HIDE DEF n
  <2>2. \A i \in 1 .. 4 : m[i] = n[i]
    BY <1>5, <2>1
  <2>3. m = n
    BY <1>3, <1>5, <2>1, <2>2
  <2>4. QED
    BY <2>3 DEF n
<1>7. QED
  BY <1>1, <1>3, <1>4, <1>6

LEMMA RunsAgree ==
  ASSUME NEW a \in Seq(Byte), NEW b \in Seq(Byte), NEW c \in Seq(Byte)
  PROVE  (a \o b) \o c = a \o (b \o c) /\ b \o c \in Seq(Byte) /\ a \o b \in Seq(Byte)
  OBVIOUS

\* What a comment, a CDATA section and a processing instruction end with.
EndOf(st) == CASE st = "comment" -> <<"-", "-", ">">> [] st = "CDATA" -> <<"]", "]", ">">> [] st = "PI" -> <<"?", ">">>
Runs == {"comment", "CDATA", "PI"}
EndsWith(e, l) == Len(e) <= Len(l) /\ \A j \in 1 .. Len(e) : l[(Len(l) - Len(e)) + j] = e[j]

LEMMA SuffixIs ==
  ASSUME NEW e \in Seq(Byte), NEW l \in Seq(Byte)
  PROVE  IsSuffix(e, l) <=> EndsWith(e, l)
<1> DEFINE n == Len(e)
           m == Len(l)
           re == Reverse(e)
           rl == Reverse(l)
<1>1. n \in Nat /\ m \in Nat
  OBVIOUS
<1>2. /\ re \in Seq(Byte) /\ Len(re) = n /\ \A k \in 1 .. n : re[k] = e[(n - k) + 1]
      /\ rl \in Seq(Byte) /\ Len(rl) = m /\ \A k \in 1 .. m : rl[k] = l[(m - k) + 1]
  <2>1. re = [k \in 1 .. n |-> e[(n - k) + 1]] /\ rl = [k \in 1 .. m |-> l[(m - k) + 1]]
    BY DEF Reverse
  <2>2. (\A k \in 1 .. n : e[(n - k) + 1] \in Byte) /\ (\A k \in 1 .. m : l[(m - k) + 1] \in Byte)
    <3>1. (\A k \in 1 .. n : (n - k) + 1 \in 1 .. n) /\ (\A k \in 1 .. m : (m - k) + 1 \in 1 .. m)
      BY <1>1
    <3>2. QED
      BY <3>1
  <2> HIDE DEF re, rl
  <2>3. QED
    BY <1>1, <2>1, <2>2
<1> HIDE DEF re, rl, n, m
<1>3. IsSuffix(e, l) <=> n <= m /\ SubSeq(re, 1, n) = SubSeq(rl, 1, n)
  BY <1>2 DEF IsSuffix, IsPrefix, re, rl
<1>4. ASSUME n <= m PROVE SubSeq(re, 1, n) = SubSeq(rl, 1, n) <=> \A k \in 1 .. n : re[k] = rl[k]
  <2> DEFINE a == SubSeq(re, 1, n)
             b == SubSeq(rl, 1, n)
  <2>1. /\ a \in Seq(Byte) /\ Len(a) = n /\ \A k \in 1 .. n : a[k] = re[k]
        /\ b \in Seq(Byte) /\ Len(b) = n /\ \A k \in 1 .. n : b[k] = rl[k]
    BY <1>1, <1>2, <1>4
  <2> HIDE DEF a, b
  <2>2. (\A k \in 1 .. n : a[k] = b[k]) => a = b
    BY <2>1
  <2>3. QED
    BY <2>1, <2>2 DEF a, b
<1>5. ASSUME n <= m PROVE (\A k \in 1 .. n : re[k] = rl[k]) <=> \A j \in 1 .. n : l[(m - n) + j] = e[j]
  <2>1. \A k \in 1 .. n : k \in 1 .. m /\ (n - k) + 1 \in 1 .. n /\ (m - n) + ((n - k) + 1) = (m - k) + 1
    BY <1>1, <1>5
  <2>2. ASSUME NEW k \in 1 .. n PROVE re[k] = rl[k] <=> l[(m - n) + ((n - k) + 1)] = e[(n - k) + 1]
    <3>1. re[k] = e[(n - k) + 1] /\ rl[k] = l[(m - k) + 1]
      BY <1>2, <2>1
    <3>2. l[(m - n) + ((n - k) + 1)] = l[(m - k) + 1]
      BY <2>1
    <3>3. QED
      BY <3>1, <3>2, Zenon
  <2>3. \A j \in 1 .. n : \E k \in 1 .. n : j = (n - k) + 1
    <3> TAKE j \in 1 .. n
    <3>1. (n - j) + 1 \in 1 .. n /\ j = (n - ((n - j) + 1)) + 1
      BY <1>1
    <3>2. QED
      BY <3>1
  <2>4. ASSUME \A k \in 1 .. n : re[k] = rl[k], NEW j \in 1 .. n PROVE l[(m - n) + j] = e[j]
    <3>1. PICK k \in 1 .. n : j = (n - k) + 1
      BY <2>3
    <3>2. QED
      BY <2>2, <2>4, <3>1
  <2>5. ASSUME \A j \in 1 .. n : l[(m - n) + j] = e[j], NEW k \in 1 .. n PROVE re[k] = rl[k]
    BY <2>1, <2>2, <2>5
  <2>6. QED
    BY <2>4, <2>5
<1>6. QED
  BY <1>3, <1>4, <1>5 DEF EndsWith, n, m

LEMMA RunBytes ==
  ASSUME NEW d \in Nat, NEW st \in Runs, NEW l \in Seq(Byte), NEW x \in InRun(d, st, l), NEW b \in Byte
  PROVE  feed(x, b) \in IF EndsWith(EndOf(st), Append(l, b)) THEN Idle(d) ELSE InRun(d, st, Append(l, b))
<1> DEFINE e == EndOf(st)
           m == Append(l, b)
           t == feed(x, b)
           k == x.tagKind
           after == IF EndsWith(e, m) THEN "outside" ELSE st
<1>1. x \in ScanRec /\ x.ended = FALSE /\ x.state = st /\ x.lead = l /\ x.quote = "none" /\ x \in Placed(d)
  BY DEF InRun, Placed, ScanRec
<1>2. e \in Seq(Byte) /\ m \in Seq(Byte)
  <2>1. "-" \in Byte /\ "]" \in Byte /\ "?" \in Byte /\ ">" \in Byte
    BY DEF Byte
  <2>2. QED
    BY <2>1, OneMore, ScannedTwo, ScannedThree DEF EndOf, Runs
<1>3. t = until(x, b, e)
  BY <1>1 DEF feed, EndOf, Runs
<1> HIDE DEF e
<1>4. until(x, b, e) = [x EXCEPT !.lead = m, !.state = IF IsSuffix(e, m) THEN "outside" ELSE st]
  BY <1>1 DEF until
<1> HIDE DEF t, m
<1>5. IsSuffix(e, m) <=> EndsWith(e, m)
  BY <1>2, SuffixIs
<1>6. Leads(t, x, m, after, k)
  BY <1>1, <1>3, <1>4, <1>5 DEF Leads, ScanRec
<1>7. after \in {"outside", "lead", "tag", "comment", "CDATA", "PI"} /\ k \in {"open", "close", "selfClosing"}
  BY <1>1 DEF Runs, ScanRec
<1> HIDE DEF k, after
<1>8. t \in InRun(d, after, m)
  BY <1>1, <1>2, <1>6, <1>7, ScanLed
<1>9. InRun(d, "outside", m) \subseteq Idle(d)
  BY DEF InRun, Idle
<1>10. QED
  BY <1>8, <1>9 DEF after, t, m, e

LEMMA RunsJoined ==
  ASSUME NEW a \in Seq(Byte), NEW b \in Seq(Byte)
  PROVE  /\ a \o b \in Seq(Byte) /\ Len(a \o b) = Len(a) + Len(b)
         /\ (\A i \in 1 .. Len(a) : (a \o b)[i] = a[i]) /\ \A i \in 1 .. Len(b) : (a \o b)[Len(a) + i] = b[i]
  OBVIOUS

LEMMA PartOfRun ==
  ASSUME NEW b \in Seq(Byte), NEW k \in Nat, NEW n \in Nat, k + n <= Len(b)
  PROVE  SubSeq(b, k + 1, k + n) \in Seq(Byte) /\ Len(SubSeq(b, k + 1, k + n)) = n
         /\ \A j \in 1 .. n : SubSeq(b, k + 1, k + n)[j] = b[k + j]
<1> DEFINE s == SubSeq(b, k + 1, k + n)
<1>1. s \in Seq(Byte) /\ Len(s) = n
  OBVIOUS
<1>2. ASSUME NEW j \in 1 .. n PROVE s[j] = b[k + j]
  <2>1. s[j] = b[((k + 1) + j) - 1]
    OBVIOUS
  <2>2. ((k + 1) + j) - 1 = k + j
    OBVIOUS
  <2>3. QED
    BY <2>1, <2>2
<1>3. QED
  BY <1>1, <1>2

LEMMA RunEnds ==
  ASSUME NEW d \in Nat, NEW st \in Runs, NEW l \in Seq(Byte), NEW x \in InRun(d, st, l), NEW text \in Seq(Byte), Len(text) > 0,
         EndsWith(EndOf(st), l \o text),
         \A i \in 1 .. Len(text) - 1 : ~EndsWith(EndOf(st), l \o SubSeq(text, 1, i))
  PROVE  scanned(x, text) \in Idle(d)
<1> DEFINE n == Len(text)
           upTo(i) == l \o SubSeq(text, 1, i)
           Holds == {h \in Nat \X ScanRec : (h[1] < n => h[2] \in InRun(d, st, upTo(h[1]))) /\ (h[1] = n => h[2] \in Idle(d))}
<1>1. n \in Nat /\ upTo(0) = l /\ upTo(n) = l \o text /\ \A i \in 0 .. n : upTo(i) \in Seq(Byte)
  OBVIOUS
<1>2. \A i \in 1 .. n : upTo(i) = Append(upTo(i - 1), text[i])
  <2> TAKE i \in 1 .. n
  <2> DEFINE a == SubSeq(text, 1, i - 1)
             b == SubSeq(text, 1, i)
  <2>1. a \in Seq(Byte) /\ text[i] \in Byte /\ b = Append(a, text[i])
    <3>1. /\ a \in Seq(Byte) /\ Len(a) = i - 1 /\ \A j \in 1 .. i - 1 : a[j] = text[j]
          /\ b \in Seq(Byte) /\ Len(b) = i /\ \A j \in 1 .. i : b[j] = text[j]
      BY <1>1
    <3>2. text[i] \in Byte
      BY <1>1
    <3> HIDE DEF a, b
    <3>3. b = Append(a, text[i])
      BY <3>1, <3>2
    <3>4. QED
      BY <3>1, <3>2, <3>3
  <2> HIDE DEF a, b
  <2>2. l \o Append(a, text[i]) = Append(l \o a, text[i])
    BY <2>1
  <2>3. QED
    BY <2>1, <2>2 DEF a, b
<1>3. EndsWith(EndOf(st), upTo(n)) /\ \A i \in 1 .. n - 1 : ~EndsWith(EndOf(st), upTo(i))
  BY <1>1
<1> HIDE DEF upTo
<1>4. ASSUME NEW i \in 1 .. n, NEW y \in ScanRec, <<i - 1, y>> \in Holds PROVE <<i, feed(y, text[i])>> \in Holds
  <2>1. i - 1 < n /\ i - 1 \in 0 .. n /\ i \in Nat /\ text[i] \in Byte /\ (i < n => i \in 1 .. n - 1)
    BY <1>1
  <2>2. y \in InRun(d, st, upTo(i - 1))
    BY <1>4, <2>1
  <2> DEFINE before == upTo(i - 1)
             b == text[i]
  <2>3. before \in Seq(Byte) /\ y \in InRun(d, st, before) /\ b \in Byte
    BY <1>1, <2>1, <2>2
  <2>4. upTo(i) = Append(before, b)
    BY <1>2
  <2> HIDE DEF before, b
  <2>5. feed(y, b) \in IF EndsWith(EndOf(st), Append(before, b)) THEN Idle(d) ELSE InRun(d, st, Append(before, b))
    BY <2>3, RunBytes
  <2>6. (i < n => feed(y, b) \in InRun(d, st, upTo(i))) /\ (i = n => feed(y, b) \in Idle(d))
    BY <1>3, <2>1, <2>4, <2>5
  <2>7. feed(y, b) \in ScanRec
    BY <2>5 DEF Idle, InRun, Placed
  <2>8. QED
    BY <2>1, <2>6, <2>7 DEF b
<1>5. x \in ScanRec /\ <<0, x>> \in Holds /\ Holds \in SUBSET (Nat \X ScanRec)
  <2>1. x \in ScanRec
    BY DEF InRun, Placed
  <2>2. 0 < n /\ 0 # n
    BY <1>1
  <2>3. QED
    BY <1>1, <2>1, <2>2
<1> HIDE DEF Holds
<1>6. <<n, scanned(x, text)>> \in Holds
  BY <1>1, <1>4, <1>5, ScannedThrough
<1>7. QED
  BY <1>1, <1>6 DEF Holds

\* A run behind l that nothing ends before its own end.
LEMMA RunToken ==
  ASSUME NEW d \in Nat, NEW st \in Runs, NEW l \in Seq(Byte), NEW x \in InRun(d, st, l), NEW body \in Seq(Byte),
         ~Within(EndOf(st), body),
         \A i \in 1 .. Len(EndOf(st)) - 1 : i <= Len(body) => ~EndsWith(EndOf(st), l \o SubSeq(body, 1, i))
  PROVE  scanned(x, body \o EndOf(st)) \in Idle(d)
<1> DEFINE e == EndOf(st)
           n == Len(e)
           m == Len(body)
           text == body \o e
<1>1. e \in Seq(Byte) /\ n \in 2 .. 3 /\ \A i \in 1 .. n - 1 : e[i] # e[n]
  <2>1. "-" \in Byte /\ "]" \in Byte /\ "?" \in Byte /\ ">" \in Byte
    BY DEF Byte
  <2>2. CASE st = "comment"
    <3>1. e = <<"-", "-", ">">>
      BY <2>2 DEF EndOf
    <3>2. QED
      BY <2>1, <3>1, ScannedThree
  <2>3. CASE st = "CDATA"
    <3>1. e = <<"]", "]", ">">>
      BY <2>3 DEF EndOf
    <3>2. QED
      BY <2>1, <3>1, ScannedThree
  <2>4. CASE st = "PI"
    <3>1. e = <<"?", ">">>
      BY <2>4 DEF EndOf
    <3>2. QED
      BY <2>1, <3>1, ScannedTwo
  <2>5. QED
    BY <2>2, <2>3, <2>4 DEF Runs
<1>2. /\ text \in Seq(Byte) /\ Len(text) = m + n /\ m \in Nat
      /\ (\A i \in 1 .. m : text[i] = body[i]) /\ (\A i \in 1 .. n : text[m + i] = e[i])
  BY <1>1
<1>3. /\ ~Within(e, body) /\ x \in InRun(d, st, l)
      /\ \A i \in 1 .. n - 1 : i <= m => ~EndsWith(e, l \o SubSeq(body, 1, i))
  OBVIOUS
<1> HIDE DEF e, n, m, text
<1>4. EndsWith(e, l \o text)
  <2> DEFINE all == l \o text
             w == Len(text)
             k == Len(l)
  <2>1. Len(all) = k + w /\ (\A i \in 1 .. w : all[k + i] = text[i]) /\ k \in Nat
    <3>1. Len(l \o text) = Len(l) + Len(text) /\ \A i \in 1 .. Len(text) : (l \o text)[Len(l) + i] = text[i]
      BY <1>2, RunsJoined, Zenon
    <3>2. Len(l) \in Nat
      OBVIOUS
    <3>3. QED
      BY <3>1, <3>2, Zenon
  <2> HIDE DEF all, k, w
  <2>2. w = m + n /\ n <= k + w /\ (k + w) - n = k + m
    BY <1>1, <1>2, <2>1 DEF w
  <2>3. ASSUME NEW j \in 1 .. n PROVE all[(k + m) + j] = e[j]
    <3>1. m + j \in 1 .. w /\ (k + m) + j = k + (m + j)
      <4>1. m \in Nat /\ n \in Nat /\ k \in Nat /\ w = m + n
        BY <1>1, <1>2, <2>1, <2>2
      <4>2. QED
        BY <4>1
    <3>2. all[k + (m + j)] = text[m + j] /\ text[m + j] = e[j]
      BY <1>2, <2>1, <3>1
    <3>3. QED
      BY <3>1, <3>2
  <2>4. EndsWith(e, all)
    BY <2>1, <2>2, <2>3 DEF EndsWith, n
  <2>5. QED
    BY <2>4 DEF all
<1>5. ASSUME NEW i \in 1 .. (m + n) - 1, EndsWith(e, l \o SubSeq(text, 1, i)) PROVE FALSE
  <2> DEFINE p == l \o SubSeq(text, 1, i)
  <2>1. i \in Nat /\ i < m + n /\ i >= 1
    BY <1>1, <1>2
  <2>2. Len(p) = Len(l) + i /\ Len(l) \in Nat /\ \A k \in 1 .. i : p[Len(l) + k] = text[k]
    BY <1>2, <2>1
  <2>3. i <= m => p = l \o SubSeq(body, 1, i)
    <3> HAVE i <= m
    <3>1. SubSeq(text, 1, i) = SubSeq(body, 1, i)
      BY <1>2, <2>1
    <3>2. QED
      BY <3>1
  <2>4. n <= Len(p) /\ \A j \in 1 .. n : p[(Len(p) - n) + j] = e[j]
    BY <1>5 DEF EndsWith, n
  <2> HIDE DEF p
  <2>5. CASE i > m
    <3>1. i - m \in 1 .. n - 1 /\ i = m + (i - m) /\ n \in 1 .. n /\ (Len(p) - n) + n = Len(l) + i /\ i \in 1 .. i
      <4> DEFINE u == Len(p)
                 v == Len(l)
      <4>1. m \in Nat /\ n \in Nat /\ n >= 1 /\ i \in Nat /\ i >= 1 /\ i > m /\ i < m + n /\ v \in Nat /\ u = v + i
        BY <1>1, <1>2, <2>1, <2>2, <2>5
      <4> HIDE DEF u, v, m, n
      <4>2. i - m \in 1 .. n - 1 /\ i = m + (i - m) /\ n \in 1 .. n /\ (u - n) + n = v + i /\ i \in 1 .. i
        BY <4>1
      <4>3. QED
        BY <4>2 DEF u, v
    <3>2. p[(Len(p) - n) + n] = e[n]
      BY <2>4, <3>1
    <3>3. text[i] = e[n]
      BY <2>2, <3>1, <3>2
    <3> DEFINE r == i - m
    <3>4. r \in 1 .. n - 1 /\ r \in 1 .. n /\ i = m + r
      BY <1>1, <3>1
    <3> HIDE DEF r
    <3>5. text[m + r] = e[r] /\ e[r] # e[n]
      BY <1>1, <1>2, <3>4
    <3>6. QED
      BY <3>3, <3>4, <3>5
  <2>6. CASE i <= m /\ i < n
    <3>1. i \in 1 .. n - 1
      BY <1>1, <2>1, <2>6
    <3>2. QED
      BY <1>3, <1>5, <2>3, <2>6, <3>1 DEF p
  <2>7. CASE i <= m /\ i >= n
    <3> DEFINE part == SubSeq(body, (i - n) + 1, (i - n) + n)
               k == i - n
    <3>1. k \in 0 .. m - n /\ k \in Nat /\ k + n <= m /\ (Len(p) - n) = Len(l) + k
      BY <1>1, <1>2, <2>1, <2>2, <2>7
    <3>2. \A j \in 1 .. n : k + j \in 1 .. i /\ k + j \in 1 .. m /\ (Len(l) + k) + j = Len(l) + (k + j)
      BY <1>1, <1>2, <2>1, <2>2, <2>7
    <3> HIDE DEF k
    <3>3. \A j \in 1 .. n : body[k + j] = e[j]
      BY <1>2, <2>2, <2>4, <3>1, <3>2
    <3>4. SubSeq(body, k + 1, k + n) = e
      <4> DEFINE s == SubSeq(body, k + 1, k + n)
      <4>1. s \in Seq(Byte) /\ Len(s) = n /\ \A j \in 1 .. n : s[j] = body[k + j]
        <5>1. n \in Nat /\ k \in Nat /\ k + n <= Len(body)
          BY <1>1, <3>1 DEF m
        <5>2. QED
          BY <5>1, PartOfRun
      <4> HIDE DEF s
      <4>2. s = e
        BY <1>1, <3>3, <4>1 DEF n
      <4>3. QED
        BY <4>2 DEF s
    <3>5. QED
      BY <1>3, <3>1, <3>4 DEF Within, n, m
  <2>8. QED
    BY <1>1, <1>2, <2>1, <2>5, <2>6, <2>7
<1>6. scanned(x, text) \in Idle(d)
  <2>1. Len(text) > 0 /\ \A i \in 1 .. Len(text) - 1 : ~EndsWith(e, l \o SubSeq(text, 1, i))
    BY <1>1, <1>2, <1>5
  <2>2. QED
    BY <1>2, <1>3, <1>4, <2>1, RunEnds DEF e
<1>7. QED
  BY <1>6 DEF text, e

\* Attributes.
LEMMA AttributesByPlace ==
  ASSUME NEW list, Len(list) \in Nat
  PROVE  \E f : Places("attributes", list, <<>>, f, Len(list)) /\ attributes(list) = f[Len(list)]
<1> DEFINE entry(f, i) == IF i = 0 THEN <<>> ELSE f[i - 1] \o attribute(list[i])
           Made(f) == f = [i \in 0 .. Len(list) |-> entry(f, i)]
           upTo == CHOOSE f : Made(f)
<1>1. attributes(list) = upTo[Len(list)]
  BY Zenon DEF attributes
<1>2. \A f, i : entry(f, i) = IF i = 0 THEN <<>> ELSE place("attributes", list, i, f[i - 1])
  BY DEF place
<1> HIDE DEF entry
<1>3. \A f : Made(f) <=> Places("attributes", list, <<>>, f, Len(list))
  <2> TAKE f
  <2>1. [i \in 0 .. Len(list) |-> entry(f, i)]
          = [i \in 0 .. Len(list) |-> IF i = 0 THEN <<>> ELSE place("attributes", list, i, f[i - 1])]
    BY <1>2
  <2>2. QED
    BY <2>1 DEF Places
<1> HIDE DEF Made
<1>4. \E f : Made(f)
  BY <1>3, PlaceByPlace
<1>5. Made(upTo)
  BY <1>4
<1> HIDE DEF upTo
<1>6. QED
  BY <1>1, <1>3, <1>5

Attributed(f, list) == f[0] = <<>> /\ \A i \in 1 .. Len(list) : f[i] = f[i - 1] \o attribute(list[i])

LEMMA AttributesSteps ==
  ASSUME NEW list, Len(list) \in Nat
  PROVE  \E f : Attributed(f, list) /\ attributes(list) = f[Len(list)]
<1> DEFINE n == Len(list)
           which == "attributes"
           none == <<>>
<1>1. PICK f : Places(which, list, none, f, n) /\ attributes(list) = f[n]
  BY AttributesByPlace
<1> HIDE DEF n, which, none
<1>2. n \in Nat
  BY DEF n
<1>3. f[0] = none /\ \A i \in 1 .. n : f[i] = place(which, list, i, f[i - 1])
  BY <1>1, <1>2, PlaceSteps
<1>4. \A i : place(which, list, i, f[i - 1]) = f[i - 1] \o attribute(list[i])
  BY DEF place, which
<1>5. QED
  BY <1>1, <1>3, <1>4 DEF n, none, Attributed

LEMMA NotWithinOne ==
  ASSUME NEW text \in Seq(Byte), NEW q, ~Within(<<q>>, text), NEW i \in 1 .. Len(text)
  PROVE  text[i] # q
<1> SUFFICES ASSUME text[i] = q PROVE FALSE
  OBVIOUS
<1> DEFINE k == i - 1
           s == SubSeq(text, k + 1, k + 1)
           one == <<q>>
<1>1. k \in Nat /\ k + 1 <= Len(text) /\ 1 \in Nat /\ k \in 0 .. Len(text) - 1 /\ k + 1 = i /\ 1 \in 1 .. 1
  OBVIOUS
<1>2. Len(one) = 1 /\ ~Within(one, text)
  OBVIOUS
<1> HIDE DEF k, one
<1>3. s \in Seq(Byte) /\ Len(s) = 1 /\ \A j \in 1 .. 1 : s[j] = text[k + j]
  BY <1>1, PartOfRun
<1>4. s[1] = q
  BY <1>1, <1>3
<1> HIDE DEF s
<1>5. s = one
  BY <1>3, <1>4 DEF one
<1>6. QED
  BY <1>1, <1>2, <1>5 DEF Within, s

LEMMA AttributeScanned ==
  ASSUME NEW d \in Nat, NEW a \in [quote : Quotes, value : Seq(Byte)], ~Within(<<a.quote>>, a.value)
  PROVE  attribute(a) \in Seq(Byte) /\ \A x \in InTag(d, "open") : scanned(x, attribute(a)) \in InTag(d, "open")
<1> DEFINE q == a.quote
           v == a.value
           l == <<White, Letter, "=", q>>
           r == <<q>>
<1>1. q \in Quotes /\ q \in Byte /\ v \in Seq(Byte) /\ White \in Byte /\ Letter \in Byte /\ "=" \in Byte
  BY DEF Byte
<1>2. \A i \in 1 .. Len(v) : v[i] # q
  BY <1>1, NotWithinOne
<1>3. attribute(a) = (l \o v) \o r
  BY DEF attribute
<1>4. r \in Seq(Byte) /\ \A x : scanned(x, r) = feed(x, q)
  BY <1>1, ScannedOne
<1> HIDE DEF q, v
<1>5. l \in Seq(Byte) /\ \A x : scanned(x, l) = feed(feed(feed(feed(x, White), Letter), "="), q)
  BY <1>1, ScannedFour
<1> HIDE DEF l, r
<1>6. (l \o v) \o r \in Seq(Byte)
  BY <1>1, <1>4, <1>5, RunsAgree
<1>7. ASSUME NEW x \in InTag(d, "open") PROVE scanned(x, (l \o v) \o r) \in InTag(d, "open")
  <2> DEFINE X == InValue(d, q)
             y == scanned(x, l)
  <2>1. y \in X
    <3> DEFINE kind == "open"
               x1 == feed(x, White)
               x2 == feed(x1, Letter)
               x3 == feed(x2, "=")
    <3>1. kind \in {"open", "close"} /\ kind = "open" /\ x \in InTag(d, kind)
      OBVIOUS
    <3> HIDE DEF kind
    <3>2. x1 \in InTag(d, kind)
      BY <3>1, TagBytes
    <3>3. x2 \in InTag(d, kind)
      BY <3>1, <3>2, TagBytes
    <3>4. x3 \in InTag(d, kind)
      BY <3>1, <3>3, TagBytes
    <3>5. y = feed(x3, q)
      BY <1>5
    <3> HIDE DEF x3
    <3>6. feed(x3, q) \in InValue(d, q)
      BY <1>1, <3>1, <3>4, TagBytes
    <3>7. QED
      BY <3>5, <3>6
  <2> HIDE DEF y
  <2>2. \A i \in 1 .. Len(v), z \in X : feed(z, v[i]) \in X
    BY <1>1, <1>2, ValueBytes
  <2>3. Len(v) \in Nat
    BY <1>1
  <2> HIDE DEF X
  <2>4. scanned(y, v) \in X
    BY <2>1, <2>2, <2>3, ScannedWithin
  <2>5. feed(scanned(y, v), q) \in InTag(d, "open")
    BY <1>1, <2>4, ValueBytes DEF X
  <2>6. scanned(x, l \o v) = scanned(y, v) /\ l \o v \in Seq(Byte)
    BY <1>1, <1>5, ScannedBoth, RunsAgree DEF y
  <2>7. scanned(x, (l \o v) \o r) = scanned(scanned(x, l \o v), r)
    BY <1>4, <2>6, ScannedBoth
  <2>8. QED
    BY <1>4, <2>5, <2>6, <2>7
<1>8. QED
  BY <1>3, <1>6, <1>7

LEMMA AttributesScanned ==
  ASSUME NEW d \in Nat, NEW list \in AttributeLists
  PROVE  attributes(list) \in Seq(Byte) /\ \A x \in InTag(d, "open") : scanned(x, attributes(list)) \in InTag(d, "open")
<1> DEFINE n == Len(list)
           Kept(t) == t \in Seq(Byte) /\ \A x \in InTag(d, "open") : scanned(x, t) \in InTag(d, "open")
<1>1. n \in Nat /\ \A i \in 1 .. n : list[i] \in [quote : Quotes, value : Seq(Byte)] /\ ~Within(<<list[i].quote>>, list[i].value)
  <2>1. list \in Seq([quote : Quotes, value : Seq(Byte)]) /\ \A i \in 1 .. Len(list) : ~Within(<<list[i].quote>>, list[i].value)
    BY Zenon, LegalXML
  <2> DEFINE R == [quote : Quotes, value : Seq(Byte)]
  <2>2. list \in Seq(R)
    BY <2>1
  <2> HIDE DEF R
  <2>3. n \in Nat /\ \A i \in 1 .. n : list[i] \in R
    BY <2>2
  <2>4. n \in Nat /\ \A i \in 1 .. n : list[i] \in [quote : Quotes, value : Seq(Byte)]
    BY <2>3 DEF R
  <2>5. QED
    BY Zenon, <2>1, <2>4
<1>2. \A i \in 1 .. n : Kept(attribute(list[i]))
  BY <1>1, AttributeScanned
<1>3. PICK f : Attributed(f, list) /\ attributes(list) = f[n]
  BY <1>1, AttributesSteps
<1>4. f[0] = <<>> /\ \A i \in 1 .. n : f[i] = f[i - 1] \o attribute(list[i])
  BY <1>3 DEF Attributed
<1>5. Kept(<<>>)
  BY ScannedNone
<1>6. ASSUME NEW a, NEW b, Kept(a), Kept(b) PROVE Kept(a \o b)
  <2>1. a \in Seq(Byte) /\ b \in Seq(Byte) /\ a \o b \in Seq(Byte)
    BY <1>6
  <2>2. ASSUME NEW x \in InTag(d, "open") PROVE scanned(x, a \o b) \in InTag(d, "open")
    <3>1. scanned(scanned(x, a), b) \in InTag(d, "open")
      BY <1>6
    <3>2. QED
      BY <2>1, <3>1, ScannedBoth
  <2>3. QED
    BY <2>1, <2>2
<1> HIDE DEF Kept, n
<1> DEFINE G == {i \in Nat : Kept(f[i])}
<1>7. 0 \in G
  BY <1>4, <1>5
<1>8. ASSUME NEW k \in 1 .. n, k - 1 \in G PROVE k \in G
  <2> DEFINE a == f[k - 1]
             b == attribute(list[k])
  <2>1. Kept(a)
    BY <1>8
  <2>2. Kept(b) /\ f[k] = a \o b
    BY <1>2, <1>4
  <2>3. k \in Nat
    BY <1>1
  <2> HIDE DEF a, b
  <2>4. Kept(a \o b)
    BY <1>6, <2>1, <2>2
  <2>5. QED
    BY <2>2, <2>3, <2>4
<1> HIDE DEF G
<1>9. n \in G
  BY <1>1, <1>7, <1>8, UpTo
<1>10. Kept(attributes(list))
  BY <1>3, <1>9 DEF G
<1>11. QED
  BY <1>10 DEF Kept

\* What a token is made of, and where it leaves the scanner.
LEMMA JoinedStart ==
  ASSUME NEW a \in Seq(Byte), NEW b \in Seq(Byte), Len(a) >= 2, NEW c \in Byte, a[1] = "<", a[2] = c
  PROVE  a \o b \in Seq(Byte) /\ Len(a \o b) >= 2 /\ (a \o b)[1] = "<" /\ (a \o b)[2] = c
<1>1. Len(a) \in Nat /\ Len(b) \in Nat /\ 1 \in 1 .. Len(a) /\ 2 \in 1 .. Len(a)
  OBVIOUS
<1>2. a \o b \in Seq(Byte) /\ Len(a \o b) = Len(a) + Len(b) /\ (a \o b)[1] = a[1] /\ (a \o b)[2] = a[2]
  BY <1>1, RunsJoined
<1>3. QED
  BY <1>1, <1>2

Starts(t, c) == t \in Seq(Byte) /\ Len(t) >= 2 /\ t[1] = "<" /\ t[2] = c

LEMMA TagStart ==
  ASSUME NEW d \in Nat, NEW x \in Idle(d), NEW list \in AttributeLists
  PROVE  LET t == <<"<", Letter>> \o attributes(list) IN Starts(t, Letter) /\ scanned(x, t) \in InTag(d, "open")
<1> DEFINE a == <<"<", Letter>>
           b == attributes(list)
<1>1. "<" \in Byte /\ Letter \in Byte /\ Len(a) >= 2 /\ a[1] = "<" /\ a[2] = Letter
  BY DEF Byte
<1>2. a \in Seq(Byte) /\ scanned(x, a) = feed(feed(x, "<"), Letter)
  BY <1>1, ScannedTwo
<1>3. b \in Seq(Byte) /\ \A y \in InTag(d, "open") : scanned(y, b) \in InTag(d, "open")
  BY AttributesScanned
<1> HIDE DEF a, b
<1>4. scanned(x, a) \in InTag(d, "open")
  BY <1>2, IdleBytes, TagLeads
<1>5. scanned(x, a \o b) = scanned(scanned(x, a), b)
  BY <1>2, <1>3, ScannedBoth
<1>6. Starts(a \o b, Letter)
  BY <1>1, <1>2, <1>3, JoinedStart DEF Starts
<1>7. QED
  BY <1>3, <1>4, <1>5, <1>6 DEF a, b

LEMMA OpeningScanned ==
  ASSUME NEW d \in Nat, NEW x \in Idle(d), NEW t \in Opening
  PROVE  Starts(t, Letter) /\ scanned(x, t) \in Idle(d + 1)
<1>1. PICK list \in AttributeLists, end \in TagEnds : t = <<"<", Letter>> \o attributes(list) \o end
  BY DEF Opening
<1> DEFINE a == <<"<", Letter>> \o attributes(list)
           y == scanned(x, a)
           kind == "open"
<1>2. Starts(a, Letter) /\ y \in InTag(d, kind)
  BY TagStart
<1>3. kind \in {"open", "close"} /\ kind = "open" /\ White \in Byte /\ ">" \in Byte /\ Letter \in Byte
  BY DEF Byte
<1>4. t = a \o end
  BY <1>1
<1> HIDE DEF a, kind, y
<1>5. end \in Seq(Byte) /\ scanned(y, end) \in Idle(d + 1)
  <2>1. CASE end = <<">">>
    <3>1. end \in Seq(Byte) /\ scanned(y, end) = feed(y, ">")
      BY <1>3, <2>1, ByteRun, ScannedOne
    <3>2. QED
      BY <1>2, <1>3, <3>1, TagBytes
  <2>2. CASE end = <<White, ">">>
    <3>1. end \in Seq(Byte) /\ scanned(y, end) = feed(feed(y, White), ">")
      BY <1>3, <2>2, ScannedTwo
    <3>2. feed(y, White) \in InTag(d, kind)
      BY <1>2, <1>3, TagBytes
    <3>3. QED
      BY <1>3, <3>1, <3>2, TagBytes
  <2>3. QED
    BY <2>1, <2>2 DEF TagEnds
<1>6. scanned(x, a \o end) = scanned(y, end)
  BY <1>2, <1>5, ScannedBoth DEF Starts, y
<1>7. Starts(a \o end, Letter)
  BY <1>2, <1>3, <1>5, JoinedStart DEF Starts
<1>8. QED
  BY <1>4, <1>5, <1>6, <1>7

LEMMA EmptyScanned ==
  ASSUME NEW d \in Nat, NEW x \in Idle(d), NEW t \in EmptyTags
  PROVE  Starts(t, Letter) /\ (d = 0 => scanned(x, t).ended) /\ (d > 0 => scanned(x, t) \in Idle(d))
<1>1. PICK list \in AttributeLists, end \in {<<"/", ">">>, <<White, "/", ">">>} : t = <<"<", Letter>> \o attributes(list) \o end
  BY DEF EmptyTags
<1> DEFINE a == <<"<", Letter>> \o attributes(list)
           y == scanned(x, a)
           kind == "open"
<1>2. Starts(a, Letter) /\ y \in InTag(d, kind)
  BY TagStart
<1>3. kind \in {"open", "close"} /\ kind = "open" /\ White \in Byte /\ ">" \in Byte /\ "/" \in Byte /\ Letter \in Byte
  BY DEF Byte
<1>4. t = a \o end
  BY <1>1
<1> HIDE DEF a, kind, y
<1>5. end \in Seq(Byte) /\ \E z \in InTag(d, "selfClosing") : scanned(y, end) = feed(z, ">")
  <2>1. CASE end = <<"/", ">">>
    <3>1. end \in Seq(Byte) /\ scanned(y, end) = feed(feed(y, "/"), ">")
      BY <1>3, <2>1, ScannedTwo
    <3>2. feed(y, "/") \in InTag(d, "selfClosing")
      BY <1>2, <1>3, TagBytes
    <3>3. QED
      BY <3>1, <3>2
  <2>2. CASE end = <<White, "/", ">">>
    <3>1. end \in Seq(Byte) /\ scanned(y, end) = feed(feed(feed(y, White), "/"), ">")
      BY <1>3, <2>2, ScannedThree
    <3>2. feed(y, White) \in InTag(d, kind)
      BY <1>2, <1>3, TagBytes
    <3>3. feed(feed(y, White), "/") \in InTag(d, "selfClosing")
      BY <1>3, <3>2, TagBytes
    <3>4. QED
      BY <3>1, <3>3
  <2>3. QED
    BY <2>1, <2>2
<1>6. scanned(x, a \o end) = scanned(y, end)
  BY <1>2, <1>5, ScannedBoth DEF Starts, y
<1>7. Starts(a \o end, Letter)
  BY <1>2, <1>3, <1>5, JoinedStart DEF Starts
<1>8. PICK z \in InTag(d, "selfClosing") : scanned(y, end) = feed(z, ">")
  BY <1>5
<1>9. (d = 0 => feed(z, ">").ended) /\ (d > 0 => feed(z, ">") \in Idle(d))
  BY EmptyTagEnds
<1>10. QED
  BY <1>4, <1>6, <1>7, <1>8, <1>9

LEMMA ClosingScanned ==
  ASSUME NEW d \in Nat, d > 0, NEW x \in Idle(d), NEW t \in Closing
  PROVE  Starts(t, "/") /\ (d = 1 => scanned(x, t).ended) /\ (d > 1 => scanned(x, t) \in Idle(d - 1))
<1>1. PICK end \in TagEnds : t = <<"<", "/", Letter>> \o end
  BY DEF Closing
<1> DEFINE a == <<"<", "/", Letter>>
           y == scanned(x, a)
           kind == "close"
<1>2. kind \in {"open", "close"} /\ kind = "close" /\ White \in Byte /\ ">" \in Byte /\ "/" \in Byte /\ Letter \in Byte /\ "<" \in Byte
  BY DEF Byte
<1>3. Len(a) >= 2 /\ a[1] = "<" /\ a[2] = "/" /\ t = a \o end
  BY <1>1
<1>4. a \in Seq(Byte) /\ y = feed(feed(feed(x, "<"), "/"), Letter)
  BY <1>2, ScannedThree
<1> HIDE DEF a, y, kind
<1>5. y \in InTag(d, kind)
  <2>1. feed(feed(x, "<"), "/") \in InTag(d, kind)
    BY <1>2, IdleBytes, TagLeads
  <2>2. QED
    BY <1>2, <1>4, <2>1, TagBytes
<1>6. end \in Seq(Byte) /\ \E z \in InTag(d, kind) : scanned(y, end) = feed(z, ">")
  <2>1. CASE end = <<">">>
    <3>1. end \in Seq(Byte) /\ scanned(y, end) = feed(y, ">")
      BY <1>2, <2>1, ByteRun, ScannedOne
    <3>2. QED
      BY <1>5, <3>1
  <2>2. CASE end = <<White, ">">>
    <3>1. end \in Seq(Byte) /\ scanned(y, end) = feed(feed(y, White), ">")
      BY <1>2, <2>2, ScannedTwo
    <3>2. feed(y, White) \in InTag(d, kind)
      BY <1>2, <1>5, TagBytes
    <3>3. QED
      BY <3>1, <3>2
  <2>3. QED
    BY <2>1, <2>2 DEF TagEnds
<1>7. scanned(x, a \o end) = scanned(y, end)
  BY <1>4, <1>6, ScannedBoth DEF y
<1>8. Starts(a \o end, "/")
  BY <1>2, <1>3, <1>4, <1>6, JoinedStart DEF Starts
<1>9. PICK z \in InTag(d, kind) : scanned(y, end) = feed(z, ">")
  BY <1>6
<1>10. (d = 1 => feed(z, ">").ended) /\ (d > 1 => feed(z, ">") \in Idle(d - 1))
  BY <1>2, TagBytes
<1>11. QED
  BY <1>3, <1>7, <1>8, <1>9, <1>10

\* What is behind a run's start, read after it.
ReadsInParts(x, a, b, c) ==
  (a \o b) \o c = a \o (b \o c) /\ b \o c \in Seq(Byte) /\ scanned(x, a \o (b \o c)) = scanned(scanned(x, a), b \o c)

LEMMA ReadInParts ==
  ASSUME NEW x, NEW a \in Seq(Byte), NEW b \in Seq(Byte), NEW c \in Seq(Byte) PROVE ReadsInParts(x, a, b, c)
<1>1. (a \o b) \o c = a \o (b \o c) /\ b \o c \in Seq(Byte)
  OBVIOUS
<1>2. QED
  BY <1>1, ScannedBoth DEF ReadsInParts

LEMMA BehindStart ==
  ASSUME NEW d \in Nat, NEW x \in Idle(d), NEW a \in Seq(Byte), NEW body \in Seq(Byte), NEW e \in Seq(Byte),
         NEW c \in Byte, Len(a) >= 2, a[1] = "<", a[2] = c, scanned(scanned(x, a), body \o e) \in Idle(d)
  PROVE  Starts((a \o body) \o e, c) /\ scanned(x, (a \o body) \o e) \in Idle(d)
<1> DEFINE rest == body \o e
           whole == (a \o body) \o e
<1>1. whole = a \o rest /\ rest \in Seq(Byte) /\ scanned(x, a \o rest) = scanned(scanned(x, a), rest)
  <2>1. ReadsInParts(x, a, body, e)
    BY ReadInParts, Zenon
  <2>2. QED
    BY <2>1, Zenon DEF ReadsInParts
<1>2. scanned(scanned(x, a), rest) \in Idle(d)
  OBVIOUS
<1> HIDE DEF rest, whole
<1>3. Starts(a \o rest, c)
  BY <1>1, JoinedStart DEF Starts
<1>4. Starts(whole, c) /\ scanned(x, whole) \in Idle(d)
  BY <1>1, <1>2, <1>3
<1>5. QED
  BY <1>4 DEF whole

\* A run behind its start, whose own end is the first the scanner finds.
LEMMA RunScanned ==
  ASSUME NEW d \in Nat, NEW x \in Idle(d), NEW st \in Runs, NEW a \in Seq(Byte), NEW l \in Seq(Byte), scanned(x, a) \in InRun(d, st, l),
         NEW c \in Byte, Len(a) >= 2, a[1] = "<", a[2] = c, EndOf(st) \in Seq(Byte),
         NEW body \in Seq(Byte), ~Within(EndOf(st), body),
         \A i \in 1 .. Len(EndOf(st)) - 1 : i <= Len(body) => ~EndsWith(EndOf(st), l \o SubSeq(body, 1, i))
  PROVE  Starts((a \o body) \o EndOf(st), c) /\ scanned(x, (a \o body) \o EndOf(st)) \in Idle(d)
<1>1. scanned(scanned(x, a), body \o EndOf(st)) \in Idle(d)
  BY RunToken
<1>2. QED
  BY <1>1, BehindStart, Zenon

LEMMA NotEndedEarly ==
  ASSUME NEW l \in Seq(Byte), NEW body \in Seq(Byte), NEW i \in 1 .. Len(body), NEW e \in Seq(Byte), Len(e) >= 2, i < Len(e), Len(l) <= Len(e),
         Len(e) <= Len(l) + 1, EndsWith(e, l \o SubSeq(body, 1, i))
  PROVE  /\ body[i] = e[Len(e)] /\ (i = 2 => body[1] = e[Len(e) - 1])
         /\ Len(l) + i - Len(e) + 1 \in 1 .. Len(l) /\ l[Len(l) + i - Len(e) + 1] = e[1]
<1> DEFINE b == SubSeq(body, 1, i)
           p == l \o b
           n == Len(e)
           m == Len(l)
<1>1. b \in Seq(Byte) /\ Len(b) = i /\ \A k \in 1 .. i : b[k] = body[k]
  OBVIOUS
<1> HIDE DEF b
<1>2. p \in Seq(Byte) /\ Len(p) = m + i /\ (\A k \in 1 .. m : p[k] = l[k]) /\ \A k \in 1 .. i : p[m + k] = b[k]
  BY <1>1, RunsJoined
<1>3. m \in Nat /\ n \in Nat /\ n >= 2 /\ i < n /\ m <= n /\ n <= m + 1 /\ i >= 1 /\ i \in Nat
  OBVIOUS
<1>4. \A j \in 1 .. n : p[(Len(p) - n) + j] = e[j]
  BY DEF EndsWith, b
<1> HIDE DEF p, n, m
<1>5. p[m + i] = e[n]
  <2>1. n \in 1 .. n /\ (Len(p) - n) + n = m + i
    BY <1>2, <1>3
  <2>2. QED
    BY <1>4, <2>1
<1>6. i = 2 => p[m + 1] = e[n - 1]
  <2> HAVE i = 2
  <2>1. n - 1 \in 1 .. n /\ (Len(p) - n) + (n - 1) = m + 1
    BY <1>2, <1>3
  <2>2. QED
    BY <1>4, <2>1
<1>7. p[m + i - n + 1] = e[1] /\ m + i - n + 1 \in 1 .. m
  <2>1. 1 \in 1 .. n /\ (Len(p) - n) + 1 = m + i - n + 1 /\ m + i - n + 1 \in 1 .. m
    BY <1>2, <1>3
  <2>2. QED
    BY <1>4, <2>1
<1>8. p[m + i] = body[i] /\ (i = 2 => p[m + 1] = body[1])
  BY <1>1, <1>2, <1>3
<1>9. l[m + i - n + 1] = e[1]
  BY <1>2, <1>7
<1>10. QED
  BY <1>5, <1>6, <1>7, <1>8, <1>9 DEF n, m

LEMMA CommentScanned ==
  ASSUME NoneCutShort, NEW d \in Nat, NEW x \in Idle(d), NEW t \in Comments
  PROVE  Starts(t, "!") /\ scanned(x, t) \in Idle(d)
<1>1. PICK body \in CommentBodies : t = <<"<", "!", "-", "-">> \o body \o <<"-", "-", ">">>
  BY Zenon DEF Comments
<1> DEFINE a == <<"<", "!", "-", "-">>
           l == <<"!", "-", "-">>
           st == "comment"
           e == EndOf(st)
<1>2. "<" \in Byte /\ "!" \in Byte /\ "-" \in Byte /\ ">" \in Byte
  BY DEF Byte
<1>3. a \in Seq(Byte) /\ scanned(x, a) = feed(feed(feed(feed(x, "<"), "!"), "-"), "-")
  BY <1>2, ScannedFour
<1>4. l \in Seq(Byte) /\ Len(a) >= 2 /\ a[1] = "<" /\ a[2] = "!" /\ Len(l) = 3
  BY <1>2, ScannedThree
<1>5. scanned(x, a) \in InRun(d, st, l)
  BY <1>3, IdleBytes, TagLeads, RunLeads
<1>6. e = <<"-", "-", ">">> /\ st \in Runs
  BY DEF EndOf, Runs
<1>7. e \in Seq(Byte) /\ Len(e) = 3 /\ e[2] = "-" /\ e[3] = ">"
  <2> DEFINE z == <<"-", "-", ">">>
  <2>1. z \in Seq(Byte)
    BY <1>2, ScannedThree
  <2>2. Len(z) = 3 /\ z[2] = "-" /\ z[3] = ">"
    OBVIOUS
  <2> HIDE DEF z
  <2>3. e = z
    BY <1>6 DEF z
  <2> HIDE DEF e
  <2>4. QED
    BY <2>1, <2>2, <2>3
<1>8. body \in Seq(Byte) /\ ~Within(e, body)
  BY <1>6, LegalXML, Zenon
<1> HIDE DEF a, l, st
<1>9. ASSUME NEW i \in 1 .. Len(e) - 1, i <= Len(body), EndsWith(e, l \o SubSeq(body, 1, i)) PROVE FALSE
  <2> HIDE DEF e
  <2>1. i \in 1 .. 2 /\ i \in 1 .. Len(body) /\ Len(e) >= 2 /\ i < Len(e) /\ Len(l) <= Len(e) /\ Len(e) <= Len(l) + 1
    BY <1>4, <1>7, <1>8, <1>9
  <2>2. body[i] = e[Len(e)] /\ (i = 2 => body[1] = e[Len(e) - 1])
    BY <1>4, <1>7, <1>8, <1>9, <2>1, NotEndedEarly
  <2>3. body[i] = ">" /\ (i = 2 => body[1] = "-")
    BY <1>7, <2>2
  <2>4. CASE i = 1
    <3> DEFINE cut == <<">">>
    <3>1. cut \in Seq(Byte) /\ Len(cut) = 1 /\ cut[1] = ">"
      BY <1>2, ByteRun
    <3>2. ~IsPrefix(cut, body)
      BY DEF NoneCutShort
    <3> HIDE DEF cut
    <3>3. Len(cut) <= Len(body) /\ SubSeq(cut, 1, Len(cut)) = SubSeq(body, 1, Len(cut))
      BY <1>8, <2>1, <2>3, <2>4, <3>1
    <3>4. QED
      BY <3>2, <3>3 DEF IsPrefix
  <2>5. CASE i = 2
    <3> DEFINE cut == <<"-", ">">>
    <3>1. cut \in Seq(Byte) /\ Len(cut) = 2 /\ cut[1] = "-" /\ cut[2] = ">"
      BY <1>2, ScannedTwo
    <3>2. ~IsPrefix(cut, body)
      BY DEF NoneCutShort
    <3> HIDE DEF cut
    <3>3. \A j \in 1 .. 2 : cut[j] = body[j]
      BY <2>3, <2>5, <3>1
    <3>4. Len(cut) <= Len(body) /\ SubSeq(cut, 1, Len(cut)) = SubSeq(body, 1, Len(cut))
      BY <1>8, <2>1, <2>5, <3>1, <3>3
    <3>5. QED
      BY <3>2, <3>4 DEF IsPrefix
  <2>6. QED
    BY <2>1, <2>4, <2>5
<1> HIDE DEF e
<1>10. Starts((a \o body) \o e, "!") /\ scanned(x, (a \o body) \o e) \in Idle(d)
  BY <1>2, <1>3, <1>4, <1>5, <1>6, <1>7, <1>8, <1>9, RunScanned DEF e
<1>11. QED
  BY <1>1, <1>6, <1>10 DEF a

LEMMA DataScanned ==
  ASSUME NEW d \in Nat, NEW x \in Idle(d), NEW t \in Data
  PROVE  Starts(t, "!") /\ scanned(x, t) \in Idle(d)
<1>1. PICK body \in DataBodies : t = <<"<", "!", "[", Letter>> \o body \o <<"]", "]", ">">>
  BY Zenon DEF Data
<1> DEFINE a == <<"<", "!", "[", Letter>>
           l == <<"!", "[", Letter>>
           st == "CDATA"
           e == EndOf(st)
<1>2. "<" \in Byte /\ "!" \in Byte /\ "[" \in Byte /\ Letter \in Byte /\ "]" \in Byte /\ ">" \in Byte /\ Letter # "]"
  BY DEF Byte, Letter
<1>3. a \in Seq(Byte) /\ scanned(x, a) = feed(feed(feed(feed(x, "<"), "!"), "["), Letter)
  BY <1>2, ScannedFour
<1>4. l \in Seq(Byte) /\ Len(a) >= 2 /\ a[1] = "<" /\ a[2] = "!" /\ Len(l) = 3 /\ l[2] # "]" /\ l[3] # "]"
  BY <1>2, ScannedThree
<1>5. scanned(x, a) \in InRun(d, st, l)
  BY <1>3, IdleBytes, TagLeads, RunLeads
<1>6. e = <<"]", "]", ">">> /\ st \in Runs
  BY DEF EndOf, Runs
<1>7. e \in Seq(Byte) /\ Len(e) = 3 /\ e[1] = "]"
  <2> DEFINE z == <<"]", "]", ">">>
  <2>1. z \in Seq(Byte)
    BY <1>2, ScannedThree
  <2>2. Len(z) = 3 /\ z[1] = "]"
    OBVIOUS
  <2> HIDE DEF z
  <2>3. e = z
    BY <1>6 DEF z
  <2> HIDE DEF e
  <2>4. QED
    BY <2>1, <2>2, <2>3
<1>8. body \in Seq(Byte) /\ ~Within(e, body)
  BY <1>6, LegalXML, Zenon
<1> HIDE DEF a, l, st
<1>9. ASSUME NEW i \in 1 .. Len(e) - 1, i <= Len(body), EndsWith(e, l \o SubSeq(body, 1, i)) PROVE FALSE
  <2> HIDE DEF e
  <2>1. i \in 1 .. 2 /\ i \in 1 .. Len(body) /\ Len(e) >= 2 /\ i < Len(e) /\ Len(l) <= Len(e) /\ Len(e) <= Len(l) + 1
    BY <1>4, <1>7, <1>8, <1>9
  <2>2. l[Len(l) + i - Len(e) + 1] = e[1]
    BY <1>4, <1>7, <1>8, <1>9, <2>1, NotEndedEarly
  <2>3. Len(l) + i - Len(e) + 1 = i + 1
    BY <1>4, <1>7, <2>1
  <2>4. l[i + 1] = "]"
    BY <1>7, <2>2, <2>3
  <2>5. i + 1 = 2 \/ i + 1 = 3
    BY <2>1
  <2>6. QED
    BY <1>4, <2>4, <2>5
<1> HIDE DEF e
<1>10. Starts((a \o body) \o e, "!") /\ scanned(x, (a \o body) \o e) \in Idle(d)
  BY <1>2, <1>3, <1>4, <1>5, <1>6, <1>7, <1>8, <1>9, RunScanned DEF e
<1>11. QED
  BY <1>1, <1>6, <1>10 DEF a

LEMMA InstructionScanned ==
  ASSUME NEW d \in Nat, NEW x \in Idle(d), NEW t \in PIs
  PROVE  Starts(t, "?") /\ scanned(x, t) \in Idle(d)
<1>1. PICK body \in Instructions : t = <<"<", "?">> \o body \o <<"?", ">">>
  BY Zenon DEF PIs
<1> DEFINE a == <<"<", "?">>
           l == <<"?">>
           st == "PI"
           e == EndOf(st)
<1>2. "<" \in Byte /\ "?" \in Byte /\ ">" \in Byte /\ Letter # ">"
  BY DEF Byte, Letter
<1>3. a \in Seq(Byte) /\ scanned(x, a) = feed(feed(x, "<"), "?")
  BY <1>2, ScannedTwo
<1>4. l \in Seq(Byte) /\ Len(a) >= 2 /\ a[1] = "<" /\ a[2] = "?" /\ Len(l) = 1
  BY <1>2, ByteRun
<1>5. scanned(x, a) \in InRun(d, st, l)
  BY <1>3, IdleBytes, TagLeads
<1>6. e = <<"?", ">">> /\ st \in Runs
  BY DEF EndOf, Runs
<1>7. e \in Seq(Byte) /\ Len(e) = 2 /\ e[2] = ">"
  <2> DEFINE z == <<"?", ">">>
  <2>1. z \in Seq(Byte)
    BY <1>2, ScannedTwo
  <2>2. Len(z) = 2 /\ z[2] = ">"
    OBVIOUS
  <2> HIDE DEF z
  <2>3. e = z
    BY <1>6 DEF z
  <2> HIDE DEF e
  <2>4. QED
    BY <2>1, <2>2, <2>3
<1>8. body \in Seq(Byte) /\ ~Within(e, body) /\ body[1] = Letter
  BY <1>6, LegalXML, Zenon
<1> HIDE DEF a, l, st
<1>9. ASSUME NEW i \in 1 .. Len(e) - 1, i <= Len(body), EndsWith(e, l \o SubSeq(body, 1, i)) PROVE FALSE
  <2> HIDE DEF e
  <2>1. i = 1 /\ i \in 1 .. Len(body) /\ Len(e) >= 2 /\ i < Len(e) /\ Len(l) <= Len(e) /\ Len(e) <= Len(l) + 1
    BY <1>4, <1>7, <1>8, <1>9
  <2>2. body[i] = e[Len(e)]
    BY <1>4, <1>7, <1>8, <1>9, <2>1, NotEndedEarly
  <2>3. QED
    BY <1>2, <1>7, <1>8, <2>1, <2>2
<1> HIDE DEF e
<1>10. Starts((a \o body) \o e, "?") /\ scanned(x, (a \o body) \o e) \in Idle(d)
  BY <1>2, <1>3, <1>4, <1>5, <1>6, <1>7, <1>8, <1>9, RunScanned DEF e
<1>11. QED
  BY <1>1, <1>6, <1>10 DEF a

LEMMA RunOfOne == ASSUME NEW S, NEW a \in S PROVE <<a>> \in Seq(S)
  OBVIOUS

LEMMA TextScanned ==
  ASSUME NEW d \in Nat, NEW x \in Idle(d), NEW t \in Seq(Byte \ {"<"})
  PROVE  scanned(x, t) \in Idle(d)
<1> DEFINE X == Idle(d)
<1>1. x \in X /\ Len(t) \in Nat /\ \A i \in 1 .. Len(t), y \in X : feed(y, t[i]) \in X
  <2>1. ASSUME NEW i \in 1 .. Len(t), NEW y \in X PROVE feed(y, t[i]) \in X
    <3>1. t[i] \in Byte \ {"<"}
      OBVIOUS
    <3>2. QED
      BY <3>1, IdleBytes
  <2>2. QED
    BY <2>1
<1> HIDE DEF X
<1>2. scanned(x, t) \in X
  BY <1>1, ScannedWithin
<1>3. QED
  BY <1>2 DEF X

-----------------------------------------------------------------------------
\* The scanner is between two tokens, at the peer's depth, and has bytes of a document
\* whenever the peer has an element open.
ApartInv ==
  /\ depth \in Nat /\ tokens \in Nat /\ written \in Nat
  /\ scanner \in Idle(depth) /\ returned = written
  /\ begun \in BOOLEAN /\ (begun => tokens > 0) /\ (depth > 0 => begun)
  /\ over = "cleanly" => ~begun

LEMMA IdleAtFirst == newScanner \in Idle(0)
<1>1. <<>> \in Seq(Byte)
  OBVIOUS
<1>2. QED
  BY <1>1 DEF newScanner, Idle, Placed, ScanRec

LEMMA ApartStart == StreamInit => ApartInv
<1> HAVE StreamInit
<1>1. depth = 0 /\ tokens = 0 /\ written = 0 /\ scanner = newScanner /\ begun = FALSE /\ returned = 0 /\ over = "no"
  BY DEF StreamInit
<1>2. scanner \in Idle(depth) /\ ~(over = "cleanly") /\ ~(depth > 0)
  BY <1>1, IdleAtFirst
<1>3. QED
  BY <1>1, <1>2 DEF ApartInv

\* A token that leaves the scanner where it found it, but for the depth.
LEMMA Stays ==
  ASSUME ApartInv, over = "no", NEW bytes, NEW deeper \in {0, 1}, depth + deeper > 0 \/ bytes \notin EmptyTags \cup Closing,
         Put(bytes, deeper), scanned(scanner, bytes) \in Idle(depth + deeper),
         deeper = 1 => bytes[1] = "<" /\ bytes \in Seq(Byte) /\ Len(bytes) >= 2
  PROVE  ApartInv'
<1> DEFINE s == scanned(scanner, bytes)
           closed == depth + deeper = 0 /\ bytes \in EmptyTags \cup Closing
<1>1. ~s.ended /\ s \in Idle(depth + deeper)
  BY DEF Idle, Placed
<1>2. /\ depth' = depth + deeper
      /\ written' = IF closed THEN written + 1 ELSE written
      /\ tokens' = IF closed THEN 0 ELSE tokens + 1
      /\ over' = over
  BY DEF Put
<1>3. scanner' = s /\ begun' = (begun \/ \E b \in ToSet(bytes) : b # White) /\ returned' = returned
  BY <1>1 DEF Put, ReadDocument
<1>4. depth \in Nat /\ ~closed
  BY DEF ApartInv
<1> HIDE DEF closed, s
<1>5. depth' \in Nat /\ written' = written /\ tokens' = tokens + 1
  BY <1>2, <1>4
<1>6. deeper = 1 => begun'
  <2> HAVE deeper = 1
  <2>1. bytes[1] = "<" /\ bytes[1] # White /\ Len(bytes) \in Nat /\ Len(bytes) >= 2
    <3>1. bytes[1] = "<" /\ bytes \in Seq(Byte) /\ Len(bytes) >= 2
      BY Zenon
    <3>2. Len(bytes) \in Nat
      BY <3>1
    <3>3. QED
      BY <3>1, <3>2 DEF White
  <2>2. 1 \in 1 .. Len(bytes)
    BY <2>1
  <2>3. bytes[1] \in ToSet(bytes)
    BY <2>2 DEF ToSet
  <2>4. QED
    BY <1>3, <2>1, <2>3
<1>7. deeper = 0 /\ depth' > 0 => begun'
  <2> HAVE deeper = 0 /\ depth' > 0
  <2>1. depth > 0
    BY <1>2, <1>4
  <2>2. QED
    BY <1>3, <2>1 DEF ApartInv
<1>8. begun' \in BOOLEAN /\ (begun' => tokens' > 0) /\ tokens' \in Nat
  BY <1>3, <1>5 DEF ApartInv
<1>9. QED
  BY <1>1, <1>2, <1>3, <1>5, <1>6, <1>7, <1>8 DEF ApartInv, s

\* A tag that closes the root.
LEMMA Returns ==
  ASSUME ApartInv, over = "no", NEW bytes \in EmptyTags \cup Closing, NEW deeper \in {-1, 0}, depth + deeper = 0,
         Put(bytes, deeper), scanned(scanner, bytes).ended
  PROVE  ApartInv'
<1>1. depth' = 0 /\ written' = written + 1 /\ tokens' = 0 /\ over' = over
  BY DEF Put
<1>2. scanner' = newScanner /\ begun' = FALSE /\ returned' = returned + 1
  BY DEF Put, ReadDocument
<1>3. scanner' \in Idle(depth') /\ ~(depth' > 0)
  BY <1>1, <1>2, IdleAtFirst
<1>4. written' \in Nat /\ returned' = written'
  BY <1>1, <1>2 DEF ApartInv
<1>5. over' # "cleanly"
  BY <1>1
<1>6. begun' = FALSE
  BY <1>2
<1>7. depth' \in Nat /\ tokens' \in Nat
  BY <1>1
<1>8. QED
  BY <1>3, <1>4, <1>5, <1>6, <1>7 DEF ApartInv

\* A closing tag that leaves the root open.
LEMMA Rises ==
  ASSUME ApartInv, over = "no", NEW bytes, depth > 1, Put(bytes, -1), scanned(scanner, bytes) \in Idle(depth - 1)
  PROVE  ApartInv'
<1> DEFINE s == scanned(scanner, bytes)
<1>1. ~s.ended /\ depth \in Nat
  BY DEF Idle, Placed, ApartInv
<1>2. depth' = depth + -1 /\ over' = over
  BY DEF Put
<1>3. depth + -1 = depth - 1 /\ depth - 1 # 0 /\ depth - 1 \in Nat /\ depth - 1 > 0 /\ depth > 0
  BY <1>1
<1>4. written' = written /\ tokens' = tokens + 1
  BY <1>3 DEF Put
<1>5. scanner' = s /\ begun' = (begun \/ \E b \in ToSet(bytes) : b # White) /\ returned' = returned
  BY <1>1 DEF Put, ReadDocument
<1>6. begun
  BY <1>3 DEF ApartInv
<1>7. scanner' \in Idle(depth')
  BY <1>2, <1>3, <1>5
<1>8. depth' \in Nat /\ tokens' \in Nat /\ tokens' > 0 /\ written' \in Nat /\ returned' = written' /\ over' # "cleanly"
  BY <1>2, <1>3, <1>4, <1>5 DEF ApartInv
<1>9. begun' = TRUE
  BY <1>5, <1>6
<1>10. QED
  BY <1>7, <1>8, <1>9 DEF ApartInv

LEMMA ApartStep == NoneCutShort /\ ApartInv /\ [StreamNext]_streamVars => ApartInv'
<1> SUFFICES ASSUME NoneCutShort, ApartInv, [StreamNext]_streamVars PROVE ApartInv'
  OBVIOUS
<1>1. depth \in Nat /\ scanner \in Idle(depth) /\ depth + 0 = depth
  BY DEF ApartInv
<1>2. CASE Opens
  <2>1. PICK t \in Opening : Put(t, 1)
    BY <1>2 DEF Opens
  <2>2. Starts(t, Letter) /\ scanned(scanner, t) \in Idle(depth + 1)
    BY <1>1, OpeningScanned
  <2>3. over = "no" /\ depth + 1 > 0
    BY <1>1, <1>2 DEF Opens, MayWrite
  <2>4. QED
    BY <2>1, <2>2, <2>3, Stays DEF Starts
<1>3. CASE Empty
  <2>1. PICK t \in EmptyTags : Put(t, 0)
    BY <1>3 DEF Empty
  <2>2. (depth = 0 => scanned(scanner, t).ended) /\ (depth > 0 => scanned(scanner, t) \in Idle(depth))
    BY <1>1, EmptyScanned
  <2>3. over = "no"
    BY <1>3 DEF Empty, MayWrite
  <2>4. CASE depth = 0
    BY <1>1, <2>1, <2>2, <2>3, <2>4, Returns
  <2>5. CASE depth > 0
    BY <1>1, <2>1, <2>2, <2>3, <2>5, Stays
  <2>6. QED
    BY <1>1, <2>4, <2>5
<1>4. CASE Close
  <2>1. PICK t \in Closing : Put(t, -1)
    BY <1>4 DEF Close
  <2>2. over = "no" /\ depth > 0
    BY <1>4 DEF Close
  <2>3. (depth = 1 => scanned(scanner, t).ended) /\ (depth > 1 => scanned(scanner, t) \in Idle(depth - 1))
    BY <1>1, <2>2, ClosingScanned
  <2>4. CASE depth = 1
    <3>1. depth + -1 = 0
      BY <2>4
    <3>2. QED
      BY <2>1, <2>2, <2>3, <2>4, <3>1, Returns
  <2>5. CASE depth > 1
    BY <2>1, <2>2, <2>3, <2>5, Rises
  <2>6. QED
    BY <1>1, <2>2, <2>4, <2>5
<1>5. CASE Content
  <2>1. PICK t \in CharTexts \cup Data \cup Comments \cup PIs : Put(t, 0)
    BY <1>5 DEF Content
  <2>2. over = "no" /\ depth + 0 > 0
    BY <1>1, <1>5 DEF Content, MayWrite
  <2>3. t \in CharTexts => t \in Seq(Byte \ {"<"})
    BY LegalXML
  <2>4. scanned(scanner, t) \in Idle(depth)
    BY <1>1, <2>3, TextScanned, DataScanned, CommentScanned, InstructionScanned
  <2>5. QED
    BY <1>1, <2>1, <2>2, <2>4, Stays
<1>6. CASE Misc
  <2>1. PICK t \in {<<White>>} \cup Comments \cup PIs : Put(t, 0)
    BY <1>6 DEF Misc
  <2>2. over = "no" /\ depth = 0
    BY <1>6 DEF Misc, MayWrite
  <2>3. \A u \in EmptyTags \cup Closing : Len(u) >= 2 /\ u[2] \in {Letter, "/"}
    <3>1. \A u \in EmptyTags : Starts(u, Letter)
      BY IdleAtFirst, EmptyScanned
    <3>2. \A u \in Closing : Len(u) >= 2 /\ u[2] = "/"
      <4> TAKE u \in Closing
      <4>1. PICK end \in TagEnds : u = <<"<", "/", Letter>> \o end
        BY DEF Closing
      <4> DEFINE a == <<"<", "/", Letter>>
      <4>2. "<" \in Byte /\ "/" \in Byte /\ Letter \in Byte /\ White \in Byte /\ ">" \in Byte
        BY DEF Byte
      <4>3. a \in Seq(Byte) /\ Len(a) >= 2 /\ a[1] = "<" /\ a[2] = "/" /\ u = a \o end
        BY <4>1, <4>2, ScannedThree
      <4>4. end \in Seq(Byte)
        BY <4>2, ByteRun, ScannedTwo DEF TagEnds
      <4> HIDE DEF a
      <4>5. QED
        BY <4>2, <4>3, <4>4, JoinedStart
    <3>3. QED
      BY <3>1, <3>2 DEF Starts
  <2>4. t = <<White>> => Len(t) = 1
    OBVIOUS
  <2>5. (t \in Comments => Starts(t, "!")) /\ (t \in PIs => Starts(t, "?"))
    BY <1>1, CommentScanned, InstructionScanned
  <2>6. t \notin EmptyTags \cup Closing
    BY <2>1, <2>3, <2>4, <2>5 DEF Starts, Letter
  <2>7. t = <<White>> => t \in Seq(Byte \ {"<"})
    <3>1. White \in Byte \ {"<"}
      BY DEF Byte, White
    <3>2. QED
      BY <3>1, RunOfOne
  <2>8. scanned(scanner, t) \in Idle(depth)
    BY <1>1, <2>1, <2>7, TextScanned, CommentScanned, InstructionScanned
  <2>9. QED
    BY <1>1, <2>1, <2>2, <2>6, <2>8, Stays
<1>7. CASE Ends
  BY <1>7 DEF Ends, ApartInv
<1>8. CASE UNCHANGED streamVars
  BY <1>8 DEF streamVars, ApartInv
<1>9. QED
  BY <1>2, <1>3, <1>4, <1>5, <1>6, <1>7, <1>8 DEF StreamNext, Rests

\* Documents that ride back to back come apart where the peer ended them, for every
\* legal one but those with a comment that begins with ">" or "->" (ReadDocument).
THEOREM DocumentsApart == NoneCutShort => (StreamSpec => []DocumentsComeApart)
<1> SUFFICES ASSUME NoneCutShort PROVE StreamSpec => []DocumentsComeApart
  OBVIOUS
<1>1. ApartInv => DocumentsComeApart
  BY DEF ApartInv, DocumentsComeApart
<1>2. ApartInv /\ [StreamNext]_streamVars => ApartInv'
  BY ApartStep
<1>3. QED
  BY <1>1, <1>2, ApartStart, PTL DEF StreamSpec

=================================================================================
