---------------------- MODULE MercenaryContractsProofs ----------------------
(***************************************************************************)
(* Theorems about MercenaryContracts, for any number of employers, bots,   *)
(* groups and contracts, any length of the delays and any purse: the       *)
(* contracts, the groups and the money have their types; a bot serves one  *)
(* employer; a contract that no hook has marked is backed by a group; no   *)
(* group is used after its deletion; and a refund ends its contract.       *)
(*                                                                         *)
(* The handlers are nested operators on a world, so that the proof follows *)
(* them: what each operator returns, given a world that it may be called   *)
(* in (Fit), is such a world again, and names the contracts that are left. *)
(* Group::Disband and the dismissals go over lists, and their folds are    *)
(* undone place by place (FoldExists, DismissSteps, UnlinkSteps).          *)
(***************************************************************************)
EXTENDS MercenaryContracts, FiniteSetTheorems, SequenceTheorems, WellFoundedInduction, TLAPS

-----------------------------------------------------------------------------
(* Numbers, sequences and folds.                                           *)

(* A set of numbers that is not empty has a smallest one.                  *)
LEMMA Smallest ==
    ASSUME NEW S \in SUBSET Nat, S # {}
    PROVE  \E x \in S : \A y \in S : x <= y
<1>1. PICK x \in S : \A y \in S : <<y, x>> \notin OpToRel(<, Nat)
    BY NatLessThanWellFounded, WFMin
<1>2. \A y \in S : ~(y < x)
    BY <1>1 DEF OpToRel
<1> QED
    BY <1>2

(* What holds of 0, and of i + 1 if it holds of i, holds up to n.          *)
LEMMA Induction ==
    ASSUME NEW n \in Nat, NEW holds, holds[0],
           \A i \in 0 .. n - 1 : holds[i] => holds[i + 1]
    PROVE  \A i \in 0 .. n : holds[i]
<1> DEFINE wrong == {i \in 0 .. n : ~holds[i]}
<1> SUFFICES ASSUME wrong # {}
             PROVE  FALSE
    OBVIOUS
<1>0. wrong \in SUBSET Nat
    OBVIOUS
<1>1. PICK i \in wrong : \A j \in wrong : i <= j
    BY <1>0, Smallest
<1>2. i - 1 \in 0 .. n - 1 /\ i - 1 \notin wrong
    BY <1>1
<1> QED
    BY <1>1, <1>2

(* Max of 1 .. n.                                                          *)
LEMMA MaxOfInterval ==
    ASSUME NEW n \in Nat \ {0}, NEW S \in SUBSET (1 .. n), n \in S
    PROVE  Max(S) = n
<1>1. \A x \in S : n >= x
    OBVIOUS
<1>2. \A x \in S : (\A y \in S : x >= y) => x = n
    OBVIOUS
<1> QED
    BY <1>1, <1>2 DEF Max

(* The first places of a sequence.                                       *)
LEMMA FirstPart ==
    ASSUME NEW S, NEW q \in Seq(S), NEW m \in 0 .. Len(q)
    PROVE  /\ SubSeq(q, 1, m) \in Seq(S) /\ Len(SubSeq(q, 1, m)) = m
           /\ \A i \in 1 .. m : SubSeq(q, 1, m)[i] = q[i]
<1>1. m \in Int /\ m \in Nat /\ 1 \in Int /\ \A i \in 1 .. m : q[i] \in S
    OBVIOUS
<1>2. /\ SubSeq(q, 1, m) \in Seq(S)
      /\ Len(SubSeq(q, 1, m)) = IF 1 <= m THEN m - 1 + 1 ELSE 0
      /\ \A i \in 1 .. m - 1 + 1 : SubSeq(q, 1, m)[i] = q[1 + i - 1]
    BY <1>1, SubSeqProperties
<1>3. m - 1 + 1 = m /\ (~(1 <= m) => m = 0) /\ \A i \in 1 .. m : 1 + i - 1 = i
    BY <1>1
<1> QED
    BY <1>2, <1>3

(* The others.                                                             *)
LEMMA LastPart ==
    ASSUME NEW S, NEW q \in Seq(S), NEW m \in 0 .. Len(q)
    PROVE  /\ SubSeq(q, m + 1, Len(q)) \in Seq(S)
           /\ Len(SubSeq(q, m + 1, Len(q))) = Len(q) - m
           /\ \A i \in 1 .. Len(q) - m : SubSeq(q, m + 1, Len(q))[i] = q[m + i]
<1> DEFINE n == Len(q)
           r == SubSeq(q, m + 1, n)
<1>1. m + 1 \in Int /\ n \in Int /\ m \in Int /\ m <= n /\ \A i \in m + 1 .. n : q[i] \in S
    OBVIOUS
<1> HIDE DEF n
<1>2. /\ r \in Seq(S)
      /\ Len(r) = IF m + 1 <= n THEN n - (m + 1) + 1 ELSE 0
      /\ \A i \in 1 .. n - (m + 1) + 1 : r[i] = q[(m + 1) + i - 1]
    BY <1>1, SubSeqProperties
<1> HIDE DEF r
<1>3. /\ n - (m + 1) + 1 = n - m /\ (~(m + 1 <= n) => n - m = 0)
      /\ \A i \in 1 .. n - m : (m + 1) + i - 1 = m + i
    BY <1>1
<1>4. r \in Seq(S) /\ Len(r) = n - m /\ \A i \in 1 .. n - m : r[i] = q[m + i]
    BY <1>2, <1>3
<1> QED
    BY <1>4 DEF n, r


-----------------------------------------------------------------------------
(* The list without a socket.                                              *)


(* The smallest number of a set that is not empty.                         *)
LEMMA MinOfSet ==
    ASSUME NEW T \in SUBSET Nat, T # {}
    PROVE  Min(T) \in T
<1>1. \E x \in T : \A y \in T : x <= y
    BY Smallest
<1> QED
    BY <1>1 DEF Min

-----------------------------------------------------------------------------
(* Sequences and folds.                                                    *)

(* A sequence without its element at n.                                    *)
LEMMA RemoveAtFacts ==
    ASSUME NEW S, NEW q \in Seq(S), NEW n \in 1 .. Len(q)
    PROVE  /\ RemoveAt(q, n) \in Seq(S)
           /\ Len(RemoveAt(q, n)) = Len(q) - 1
           /\ \A i \in 1 .. Len(q) - 1 :
                RemoveAt(q, n)[i] = IF i < n THEN q[i] ELSE q[i + 1]
<1> DEFINE before == SubSeq(q, 1, n - 1)
           after == SubSeq(q, n + 1, Len(q))
           r == before \o after
<1>1. Len(q) \in Nat
    OBVIOUS
<1>2. /\ before \in Seq(S) /\ Len(before) = n - 1
      /\ \A i \in 1 .. n - 1 : before[i] = q[i]
  <2>1. n - 1 \in 0 .. Len(q)
      BY <1>1
  <2> QED
      BY <2>1, FirstPart
<1>3. /\ after \in Seq(S) /\ Len(after) = Len(q) - n
      /\ \A i \in 1 .. Len(q) - n : after[i] = q[n + i]
  <2>1. n \in 0 .. Len(q)
      BY <1>1
  <2> QED
      BY <2>1, LastPart
<1>4. RemoveAt(q, n) = r
    BY DEF RemoveAt
<1> HIDE DEF before, after
<1>5. r \in Seq(S) /\ Len(r) = Len(before) + Len(after)
    BY <1>2, <1>3, ConcatProperties
<1>6. \A i \in 1 .. Len(q) - 1 : r[i] = IF i < n THEN q[i] ELSE q[i + 1]
  <2> SUFFICES ASSUME NEW i \in 1 .. Len(q) - 1
               PROVE  r[i] = IF i < n THEN q[i] ELSE q[i + 1]
      OBVIOUS
  <2>1. i \in 1 .. Len(before) + Len(after) /\ Len(before) = n - 1
      BY <1>1, <1>2, <1>3
  <2>2. r[i] = IF i <= Len(before) THEN before[i] ELSE after[i - Len(before)]
      BY <1>2, <1>3, <2>1, ConcatProperties
  <2>3. CASE i < n
      BY <1>1, <1>2, <2>1, <2>2, <2>3
  <2>4. CASE ~(i < n)
    <3>1. r[i] = after[i - (n - 1)]
        BY <1>1, <2>1, <2>2, <2>4
    <3>2. i - (n - 1) \in 1 .. Len(q) - n /\ n + (i - (n - 1)) = i + 1
        BY <1>1, <2>4
    <3> QED
        BY <1>3, <2>4, <3>1, <3>2
  <2> QED
      BY <2>3, <2>4
<1> HIDE DEF r
<1> QED
    BY <1>1, <1>2, <1>3, <1>4, <1>5, <1>6

(* What the places of a sequence without its element at n hold.            *)
LEMMA RemoveAtPlaces ==
    ASSUME NEW S, NEW q \in Seq(S), NEW n \in 1 .. Len(q)
    PROVE  \E f \in [DOMAIN RemoveAt(q, n) -> DOMAIN q \ {n}] :
                /\ \A i \in DOMAIN RemoveAt(q, n) : RemoveAt(q, n)[i] = q[f[i]]
                /\ \A i, j \in DOMAIN RemoveAt(q, n) : f[i] = f[j] => i = j
                /\ \A j \in DOMAIN q \ {n} : \E i \in DOMAIN RemoveAt(q, n) : f[i] = j
<1> DEFINE r == RemoveAt(q, n)
           f == [i \in 1 .. Len(q) - 1 |-> IF i < n THEN i ELSE i + 1]
<1>1. /\ r \in Seq(S) /\ Len(r) = Len(q) - 1
      /\ \A i \in 1 .. Len(q) - 1 : r[i] = IF i < n THEN q[i] ELSE q[i + 1]
    BY RemoveAtFacts
<1> HIDE DEF r
<1>2. DOMAIN r = 1 .. Len(q) - 1 /\ DOMAIN q = 1 .. Len(q) /\ Len(q) \in Nat
    BY <1>1
<1>3. f \in [DOMAIN r -> DOMAIN q \ {n}]
    BY <1>2
<1>4. \A i \in DOMAIN r : r[i] = q[f[i]]
    BY <1>1, <1>2
<1>5. \A i, j \in DOMAIN r : f[i] = f[j] => i = j
    BY <1>2
<1>6. ASSUME NEW j \in DOMAIN q \ {n}
      PROVE  \E i \in DOMAIN r : f[i] = j
  <2>1. CASE j < n
      BY <1>2, <2>1
  <2>2. CASE j > n
    <3>1. j - 1 \in DOMAIN r /\ f[j - 1] = j
        BY <1>2, <2>2
    <3> QED
        BY <3>1
  <2> QED
      BY <1>2, <2>1, <2>2
<1> HIDE DEF f
<1> QED
    BY <1>3, <1>4, <1>5, <1>6 DEF r

(* Nothing but e leaves a sequence when e is removed from it.              *)
LEMMA RemoveFirstFacts ==
    ASSUME NEW S, NEW q \in Seq(S), NEW e
    PROVE  /\ RemoveFirst(q, e) \in Seq(S)
           /\ \A x \in ToSet(q) \ {e} : x \in ToSet(RemoveFirst(q, e))
           /\ ToSet(RemoveFirst(q, e)) \subseteq ToSet(q)
<1>1. CASE ~ \E i \in 1 .. Len(q) : q[i] = e
    BY <1>1 DEF RemoveFirst
<1>2. CASE \E i \in 1 .. Len(q) : q[i] = e
  <2> DEFINE places == {i \in 1 .. Len(q) : q[i] = e}
             n == Min(places)
             r == RemoveAt(q, n)
  <2>1. places \in SUBSET Nat /\ places # {}
      BY <1>2
  <2>2. n \in places
    <3> HIDE DEF places
    <3> QED
        BY <2>1, MinOfSet
  <2>3. RemoveFirst(q, e) = r
      BY <1>2, <2>1 DEF RemoveFirst, SelectInSeq
  <2>4. n \in 1 .. Len(q) /\ q[n] = e
      BY <2>2
  <2> HIDE DEF n
  <2>5. r \in Seq(S)
      BY <2>4, RemoveAtFacts
  <2>6. PICK f \in [DOMAIN r -> DOMAIN q \ {n}] :
                /\ \A i \in DOMAIN r : r[i] = q[f[i]]
                /\ \A j \in DOMAIN q \ {n} : \E i \in DOMAIN r : f[i] = j
      BY <2>4, RemoveAtPlaces
  <2> HIDE DEF r
  <2>7. ASSUME NEW x \in ToSet(q) \ {e}
        PROVE  x \in ToSet(r)
    <3>1. PICK j \in DOMAIN q : q[j] = x
        BY DEF ToSet
    <3>2. PICK i \in DOMAIN r : f[i] = j
        BY <2>4, <2>6, <3>1
    <3> QED
        BY <2>6, <3>1, <3>2 DEF ToSet
  <2>8. ASSUME NEW x \in ToSet(r)
        PROVE  x \in ToSet(q)
    <3>1. PICK j \in DOMAIN r : r[j] = x
        BY DEF ToSet
    <3>2. f[j] \in DOMAIN q /\ q[f[j]] = x
        BY <2>6, <3>1
    <3> QED
        BY <3>2 DEF ToSet
  <2> QED
      BY <2>3, <2>5, <2>7, <2>8
<1> QED
    BY <1>1, <1>2

(* it folds F over the elements of q at the places in D, as FoldLeft does. *)
IsFold(it, F, base, q, D) ==
    \A P \in SUBSET D :
        it[P] = IF P = {} THEN base ELSE F[<<it[P \ {Max(P)}], q[Max(P)]>>]

(* There is such a fold when F keeps to a set.                             *)
LEMMA FoldExists ==
    ASSUME NEW W, NEW C, NEW F \in [W \X C -> W], NEW base \in W, NEW q \in Seq(C)
    PROVE  \E it \in [SUBSET (1 .. Len(q)) -> W] : IsFold(it, F, base, q, 1 .. Len(q))
<1> DEFINE n == Len(q)
           Folded(i) == \E it \in [SUBSET (1 .. i) -> W] : IsFold(it, F, base, q, 1 .. i)
           holds == [i \in 0 .. n |-> Folded(i)]
<1>1. n \in Nat /\ \A i \in 1 .. n : q[i] \in C
    OBVIOUS
<1>2. holds[0]
  <2>1. [P \in SUBSET (1 .. 0) |-> base] \in [SUBSET (1 .. 0) -> W]
      OBVIOUS
  <2>2. \A P \in SUBSET (1 .. 0) : P = {}
      OBVIOUS
  <2>3. IsFold([P \in SUBSET (1 .. 0) |-> base], F, base, q, 1 .. 0)
      BY <2>2 DEF IsFold
  <2>4. Folded(0)
      BY <2>1, <2>3
  <2> HIDE DEF Folded
  <2> QED
      BY <1>1, <2>4
<1>3. ASSUME NEW i \in 0 .. n - 1, holds[i]
      PROVE  holds[i + 1]
  <2>1. PICK it \in [SUBSET (1 .. i) -> W] : IsFold(it, F, base, q, 1 .. i)
    <3> HIDE DEF Folded
    <3>1. Folded(i)
        BY <1>1, <1>3
    <3> QED
        BY <3>1 DEF Folded
  <2> DEFINE m == i + 1
             grown == [P \in SUBSET (1 .. m) |->
                         IF m \in P THEN F[<<it[P \ {m}], q[m]>>] ELSE it[P]]
  <2>2. m \in 1 .. n /\ q[m] \in C
      BY <1>1
  <2>3. \A P \in SUBSET (1 .. m) : m \notin P => P \in SUBSET (1 .. i)
      OBVIOUS
  <2>4. \A P \in SUBSET (1 .. m) : P \ {m} \in SUBSET (1 .. i)
      OBVIOUS
  <2>5. \A P \in SUBSET (1 .. m) : m \in P => Max(P) = m
      BY <2>2, MaxOfInterval
  <2>6. \A P \in SUBSET (1 .. m) : m \in P => P # {} /\ grown[P \ {m}] = it[P \ {m}]
      OBVIOUS
  <2>7. \A P \in SUBSET (1 .. i) :
            it[P] = IF P = {} THEN base ELSE F[<<it[P \ {Max(P)}], q[Max(P)]>>]
      BY <2>1 DEF IsFold
  <2>8. \A P \in SUBSET (1 .. m) : m \notin P => P \ {Max(P)} \in SUBSET (1 .. m)
                                                 /\ m \notin P \ {Max(P)}
      OBVIOUS
  <2>9. ASSUME NEW P \in SUBSET (1 .. m)
        PROVE  grown[P] = IF P = {} THEN base ELSE F[<<grown[P \ {Max(P)}], q[Max(P)]>>]
    <3>1. CASE m \in P
        BY <2>5, <2>6, <3>1
    <3>2. CASE m \notin P
      <4>1. grown[P] = it[P] /\ grown[P \ {Max(P)}] = it[P \ {Max(P)}]
          BY <2>8, <3>2
      <4> QED
          BY <2>3, <2>7, <3>2, <4>1
    <3> QED
        BY <3>1, <3>2
  <2>10. grown \in [SUBSET (1 .. m) -> W]
    <3> SUFFICES ASSUME NEW P \in SUBSET (1 .. m)
                 PROVE  (IF m \in P THEN F[<<it[P \ {m}], q[m]>>] ELSE it[P]) \in W
        OBVIOUS
    <3>1. CASE m \in P
      <4>1. it[P \ {m}] \in W
          BY <2>1, <2>4
      <4> HIDE DEF m
      <4> QED
          BY <2>2, <3>1, <4>1
    <3>2. CASE m \notin P
        BY <2>1, <2>3, <3>2
    <3> QED
        BY <3>1, <3>2
  <2> HIDE DEF grown
  <2>11. IsFold(grown, F, base, q, 1 .. m)
      BY <2>9 DEF IsFold
  <2>12. Folded(m) /\ m \in 0 .. n
      BY <1>1, <2>2, <2>10, <2>11
  <2> HIDE DEF Folded
  <2> QED
      BY <2>12
<1> HIDE DEF n, holds, Folded
<1>4. holds[n]
  <2>1. \A i \in 0 .. n - 1 : holds[i] => holds[i + 1]
      BY <1>3
  <2>2. \A i \in 0 .. n : holds[i]
      BY <1>1, <1>2, <2>1, Induction
  <2> QED
      BY <1>1, <2>2
<1>5. Folded(n)
    BY <1>1, <1>4 DEF holds
<1> QED
    BY <1>5 DEF n, Folded

(* The largest number of a set of places.                                  *)
LEMMA MaxOfSet ==
    ASSUME NEW n \in Nat, NEW P \in SUBSET (1 .. n), P # {}
    PROVE  Max(P) \in P
<1> DEFINE T == {n - x : x \in P}
<1>1. T \in SUBSET Nat /\ T # {}
  <2>1. \A x \in P : n - x \in Nat
      OBVIOUS
  <2> QED
      BY <2>1
<1>2. \E y \in T : \A z \in T : y <= z
  <2> HIDE DEF T
  <2> QED
      BY <1>1, Smallest
<1>3. PICK x \in P : \A z \in P : n - x <= n - z
    BY <1>2
<1>4. \A z \in P : x >= z
    BY <1>3
<1> QED
    BY <1>3, <1>4 DEF Max

(* The first i places and the last of them.                                *)
LEMMA FirstPlaces ==
    ASSUME NEW n \in Nat, NEW i \in 1 .. n
    PROVE  /\ 1 .. i \in SUBSET (1 .. n) /\ 1 .. i # {}
           /\ Max(1 .. i) = i /\ (1 .. i) \ {i} = 1 .. i - 1
<1>1. 1 .. i \in SUBSET (1 .. n) /\ i \in 1 .. i /\ (1 .. i) \ {i} = 1 .. i - 1
    OBVIOUS
<1>2. i \in Nat \ {0} /\ 1 .. i \in SUBSET (1 .. i)
    OBVIOUS
<1>3. Max(1 .. i) = i
    BY <1>1, <1>2, MaxOfInterval
<1> QED
    BY <1>1, <1>3

(* No account is under two contracts of a list.                            *)
Single(q) == \A i, j \in DOMAIN q : q[i].account = q[j].account => i = j

(* What a player points at, or its row names, is a group that lists it.    *)
Listed(p) ==
    \A m \in Players :
        /\ p.of[m] # NoGroup => IsMember(p, p.of[m], m)
        /\ p.row[m] # NoGroup => IsMember(p, p.row[m], m)

(* Both parties of an active contract that is not marked are in one group. *)
Backed(q, p) ==
    \A c \in ToSet(q) :
        c.stage = "active" /\ ~c.pending =>
            \E g \in Groups : IsMember(p, g, c.owner) /\ IsMember(p, g, c.account)

Worlds ==
    [contracts : Seq(Contract), sessions : [Accounts -> Session], party : Party,
     freed : {FALSE}]

(* A world that the handlers may be called in.                             *)
Sound(w) ==
    /\ w \in Worlds
    /\ Single(w.contracts)
    /\ Listed(w.party)
    /\ Backed(w.contracts, w.party)

(* Who is not connected points at no group.                                *)
Loose(w) == \A m \in Players \ Online(w) : w.party.of[m] = NoGroup

(* The mercenaries that an owner has paid for, or was offered, and awaits. *)
Awaited(q, o) ==
    {a \in Accounts : \E c \in ToSet(q) :
        c.account = a /\ c.owner = o /\ c.stage = "summoning"}


-----------------------------------------------------------------------------
(* The contracts that a dismissal keeps.                                   *)

KeptOf(chosen, kept, c) == IF c \in chosen THEN kept ELSE Append(kept, c)

IsKeptFold(it, chosen, q, D) ==
    it = [P \in SUBSET D |->
            IF P = {} THEN <<>>
            ELSE KeptOf(chosen, it[P \ {Max(P)}], q[Max(P)])]

(* Contract by contract.                                                   *)
LEMMA KeptSteps ==
    ASSUME NEW chosen, NEW q \in Seq(Contract)
    PROVE  \E h : /\ h[0] = <<>>
                  /\ \A i \in 1 .. Len(q) : h[i] = KeptOf(chosen, h[i - 1], q[i])
                  /\ Kept(q, chosen) = h[Len(q)]
<1> DEFINE n == Len(q)
           W == Seq(Contract)
           F == [x \in W \X Contract |-> KeptOf(chosen, x[1], x[2])]
           it == CHOOSE it : IsKeptFold(it, chosen, q, DOMAIN q)
           h == [i \in 0 .. n |-> it[1 .. i]]
<1>1. n \in Nat /\ DOMAIN q = 1 .. n /\ \A i \in 1 .. n : q[i] \in Contract
    OBVIOUS
<1>2. F \in [W \X Contract -> W] /\ <<>> \in W
    BY DEF KeptOf
<1>3. \A kept \in W, c \in Contract : F[<<kept, c>>] = KeptOf(chosen, kept, c)
    OBVIOUS
<1> HIDE DEF W, F
<1>4. \E x : IsKeptFold(x, chosen, q, DOMAIN q)
  <2>1. PICK x \in [SUBSET (1 .. n) -> W] : IsFold(x, F, <<>>, q, 1 .. n)
      BY <1>2, FoldExists
  <2> HIDE DEF n
  <2>2. ASSUME NEW P \in SUBSET (1 .. n)
        PROVE  x[P] = IF P = {} THEN <<>>
                      ELSE KeptOf(chosen, x[P \ {Max(P)}], q[Max(P)])
    <3>1. CASE P = {}
        BY <2>1, <3>1 DEF IsFold
    <3>2. CASE P # {}
      <4>1. Max(P) \in 1 .. n
          BY <1>1, <3>2, MaxOfSet
      <4>2. x[P \ {Max(P)}] \in W /\ q[Max(P)] \in Contract
          BY <1>1, <2>1, <4>1
      <4>3. x[P] = F[<<x[P \ {Max(P)}], q[Max(P)]>>]
          BY <2>1, <3>2 DEF IsFold
      <4> QED
          BY <1>3, <3>2, <4>2, <4>3
    <3> QED
        BY <3>1, <3>2
  <2>3. x = [P \in SUBSET (1 .. n) |-> x[P]]
      BY <2>1
  <2>4. IsKeptFold(x, chosen, q, 1 .. n)
      BY <2>2, <2>3 DEF IsKeptFold
  <2> QED
      BY <1>1, <2>4
<1>5. Kept(q, chosen) = it[DOMAIN q]
    BY DEF Kept, FoldLeft, MapThenFoldSet, IsKeptFold, KeptOf
<1>6. IsKeptFold(it, chosen, q, DOMAIN q)
    BY <1>4
<1> HIDE DEF it, n
<1>7. \A P \in SUBSET (1 .. n) :
            it[P] = IF P = {} THEN <<>>
                    ELSE KeptOf(chosen, it[P \ {Max(P)}], q[Max(P)])
    BY <1>1, <1>6 DEF IsKeptFold
<1>8. it[1 .. 0] = <<>>
  <2>1. 1 .. 0 = {}
      OBVIOUS
  <2> QED
      BY <1>7, <2>1
<1>9. \A i \in 1 .. n : it[1 .. i] = KeptOf(chosen, it[1 .. i - 1], q[i])
    BY <1>1, <1>7, FirstPlaces
<1>10. /\ h[0] = <<>> /\ Kept(q, chosen) = h[n]
       /\ \A i \in 1 .. n : h[i] = KeptOf(chosen, h[i - 1], q[i])
    BY <1>1, <1>5, <1>8, <1>9
<1> QED
    BY <1>10 DEF n

(* They are those that are not chosen, in their order.                     *)
LEMMA KeptFacts ==
    ASSUME NEW chosen, NEW q \in Seq(Contract), Single(q)
    PROVE  /\ Kept(q, chosen) \in Seq(Contract) /\ Single(Kept(q, chosen))
           /\ ToSet(Kept(q, chosen)) = {c \in ToSet(q) : c \notin chosen}
<1> DEFINE n == Len(q)
<1>1. n \in Nat /\ DOMAIN q = 1 .. n /\ \A i \in 1 .. n : q[i] \in Contract
    OBVIOUS
<1>2. PICK h : /\ h[0] = <<>>
               /\ \A i \in 1 .. n : h[i] = KeptOf(chosen, h[i - 1], q[i])
               /\ Kept(q, chosen) = h[n]
    BY KeptSteps
<1> DEFINE Good(i) == /\ h[i] \in Seq(Contract) /\ Single(h[i])
                      /\ ToSet(h[i]) = {c \in Contract :
                            c \notin chosen /\ \E j \in 1 .. i : q[j] = c}
           holds == [i \in 0 .. n |-> Good(i)]
<1>3. holds[0]
  <2>1. h[0] = <<>> /\ <<>> \in Seq(Contract) /\ DOMAIN <<>> = {} /\ 1 .. 0 = {}
      BY <1>2
  <2>2. ToSet(h[0]) = {} /\ Single(h[0])
      BY <2>1 DEF ToSet, Single
  <2>3. Good(0)
      BY <2>1, <2>2
  <2> QED
      BY <1>1, <2>3
<1>4. ASSUME NEW i \in 0 .. n - 1, holds[i]
      PROVE  holds[i + 1]
  <2> DEFINE m == i + 1
             c == q[m]
             o == h[i]
  <2>1. /\ m \in 1 .. n /\ m - 1 = i /\ c \in Contract
        /\ \A j \in 1 .. m : j \in 1 .. i \/ j = m
        /\ \A j \in 1 .. i : j \in 1 .. m /\ j # m /\ j \in 1 .. n
      BY <1>1
  <2>2. h[m] = IF c \in chosen THEN o ELSE Append(o, c)
      BY <1>2, <2>1 DEF KeptOf
  <2>3. /\ o \in Seq(Contract) /\ Single(o)
        /\ ToSet(o) = {d \in Contract : d \notin chosen /\ \E j \in 1 .. i : q[j] = d}
      BY <1>1, <1>4
  <2>4. \A j \in 1 .. i : q[j].account # c.account
      BY <1>1, <2>1 DEF Single
  <2> HIDE DEF o, c, m
  <2>5. CASE c \in chosen
    <3>1. \A d \in Contract : d \notin chosen =>
            ((\E j \in 1 .. m : q[j] = d) <=> (\E j \in 1 .. i : q[j] = d))
        BY <2>1, <2>5 DEF c
    <3>2. {d \in Contract : d \notin chosen /\ \E j \in 1 .. m : q[j] = d} = ToSet(o)
        BY <2>3, <3>1
    <3>3. Good(m)
        BY <2>2, <2>3, <2>5, <3>2
    <3> QED
        BY <2>1, <3>3 DEF m
  <2>6. CASE c \notin chosen
    <3>1. /\ Append(o, c) \in Seq(Contract)
          /\ DOMAIN Append(o, c) = 1 .. Len(o) + 1 /\ DOMAIN o = 1 .. Len(o)
          /\ Len(o) \in Nat
          /\ \A j \in 1 .. Len(o) : Append(o, c)[j] = o[j]
          /\ Append(o, c)[Len(o) + 1] = c
        BY <2>1, <2>3
    <3>2. \A j \in 1 .. Len(o) : o[j].account # c.account
      <4> SUFFICES ASSUME NEW j \in 1 .. Len(o)
                   PROVE  o[j].account # c.account
          OBVIOUS
      <4>1. o[j] \in ToSet(o)
          BY <3>1 DEF ToSet
      <4> QED
          BY <2>3, <2>4, <4>1
    <3>3. Single(Append(o, c))
      <4> SUFFICES ASSUME NEW j \in 1 .. Len(o) + 1, NEW k \in 1 .. Len(o) + 1,
                          Append(o, c)[j].account = Append(o, c)[k].account
                   PROVE  j = k
          BY <3>1 DEF Single
      <4>1. CASE j \in 1 .. Len(o) /\ k \in 1 .. Len(o)
          BY <2>3, <3>1, <4>1 DEF Single
      <4>2. CASE j = Len(o) + 1 /\ k \in 1 .. Len(o)
          BY <3>1, <3>2, <4>2
      <4>3. CASE j \in 1 .. Len(o) /\ k = Len(o) + 1
          BY <3>1, <3>2, <4>3
      <4>4. \A x \in 1 .. Len(o) + 1 : x \in 1 .. Len(o) \/ x = Len(o) + 1
          BY <3>1
      <4> QED
          BY <4>1, <4>2, <4>3, <4>4
    <3>4. ToSet(Append(o, c)) = ToSet(o) \cup {c}
        BY <3>1 DEF ToSet
    <3>5. \A d : (\E j \in 1 .. m : q[j] = d) <=> (\E j \in 1 .. i : q[j] = d) \/ d = c
        BY <2>1 DEF c
    <3>6. {d \in Contract : d \notin chosen /\ \E j \in 1 .. m : q[j] = d} = ToSet(o) \cup {c}
        BY <2>1, <2>3, <2>6, <3>5
    <3>7. h[m] = Append(o, c)
        BY <2>2, <2>6
    <3>8. Good(m)
        BY <3>1, <3>3, <3>4, <3>6, <3>7
    <3> QED
        BY <2>1, <3>8 DEF m
  <2> QED
      BY <2>5, <2>6
<1>5. Good(n)
  <2>1. n \in Nat
      BY <1>1
  <2> HIDE DEF n, holds
  <2>2. \A i \in 0 .. n - 1 : holds[i] => holds[i + 1]
      BY <1>4
  <2>3. \A i \in 0 .. n : holds[i]
      BY <1>3, <2>1, <2>2, Induction
  <2>4. holds[n]
      BY <2>1, <2>3
  <2> QED
      BY <2>1, <2>4 DEF holds
<1>6. {c \in Contract : c \notin chosen /\ \E j \in 1 .. n : q[j] = c}
        = {c \in ToSet(q) : c \notin chosen}
    BY <1>1 DEF ToSet
<1> QED
    BY <1>2, <1>5, <1>6

-----------------------------------------------------------------------------
(* What the methods of a group do to a party.                              *)

(* The members of a group that the slots of p list.                        *)
Members(p, g) == ToSet(p.slots[g])

(* No player of q points at a group that the player of p does not.         *)
Unties(p, q) == \A m \in Players : q.of[m] \in {p.of[m], NoGroup}

(* The fields of a party.                                                  *)
LEMMA PartyFields ==
    ASSUME NEW p \in Party
    PROVE  /\ p.slots \in [Groups -> Seq(Players)]
           /\ p.leader \in [Groups -> Players \cup {Nobody}]
           /\ p.of \in [Players -> Groups \cup {NoGroup}]
           /\ p.original \in [Players -> Groups \cup {NoGroup}]
           /\ p.row \in [Players -> Groups \cup {NoGroup}]
    BY DEF Party

(* Contains, for a slot list.                                            *)
LEMMA MemberOf ==
    ASSUME NEW p, p.slots \in [Groups -> Seq(Players)], NEW g \in Groups, NEW m
    PROVE  IsMember(p, g, m) <=> m \in Members(p, g)
<1>1. p.slots[g] \in Seq(Players)
    OBVIOUS
<1>2. DOMAIN p.slots[g] = 1 .. Len(p.slots[g])
    BY <1>1
<1> QED
    BY <1>2 DEF IsMember, Contains, Members, ToSet

(* What is listed, with Members.                                           *)
LEMMA ListedMembers ==
    ASSUME NEW p \in Party
    PROVE  Listed(p) <=> \A m \in Players :
                            /\ p.of[m] # NoGroup => m \in Members(p, p.of[m])
                            /\ p.row[m] # NoGroup => m \in Members(p, p.row[m])
    BY PartyFields, MemberOf DEF Listed

(* A member more.                                                          *)
LEMMA AppendMembers ==
    ASSUME NEW S, NEW q \in Seq(S), NEW e \in S
    PROVE  Append(q, e) \in Seq(S) /\ ToSet(Append(q, e)) = ToSet(q) \cup {e}
<1>1. /\ Append(q, e) \in Seq(S)
      /\ DOMAIN Append(q, e) = 1 .. Len(q) + 1 /\ DOMAIN q = 1 .. Len(q)
      /\ Len(q) \in Nat
      /\ \A j \in 1 .. Len(q) : Append(q, e)[j] = q[j]
      /\ Append(q, e)[Len(q) + 1] = e
    OBVIOUS
<1> QED
    BY <1>1 DEF ToSet

(* Group::AddMember adds a member, and loses nobody.                       *)
LEMMA AddMemberFacts ==
    ASSUME NEW p \in Party, NEW g \in Groups, NEW m \in Players, Listed(p)
    PROVE  /\ AddMember(p, g, m) \in Party
           /\ Listed(AddMember(p, g, m))
           /\ \A h \in Groups : Members(p, h) \subseteq Members(AddMember(p, g, m), h)
           /\ m \in Members(AddMember(p, g, m), g)
           /\ \A x \in Players \ {m} : AddMember(p, g, m).of[x] = p.of[x]
<1> DEFINE q == AddMember(p, g, m)
           s == Append(p.slots[g], m)
           slots == [p.slots EXCEPT ![g] = s]
           of == [p.of EXCEPT ![m] = IF @ = NoGroup THEN g ELSE @]
           original == [p.original EXCEPT ![m] = IF p.of[m] = NoGroup THEN @ ELSE g]
           row == [p.row EXCEPT ![m] = IF @ = NoGroup THEN g ELSE @]
<1>0. q = [p EXCEPT !.slots = slots, !.of = of, !.original = original, !.row = row]
    BY PartyFields DEF AddMember
<1>1. s \in Seq(Players) /\ ToSet(s) = Members(p, g) \cup {m}
    BY PartyFields, AppendMembers DEF Members
<1> HIDE DEF q, s
<1>2. /\ slots \in [Groups -> Seq(Players)]
      /\ of \in [Players -> Groups \cup {NoGroup}]
      /\ original \in [Players -> Groups \cup {NoGroup}]
      /\ row \in [Players -> Groups \cup {NoGroup}]
      /\ \A x \in Players : of[x] = p.of[x] \/ (x = m /\ of[x] = g)
      /\ \A x \in Players : row[x] = p.row[x] \/ (x = m /\ row[x] = g)
      /\ \A h \in Groups : slots[h] = IF h = g THEN s ELSE p.slots[h]
    BY <1>1, PartyFields
<1> HIDE DEF slots, of, original, row
<1>3. q \in Party /\ q.slots = slots /\ q.of = of /\ q.row = row
  <2>1. q \in Party
      BY <1>0, <1>2, PartyFields DEF Party
  <2> QED
      BY <1>0, <2>1 DEF Party
<1>4. \A h \in Groups : Members(q, h) = IF h = g THEN Members(p, g) \cup {m} ELSE Members(p, h)
    BY <1>1, <1>2, <1>3 DEF Members
<1>5. ASSUME NEW x \in Players
      PROVE  /\ q.of[x] # NoGroup => x \in Members(q, q.of[x])
             /\ q.row[x] # NoGroup => x \in Members(q, q.row[x])
  <2>1. /\ p.of[x] # NoGroup => p.of[x] \in Groups /\ x \in Members(p, p.of[x])
        /\ p.row[x] # NoGroup => p.row[x] \in Groups /\ x \in Members(p, p.row[x])
      BY PartyFields, ListedMembers
  <2>2. /\ q.of[x] = p.of[x] \/ (x = m /\ q.of[x] = g)
        /\ q.row[x] = p.row[x] \/ (x = m /\ q.row[x] = g)
      BY <1>2, <1>3
  <2> QED
      BY <1>4, <2>1, <2>2
<1>6. Listed(q)
    BY <1>3, <1>5, ListedMembers
<1>7. \A x \in Players \ {m} : q.of[x] = p.of[x]
    BY <1>2, <1>3
<1> QED
    BY <1>3, <1>4, <1>6, <1>7 DEF q

(* Group::Create, of a group that does not exist.                          *)
LEMMA CreateFacts ==
    ASSUME NEW p \in Party, NEW g \in Groups, NEW m \in Players, Listed(p)
    PROVE  /\ Create(p, g, m) \in Party
           /\ Listed(Create(p, g, m))
           /\ \A h \in Groups : Members(p, h) \subseteq Members(Create(p, g, m), h)
           /\ m \in Members(Create(p, g, m), g)
           /\ \A x \in Players \ {m} : Create(p, g, m).of[x] = p.of[x]
<1> DEFINE leader == [p.leader EXCEPT ![g] = m]
           q == [p EXCEPT !.leader = leader]
<1>1. Create(p, g, m) = AddMember(q, g, m)
    BY PartyFields DEF Create
<1>2. leader \in [Groups -> Players \cup {Nobody}]
    BY PartyFields
<1> HIDE DEF leader
<1>3. q \in Party /\ q.slots = p.slots /\ q.of = p.of /\ q.row = p.row
  <2>1. q \in Party
      BY <1>2, PartyFields DEF Party
  <2> QED
      BY <2>1 DEF Party
<1> HIDE DEF q
<1>4. \A h \in Groups : Members(q, h) = Members(p, h)
    BY <1>3 DEF Members
<1>5. Listed(q)
    BY <1>3 DEF Listed, IsMember
<1> QED
    BY <1>1, <1>3, <1>4, <1>5, AddMemberFacts

(* What a player that leaves a group points at.                            *)
LEMMA UnlinkedFacts ==
    ASSUME NEW p \in Party, NEW g \in Groups, NEW m \in Players
    PROVE  /\ Unlinked(p, g, m) \in Party
           /\ Unlinked(p, g, m).slots = p.slots /\ Unlinked(p, g, m).row = p.row
           /\ Unlinked(p, g, m).leader = p.leader
           /\ Unties(p, Unlinked(p, g, m)) /\ Unlinked(p, g, m).of[m] # g
<1> DEFINE q == Unlinked(p, g, m)
           original == [p.original EXCEPT ![m] = IF @ = g THEN NoGroup ELSE @]
           of == [p.of EXCEPT ![m] = IF p.original[m] # g \/ @ = g THEN NoGroup ELSE @]
<1>1. q = [p EXCEPT !.original = original, !.of = of]
    BY PartyFields DEF Unlinked
<1> HIDE DEF q
<1>2. /\ of \in [Players -> Groups \cup {NoGroup}]
      /\ original \in [Players -> Groups \cup {NoGroup}]
      /\ \A x \in Players : of[x] \in {p.of[x], NoGroup}
      /\ of[m] # g
    BY PartyFields, GroupsAssumption
<1> HIDE DEF of, original
<1>3. q \in Party
    BY <1>1, <1>2, PartyFields DEF Party
<1>4. q.slots = p.slots /\ q.leader = p.leader /\ q.row = p.row /\ q.of = of
    BY <1>1, <1>3 DEF Party
<1>5. Unties(p, q)
    BY <1>2, <1>4 DEF Unties
<1> QED
    BY <1>2, <1>3, <1>4, <1>5 DEF q

(* The connected members of a group that is disbanded are unlinked.        *)
UnlinkOf(g, online, r, m) == IF m \in online THEN Unlinked(r, g, m) ELSE r

IsUnlinkFold(it, p, g, online, D) ==
    it = [P \in SUBSET D |->
            IF P = {} THEN p
            ELSE UnlinkOf(g, online, it[P \ {Max(P)}], p.slots[g][Max(P)])]

(* The party that Disband demolishes, the members being unlinked.          *)
Unlinking(p, g, online) ==
    FoldLeft(LAMBDA r, m : IF m \in online THEN Unlinked(r, g, m) ELSE r, p, p.slots[g])

(* Member by member.                                                       *)
LEMMA UnlinkSteps ==
    ASSUME NEW p \in Party, NEW g \in Groups, NEW online
    PROVE  LET q == p.slots[g] IN
           \E h : /\ h[0] = p
                  /\ \A i \in 1 .. Len(q) : h[i] = UnlinkOf(g, online, h[i - 1], q[i])
                  /\ Unlinking(p, g, online) = h[Len(q)]
<1> DEFINE q == p.slots[g]
           n == Len(q)
           F == [x \in Party \X Players |-> UnlinkOf(g, online, x[1], x[2])]
           it == CHOOSE it : IsUnlinkFold(it, p, g, online, DOMAIN q)
           h == [i \in 0 .. n |-> it[1 .. i]]
<1>1. /\ q \in Seq(Players) /\ n \in Nat /\ DOMAIN q = 1 .. n
      /\ \A i \in 1 .. n : q[i] \in Players
  <2>1. q \in Seq(Players)
      BY PartyFields
  <2> HIDE DEF q
  <2> QED
      BY <2>1
<1>2. F \in [Party \X Players -> Party]
  <2>1. \A x \in Party \X Players : UnlinkOf(g, online, x[1], x[2]) \in Party
      BY UnlinkedFacts DEF UnlinkOf
  <2> QED
      BY <2>1
<1>3. \A r \in Party, m \in Players : F[<<r, m>>] = UnlinkOf(g, online, r, m)
    OBVIOUS
<1> HIDE DEF F
<1>4. \E x : IsUnlinkFold(x, p, g, online, DOMAIN q)
  <2> HIDE DEF q
  <2>1. PICK x \in [SUBSET (1 .. n) -> Party] : IsFold(x, F, p, q, 1 .. n)
      BY <1>1, <1>2, FoldExists
  <2> HIDE DEF n
  <2>2. ASSUME NEW P \in SUBSET (1 .. n)
        PROVE  x[P] = IF P = {} THEN p
                      ELSE UnlinkOf(g, online, x[P \ {Max(P)}], q[Max(P)])
    <3>1. CASE P = {}
        BY <2>1, <3>1 DEF IsFold
    <3>2. CASE P # {}
      <4>1. Max(P) \in 1 .. n
          BY <1>1, <3>2, MaxOfSet
      <4>2. x[P \ {Max(P)}] \in Party /\ q[Max(P)] \in Players
          BY <1>1, <2>1, <4>1
      <4>3. x[P] = F[<<x[P \ {Max(P)}], q[Max(P)]>>]
          BY <2>1, <3>2 DEF IsFold
      <4> QED
          BY <1>3, <3>2, <4>2, <4>3
    <3> QED
        BY <3>1, <3>2
  <2>3. x = [P \in SUBSET (1 .. n) |-> x[P]]
      BY <2>1
  <2>4. IsUnlinkFold(x, p, g, online, 1 .. n)
      BY <2>2, <2>3 DEF IsUnlinkFold, q
  <2> QED
      BY <1>1, <2>4
<1>5. Unlinking(p, g, online) = it[DOMAIN q]
    BY DEF Unlinking, FoldLeft, MapThenFoldSet, IsUnlinkFold, UnlinkOf
<1>6. IsUnlinkFold(it, p, g, online, DOMAIN q)
    BY <1>4
<1> HIDE DEF it, n, q
<1>7. \A P \in SUBSET (1 .. n) :
            it[P] = IF P = {} THEN p
                    ELSE UnlinkOf(g, online, it[P \ {Max(P)}], q[Max(P)])
    BY <1>1, <1>6 DEF IsUnlinkFold, q
<1>8. it[1 .. 0] = p
  <2>1. 1 .. 0 = {}
      OBVIOUS
  <2> QED
      BY <1>7, <2>1
<1>9. \A i \in 1 .. n : it[1 .. i] = UnlinkOf(g, online, it[1 .. i - 1], q[i])
    BY <1>1, <1>7, FirstPlaces
<1>10. /\ h[0] = p /\ Unlinking(p, g, online) = h[n]
       /\ \A i \in 1 .. n : h[i] = UnlinkOf(g, online, h[i - 1], q[i])
    BY <1>1, <1>5, <1>8, <1>9
<1> QED
    BY <1>10 DEF n, q

(* The unlinked players point at what they did, or at nothing.             *)
LEMMA UnlinkingFacts ==
    ASSUME NEW p \in Party, NEW g \in Groups, NEW online
    PROVE  LET r == Unlinking(p, g, online) IN
           /\ r \in Party /\ r.slots = p.slots /\ r.row = p.row /\ Unties(p, r)
<1> DEFINE q == p.slots[g]
           n == Len(q)
<1>1. /\ n \in Nat /\ \A i \in 1 .. n : q[i] \in Players
  <2>1. q \in Seq(Players)
      BY PartyFields
  <2> HIDE DEF q
  <2> QED
      BY <2>1
<1>2. PICK h : /\ h[0] = p
               /\ \A i \in 1 .. n : h[i] = UnlinkOf(g, online, h[i - 1], q[i])
               /\ Unlinking(p, g, online) = h[n]
    BY UnlinkSteps
<1> HIDE DEF q
<1> DEFINE Good(r) == r \in Party /\ r.slots = p.slots /\ r.row = p.row /\ Unties(p, r)
           holds == [i \in 0 .. n |-> Good(h[i])]
<1>3. Good(p)
    BY DEF Unties
<1>4. ASSUME NEW r, Good(r), NEW m \in Players
      PROVE  Good(UnlinkOf(g, online, r, m))
  <2>1. CASE m \in online
    <3>1. Good(Unlinked(r, g, m))
        BY <1>4, UnlinkedFacts DEF Unties
    <3> QED
        BY <2>1, <3>1 DEF UnlinkOf
  <2>2. CASE m \notin online
      BY <1>4, <2>2 DEF UnlinkOf
  <2> QED
      BY <2>1, <2>2
<1> HIDE DEF Good, n
<1>5. holds[0]
    BY <1>1, <1>2, <1>3
<1>6. ASSUME NEW i \in 0 .. n - 1, holds[i]
      PROVE  holds[i + 1]
  <2>1. i + 1 \in 1 .. n /\ (i + 1) - 1 = i /\ i \in 0 .. n /\ i + 1 \in 0 .. n
      BY <1>1
  <2>2. Good(h[i])
      BY <1>6, <2>1
  <2>3. h[i + 1] = UnlinkOf(g, online, h[i], q[i + 1])
      BY <1>2, <2>1
  <2>4. Good(h[i + 1])
      BY <1>1, <1>4, <2>1, <2>2, <2>3
  <2> QED
      BY <2>1, <2>4
<1>7. Good(h[n])
  <2> HIDE DEF holds
  <2>1. \A i \in 0 .. n - 1 : holds[i] => holds[i + 1]
      BY <1>6
  <2>2. \A i \in 0 .. n : holds[i]
      BY <1>1, <1>5, <2>1, Induction
  <2>3. n \in 0 .. n /\ holds[n]
      BY <1>1, <2>2
  <2> QED
      BY <2>3 DEF holds
<1> QED
    BY <1>2, <1>7 DEF Good

(* Group::Disband empties a group; nobody else is touched.                 *)
LEMMA DisbandFacts ==
    ASSUME NEW p \in Party, NEW g \in Groups, NEW online, Listed(p)
    PROVE  /\ Disband(p, g, online) \in Party
           /\ Listed(Disband(p, g, online))
           /\ Unties(p, Disband(p, g, online))
           /\ \A h \in Groups \ {g} : Members(Disband(p, g, online), h) = Members(p, h)
<1> DEFINE q == Unlinking(p, g, online)
           d == Disband(p, g, online)
           Gone(f) == [m \in Players |-> IF f[m] = g THEN NoGroup ELSE f[m]]
<1>1. d = [slots |-> [q.slots EXCEPT ![g] = <<>>],
           leader |-> [q.leader EXCEPT ![g] = Nobody],
           of |-> Gone(q.of), original |-> Gone(q.original), row |-> Gone(q.row)]
    BY DEF Disband, Unlinking
<1>2. q \in Party /\ q.slots = p.slots /\ q.row = p.row /\ Unties(p, q)
    BY UnlinkingFacts
<1> HIDE DEF q, d
<1>3. /\ d.slots = [q.slots EXCEPT ![g] = <<>>] /\ d.of = Gone(q.of) /\ d.row = Gone(q.row)
    BY <1>1
<1>4. d \in Party
  <2>1. <<>> \in Seq(Players)
      OBVIOUS
  <2>2. /\ [q.slots EXCEPT ![g] = <<>>] \in [Groups -> Seq(Players)]
        /\ [q.leader EXCEPT ![g] = Nobody] \in [Groups -> Players \cup {Nobody}]
        /\ Gone(q.of) \in [Players -> Groups \cup {NoGroup}]
        /\ Gone(q.original) \in [Players -> Groups \cup {NoGroup}]
        /\ Gone(q.row) \in [Players -> Groups \cup {NoGroup}]
      BY <1>2, <2>1, PartyFields
  <2> HIDE DEF Gone
  <2> QED
      BY <1>1, <2>2 DEF Party
<1>5. \A h \in Groups \ {g} : Members(d, h) = Members(p, h)
    BY <1>2, <1>3, PartyFields DEF Members
<1>6. Unties(p, d)
    BY <1>2, <1>3 DEF Unties
<1>7. Listed(d)
  <2> SUFFICES ASSUME NEW x \in Players
               PROVE  /\ d.of[x] # NoGroup => x \in Members(d, d.of[x])
                      /\ d.row[x] # NoGroup => x \in Members(d, d.row[x])
      BY <1>4, ListedMembers
  <2>1. /\ p.of[x] # NoGroup => p.of[x] \in Groups /\ x \in Members(p, p.of[x])
        /\ p.row[x] # NoGroup => p.row[x] \in Groups /\ x \in Members(p, p.row[x])
      BY PartyFields, ListedMembers
  <2>2. /\ d.of[x] # NoGroup => d.of[x] = p.of[x] /\ d.of[x] # g
        /\ d.row[x] # NoGroup => d.row[x] = p.row[x] /\ d.row[x] # g
      BY <1>2, <1>3 DEF Unties
  <2> QED
      BY <1>5, <2>1, <2>2
<1> QED
    BY <1>4, <1>5, <1>6, <1>7 DEF d

(* The next leader is a player, or the leader there was.                   *)
LEMMA NextLeaderType ==
    ASSUME NEW p \in Party, NEW g \in Groups, NEW m, NEW online
    PROVE  NextLeader(p, g, m, online) \in Players \cup {Nobody}
<1> DEFINE rest == RemoveFirst(p.slots[g], m)
           connected == {i \in DOMAIN rest : rest[i] \in online}
<1>1. rest \in Seq(Players)
    BY PartyFields, RemoveFirstFacts
<1>2. NextLeader(p, g, m, online)
        = IF p.leader[g] = m /\ connected # {} THEN rest[Min(connected)] ELSE p.leader[g]
    BY DEF NextLeader
<1> HIDE DEF rest
<1>3. CASE connected # {}
  <2>1. DOMAIN rest = 1 .. Len(rest) /\ connected \in SUBSET Nat
      BY <1>1
  <2>2. Min(connected) \in connected
    <3> HIDE DEF connected
    <3> QED
        BY <1>3, <2>1, MinOfSet
  <2>3. rest[Min(connected)] \in Players
      BY <1>1, <2>2
  <2> QED
      BY <1>2, <2>3, PartyFields
<1> QED
    BY <1>2, <1>3, PartyFields

(* Group::RemoveMember takes one member from one group, and from nobody    *)
(* else what it points at.                                                 *)
LEMMA LeaveFacts ==
    ASSUME NEW p \in Party, NEW g \in Groups, NEW m \in Players, NEW online, Listed(p),
           m \notin online => p.of[m] = NoGroup
    PROVE  /\ Leave(p, g, m, online) \in Party
           /\ Listed(Leave(p, g, m, online))
           /\ Unties(p, Leave(p, g, m, online))
           /\ \A h \in Groups : Members(p, h) \ {m} \subseteq Members(Leave(p, g, m, online), h)
<1> DEFINE q == IF m \in online THEN Unlinked(p, g, m) ELSE p
           d == Leave(p, g, m, online)
           s == RemoveFirst(p.slots[g], m)
           slots == [p.slots EXCEPT ![g] = s]
           leader == [q.leader EXCEPT ![g] = NextLeader(p, g, m, online)]
           row == [p.row EXCEPT ![m] = NoGroup]
<1>1. /\ s \in Seq(Players)
      /\ \A x \in Members(p, g) \ {m} : x \in ToSet(s)
    BY PartyFields, RemoveFirstFacts DEF Members
<1>2. /\ q \in Party /\ q.slots = p.slots /\ q.row = p.row /\ Unties(p, q)
      /\ q.of[m] # g
    BY UnlinkedFacts, GroupsAssumption DEF Unties
<1>3. d = [q EXCEPT !.slots = slots, !.leader = leader, !.row = row]
  <2> HIDE DEF q
  <2>1. d = [q EXCEPT !.slots[g] = RemoveFirst(@, m),
                      !.leader[g] = NextLeader(p, g, m, online),
                      !.row[m] = NoGroup]
      BY DEF Leave, q
  <2> HIDE DEF d
  <2> QED
      BY <1>2, <2>1, PartyFields
<1> HIDE DEF q, d, s
<1>4. /\ slots \in [Groups -> Seq(Players)]
      /\ leader \in [Groups -> Players \cup {Nobody}]
      /\ row \in [Players -> Groups \cup {NoGroup}]
      /\ \A h \in Groups : slots[h] = IF h = g THEN s ELSE p.slots[h]
      /\ \A x \in Players : row[x] = IF x = m THEN NoGroup ELSE p.row[x]
    BY <1>1, <1>2, PartyFields, NextLeaderType
<1> HIDE DEF slots, leader, row
<1>5. d \in Party /\ d.slots = slots /\ d.of = q.of /\ d.row = row
  <2>1. d \in Party
      BY <1>2, <1>3, <1>4, PartyFields DEF Party
  <2> QED
      BY <1>2, <1>3, <2>1 DEF Party
<1>6. \A h \in Groups : Members(p, h) \ {m} \subseteq Members(d, h)
    BY <1>1, <1>4, <1>5 DEF Members
<1>7. \A h \in Groups \ {g} : Members(d, h) = Members(p, h)
    BY <1>4, <1>5 DEF Members
<1>8. Unties(p, d)
    BY <1>2, <1>5 DEF Unties
<1>9. Listed(d)
  <2> SUFFICES ASSUME NEW x \in Players
               PROVE  /\ d.of[x] # NoGroup => x \in Members(d, d.of[x])
                      /\ d.row[x] # NoGroup => x \in Members(d, d.row[x])
      BY <1>5, ListedMembers
  <2>1. /\ p.of[x] # NoGroup => p.of[x] \in Groups /\ x \in Members(p, p.of[x])
        /\ p.row[x] # NoGroup => p.row[x] \in Groups /\ x \in Members(p, p.row[x])
      BY PartyFields, ListedMembers
  <2>2. /\ d.of[x] # NoGroup => d.of[x] = p.of[x] /\ (x = m => d.of[x] # g)
        /\ d.row[x] # NoGroup => d.row[x] = p.row[x] /\ x # m
      BY <1>2, <1>4, <1>5 DEF Unties
  <2> QED
      BY <1>6, <1>7, <2>1, <2>2
<1> QED
    BY <1>5, <1>6, <1>8, <1>9 DEF d

(* A login reads the row, a logout forgets the pointers.                   *)
LEMMA LoadFacts ==
    ASSUME NEW p \in Party, NEW m \in Players, Listed(p)
    PROVE  /\ Load(p, m) \in Party /\ Listed(Load(p, m)) /\ Load(p, m).slots = p.slots
           /\ Load(p, m).of[m] = p.row[m]
           /\ \A x \in Players \ {m} : Load(p, m).of[x] = p.of[x]
<1> DEFINE q == Load(p, m)
           of == [p.of EXCEPT ![m] = p.row[m]]
<1>1. q = [p EXCEPT !.of = of]
    BY PartyFields DEF Load
<1> HIDE DEF q
<1>2. /\ of \in [Players -> Groups \cup {NoGroup}]
      /\ \A x \in Players : of[x] = IF x = m THEN p.row[m] ELSE p.of[x]
    BY PartyFields
<1> HIDE DEF of
<1>3. q \in Party
    BY <1>1, <1>2, PartyFields DEF Party
<1>4. q.slots = p.slots /\ q.of = of /\ q.row = p.row
    BY <1>1, <1>3 DEF Party
<1>5. Listed(q)
    BY <1>2, <1>4 DEF Listed, IsMember
<1> QED
    BY <1>2, <1>3, <1>4, <1>5 DEF q

(* A player that is deleted points at nothing; its slot and row stay.    *)
LEMMA UnloadFacts ==
    ASSUME NEW p \in Party, NEW m \in Players, Listed(p)
    PROVE  /\ Unload(p, m) \in Party /\ Listed(Unload(p, m)) /\ Unload(p, m).slots = p.slots
           /\ Unties(p, Unload(p, m)) /\ Unload(p, m).of[m] = NoGroup
<1> DEFINE q == Unload(p, m)
           of == [p.of EXCEPT ![m] = NoGroup]
           original == [p.original EXCEPT ![m] = NoGroup]
<1>1. q = [p EXCEPT !.of = of, !.original = original]
    BY PartyFields DEF Unload
<1> HIDE DEF q
<1>2. /\ of \in [Players -> Groups \cup {NoGroup}]
      /\ original \in [Players -> Groups \cup {NoGroup}]
      /\ \A x \in Players : of[x] = IF x = m THEN NoGroup ELSE p.of[x]
    BY PartyFields
<1> HIDE DEF of, original
<1>3. q \in Party
    BY <1>1, <1>2, PartyFields DEF Party
<1>4. q.slots = p.slots /\ q.of = of /\ q.row = p.row
    BY <1>1, <1>3 DEF Party
<1>5. Listed(q)
    BY <1>2, <1>4 DEF Listed, IsMember
<1>6. Unties(p, q)
    BY <1>2, <1>4 DEF Unties
<1> QED
    BY <1>2, <1>3, <1>4, <1>5, <1>6 DEF q

-----------------------------------------------------------------------------
(* Worlds.                                                                 *)

Fit(w) == Sound(w) /\ Loose(w)

(* The types of the fields.                                              *)
LEMMA WorldFields ==
    ASSUME NEW w \in Worlds
    PROVE  /\ w.contracts \in Seq(Contract) /\ w.sessions \in [Accounts -> Session]
           /\ w.party \in Party /\ w.freed = FALSE
    BY DEF Worlds

(* A world with other groups.                                            *)
LEMMA NewParty ==
    ASSUME NEW w \in Worlds, NEW p \in Party
    PROVE  LET v == [w EXCEPT !.party = p] IN
           /\ v \in Worlds /\ v.contracts = w.contracts /\ v.sessions = w.sessions
           /\ v.party = p
    BY DEF Worlds

(* A world with other contracts.                                         *)
LEMMA NewContracts ==
    ASSUME NEW w \in Worlds, NEW q \in Seq(Contract)
    PROVE  LET v == [w EXCEPT !.contracts = q] IN
           /\ v \in Worlds /\ v.contracts = q /\ v.sessions = w.sessions
           /\ v.party = w.party
    BY DEF Worlds

(* A world with other sessions.                                          *)
LEMMA NewSessions ==
    ASSUME NEW w \in Worlds, NEW s \in [Accounts -> Session]
    PROVE  LET v == [w EXCEPT !.sessions = s] IN
           /\ v \in Worlds /\ v.contracts = w.contracts /\ v.sessions = s
           /\ v.party = w.party
    BY DEF Worlds

(* Who is connected.                                                       *)
LEMMA OnlineFacts ==
    ASSUME NEW w, NEW x \in Players
    PROVE  /\ x \in Owners => (x \in Online(w) <=> place[x] # "out")
           /\ x \in Accounts => (x \in Online(w) <=> Playing(w, x))
           /\ x \in Owners \/ x \in Accounts
    BY ContractsAssumption DEF Online

(* Who points at nothing does so still.                                    *)
LEMMA StayLoose ==
    ASSUME NEW w, NEW v, Loose(w), Unties(w.party, v.party),
           \A x \in Players : x \in Online(w) => x \in Online(v)
    PROVE  Loose(v)
    BY DEF Loose, Unties

(* Contracts are backed by the members they name.                          *)
LEMMA BackedMembers ==
    ASSUME NEW q, NEW p \in Party
    PROVE  Backed(q, p) <=> \A c \in ToSet(q) :
                c.stage = "active" /\ ~c.pending =>
                    \E g \in Groups : c.owner \in Members(p, g) /\ c.account \in Members(p, g)
    BY PartyFields, MemberOf DEF Backed

(* The contracts of a list.                                                *)
LEMMA ContractFields ==
    ASSUME NEW q \in Seq(Contract), NEW c \in ToSet(q)
    PROVE  /\ c \in Contract /\ c.account \in Accounts /\ c.owner \in Owners
           /\ c.account \in Players /\ c.owner \in Players /\ c.account # c.owner
           /\ c.account \notin Owners
<1>1. c \in Contract
    BY DEF ToSet
<1> QED
    BY <1>1, ContractsAssumption DEF Contract

(* A group with three members counts more than two.                        *)
LEMMA ThreeMembers ==
    ASSUME NEW q \in Seq(Players), NEW x \in ToSet(q), NEW y \in ToSet(q), NEW z \in ToSet(q),
           x # y, y # z, x # z
    PROVE  Len(q) > 2
<1>1. DOMAIN q = 1 .. Len(q) /\ Len(q) \in Nat
    OBVIOUS
<1>2. \E i, j, k \in 1 .. Len(q) : q[i] = x /\ q[j] = y /\ q[k] = z
    BY <1>1 DEF ToSet
<1>3. \E i, j, k \in 1 .. Len(q) : i # j /\ j # k /\ i # k
    BY <1>2
<1> QED
    BY <1>1, <1>3

(* Group::RemoveMember past its hook: no contract names the player.        *)
LEMMA RemoveUnhookedFacts ==
    ASSUME NEW w, Fit(w), NEW g \in Groups, NEW m \in Members(w.party, g), m \in Players,
           \A c \in ToSet(w.contracts) : c.owner # m /\ c.account # m
    PROVE  LET v == RemoveUnhooked(w, g, m) IN
           Fit(v) /\ v.contracts = w.contracts /\ v.sessions = w.sessions
<1> DEFINE p == w.party
           online == Online(w)
           left == IF MembersCount(p, g) > 2 THEN Leave(p, g, m, online) ELSE Disband(p, g, online)
           v == RemoveUnhooked(w, g, m)
<1>1. v = [w EXCEPT !.party = left]
    BY DEF RemoveUnhooked
<1>2. /\ w \in Worlds /\ p \in Party /\ Listed(p) /\ Backed(w.contracts, p) /\ Loose(w)
      /\ Single(w.contracts) /\ w.contracts \in Seq(Contract)
    BY WorldFields DEF Fit, Sound
<1>3. m \notin online => p.of[m] = NoGroup
    BY <1>2 DEF Loose
<1>4. ASSUME NEW c \in ToSet(w.contracts), NEW h \in Groups,
             c.owner \in Members(p, h), c.account \in Members(p, h)
      PROVE  c.owner \in Members(left, h) /\ c.account \in Members(left, h)
  <2>1. c.owner # m /\ c.account # m /\ c.owner # c.account
      BY <1>2, ContractFields
  <2>2. CASE MembersCount(p, g) > 2
      BY <1>2, <1>3, <1>4, <2>1, <2>2, LeaveFacts
  <2>3. CASE ~(MembersCount(p, g) > 2)
    <3>1. h # g
      <4>1. p.slots[g] \in Seq(Players) /\ ~(Len(p.slots[g]) > 2)
          BY <1>2, <2>3, PartyFields DEF MembersCount
      <4> QED
          BY <1>4, <2>1, <4>1, ThreeMembers DEF Members
    <3> QED
        BY <1>2, <1>4, <2>3, <3>1, DisbandFacts
  <2> QED
      BY <2>2, <2>3
<1>5. left \in Party /\ Listed(left) /\ Unties(p, left)
    BY <1>2, <1>3, LeaveFacts, DisbandFacts
<1> HIDE DEF left, v
<1>6. v \in Worlds /\ v.contracts = w.contracts /\ v.sessions = w.sessions /\ v.party = left
    BY <1>1, <1>2, <1>5, NewParty
<1>7. Backed(v.contracts, left)
    BY <1>2, <1>4, <1>5, <1>6, BackedMembers
<1>8. Loose(v)
  <2>1. \A x \in Players : x \in Online(w) => x \in Online(v)
      BY <1>6 DEF Online, Playing
  <2> QED
      BY <1>2, <1>5, <1>6, <2>1, StayLoose
<1> QED
    BY <1>2, <1>5, <1>6, <1>7, <1>8 DEF Fit, Sound, v

(* WorldSession::LogoutPlayer of a bot.                                    *)
LEMMA LogoutBotFacts ==
    ASSUME NEW w, Fit(w), NEW a \in Accounts
    PROVE  LET v == LogoutBot(w, a) IN Fit(v) /\ v.contracts = w.contracts
<1> DEFINE s == [player |-> "none",
                 schedule |-> IF w.sessions[a].schedule = "online" THEN "online" ELSE "none"]
           sessions1 == [w.sessions EXCEPT ![a] = s]
           p == Unload(w.party, a)
           v == LogoutBot(w, a)
<1>1. /\ w \in Worlds /\ w.party \in Party /\ Listed(w.party) /\ Backed(w.contracts, w.party)
      /\ Loose(w) /\ Single(w.contracts) /\ w.sessions \in [Accounts -> Session]
    BY WorldFields DEF Fit, Sound
<1>2. a \in Players /\ a \notin Owners
    BY ContractsAssumption
<1>3. /\ p \in Party /\ Listed(p) /\ p.slots = w.party.slots
      /\ Unties(w.party, p) /\ p.of[a] = NoGroup
    BY <1>1, <1>2, UnloadFacts
<1>4. v = [w EXCEPT !.party = p, !.sessions = sessions1]
    BY <1>1 DEF LogoutBot
<1>5. sessions1 \in [Accounts -> Session] /\ \A x \in Accounts \ {a} : sessions1[x] = w.sessions[x]
    BY <1>1 DEF Session
<1> HIDE DEF p, v, sessions1
<1>6. v \in Worlds /\ v.contracts = w.contracts /\ v.sessions = sessions1 /\ v.party = p
    BY <1>1, <1>3, <1>4, <1>5 DEF Worlds
<1>7. Backed(v.contracts, p)
    BY <1>1, <1>3, <1>6 DEF Backed, IsMember
<1>8. Loose(v)
  <2> SUFFICES ASSUME NEW x \in Players, x \notin Online(v)
               PROVE  p.of[x] = NoGroup
      BY <1>6 DEF Loose
  <2>1. CASE x = a
      BY <1>3, <2>1
  <2>2. CASE x # a
    <3>1. x \notin Online(w)
        BY <1>5, <1>6, <2>2, OnlineFacts DEF Playing
    <3> QED
        BY <1>1, <1>3, <3>1 DEF Loose, Unties
  <2> QED
      BY <2>1, <2>2
<1> QED
    BY <1>1, <1>3, <1>6, <1>7, <1>8 DEF Fit, Sound, v

(* ReleaseBot, of a bot whose contract is out of the list.                 *)
LEMMA ReleaseBotFacts ==
    ASSUME NEW w, Fit(w), NEW c \in Contract,
           \A d \in ToSet(w.contracts) : d.account # c.account
    PROVE  LET v == ReleaseBot(w, c) IN Fit(v) /\ v.contracts = w.contracts
<1> DEFINE a == c.account
           g == w.party.of[a]
           left == IF InWorld(w, a) /\ g # NoGroup THEN RemoveUnhooked(w, g, a) ELSE w
           v == ReleaseBot(w, c)
<1>1. /\ w \in Worlds /\ w.party \in Party /\ Listed(w.party) /\ Backed(w.contracts, w.party)
      /\ Loose(w) /\ Single(w.contracts) /\ w.sessions \in [Accounts -> Session]
      /\ w.contracts \in Seq(Contract)
    BY WorldFields DEF Fit, Sound
<1>2. a \in Accounts /\ a \in Players /\ a \notin Owners
    BY ContractsAssumption DEF Contract
<1>3. v = IF Playing(w, a) THEN LogoutBot(left, a)
                           ELSE [w EXCEPT !.sessions[a].schedule = "none"]
    BY DEF ReleaseBot
<1>4. Fit(left) /\ left.contracts = w.contracts
  <2>1. CASE InWorld(w, a) /\ g # NoGroup
    <3>1. g \in Groups /\ a \in Members(w.party, g)
        BY <1>1, <1>2, <2>1, PartyFields, ListedMembers
    <3>2. \A d \in ToSet(w.contracts) : d.owner # a /\ d.account # a
        BY <1>1, <1>2, ContractFields
    <3>3. Fit(RemoveUnhooked(w, g, a)) /\ RemoveUnhooked(w, g, a).contracts = w.contracts
      <4> HIDE DEF g, a
      <4> QED
          BY <1>2, <3>1, <3>2, RemoveUnhookedFacts
    <3> QED
        BY <2>1, <3>3
  <2>2. CASE ~(InWorld(w, a) /\ g # NoGroup)
      BY <2>2
  <2> QED
      BY <2>1, <2>2
<1> HIDE DEF left, v
<1>5. CASE Playing(w, a)
  <2> HIDE DEF a
  <2> QED
      BY <1>2, <1>3, <1>4, <1>5, LogoutBotFacts DEF v
<1>6. CASE ~Playing(w, a)
  <2> DEFINE sessions1 == [w.sessions EXCEPT ![a].schedule = "none"]
  <2>1. v = [w EXCEPT !.sessions = sessions1]
      BY <1>1, <1>3, <1>6
  <2>2. /\ sessions1 \in [Accounts -> Session]
        /\ \A x \in Accounts : sessions1[x].player = w.sessions[x].player
      BY <1>1, <1>2 DEF Session
  <2> HIDE DEF sessions1
  <2>3. /\ v \in Worlds /\ v.contracts = w.contracts /\ v.sessions = sessions1
        /\ v.party = w.party
      BY <1>1, <2>1, <2>2, NewSessions
  <2>4. Loose(v)
    <3>1. \A x \in Players : x \in Online(w) => x \in Online(v)
        BY <2>2, <2>3 DEF Online, Playing
    <3>2. Unties(w.party, v.party)
        BY <2>3 DEF Unties
    <3> QED
        BY <1>1, <3>1, <3>2, StayLoose
  <2> QED
      BY <1>1, <2>3, <2>4 DEF Fit, Sound, v
<1> QED
    BY <1>5, <1>6

-----------------------------------------------------------------------------
(* Dismissals.                                                             *)

ReleaseOf(chosen, v, c) == IF c \in chosen THEN ReleaseBot(v, c) ELSE v

IsReleaseFold(it, w, chosen, D) ==
    it = [P \in SUBSET D |->
            IF P = {} THEN [w EXCEPT !.contracts = Kept(@, chosen)]
            ELSE ReleaseOf(chosen, it[P \ {Max(P)}], w.contracts[Max(P)])]

(* The worlds that a dismissal goes through.                               *)
Through(w, chosen) == {v \in Worlds : Fit(v) /\ v.contracts = Kept(w.contracts, chosen)}

(* No chosen contract is as one that is kept.                              *)
LEMMA ReleaseStays ==
    ASSUME NEW w, Fit(w), NEW chosen, NEW v \in Through(w, chosen),
           NEW c \in ToSet(w.contracts)
    PROVE  ReleaseOf(chosen, v, c) \in Through(w, chosen)
<1>1. w.contracts \in Seq(Contract) /\ Single(w.contracts)
    BY WorldFields DEF Fit, Sound
<1>2. ToSet(v.contracts) = {d \in ToSet(w.contracts) : d \notin chosen}
    BY <1>1, KeptFacts DEF Through
<1>3. CASE c \in chosen
  <2>1. c \in Contract
      BY <1>1, ContractFields
  <2>2. \A d \in ToSet(v.contracts) : d.account # c.account
    <3> SUFFICES ASSUME NEW d \in ToSet(v.contracts), d.account = c.account
                 PROVE  FALSE
        OBVIOUS
    <3>1. d \in ToSet(w.contracts) /\ d # c
        BY <1>2, <1>3
    <3>2. PICK i \in DOMAIN w.contracts, j \in DOMAIN w.contracts :
                w.contracts[i] = d /\ w.contracts[j] = c
        BY <3>1 DEF ToSet
    <3> QED
        BY <1>1, <3>1, <3>2 DEF Single
  <2>3. Fit(ReleaseBot(v, c)) /\ ReleaseBot(v, c).contracts = v.contracts
      BY <2>1, <2>2, ReleaseBotFacts DEF Through
  <2> QED
      BY <1>3, <2>3 DEF Through, ReleaseOf, Fit, Sound
<1>4. CASE c \notin chosen
    BY <1>4 DEF ReleaseOf
<1> QED
    BY <1>3, <1>4

(* Contracts that leave a list take nothing from the others.               *)
LEMMA FewerContracts ==
    ASSUME NEW w, Fit(w), NEW q \in Seq(Contract), Single(q),
           ToSet(q) \subseteq ToSet(w.contracts)
    PROVE  LET v == [w EXCEPT !.contracts = q] IN
           /\ Fit(v) /\ v.contracts = q /\ v.sessions = w.sessions /\ v.party = w.party
<1> DEFINE v == [w EXCEPT !.contracts = q]
<1>1. v \in Worlds /\ v.contracts = q /\ v.sessions = w.sessions /\ v.party = w.party
    BY NewContracts DEF Fit, Sound
<1> HIDE DEF v
<1>2. Backed(q, w.party)
    BY DEF Fit, Sound, Backed
<1>3. Loose(v)
  <2>1. \A x \in Players : x \in Online(w) => x \in Online(v)
      BY <1>1 DEF Online, Playing
  <2> QED
      BY <1>1, <2>1, StayLoose DEF Fit, Unties
<1> QED
    BY <1>1, <1>2, <1>3 DEF Fit, Sound, v

(* Where a dismissal begins.                                               *)
LEMMA DismissBegins ==
    ASSUME NEW w, Fit(w), NEW chosen
    PROVE  [w EXCEPT !.contracts = Kept(@, chosen)] \in Through(w, chosen)
<1>1. w \in Worlds /\ w.contracts \in Seq(Contract) /\ Single(w.contracts)
    BY WorldFields DEF Fit, Sound
<1> DEFINE q == Kept(w.contracts, chosen)
<1>2. q \in Seq(Contract) /\ Single(q) /\ ToSet(q) \subseteq ToSet(w.contracts)
    BY <1>1, KeptFacts
<1>3. [w EXCEPT !.contracts = Kept(@, chosen)] = [w EXCEPT !.contracts = q]
    BY <1>1 DEF Worlds
<1> HIDE DEF q
<1>4. LET v == [w EXCEPT !.contracts = q] IN Fit(v) /\ v.contracts = q
    BY <1>2, FewerContracts
<1> QED
    BY <1>3, <1>4 DEF Through, Fit, Sound, q

(* Contract by contract.                                                   *)
LEMMA DismissSteps ==
    ASSUME NEW w, Fit(w), NEW chosen
    PROVE  LET q == w.contracts IN
           \E h : /\ h[0] = [w EXCEPT !.contracts = Kept(@, chosen)]
                  /\ \A i \in 1 .. Len(q) : h[i] = ReleaseOf(chosen, h[i - 1], q[i])
                  /\ Dismiss(w, chosen) = h[Len(q)]
<1> DEFINE q == w.contracts
           n == Len(q)
           W == Through(w, chosen)
           C == ToSet(q)
           base == [w EXCEPT !.contracts = Kept(@, chosen)]
           F == [x \in W \X C |-> ReleaseOf(chosen, x[1], x[2])]
           it == CHOOSE it : IsReleaseFold(it, w, chosen, DOMAIN q)
           h == [i \in 0 .. n |-> it[1 .. i]]
<1>1. q \in Seq(C) /\ n \in Nat /\ DOMAIN q = 1 .. n /\ \A i \in 1 .. n : q[i] \in C
  <2>1. q \in Seq(Contract)
      BY WorldFields DEF Fit, Sound
  <2>2. n \in Nat /\ DOMAIN q = 1 .. n
      BY <2>1
  <2>3. q = [i \in 1 .. n |-> q[i]]
      BY <2>1
  <2>4. \A i \in 1 .. n : q[i] \in C
      BY <2>2 DEF ToSet
  <2> HIDE DEF q, n, C
  <2>5. q \in [1 .. n -> C]
      BY <2>3, <2>4
  <2>6. q \in Seq(C)
      BY <2>2, <2>5
  <2> QED
      BY <2>2, <2>4, <2>6
<1>2. F \in [W \X C -> W] /\ base \in W
  <2>1. \A x \in W \X C : ReleaseOf(chosen, x[1], x[2]) \in W
      BY ReleaseStays
  <2> QED
      BY <2>1, DismissBegins
<1>3. \A v \in W, c \in C : F[<<v, c>>] = ReleaseOf(chosen, v, c)
    OBVIOUS
<1> HIDE DEF W, F, C
<1>4. \E x : IsReleaseFold(x, w, chosen, DOMAIN q)
  <2> HIDE DEF q, base
  <2>1. PICK x \in [SUBSET (1 .. n) -> W] : IsFold(x, F, base, q, 1 .. n)
      BY <1>1, <1>2, FoldExists
  <2> HIDE DEF n
  <2>2. ASSUME NEW P \in SUBSET (1 .. n)
        PROVE  x[P] = IF P = {} THEN base
                      ELSE ReleaseOf(chosen, x[P \ {Max(P)}], q[Max(P)])
    <3>1. CASE P = {}
        BY <2>1, <3>1 DEF IsFold
    <3>2. CASE P # {}
      <4>1. Max(P) \in 1 .. n
          BY <1>1, <3>2, MaxOfSet
      <4>2. x[P \ {Max(P)}] \in W /\ q[Max(P)] \in C
          BY <1>1, <2>1, <4>1
      <4>3. x[P] = F[<<x[P \ {Max(P)}], q[Max(P)]>>]
          BY <2>1, <3>2 DEF IsFold
      <4> QED
          BY <1>3, <3>2, <4>2, <4>3
    <3> QED
        BY <3>1, <3>2
  <2>3. x = [P \in SUBSET (1 .. n) |-> x[P]]
      BY <2>1
  <2>4. IsReleaseFold(x, w, chosen, 1 .. n)
      BY <2>2, <2>3 DEF IsReleaseFold, q, base
  <2> QED
      BY <1>1, <2>4
<1>5. Dismiss(w, chosen) = it[DOMAIN q]
    BY DEF Dismiss, FoldLeft, MapThenFoldSet, IsReleaseFold, ReleaseOf
<1>6. IsReleaseFold(it, w, chosen, DOMAIN q)
    BY <1>4
<1> HIDE DEF it, n, q, base
<1>7. \A P \in SUBSET (1 .. n) :
            it[P] = IF P = {} THEN base
                    ELSE ReleaseOf(chosen, it[P \ {Max(P)}], q[Max(P)])
    BY <1>1, <1>6 DEF IsReleaseFold, q, base
<1>8. it[1 .. 0] = base
  <2>1. 1 .. 0 = {}
      OBVIOUS
  <2> QED
      BY <1>7, <2>1
<1>9. \A i \in 1 .. n : it[1 .. i] = ReleaseOf(chosen, it[1 .. i - 1], q[i])
    BY <1>1, <1>7, FirstPlaces
<1>10. /\ h[0] = base /\ Dismiss(w, chosen) = h[n]
       /\ \A i \in 1 .. n : h[i] = ReleaseOf(chosen, h[i - 1], q[i])
    BY <1>1, <1>5, <1>8, <1>9
<1> QED
    BY <1>10 DEF n, q, base

(* DismissAll and DismissFreeEscort.                                       *)
LEMMA DismissFacts ==
    ASSUME NEW w, Fit(w), NEW chosen
    PROVE  LET v == Dismiss(w, chosen) IN
           Fit(v) /\ ToSet(v.contracts) \subseteq ToSet(w.contracts)
<1> DEFINE q == w.contracts
           n == Len(q)
           W == Through(w, chosen)
<1>1. q \in Seq(Contract) /\ Single(q)
    BY WorldFields DEF Fit, Sound
<1>2. n \in Nat /\ \A i \in 1 .. n : q[i] \in ToSet(q)
    BY <1>1 DEF ToSet
<1>3. PICK h : /\ h[0] = [w EXCEPT !.contracts = Kept(@, chosen)]
               /\ \A i \in 1 .. n : h[i] = ReleaseOf(chosen, h[i - 1], q[i])
               /\ Dismiss(w, chosen) = h[n]
    BY DismissSteps
<1> DEFINE holds == [i \in 0 .. n |-> h[i] \in W]
<1>4. h[0] \in W
    BY <1>3, DismissBegins
<1>5. \A v \in W, c \in ToSet(q) : ReleaseOf(chosen, v, c) \in W
    BY ReleaseStays
<1> HIDE DEF W, n, q
<1>6. holds[0]
  <2>1. 0 \in 0 .. n
      BY <1>2
  <2> QED
      BY <1>4, <2>1
<1>7. ASSUME NEW i \in 0 .. n - 1, holds[i]
      PROVE  holds[i + 1]
  <2>1. i + 1 \in 1 .. n /\ (i + 1) - 1 = i /\ i \in 0 .. n /\ i + 1 \in 0 .. n
      BY <1>2
  <2>2. h[i] \in W
      BY <1>7, <2>1
  <2>3. h[i + 1] = ReleaseOf(chosen, h[i], q[i + 1])
      BY <1>3, <2>1
  <2>4. h[i + 1] \in W
      BY <1>2, <1>5, <2>1, <2>2, <2>3
  <2> QED
      BY <2>1, <2>4
<1>8. h[n] \in W
  <2> HIDE DEF holds
  <2>1. \A i \in 0 .. n - 1 : holds[i] => holds[i + 1]
      BY <1>7
  <2>2. \A i \in 0 .. n : holds[i]
      BY <1>2, <1>6, <2>1, Induction
  <2>3. n \in 0 .. n /\ holds[n]
      BY <1>2, <2>2
  <2> QED
      BY <2>3 DEF holds
<1>9. ToSet(Kept(w.contracts, chosen)) \subseteq ToSet(w.contracts)
    BY <1>1, KeptFacts DEF q
<1> QED
    BY <1>3, <1>8, <1>9 DEF Through, W

-----------------------------------------------------------------------------
(* The hooks.                                                              *)

(* OnPlayerLeftGroup and OnGroupDisband mark contracts and do no more.     *)
LEMMA MarkFacts ==
    ASSUME NEW w, Fit(w), NEW members
    PROVE  LET v == Mark(w, members) IN
           /\ Fit(v) /\ v.party = w.party /\ v.sessions = w.sessions
           /\ \A o \in Owners : Awaited(v.contracts, o) \subseteq Awaited(w.contracts, o)
           /\ \A c \in ToSet(v.contracts) : c.stage = "active" /\ ~c.pending =>
                c.owner \notin members /\ c.account \notin members
<1> DEFINE q == w.contracts
           r == [i \in DOMAIN q |-> Marked(q[i], members)]
           v == Mark(w, members)
<1>1. w \in Worlds /\ q \in Seq(Contract) /\ Single(q) /\ Backed(q, w.party) /\ Loose(w)
      /\ Listed(w.party)
    BY WorldFields DEF Fit, Sound
<1>2. v = [w EXCEPT !.contracts = r]
    BY <1>1 DEF Mark
<1>3. ASSUME NEW c \in Contract
      PROVE  LET d == Marked(c, members) IN
             /\ d \in Contract /\ d.account = c.account /\ d.owner = c.owner
             /\ d.stage = c.stage
             /\ ~d.pending => ~c.pending /\ c.owner \notin members
                              /\ (c.stage = "active" => c.account \notin members)
    BY DEF Marked, Contract
<1>4. r \in Seq(Contract) /\ DOMAIN r = DOMAIN q
  <2>1. Len(q) \in Nat /\ DOMAIN q = 1 .. Len(q) /\ \A i \in 1 .. Len(q) : q[i] \in Contract
      BY <1>1
  <2>2. \A i \in 1 .. Len(q) : Marked(q[i], members) \in Contract
      BY <1>3, <2>1
  <2> HIDE DEF q
  <2>3. r \in [1 .. Len(q) -> Contract]
      BY <2>1, <2>2
  <2> QED
      BY <2>1, <2>3
<1>5. \A i \in DOMAIN q : q[i] \in Contract /\ r[i] = Marked(q[i], members)
    BY <1>1
<1> HIDE DEF v, r
<1>6. /\ v \in Worlds /\ v.contracts = r /\ v.sessions = w.sessions /\ v.party = w.party
    BY <1>1, <1>2, <1>4, NewContracts
<1>7. ASSUME NEW d \in ToSet(r)
      PROVE  \E c \in ToSet(q) :
                /\ d.account = c.account /\ d.owner = c.owner /\ d.stage = c.stage
                /\ ~d.pending => ~c.pending /\ c.owner \notin members
                                 /\ (c.stage = "active" => c.account \notin members)
  <2>1. PICK i \in DOMAIN q : d = r[i]
      BY <1>4 DEF ToSet
  <2>2. q[i] \in ToSet(q)
      BY DEF ToSet
  <2> QED
      BY <1>3, <1>5, <2>1, <2>2
<1>8. Single(r)
    BY <1>1, <1>3, <1>4, <1>5 DEF Single
<1>9. Backed(r, w.party)
  <2> HIDE DEF q
  <2> SUFFICES ASSUME NEW d \in ToSet(r), d.stage = "active", ~d.pending
               PROVE  \E g \in Groups : /\ IsMember(w.party, g, d.owner)
                                        /\ IsMember(w.party, g, d.account)
      BY DEF Backed
  <2>1. PICK c \in ToSet(q) : /\ d.account = c.account /\ d.owner = c.owner
                              /\ d.stage = c.stage /\ ~c.pending
      BY <1>7
  <2> QED
      BY <1>1, <2>1 DEF Backed
<1>10. Loose(v)
  <2>1. \A x \in Players : x \in Online(w) => x \in Online(v)
      BY <1>6 DEF Online, Playing
  <2> QED
      BY <1>1, <1>6, <2>1, StayLoose DEF Unties
<1>11. ASSUME NEW o \in Owners
       PROVE  Awaited(v.contracts, o) \subseteq Awaited(w.contracts, o)
    BY <1>6, <1>7 DEF Awaited
<1>12. \A c \in ToSet(v.contracts) : c.stage = "active" /\ ~c.pending =>
                c.owner \notin members /\ c.account \notin members
    BY <1>6, <1>7
<1> QED
    BY <1>1, <1>6, <1>8, <1>9, <1>10, <1>11, <1>12 DEF Fit, Sound, v

(* A world with another party, in which the contracts are still backed.    *)
LEMMA OtherParty ==
    ASSUME NEW w, Fit(w), NEW p \in Party, Listed(p), Unties(w.party, p),
           Backed(w.contracts, p)
    PROVE  LET v == [w EXCEPT !.party = p] IN
           Fit(v) /\ v.contracts = w.contracts /\ v.sessions = w.sessions
<1> DEFINE v == [w EXCEPT !.party = p]
<1>1. v \in Worlds /\ v.contracts = w.contracts /\ v.sessions = w.sessions /\ v.party = p
    BY NewParty DEF Fit, Sound
<1> HIDE DEF v
<1>2. Loose(v)
  <2>1. \A x \in Players : x \in Online(w) => x \in Online(v)
      BY <1>1 DEF Online, Playing
  <2> QED
      BY <1>1, <2>1, StayLoose DEF Fit
<1> QED
    BY <1>1, <1>2 DEF Fit, Sound, v

(* Group::Disband with its hook.                                           *)
LEMMA DisbandGroupFacts ==
    ASSUME NEW w, Fit(w), NEW g \in Groups, Members(w.party, g) # {}
    PROVE  LET v == DisbandGroup(w, g) IN
           /\ Fit(v) /\ v.sessions = w.sessions
           /\ \A o \in Owners : Awaited(v.contracts, o) \subseteq Awaited(w.contracts, o)
<1> DEFINE members == Members(w.party, g)
           h == OnGroupDisband(w, g)
           p == Disband(w.party, g, Online(h))
           v == DisbandGroup(w, g)
<1>1. w \in Worlds /\ w.party \in Party /\ Listed(w.party)
    BY WorldFields DEF Fit, Sound
<1>2. /\ Fit(h) /\ h.party = w.party /\ h.sessions = w.sessions
      /\ \A o \in Owners : Awaited(h.contracts, o) \subseteq Awaited(w.contracts, o)
      /\ \A c \in ToSet(h.contracts) : c.stage = "active" /\ ~c.pending =>
                c.owner \notin members /\ c.account \notin members
    BY MarkFacts DEF OnGroupDisband, Members
<1>3. Exists(h.party, g)
    BY <1>2 DEF Exists, Members, ToSet
<1>4. v = [h EXCEPT !.party = p]
  <2>1. v = [h EXCEPT !.party = Disband(@, g, Online(h))]
      BY <1>3 DEF DisbandGroup
  <2>2. h \in Worlds
      BY <1>2 DEF Fit, Sound
  <2> HIDE DEF h, v
  <2> QED
      BY <1>2, <2>1, <2>2 DEF Worlds
<1> HIDE DEF h, v
<1>5. /\ p \in Party /\ Listed(p) /\ Unties(w.party, p)
      /\ \A k \in Groups \ {g} : Members(p, k) = Members(w.party, k)
    BY <1>1, DisbandFacts
<1> HIDE DEF p
<1>6. Backed(h.contracts, p)
  <2>1. Backed(h.contracts, w.party)
      BY <1>2 DEF Fit, Sound
  <2> SUFFICES ASSUME NEW c \in ToSet(h.contracts), c.stage = "active", ~c.pending
               PROVE  \E k \in Groups : c.owner \in Members(p, k) /\ c.account \in Members(p, k)
      BY <1>5, BackedMembers
  <2>2. PICK k \in Groups : c.owner \in Members(w.party, k) /\ c.account \in Members(w.party, k)
      BY <1>1, <2>1, BackedMembers
  <2>3. k # g
      BY <1>2, <2>2
  <2> QED
      BY <1>5, <2>2, <2>3
<1>7. Fit(v) /\ v.contracts = h.contracts /\ v.sessions = h.sessions
    BY <1>2, <1>4, <1>5, <1>6, OtherParty
<1> QED
    BY <1>2, <1>7 DEF v

(* Group::RemoveMember with its hook.                                      *)
LEMMA RemoveMemberFacts ==
    ASSUME NEW w, Fit(w), NEW g \in Groups, NEW m \in Players, m \in Members(w.party, g)
    PROVE  LET v == RemoveMember(w, g, m) IN
           /\ Fit(v) /\ v.sessions = w.sessions
           /\ \A o \in Owners : Awaited(v.contracts, o) \subseteq Awaited(w.contracts, o)
<1> DEFINE h == OnPlayerLeftGroup(w, m)
           p == Leave(w.party, g, m, Online(h))
           v == RemoveMember(w, g, m)
<1>1. w \in Worlds /\ w.party \in Party /\ Listed(w.party)
    BY WorldFields DEF Fit, Sound
<1>2. /\ Fit(h) /\ h.party = w.party /\ h.sessions = w.sessions
      /\ \A o \in Owners : Awaited(h.contracts, o) \subseteq Awaited(w.contracts, o)
      /\ \A c \in ToSet(h.contracts) : c.stage = "active" /\ ~c.pending =>
                c.owner # m /\ c.account # m
    BY MarkFacts DEF OnPlayerLeftGroup
<1>3. Exists(h.party, g)
    BY <1>2 DEF Exists, Members, ToSet
<1>4. CASE MembersCount(h.party, g) > 2
  <2>1. v = [h EXCEPT !.party = p]
    <3>1. v = [h EXCEPT !.party = Leave(@, g, m, Online(h))]
        BY <1>3, <1>4 DEF RemoveMember
    <3>2. h \in Worlds
        BY <1>2 DEF Fit, Sound
    <3> HIDE DEF h, v
    <3> QED
        BY <1>2, <3>1, <3>2 DEF Worlds
  <2> HIDE DEF h, v
  <2>2. m \notin Online(h) => w.party.of[m] = NoGroup
      BY <1>2 DEF Fit, Loose
  <2>3. /\ p \in Party /\ Listed(p) /\ Unties(w.party, p)
        /\ \A k \in Groups : Members(w.party, k) \ {m} \subseteq Members(p, k)
      BY <1>1, <2>2, LeaveFacts
  <2> HIDE DEF p
  <2>4. Backed(h.contracts, p)
    <3>1. Backed(h.contracts, w.party)
        BY <1>2 DEF Fit, Sound
    <3> SUFFICES ASSUME NEW c \in ToSet(h.contracts), c.stage = "active", ~c.pending
                 PROVE  \E k \in Groups : /\ c.owner \in Members(p, k)
                                          /\ c.account \in Members(p, k)
        BY <2>3, BackedMembers
    <3>2. PICK k \in Groups : /\ c.owner \in Members(w.party, k)
                              /\ c.account \in Members(w.party, k)
        BY <1>1, <3>1, BackedMembers
    <3> QED
        BY <1>2, <2>3, <3>2
  <2>5. Fit(v) /\ v.contracts = h.contracts /\ v.sessions = h.sessions
      BY <1>2, <2>1, <2>3, <2>4, OtherParty
  <2> QED
      BY <1>2, <2>5 DEF v
<1>5. CASE ~(MembersCount(h.party, g) > 2)
  <2>1. v = DisbandGroup(h, g)
      BY <1>3, <1>5 DEF RemoveMember
  <2>2. Members(h.party, g) # {}
      BY <1>2
  <2> HIDE DEF h, v
  <2>3. /\ Fit(v) /\ v.sessions = h.sessions
        /\ \A o \in Owners : Awaited(v.contracts, o) \subseteq Awaited(h.contracts, o)
      BY <1>2, <2>1, <2>2, DisbandGroupFacts
  <2> QED
      BY <1>2, <2>3 DEF v
<1> QED
    BY <1>4, <1>5

-----------------------------------------------------------------------------
(* The invariant.                                                          *)

(* The world is one that handlers may be called in.                        *)
FitNow == Fit(World)

(* The other variables have their types.                                   *)
Amounts ==
    /\ gold \in [Owners -> Nat] /\ offers \in [Owners -> 0 .. Offers]
    /\ place \in [Owners -> {"out", "away", "world"}]
    /\ drops \in 0 .. MaxDrops
    /\ cursor \in 0 .. Len(contracts)

(* The mercenaries that an owner has paid for, or was offered, and awaits, *)
(* are not paid for twice: no gold comes from nowhere.                     *)
Funds ==
    \A o \in Owners :
        gold[o] + offers[o] + Cardinality(Awaited(contracts, o)) <= Purse + Offers

ContractsInv == FitNow /\ Amounts /\ Funds

(* What a handler returns is the next world.                               *)
LEMMA NextWorld ==
    ASSUME NEW w \in Worlds, Becomes(w)
    PROVE  World' = w
    BY DEF Worlds, World, Becomes

(* What a handler returns is a world that handlers may be called in.     *)
LEMMA BecomesFit ==
    ASSUME NEW w, Fit(w), Becomes(w), place' = place
    PROVE  FitNow'
<1>1. World' = w
    BY NextWorld DEF Fit, Sound
<1>2. Online(World)' = Online(w)
    BY <1>1 DEF Online, Playing
<1> QED
    BY <1>1, <1>2 DEF FitNow, Fit, Loose

(* The variables of a world.                                               *)
LEMMA FitFields ==
    ASSUME FitNow
    PROVE  /\ World \in Worlds /\ Fit(World)
           /\ contracts \in Seq(Contract) /\ sessions \in [Accounts -> Session]
           /\ party \in Party /\ freed = FALSE
           /\ Single(contracts) /\ Listed(party) /\ Backed(contracts, party)
           /\ \A x \in Owners : place[x] = "out" => party.of[x] = NoGroup
           /\ \A x \in Accounts : ~Playing(World, x) => party.of[x] = NoGroup
<1>1. Loose(World) /\ Fit(World) /\ World \in Worlds
    BY DEF FitNow, Fit, Sound
<1>2. /\ World.contracts = contracts /\ World.sessions = sessions /\ World.party = party
      /\ World.freed = freed
    BY DEF World
<1>3. /\ contracts \in Seq(Contract) /\ sessions \in [Accounts -> Session]
      /\ party \in Party /\ freed = FALSE
      /\ Single(contracts) /\ Listed(party) /\ Backed(contracts, party)
    BY <1>1, <1>2, WorldFields DEF Fit, Sound
<1>4. \A x \in Players : x \notin Online(World) => party.of[x] = NoGroup
    BY <1>1, <1>2 DEF Loose
<1> QED
    BY <1>1, <1>3, <1>4, OnlineFacts, ContractsAssumption

(* The next variables make a fit world.                                    *)
LEMMA FitNext ==
    ASSUME contracts' \in Seq(Contract), sessions' \in [Accounts -> Session],
           party' \in Party, freed' = FALSE,
           Single(contracts'), Listed(party'), Backed(contracts', party'),
           \A x \in Owners : place'[x] = "out" => party'.of[x] = NoGroup,
           \A x \in Accounts : sessions'[x].player \notin {"away", "world"}
                                    => party'.of[x] = NoGroup
    PROVE  FitNow'
<1>1. World' \in Worlds
    BY DEF Worlds, World
<1>2. /\ World'.contracts = contracts' /\ World'.party = party'
      /\ World'.sessions = sessions'
    BY DEF World
<1>3. Sound(World')
    BY <1>1, <1>2 DEF Sound
<1>4. ASSUME NEW x \in Players, x \notin Online(World)'
      PROVE  party'.of[x] = NoGroup
  <2>1. CASE x \in Owners
      BY <1>4, <2>1 DEF Online
  <2>2. CASE x \in Accounts
    <3>1. ~Playing(World, x)'
        BY <1>4, <2>2 DEF Online
    <3>2. sessions'[x].player \notin {"away", "world"}
        BY <1>2, <3>1 DEF Playing
    <3> QED
        BY <2>2, <3>2
  <2> QED
      BY <2>1, <2>2, ContractsAssumption
<1> QED
    BY <1>2, <1>3, <1>4 DEF FitNow, Fit, Loose

(* Awaited mercenaries can be counted.                                     *)
LEMMA AwaitedFinite ==
    ASSUME NEW q \in Seq(Contract), NEW o
    PROVE  IsFiniteSet(Awaited(q, o)) /\ Cardinality(Awaited(q, o)) \in Nat
<1> DEFINE T == {q[i].account : i \in 1 .. Len(q)}
           f == [i \in 1 .. Len(q) |-> q[i].account]
<1>1. Len(q) \in Nat /\ DOMAIN q = 1 .. Len(q)
    OBVIOUS
<1>2. f \in Surjection(1 .. Len(q), T)
    BY DEF Surjection
<1>3. IsFiniteSet(1 .. Len(q))
    BY <1>1, FS_Interval
<1>4. IsFiniteSet(T)
  <2> HIDE DEF f, T
  <2> QED
      BY <1>2, <1>3, FS_Surjection
<1>5. Awaited(q, o) \subseteq T
    BY <1>1 DEF Awaited, ToSet
<1> HIDE DEF T
<1>6. IsFiniteSet(Awaited(q, o))
    BY <1>4, <1>5, FS_Subset
<1> QED
    BY <1>6, FS_CardinalityType

(* Fewer mercenaries awaited, a smaller count.                           *)
LEMMA FewerAwaited ==
    ASSUME NEW q \in Seq(Contract), NEW r, NEW o,
           Awaited(r, o) \subseteq Awaited(q, o)
    PROVE  /\ IsFiniteSet(Awaited(r, o))
           /\ Cardinality(Awaited(r, o)) \in Nat
           /\ Cardinality(Awaited(r, o)) <= Cardinality(Awaited(q, o))
    BY AwaitedFinite, FS_Subset, FS_CardinalityType

(* Nobody pays, and nobody is awaited anew.                                *)
LEMMA FundsStay ==
    ASSUME ContractsInv, gold' = gold, offers' = offers,
           \A o \in Owners : Awaited(contracts', o) \subseteq Awaited(contracts, o)
    PROVE  Funds'
<1>1. contracts \in Seq(Contract)
    BY FitFields DEF ContractsInv
<1>2. ASSUME NEW o \in Owners
      PROVE  gold'[o] + offers'[o] + Cardinality(Awaited(contracts', o)) <= Purse + Offers
  <2>1. /\ Cardinality(Awaited(contracts', o)) \in Nat
        /\ Cardinality(Awaited(contracts, o)) \in Nat
        /\ Cardinality(Awaited(contracts', o)) <= Cardinality(Awaited(contracts, o))
      BY <1>1, AwaitedFinite, FewerAwaited
  <2>2. gold[o] \in Nat /\ offers[o] \in Nat /\ Purse \in Nat /\ Offers \in Nat
      BY ContractsAssumption DEF ContractsInv, Amounts
  <2>3. gold[o] + offers[o] + Cardinality(Awaited(contracts, o)) <= Purse + Offers
      BY DEF ContractsInv, Funds
  <2> QED
      BY <2>1, <2>2, <2>3
<1> QED
    BY <1>2 DEF Funds, Awaited

(* A handler that changes contracts and groups, and pays nobody.           *)
LEMMA HandlerKeeps ==
    ASSUME ContractsInv, NEW w, Fit(w), Becomes(w), cursor = 0,
           \A o \in Owners : Awaited(w.contracts, o) \subseteq Awaited(contracts, o),
           UNCHANGED <<gold, offers, place, cursor>>, drops' \in 0 .. MaxDrops
    PROVE  ContractsInv'
<1>1. FitNow'
    BY BecomesFit
<1>2. contracts' = w.contracts /\ w.contracts \in Seq(Contract)
    BY WorldFields DEF Becomes, Fit, Sound
<1>3. Funds'
    BY <1>2, FundsStay
<1>4. Amounts'
    BY <1>2 DEF ContractsInv, Amounts
<1> QED
    BY <1>1, <1>3, <1>4 DEF ContractsInv

(* Fewer contracts, fewer awaited.                                         *)
LEMMA FewerMeansFewer ==
    ASSUME NEW q, NEW r, ToSet(r) \subseteq ToSet(q), NEW o
    PROVE  Awaited(r, o) \subseteq Awaited(q, o)
    BY DEF Awaited

(* The fields of the world are the variables.                            *)
LEMMA WorldIs ==
    /\ World.contracts = contracts /\ World.sessions = sessions
    /\ World.party = party /\ World.freed = freed
    BY DEF World

(* DismissAll and DismissFreeEscort pay nobody and mark nobody.          *)
LEMMA KeepsDismissals ==
    ASSUME ContractsInv, NEW o \in Owners, DismissCompany(o) \/ DismissFreeEscort(o)
    PROVE  ContractsInv'
<1>1. PICK chosen : Becomes(Dismiss(World, chosen))
    BY DEF DismissCompany, DismissFreeEscort, DismissAll
<1>2. Fit(World)
    BY DEF ContractsInv, FitNow
<1> DEFINE w == Dismiss(World, chosen)
<1>3. Fit(w) /\ ToSet(w.contracts) \subseteq ToSet(contracts)
    BY <1>2, DismissFacts, WorldIs
<1>4. /\ cursor = 0 /\ UNCHANGED <<gold, offers, place, cursor>> /\ drops' \in 0 .. MaxDrops
    BY DEF DismissCompany, DismissFreeEscort, ContractsInv, Amounts
<1> HIDE DEF w
<1> QED
    BY <1>1, <1>3, <1>4, FewerMeansFewer, HandlerKeeps DEF w

(* A login puts the player into the group of its row, which lists it.    *)
LEMMA KeepsLogin ==
    ASSUME ContractsInv, NEW o \in Owners, Login(o)
    PROVE  ContractsInv'
<1>1. /\ cursor = 0 /\ place' = [place EXCEPT ![o] = "world"] /\ party' = Load(party, o)
      /\ UNCHANGED <<offers, contracts, gold, sessions, freed, cursor, drops>>
    BY DEF Login
<1>2. /\ contracts \in Seq(Contract) /\ sessions \in [Accounts -> Session]
      /\ party \in Party /\ freed = FALSE
      /\ Single(contracts) /\ Listed(party) /\ Backed(contracts, party)
      /\ \A x \in Owners : place[x] = "out" => party.of[x] = NoGroup
      /\ \A x \in Accounts : ~Playing(World, x) => party.of[x] = NoGroup
    BY FitFields DEF ContractsInv
<1>3. o \in Players /\ o \notin Accounts
    BY ContractsAssumption
<1>4. /\ party' \in Party /\ Listed(party') /\ party'.slots = party.slots
      /\ \A x \in Players \ {o} : party'.of[x] = party.of[x]
    BY <1>1, <1>2, <1>3, LoadFacts
<1>5. Backed(contracts, party')
    BY <1>2, <1>4 DEF Backed, IsMember
<1>6. place \in [Owners -> {"out", "away", "world"}]
    BY DEF ContractsInv, Amounts
<1>7. \A x \in Owners : place'[x] = "out" => party'.of[x] = NoGroup
    BY <1>1, <1>2, <1>4, <1>6, ContractsAssumption
<1>8. \A x \in Accounts : sessions'[x].player \notin {"away", "world"} => party'.of[x] = NoGroup
    BY <1>1, <1>2, <1>3, <1>4, ContractsAssumption, WorldIs DEF Playing
<1>9. FitNow'
    BY <1>1, <1>2, <1>4, <1>5, <1>7, <1>8, FitNext
<1>10. Amounts' /\ Funds'
    BY <1>1, <1>6 DEF ContractsInv, Amounts, Funds, Awaited
<1> QED
    BY <1>9, <1>10 DEF ContractsInv

(* Who is connected stays so.                                              *)
LEMMA KeepsTeleport ==
    ASSUME ContractsInv, NEW o \in Owners, Teleport(o)
    PROVE  ContractsInv'
<1>1. /\ place[o] # "out"
      /\ place' = [place EXCEPT ![o] = IF @ = "world" THEN "away" ELSE "world"]
      /\ UNCHANGED <<offers, contracts, gold, sessions, party, freed, cursor, drops>>
    BY DEF Teleport
<1>2. /\ contracts \in Seq(Contract) /\ sessions \in [Accounts -> Session]
      /\ party \in Party /\ freed = FALSE
      /\ Single(contracts) /\ Listed(party) /\ Backed(contracts, party)
      /\ \A x \in Owners : place[x] = "out" => party.of[x] = NoGroup
      /\ \A x \in Accounts : ~Playing(World, x) => party.of[x] = NoGroup
    BY FitFields DEF ContractsInv
<1>3. place \in [Owners -> {"out", "away", "world"}]
    BY DEF ContractsInv, Amounts
<1>4. \A x \in Owners : place'[x] = "out" => party'.of[x] = NoGroup
    BY <1>1, <1>2, <1>3
<1>5. \A x \in Accounts : sessions'[x].player \notin {"away", "world"} => party'.of[x] = NoGroup
    BY <1>1, <1>2, WorldIs DEF Playing
<1>6. FitNow'
    BY <1>1, <1>2, <1>4, <1>5, FitNext
<1>7. Amounts' /\ Funds'
    BY <1>1, <1>3 DEF ContractsInv, Amounts, Funds, Awaited
<1> QED
    BY <1>6, <1>7 DEF ContractsInv

(* A member of the group it points at.                                     *)
LEMMA PointsAt ==
    ASSUME NEW p \in Party, Listed(p), NEW m \in Players, p.of[m] # NoGroup
    PROVE  p.of[m] \in Groups /\ m \in Members(p, p.of[m])
    BY PartyFields, ListedMembers

(* The leaving, then the dismissals, then the deletion of the player.    *)
LEMMA KeepsLogout ==
    ASSUME ContractsInv, NEW o \in Owners, NEW socket \in BOOLEAN, Logout(o, socket)
    PROVE  ContractsInv'
<1> DEFINE g == party.of[o]
           left == IF socket /\ g # NoGroup THEN RemoveMember(World, g, o) ELSE World
           done == DismissAll(left, o)
           w == [done EXCEPT !.party = Unload(@, o)]
<1>1. /\ cursor = 0 /\ Becomes(w) /\ place' = [place EXCEPT ![o] = "out"]
      /\ UNCHANGED <<gold, offers, cursor, drops>>
    BY DEF Logout
<1>2. Fit(World) /\ party \in Party /\ Listed(party)
    BY FitFields DEF ContractsInv
<1>3. o \in Players /\ o \notin Accounts
    BY ContractsAssumption
<1>4. /\ Fit(left)
      /\ \A x \in Owners : Awaited(left.contracts, x) \subseteq Awaited(contracts, x)
  <2>1. CASE socket /\ g # NoGroup
    <3>1. g \in Groups /\ o \in Members(party, g)
        BY <1>2, <1>3, <2>1, PointsAt
    <3> HIDE DEF g
    <3> QED
        BY <1>2, <1>3, <2>1, <3>1, RemoveMemberFacts, WorldIs
  <2>2. CASE ~(socket /\ g # NoGroup)
      BY <1>2, <2>2, WorldIs
  <2> QED
      BY <2>1, <2>2
<1> HIDE DEF left
<1>5. Fit(done) /\ ToSet(done.contracts) \subseteq ToSet(left.contracts)
    BY <1>4, DismissFacts DEF DismissAll
<1>6. \A x \in Owners : Awaited(done.contracts, x) \subseteq Awaited(contracts, x)
    BY <1>4, <1>5, FewerMeansFewer
<1> HIDE DEF done
<1> DEFINE p == Unload(done.party, o)
<1>7. /\ done \in Worlds /\ done.party \in Party /\ Listed(done.party)
      /\ Backed(done.contracts, done.party) /\ Single(done.contracts) /\ Loose(done)
      /\ done.contracts \in Seq(Contract) /\ done.sessions \in [Accounts -> Session]
    BY <1>5, WorldFields DEF Fit, Sound
<1>8. /\ p \in Party /\ Listed(p) /\ p.slots = done.party.slots /\ Unties(done.party, p)
      /\ p.of[o] = NoGroup
    BY <1>3, <1>7, UnloadFacts
<1>9. w = [done EXCEPT !.party = p]
    BY <1>7 DEF Worlds
<1> HIDE DEF p, w
<1>10. /\ w \in Worlds /\ w.contracts = done.contracts /\ w.sessions = done.sessions
       /\ w.party = p
    BY <1>7, <1>8, <1>9, NewParty
<1>11. /\ contracts' = done.contracts /\ sessions' = done.sessions /\ party' = p
       /\ freed' = FALSE
    BY <1>1, <1>10, WorldFields DEF Becomes
<1>12. Backed(contracts', party')
    BY <1>7, <1>8, <1>11 DEF Backed, IsMember
<1>13. place \in [Owners -> {"out", "away", "world"}]
    BY DEF ContractsInv, Amounts
<1>14. ASSUME NEW x \in Owners, place'[x] = "out"
       PROVE  party'.of[x] = NoGroup
  <2>1. CASE x = o
      BY <1>8, <1>11, <2>1
  <2>2. CASE x # o
    <3>1. x \in Players /\ x \notin Online(done)
        BY <1>1, <1>13, <1>14, <2>2, OnlineFacts, ContractsAssumption
    <3> QED
        BY <1>7, <1>8, <1>11, <3>1 DEF Loose, Unties
  <2> QED
      BY <2>1, <2>2
<1>15. ASSUME NEW x \in Accounts, sessions'[x].player \notin {"away", "world"}
       PROVE  party'.of[x] = NoGroup
  <2>1. x \in Players /\ x \notin Online(done)
      BY <1>11, <1>15, OnlineFacts, ContractsAssumption DEF Playing
  <2> QED
      BY <1>7, <1>8, <1>11, <2>1 DEF Loose, Unties
<1>16. FitNow'
    BY <1>7, <1>8, <1>11, <1>12, <1>14, <1>15, FitNext
<1>17. Funds'
    BY <1>1, <1>6, <1>11, FundsStay
<1>18. Amounts'
    BY <1>1, <1>7, <1>11, <1>13 DEF ContractsInv, Amounts
<1> QED
    BY <1>16, <1>17, <1>18 DEF ContractsInv

(* A member more, in a group that may be new: nobody is lost.            *)
LEMMA KeepsAcceptInvite ==
    ASSUME ContractsInv, NEW o \in Owners, NEW m \in Players, AcceptInvite(o, m)
    PROVE  ContractsInv'
<1>1. /\ place[o] = "world" /\ InWorld(World, m) /\ o # m
      /\ UNCHANGED <<offers, contracts, gold, place, sessions, freed, cursor, drops>>
    BY DEF AcceptInvite
<1>2. /\ contracts \in Seq(Contract) /\ sessions \in [Accounts -> Session]
      /\ party \in Party /\ freed = FALSE
      /\ Single(contracts) /\ Listed(party) /\ Backed(contracts, party)
      /\ \A x \in Owners : place[x] = "out" => party.of[x] = NoGroup
      /\ \A x \in Accounts : ~Playing(World, x) => party.of[x] = NoGroup
    BY FitFields DEF ContractsInv
<1>3. o \in Players
    BY ContractsAssumption
<1>4. /\ party' \in Party /\ Listed(party')
      /\ \A h \in Groups : Members(party, h) \subseteq Members(party', h)
      /\ \A x \in Players \ {o, m} : party'.of[x] = party.of[x]
  <2>1. CASE \E g \in Groups : party' = AddMember(party, g, m)
      BY <1>2, <2>1, AddMemberFacts
  <2>2. CASE \E g \in Groups : party' = AddMember(Create(party, g, o), g, m)
    <3>1. PICK g \in Groups : party' = AddMember(Create(party, g, o), g, m)
        BY <2>2
    <3> DEFINE p == Create(party, g, o)
    <3>2. /\ p \in Party /\ Listed(p)
          /\ \A h \in Groups : Members(party, h) \subseteq Members(p, h)
          /\ \A x \in Players \ {o} : p.of[x] = party.of[x]
        BY <1>2, <1>3, CreateFacts
    <3>3. party' = AddMember(p, g, m)
        BY <3>1
    <3> HIDE DEF p
    <3> QED
        BY <3>2, <3>3, AddMemberFacts
  <2> QED
      BY <2>1, <2>2 DEF AcceptInvite, FreeGroup
<1>5. Backed(contracts, party')
    BY <1>2, <1>4, BackedMembers
<1>6. \A x \in Owners : place'[x] = "out" => party'.of[x] = NoGroup
    BY <1>1, <1>2, <1>4, ContractsAssumption DEF InWorld
<1>7. \A x \in Accounts : sessions'[x].player \notin {"away", "world"} => party'.of[x] = NoGroup
  <2> SUFFICES ASSUME NEW x \in Accounts, sessions[x].player \notin {"away", "world"}
               PROVE  party'.of[x] = NoGroup
      BY <1>1
  <2>1. x # o /\ x \in Players /\ x \notin Owners
      BY ContractsAssumption
  <2>2. x # m
      BY <1>1, <2>1, WorldIs DEF InWorld
  <2> QED
      BY <1>2, <1>4, <2>1, <2>2, WorldIs DEF Playing
<1>8. FitNow'
    BY <1>1, <1>2, <1>4, <1>5, <1>6, <1>7, FitNext
<1>9. Amounts' /\ Funds'
    BY <1>1 DEF ContractsInv, Amounts, Funds, Awaited
<1> QED
    BY <1>8, <1>9 DEF ContractsInv

(* A player leaves, or is put out of, the group that lists it.           *)
LEMMA KeepsDepartures ==
    ASSUME ContractsInv, NEW o \in Owners,
           LeaveGroup(o) \/ \E m \in Players : Uninvite(o, m)
    PROVE  ContractsInv'
<1>1. Fit(World) /\ party \in Party /\ Listed(party)
    BY FitFields DEF ContractsInv
<1>2. PICK g \in Groups, m \in Players :
            m \in Members(party, g) /\ Becomes(RemoveMember(World, g, m))
  <2>1. CASE LeaveGroup(o)
    <3>1. o \in Players
        BY ContractsAssumption
    <3> QED
        BY <1>1, <2>1, <3>1, PointsAt DEF LeaveGroup
  <2>2. CASE \E m \in Players : Uninvite(o, m)
      BY <1>1, <2>2, PartyFields, MemberOf DEF Uninvite
  <2> QED
      BY <2>1, <2>2
<1> DEFINE w == RemoveMember(World, g, m)
<1>3. Fit(w) /\ \A x \in Owners : Awaited(w.contracts, x) \subseteq Awaited(contracts, x)
    BY <1>1, <1>2, RemoveMemberFacts, WorldIs
<1>4. /\ cursor = 0 /\ UNCHANGED <<gold, offers, place, cursor>> /\ drops' \in 0 .. MaxDrops
    BY DEF LeaveGroup, Uninvite, ContractsInv, Amounts
<1> HIDE DEF w
<1> QED
    BY <1>2, <1>3, <1>4, HandlerKeeps DEF w

-----------------------------------------------------------------------------
(* The sessions of the bots, and hiring.                                   *)

(* Nobody disconnects.                                                     *)
LEMMA SessionsChange ==
    ASSUME ContractsInv, sessions' \in [Accounts -> Session],
           \A x \in Accounts : sessions[x].player \in {"away", "world"}
                                    => sessions'[x].player \in {"away", "world"},
           UNCHANGED <<offers, contracts, gold, place, party, freed, cursor>>,
           drops' \in 0 .. MaxDrops
    PROVE  ContractsInv'
<1>1. /\ contracts \in Seq(Contract) /\ sessions \in [Accounts -> Session]
      /\ party \in Party /\ freed = FALSE
      /\ Single(contracts) /\ Listed(party) /\ Backed(contracts, party)
      /\ \A x \in Owners : place[x] = "out" => party.of[x] = NoGroup
      /\ \A x \in Accounts : ~Playing(World, x) => party.of[x] = NoGroup
    BY FitFields DEF ContractsInv
<1>2. \A x \in Accounts : sessions'[x].player \notin {"away", "world"} => party'.of[x] = NoGroup
    BY <1>1, WorldIs DEF Playing
<1>3. FitNow'
    BY <1>1, <1>2, FitNext
<1>4. Amounts' /\ Funds'
    BY DEF ContractsInv, Amounts, Funds, Awaited
<1> QED
    BY <1>3, <1>4 DEF ContractsInv

(* One field of one session.                                               *)
LEMMA SetPlayer ==
    ASSUME NEW f \in [Accounts -> Session], NEW a \in Accounts,
           NEW v \in {"none", "loading", "away", "world"},
           NEW s, s = [f EXCEPT ![a].player = v]
    PROVE  /\ s \in [Accounts -> Session] /\ s[a].player = v
           /\ \A x \in Accounts \ {a} : s[x] = f[x]
    BY DEF Session

(* The same for the queue of schedules.                                  *)
LEMMA SetSchedule ==
    ASSUME NEW f \in [Accounts -> Session], NEW a \in Accounts,
           NEW v \in {"none", "online", "setting"},
           NEW s, s = [f EXCEPT ![a].schedule = v]
    PROVE  /\ s \in [Accounts -> Session]
           /\ \A x \in Accounts : s[x].player = f[x].player
    BY DEF Session

(* The queue of a bot, its login and its changes of map touch no group.  *)
LEMMA KeepsBots ==
    ASSUME ContractsInv, NEW a \in Accounts,
           CastSchedule(a) \/ StartLogin(a) \/ BotTeleport(a)
    PROVE  ContractsInv'
<1>1. sessions \in [Accounts -> Session] /\ drops \in 0 .. MaxDrops /\ MaxDrops \in Nat
    BY FitFields, ContractsAssumption DEF ContractsInv, Amounts
<1>4. /\ sessions' \in [Accounts -> Session]
      /\ \A x \in Accounts : sessions[x].player \in {"away", "world"}
                                => sessions'[x].player \in {"away", "world"}
  <2>1. CASE \E v \in {"none", "online", "setting"} :
                sessions' = [sessions EXCEPT ![a].schedule = v]
      BY <1>1, <2>1, SetSchedule
  <2>2. CASE sessions[a].player = "none" /\ sessions' = [sessions EXCEPT ![a].player = "loading"]
      BY <1>1, <2>2, SetPlayer
  <2>3. CASE \E v \in {"away", "world"} : sessions' = [sessions EXCEPT ![a].player = v]
      BY <1>1, <2>3, SetPlayer
  <2>4. CASE CastSchedule(a)
      BY <2>1, <2>2, <2>4 DEF CastSchedule
  <2>5. CASE StartLogin(a)
      BY <2>2, <2>5 DEF StartLogin
  <2>6. CASE BotTeleport(a)
    <3>1. sessions' = [sessions EXCEPT ![a].player =
                            IF sessions[a].player = "world" THEN "away" ELSE "world"]
        BY <2>6 DEF BotTeleport
    <3> QED
        BY <2>3, <3>1
  <2> QED
      BY <2>4, <2>5, <2>6
<1>5. /\ UNCHANGED <<offers, contracts, gold, place, party, freed, cursor>>
      /\ drops' \in 0 .. MaxDrops
    BY <1>1 DEF CastSchedule, StartLogin, BotTeleport, Drop
<1> QED
    BY <1>4, <1>5, SessionsChange

(* A bot that enters the world may leave its group at once.              *)
LEMMA KeepsEndLogin ==
    ASSUME ContractsInv, NEW a \in Accounts, EndLogin(a)
    PROVE  ContractsInv'
<1>1. /\ World \in Worlds /\ Fit(World) /\ party \in Party /\ Listed(party)
      /\ contracts \in Seq(Contract) /\ Single(contracts) /\ Backed(contracts, party)
      /\ sessions \in [Accounts -> Session]
    BY FitFields DEF ContractsInv
<1>2. a \in Players /\ a \notin Owners
    BY ContractsAssumption
<1>3. /\ cursor = 0 /\ sessions[a].player = "loading"
      /\ UNCHANGED <<offers, gold, place, cursor, drops>> /\ drops \in 0 .. MaxDrops
    BY DEF EndLogin, ContractsInv, Amounts
<1>4. CASE /\ sessions' = [sessions EXCEPT ![a].player = "none"]
           /\ UNCHANGED <<contracts, party, freed>>
  <2>1. /\ sessions' \in [Accounts -> Session]
        /\ \A x \in Accounts : sessions[x].player \in {"away", "world"}
                                => sessions'[x].player \in {"away", "world"}
      BY <1>1, <1>3, <1>4, SetPlayer
  <2> QED
      BY <1>3, <1>4, <2>1, SessionsChange
<1>5. CASE ~(/\ sessions' = [sessions EXCEPT ![a].player = "none"]
             /\ UNCHANGED <<contracts, party, freed>>)
  <2> DEFINE loaded == [World EXCEPT !.sessions[a].player = "world", !.party = Load(@, a)]
             g == loaded.party.of[a]
             p == Load(party, a)
             sessions1 == [sessions EXCEPT ![a].player = "world"]
  <2>1. Becomes(loaded) \/ (g # NoGroup /\ Becomes(RemoveMember(loaded, g, a)))
      BY <1>5 DEF EndLogin
  <2>2. /\ sessions1 \in [Accounts -> Session] /\ sessions1[a].player = "world"
        /\ \A x \in Accounts \ {a} : sessions1[x] = sessions[x]
    <3>1. sessions1 = [sessions EXCEPT ![a].player = "world"]
        OBVIOUS
    <3> HIDE DEF sessions1
    <3> QED
        BY <1>1, <3>1, SetPlayer
  <2>4. /\ p \in Party /\ Listed(p) /\ p.slots = party.slots
        /\ \A x \in Players \ {a} : p.of[x] = party.of[x]
      BY <1>1, <1>2, LoadFacts
  <2>6. loaded = [World EXCEPT !.sessions = sessions1, !.party = p]
      BY DEF World
  <2> HIDE DEF loaded, sessions1, p
  <2>7. /\ loaded \in Worlds /\ loaded.contracts = contracts /\ loaded.sessions = sessions1
        /\ loaded.party = p
    <3>1. loaded \in Worlds
        BY <1>1, <2>2, <2>4, <2>6 DEF Worlds
    <3> QED
        BY <1>1, <2>6, <3>1, WorldIs DEF Worlds
  <2>8. Backed(contracts, p)
      BY <1>1, <2>4 DEF Backed, IsMember
  <2>9. Loose(loaded)
    <3> SUFFICES ASSUME NEW x \in Players, x \notin Online(loaded)
                 PROVE  p.of[x] = NoGroup
        BY <2>7 DEF Loose
    <3>1. x # a
        BY <1>2, <2>2, <2>7, OnlineFacts DEF Playing
    <3>2. x \notin Online(World)
        BY <2>2, <2>7, <3>1, OnlineFacts, WorldIs DEF Playing
    <3> QED
        BY <1>1, <2>4, <3>1, <3>2, WorldIs DEF Fit, Loose
  <2>10. Fit(loaded)
      BY <1>1, <2>4, <2>7, <2>8, <2>9 DEF Fit, Sound
  <2>11. CASE Becomes(loaded)
      BY <1>3, <2>7, <2>10, <2>11, HandlerKeeps
  <2>12. CASE g # NoGroup /\ Becomes(RemoveMember(loaded, g, a))
    <3>1. g \in Groups /\ a \in Members(loaded.party, g)
        BY <1>2, <2>4, <2>7, <2>12, PointsAt
    <3> DEFINE w == RemoveMember(loaded, g, a)
    <3> HIDE DEF g
    <3>2. Fit(w) /\ \A x \in Owners : Awaited(w.contracts, x) \subseteq Awaited(contracts, x)
        BY <1>2, <2>7, <2>10, <3>1, RemoveMemberFacts
    <3>3. Becomes(w)
        BY <2>12
    <3> HIDE DEF w
    <3> QED
        BY <1>3, <3>2, <3>3, HandlerKeeps
  <2> QED
      BY <2>1, <2>11, <2>12
<1> QED
    BY <1>4, <1>5

(* An idle bot is logged out, its groups being left as they are.         *)
LEMMA KeepsIdleLogout ==
    ASSUME ContractsInv, NEW a \in Accounts, IdleLogout(a)
    PROVE  ContractsInv'
<1> DEFINE w == LogoutBot(World, a)
<1>1. Fit(w) /\ w.contracts = contracts
    BY FitFields, LogoutBotFacts, WorldIs DEF ContractsInv
<1>2. /\ cursor = 0 /\ Becomes(w) /\ UNCHANGED <<gold, offers, place, cursor>>
      /\ drops' \in 0 .. MaxDrops
    BY ContractsAssumption DEF IdleLogout, Drop, ContractsInv, Amounts
<1> HIDE DEF w
<1> QED
    BY <1>1, <1>2, HandlerKeeps

(* Whoever is hired is under no contract, and is paid for.                 *)
LEMMA KeepsSummon ==
    ASSUME ContractsInv, NEW o \in Owners, NEW free \in BOOLEAN, Summon(o, free)
    PROVE  ContractsInv'
<1>1. /\ contracts \in Seq(Contract) /\ sessions \in [Accounts -> Session]
      /\ party \in Party /\ freed = FALSE
      /\ Single(contracts) /\ Listed(party) /\ Backed(contracts, party)
      /\ \A x \in Owners : place[x] = "out" => party.of[x] = NoGroup
      /\ \A x \in Accounts : ~Playing(World, x) => party.of[x] = NoGroup
    BY FitFields DEF ContractsInv
<1>2. PICK fitting \in SUBSET Accounts : \E a \in Candidates(World, fitting) :
        /\ gold' = [gold EXCEPT ![o] = IF free THEN @ ELSE @ - 1]
        /\ offers' = [offers EXCEPT ![o] = IF free THEN @ - 1 ELSE @]
        /\ sessions' = [sessions EXCEPT ![a].schedule =
                           IF sessions[a].player = "none" THEN "online" ELSE "setting"]
        /\ contracts' = Append(contracts,
                           [account |-> a, owner |-> o, stage |-> "summoning",
                            wait |-> 0, absence |-> 0, pending |-> FALSE,
                            free |-> free])
    BY DEF Summon
<1>3. PICK a \in Candidates(World, fitting) :
        /\ gold' = [gold EXCEPT ![o] = IF free THEN @ ELSE @ - 1]
        /\ offers' = [offers EXCEPT ![o] = IF free THEN @ - 1 ELSE @]
        /\ sessions' = [sessions EXCEPT ![a].schedule =
                           IF sessions[a].player = "none" THEN "online" ELSE "setting"]
        /\ contracts' = Append(contracts,
                           [account |-> a, owner |-> o, stage |-> "summoning",
                            wait |-> 0, absence |-> 0, pending |-> FALSE,
                            free |-> free])
    BY <1>2
<1>4. a \in Accounts /\ ~IsAccountHired(World, a)
    BY DEF Candidates, Idle, Offline
<1>5. /\ IF free THEN offers[o] > 0 ELSE gold[o] > 0
      /\ cursor = 0 /\ UNCHANGED <<place, party, freed, cursor, drops>>
    BY DEF Summon
<1> DEFINE c == [account |-> a, owner |-> o, stage |-> "summoning",
                 wait |-> 0, absence |-> 0, pending |-> FALSE, free |-> free]
           n == Len(contracts)
<1>6. /\ c \in Contract /\ c.account = a /\ c.owner = o /\ c.stage = "summoning"
    BY <1>4, ContractsAssumption DEF Contract
<1>7. contracts' = Append(contracts, c)
    BY <1>3
<1> HIDE DEF c
<1>8. /\ contracts' \in Seq(Contract) /\ ToSet(contracts') = ToSet(contracts) \cup {c}
    BY <1>1, <1>6, <1>7, AppendMembers
<1>9. /\ n \in Nat /\ DOMAIN contracts' = 1 .. n + 1 /\ DOMAIN contracts = 1 .. n
      /\ \A i \in 1 .. n : contracts'[i] = contracts[i]
      /\ contracts'[n + 1] = c
      /\ Len(contracts') = n + 1
    BY <1>1, <1>6, <1>7
<1>10. \A i \in 1 .. n : contracts[i].account # a
    BY <1>4, <1>9, WorldIs DEF IsAccountHired
<1> HIDE DEF n
<1>11. Single(contracts')
  <2> SUFFICES ASSUME NEW j \in 1 .. n + 1, NEW k \in 1 .. n + 1,
                      contracts'[j].account = contracts'[k].account
               PROVE  j = k
      BY <1>9 DEF Single
  <2>1. CASE j \in 1 .. n /\ k \in 1 .. n
      BY <1>1, <1>9, <2>1 DEF Single
  <2>2. CASE j = n + 1 /\ k \in 1 .. n
      BY <1>6, <1>9, <1>10, <2>2
  <2>3. CASE j \in 1 .. n /\ k = n + 1
      BY <1>6, <1>9, <1>10, <2>3
  <2>4. \A x \in 1 .. n + 1 : x \in 1 .. n \/ x = n + 1
      BY <1>9
  <2> QED
      BY <2>1, <2>2, <2>3, <2>4
<1>12. Backed(contracts', party)
    BY <1>1, <1>6, <1>8 DEF Backed
<1>13. /\ sessions' \in [Accounts -> Session]
       /\ \A x \in Accounts : sessions'[x].player = sessions[x].player
    BY <1>1, <1>3, <1>4, SetSchedule
<1>14. FitNow'
  <2>1. \A x \in Owners : place'[x] = "out" => party'.of[x] = NoGroup
      BY <1>1, <1>5
  <2>2. \A x \in Accounts : sessions'[x].player \notin {"away", "world"} => party'.of[x] = NoGroup
      BY <1>1, <1>5, <1>13, WorldIs DEF Playing
  <2> QED
      BY <1>1, <1>5, <1>8, <1>11, <1>12, <1>13, <2>1, <2>2, FitNext
<1>15. Amounts'
  <2>1. gold \in [Owners -> Nat] /\ offers \in [Owners -> 0 .. Offers] /\ Offers \in Nat
      BY ContractsAssumption DEF ContractsInv, Amounts
  <2>2. gold' \in [Owners -> Nat] /\ offers' \in [Owners -> 0 .. Offers]
      BY <1>3, <1>5, <2>1
  <2> QED
      BY <1>5, <1>9, <2>2 DEF ContractsInv, Amounts
<1>16. ASSUME NEW x \in Owners
       PROVE  gold'[x] + offers'[x] + Cardinality(Awaited(contracts', x)) <= Purse + Offers
  <2> DEFINE A == Awaited(contracts, x)
             B == Awaited(contracts', x)
  <2>1. IsFiniteSet(A) /\ Cardinality(A) \in Nat /\ Cardinality(B) \in Nat
      BY <1>1, <1>8, AwaitedFinite
  <2>2. /\ gold[x] \in Nat /\ offers[x] \in Nat /\ Purse \in Nat /\ Offers \in Nat
        /\ gold \in [Owners -> Nat] /\ offers \in [Owners -> 0 .. Offers]
        /\ gold[x] + offers[x] + Cardinality(A) <= Purse + Offers
      BY ContractsAssumption DEF ContractsInv, Amounts, Funds
  <2>3. CASE x = o
    <3>1. B = A \cup {a}
        BY <1>4, <1>6, <1>8, <2>3 DEF Awaited
    <3>2. Cardinality(B) <= Cardinality(A) + 1
        BY <2>1, <3>1, FS_AddElement
    <3>3. gold'[x] + offers'[x] = gold[x] + offers[x] - 1
        BY <1>3, <1>5, <2>2, <2>3
    <3>4. gold'[x] \in Nat /\ offers'[x] \in Nat
        BY <1>15 DEF Amounts
    <3> HIDE DEF A, B
    <3>5. gold'[x] + offers'[x] + Cardinality(B) <= Purse + Offers
        BY <2>1, <2>2, <3>2, <3>3, <3>4
    <3> QED
        BY <3>5 DEF B
  <2>4. CASE x # o
    <3>1. B = A
        BY <1>6, <1>8, <2>4 DEF Awaited
    <3>2. gold'[x] = gold[x] /\ offers'[x] = offers[x]
        BY <1>3, <2>2, <2>4
    <3> QED
        BY <2>2, <3>1, <3>2
  <2> QED
      BY <2>3, <2>4
<1>17. Funds'
    BY <1>16 DEF Funds, Awaited
<1> QED
    BY <1>14, <1>15, <1>17 DEF ContractsInv

-----------------------------------------------------------------------------
(* Update.                                                                 *)

(* The contract that Update is at.                                         *)
LEMMA CurrentFacts ==
    ASSUME ContractsInv, cursor > 0
    PROVE  /\ cursor \in 1 .. Len(contracts) /\ cursor \in DOMAIN contracts
           /\ Current \in Contract /\ Current \in ToSet(contracts)
           /\ Current.account \in Accounts /\ Current.owner \in Owners
           /\ Current.owner # Current.account
<1>1. contracts \in Seq(Contract) /\ cursor \in 0 .. Len(contracts)
    BY FitFields DEF ContractsInv, Amounts
<1>2. cursor \in 1 .. Len(contracts) /\ DOMAIN contracts = 1 .. Len(contracts)
    BY <1>1
<1>3. Current \in ToSet(contracts)
    BY <1>2 DEF Current, ToSet
<1> QED
    BY <1>1, <1>2, <1>3, ContractFields

(* ++it: the contract has new counters, or has become active.              *)
LEMMA KeepSteps ==
    ASSUME ContractsInv, cursor > 0, NEW c \in Contract, Keep(c),
           c.account = Current.account, c.owner = Current.owner,
           c.stage = "summoning" => Current.stage = "summoning"
    PROVE  /\ contracts' \in Seq(Contract) /\ Single(contracts')
           /\ cursor' \in 0 .. Len(contracts')
           /\ \A o \in Owners : Awaited(contracts', o) \subseteq Awaited(contracts, o)
           /\ \A d \in ToSet(contracts') : d = c \/ d \in ToSet(contracts)
<1>1. contracts \in Seq(Contract) /\ Single(contracts)
    BY FitFields DEF ContractsInv
<1>2. /\ cursor \in 1 .. Len(contracts) /\ cursor \in DOMAIN contracts
      /\ Current \in ToSet(contracts) /\ Current = contracts[cursor]
    BY CurrentFacts DEF Current
<1>3. contracts' = [contracts EXCEPT ![cursor] = c]
    BY DEF Keep
<1>4. /\ contracts' \in Seq(Contract) /\ Len(contracts') = Len(contracts)
      /\ DOMAIN contracts' = DOMAIN contracts /\ contracts'[cursor] = c
      /\ \A i \in DOMAIN contracts : i # cursor => contracts'[i] = contracts[i]
    BY <1>1, <1>2, <1>3
<1>5. \A i \in DOMAIN contracts : contracts'[i].account = contracts[i].account
    BY <1>2, <1>4
<1>6. Single(contracts')
    BY <1>1, <1>4, <1>5 DEF Single
<1>7. \A d \in ToSet(contracts') : d = c \/ d \in ToSet(contracts)
    BY <1>4 DEF ToSet
<1>8. \A o \in Owners : Awaited(contracts', o) \subseteq Awaited(contracts, o)
    BY <1>2, <1>7 DEF Awaited
<1>9. cursor' \in 0 .. Len(contracts')
    BY <1>1, <1>2, <1>4 DEF Keep
<1> QED
    BY <1>4, <1>6, <1>7, <1>8, <1>9

(* What is to see of a step that keeps the contract.                       *)
LEMMA KeptKeeps ==
    ASSUME ContractsInv, cursor > 0, NEW c \in Contract, Keep(c),
           c.account = Current.account, c.owner = Current.owner,
           c.stage = "summoning" => Current.stage = "summoning",
           UNCHANGED <<gold, offers, place, sessions, freed, drops>>,
           party' \in Party, Listed(party'), Backed(contracts', party'),
           \A x \in Owners : place[x] = "out" => party'.of[x] = NoGroup,
           \A x \in Accounts : ~Playing(World, x) => party'.of[x] = NoGroup
    PROVE  ContractsInv'
<1>1. /\ contracts' \in Seq(Contract) /\ Single(contracts')
      /\ cursor' \in 0 .. Len(contracts')
      /\ \A o \in Owners : Awaited(contracts', o) \subseteq Awaited(contracts, o)
    BY KeepSteps
<1>2. sessions \in [Accounts -> Session] /\ freed = FALSE
    BY FitFields DEF ContractsInv
<1>3. \A x \in Accounts : sessions'[x].player \notin {"away", "world"} => party'.of[x] = NoGroup
    BY <1>2, WorldIs DEF Playing
<1>4. FitNow'
    BY <1>1, <1>2, <1>3, FitNext
<1>5. Funds'
    BY <1>1, FundsStay
<1>6. Amounts'
    BY <1>1 DEF ContractsInv, Amounts
<1> QED
    BY <1>4, <1>5, <1>6 DEF ContractsInv

(* The counters of a contract change, and nothing else.                    *)
LEMMA CountersKeep ==
    ASSUME ContractsInv, cursor > 0, NEW c \in Contract, Keep(c),
           c.account = Current.account, c.owner = Current.owner,
           c.stage = Current.stage, c.pending = Current.pending,
           UNCHANGED <<gold, offers, place, sessions, party, freed, drops>>
    PROVE  ContractsInv'
<1>1. /\ party \in Party /\ Listed(party) /\ Backed(contracts, party)
      /\ \A x \in Owners : place[x] = "out" => party.of[x] = NoGroup
      /\ \A x \in Accounts : ~Playing(World, x) => party.of[x] = NoGroup
    BY FitFields DEF ContractsInv
<1>2. Current \in ToSet(contracts)
    BY CurrentFacts
<1>3. \A d \in ToSet(contracts') : d = c \/ d \in ToSet(contracts)
    BY KeepSteps
<1>4. Backed(contracts', party')
    BY <1>1, <1>2, <1>3 DEF Backed
<1> QED
    BY <1>1, <1>4, KeptKeeps

(* m_contracts.erase: no contract is left for the account.                 *)
LEMMA EraseFacts ==
    ASSUME ContractsInv, cursor > 0
    PROVE  LET r == RemoveAt(contracts, cursor) IN
           /\ r \in Seq(Contract) /\ Single(r) /\ Len(r) = Len(contracts) - 1
           /\ ToSet(r) \subseteq ToSet(contracts)
           /\ \A d \in ToSet(r) : d.account # Current.account
<1> DEFINE r == RemoveAt(contracts, cursor)
<1>1. contracts \in Seq(Contract) /\ Single(contracts)
    BY FitFields DEF ContractsInv
<1>2. /\ cursor \in 1 .. Len(contracts) /\ cursor \in DOMAIN contracts
      /\ Current = contracts[cursor]
    BY CurrentFacts DEF Current
<1>3. r \in Seq(Contract) /\ Len(r) = Len(contracts) - 1
    BY <1>1, <1>2, RemoveAtFacts
<1>4. PICK f \in [DOMAIN r -> DOMAIN contracts \ {cursor}] :
            /\ \A i \in DOMAIN r : r[i] = contracts[f[i]]
            /\ \A i, j \in DOMAIN r : f[i] = f[j] => i = j
    BY <1>1, <1>2, RemoveAtPlaces
<1> HIDE DEF r
<1>5. Single(r)
    BY <1>1, <1>4 DEF Single
<1>6. \A d \in ToSet(r) : d \in ToSet(contracts) /\ d.account # Current.account
    BY <1>1, <1>2, <1>4 DEF ToSet, Single
<1> QED
    BY <1>3, <1>5, <1>6 DEF r

(* The end of a contract, in a world that has the same contracts.          *)
LEMMA EndFacts ==
    ASSUME ContractsInv, cursor > 0, NEW w, Fit(w), w.contracts = contracts, End(w),
           UNCHANGED <<offers, place, drops>>
    PROVE  /\ FitNow' /\ contracts' \in Seq(Contract)
           /\ cursor' \in 0 .. Len(contracts')
           /\ \A d \in ToSet(contracts') : d.account # Current.account
           /\ \A o \in Owners : Awaited(contracts', o)
                                    \subseteq Awaited(contracts, o) \ {Current.account}
<1> DEFINE r == RemoveAt(contracts, cursor)
           v == [w EXCEPT !.contracts = r]
           u == ReleaseBot(v, Current)
<1>1. /\ r \in Seq(Contract) /\ Single(r) /\ Len(r) = Len(contracts) - 1
      /\ ToSet(r) \subseteq ToSet(contracts)
      /\ \A d \in ToSet(r) : d.account # Current.account
    BY EraseFacts
<1>2. Becomes(u) /\ cursor' = IF cursor = Len(contracts) THEN 0 ELSE cursor
  <2>1. w \in Worlds
      BY DEF Fit, Sound
  <2>2. [w EXCEPT !.contracts = RemoveAt(@, cursor)] = v
      BY <2>1 DEF Worlds
  <2> HIDE DEF v
  <2> QED
      BY <2>2 DEF End
<1>3. Current \in Contract /\ cursor \in 1 .. Len(contracts) /\ contracts \in Seq(Contract)
    BY CurrentFacts, FitFields DEF ContractsInv
<1> HIDE DEF r
<1>4. Fit(v) /\ v.contracts = r
    BY <1>1, FewerContracts
<1> HIDE DEF v
<1>5. Fit(u) /\ u.contracts = r
    BY <1>1, <1>3, <1>4, ReleaseBotFacts
<1> HIDE DEF u
<1>6. FitNow' /\ contracts' = r
    BY <1>2, <1>5, BecomesFit DEF Becomes
<1>7. cursor' \in 0 .. Len(contracts')
    BY <1>1, <1>2, <1>3, <1>6
<1>8. \A o \in Owners : Awaited(r, o) \subseteq Awaited(contracts, o) \ {Current.account}
    BY <1>1 DEF Awaited
<1> QED
    BY <1>1, <1>6, <1>7, <1>8

(* Without the money back.                                                 *)
LEMMA EndKeeps ==
    ASSUME ContractsInv, cursor > 0, End(World), UNCHANGED <<gold, offers, place, drops>>
    PROVE  ContractsInv'
<1>1. Fit(World) /\ World.contracts = contracts
    BY FitFields, WorldIs DEF ContractsInv
<1>2. /\ FitNow' /\ contracts' \in Seq(Contract)
      /\ cursor' \in 0 .. Len(contracts')
      /\ \A o \in Owners : Awaited(contracts', o) \subseteq Awaited(contracts, o)
    BY <1>1, EndFacts
<1>3. Funds'
    BY <1>2, FundsStay
<1>4. Amounts'
    BY <1>2 DEF ContractsInv, Amounts
<1> QED
    BY <1>2, <1>3, <1>4 DEF ContractsInv

(* With it: the mercenary was awaited, and is no more.                     *)
LEMMA RefundKeeps ==
    ASSUME ContractsInv, cursor > 0, Current.stage = "summoning",
           NEW w, Fit(w), w.contracts = contracts, EndAndRefund(w),
           UNCHANGED <<offers, place, drops>>
    PROVE  ContractsInv'
<1>1. End(w) /\ gold' = [gold EXCEPT ![Current.owner] = @ + 1]
    BY DEF EndAndRefund, Refund
<1>2. /\ FitNow' /\ contracts' \in Seq(Contract)
      /\ cursor' \in 0 .. Len(contracts')
      /\ \A o \in Owners : Awaited(contracts', o)
                                \subseteq Awaited(contracts, o) \ {Current.account}
    BY <1>1, EndFacts
<1>3. /\ Current \in ToSet(contracts) /\ Current.account \in Accounts
      /\ Current.owner \in Owners
    BY CurrentFacts
<1>4. /\ gold \in [Owners -> Nat] /\ offers \in [Owners -> 0 .. Offers] /\ Offers \in Nat
      /\ Purse \in Nat
    BY ContractsAssumption DEF ContractsInv, Amounts
<1>5. gold' \in [Owners -> Nat]
    BY <1>1, <1>3, <1>4
<1>6. contracts \in Seq(Contract)
    BY FitFields DEF ContractsInv
<1>7. ASSUME NEW x \in Owners
      PROVE  gold'[x] + offers'[x] + Cardinality(Awaited(contracts', x)) <= Purse + Offers
  <2> DEFINE A == Awaited(contracts, x)
             B == Awaited(contracts', x)
  <2>1. /\ IsFiniteSet(A) /\ Cardinality(A) \in Nat
        /\ IsFiniteSet(B) /\ Cardinality(B) \in Nat
      BY <1>2, <1>6, AwaitedFinite
  <2>2. B \subseteq A \ {Current.account}
      BY <1>2
  <2>3. gold[x] + offers[x] + Cardinality(A) <= Purse + Offers
      BY DEF ContractsInv, Funds
  <2>4. gold[x] \in Nat /\ offers[x] \in Nat
      BY <1>4
  <2>5. CASE x = Current.owner
    <3>1. Current.account \in A
        BY <1>3, <2>5 DEF Awaited
    <3> HIDE DEF A, B
    <3>2. /\ IsFiniteSet(A \ {Current.account})
          /\ Cardinality(A \ {Current.account}) = Cardinality(A) - 1
        BY <2>1, <3>1, FS_RemoveElement
    <3>3. Cardinality(B) <= Cardinality(A) - 1
        BY <2>2, <3>2, FS_Subset
    <3>4. gold'[x] = gold[x] + 1
        BY <1>1, <1>4, <2>5
    <3>5. gold'[x] + offers[x] + Cardinality(B) <= Purse + Offers
        BY <1>4, <2>1, <2>3, <2>4, <3>3, <3>4
    <3> QED
        BY <3>5 DEF B
  <2>6. CASE x # Current.owner
    <3> HIDE DEF A, B
    <3>1. B \subseteq A
        BY <2>2
    <3>2. Cardinality(B) <= Cardinality(A)
        BY <2>1, <3>1, FS_Subset
    <3>3. gold'[x] = gold[x]
        BY <1>1, <1>4, <2>6
    <3>4. gold'[x] + offers[x] + Cardinality(B) <= Purse + Offers
        BY <1>4, <2>1, <2>3, <2>4, <3>2, <3>3
    <3> QED
        BY <3>4 DEF B
  <2> QED
      BY <2>5, <2>6
<1>8. Funds'
    BY <1>7 DEF Funds, Awaited
<1>9. Amounts'
    BY <1>2, <1>4, <1>5 DEF ContractsInv, Amounts
<1> QED
    BY <1>2, <1>8, <1>9 DEF ContractsInv

(* A pass begins.                                                          *)
LEMMA KeepsStartUpdate ==
    ASSUME ContractsInv, StartUpdate
    PROVE  ContractsInv'
<1>1. /\ contracts # <<>> /\ cursor' = 1
      /\ UNCHANGED <<offers, contracts, gold, place, sessions, party, freed, drops>>
    BY DEF StartUpdate
<1>2. contracts \in Seq(Contract)
    BY FitFields DEF ContractsInv
<1>3. World' = World /\ FitNow
    BY <1>1 DEF World, ContractsInv
<1>4. Online(World)' = Online(World)
    BY <1>1, <1>3 DEF Online, Playing
<1>5. FitNow'
    BY <1>3, <1>4 DEF FitNow, Fit, Loose
<1>6. Len(contracts) \in Nat /\ Len(contracts) # 0
    BY <1>1, <1>2
<1>7. Amounts' /\ Funds'
    BY <1>1, <1>6 DEF ContractsInv, Amounts, Funds, Awaited
<1> QED
    BY <1>5, <1>7 DEF ContractsInv

(* A marked contract ends.                                                 *)
LEMMA KeepsBroken ==
    ASSUME ContractsInv, Broken
    PROVE  ContractsInv'
    BY EndKeeps DEF Broken

(* A grace, then the end without a refund.                                 *)
LEMMA KeepsAbsence ==
    ASSUME ContractsInv, Absence
    PROVE  ContractsInv'
<1>1. cursor > 0 /\ UNCHANGED <<offers, place, drops>>
    BY DEF Absence
<1>2. Current \in Contract
    BY <1>1, CurrentFacts
<1> DEFINE c == [Current EXCEPT !.absence = @ + 1]
<1>3. CASE /\ Current.absence + 1 < Grace /\ Keep(c)
           /\ UNCHANGED <<gold, sessions, party, freed>>
  <2>1. c \in Contract
      BY <1>2, <1>3, ContractsAssumption DEF Contract
  <2>2. /\ c.account = Current.account /\ c.owner = Current.owner
        /\ c.stage = Current.stage /\ c.pending = Current.pending
      BY <1>2 DEF Contract
  <2> HIDE DEF c
  <2> QED
      BY <1>1, <1>3, <2>1, <2>2, CountersKeep
<1>4. CASE End(World) /\ UNCHANGED gold
    BY <1>1, <1>4, EndKeeps
<1> QED
    BY <1>3, <1>4 DEF Absence

(* An active contract lasts, or its company has parted.                    *)
LEMMA KeepsServe ==
    ASSUME ContractsInv, Serve
    PROVE  ContractsInv'
<1>1. cursor > 0 /\ UNCHANGED <<offers, gold, place, drops>>
    BY DEF Serve
<1>2. Current \in Contract
    BY <1>1, CurrentFacts
<1> DEFINE c == [Current EXCEPT !.absence = 0]
<1>3. CASE Keep(c) /\ UNCHANGED <<sessions, party, freed>>
  <2>1. c \in Contract
      BY <1>2, ContractsAssumption DEF Contract
  <2>2. /\ c.account = Current.account /\ c.owner = Current.owner
        /\ c.stage = Current.stage /\ c.pending = Current.pending
      BY <1>2 DEF Contract
  <2> HIDE DEF c
  <2> QED
      BY <1>1, <1>3, <2>1, <2>2, CountersKeep
<1>4. CASE End(World)
    BY <1>1, <1>4, EndKeeps
<1> QED
    BY <1>3, <1>4 DEF Serve

(* The wait goes on, or its money comes back.                              *)
LEMMA KeepsExpect ==
    ASSUME ContractsInv, Expect
    PROVE  ContractsInv'
<1>1. cursor > 0 /\ UNCHANGED <<offers, place, drops>> /\ Current.stage = "summoning"
    BY DEF Expect, Summoned
<1>2. Current \in Contract
    BY <1>1, CurrentFacts
<1> DEFINE c == [Current EXCEPT !.wait = @ + 1]
<1>3. CASE /\ ~(Current.wait + 1 > Timeout) /\ Keep(c)
           /\ UNCHANGED <<gold, sessions, party, freed>>
  <2>1. c \in Contract
      BY <1>2, <1>3, ContractsAssumption DEF Contract
  <2>2. /\ c.account = Current.account /\ c.owner = Current.owner
        /\ c.stage = Current.stage /\ c.pending = Current.pending
      BY <1>2 DEF Contract
  <2> HIDE DEF c
  <2> QED
      BY <1>1, <1>3, <2>1, <2>2, CountersKeep
<1>4. CASE EndAndRefund(World)
  <2>1. Fit(World) /\ World.contracts = contracts
      BY FitFields, WorldIs DEF ContractsInv
  <2> QED
      BY <1>1, <1>4, <2>1, RefundKeeps
<1> QED
    BY <1>3, <1>4 DEF Expect

(* The group that the employer is in, or that is made for it.              *)
LEMMA Employers ==
    ASSUME ContractsInv, NEW o \in Owners, place[o] # "out",
           NEW g \in IF party.of[o] = NoGroup THEN FreeGroup(party) ELSE {party.of[o]},
           NEW p, p = IF party.of[o] = NoGroup THEN Create(party, g, o) ELSE party
    PROVE  /\ g \in Groups /\ p \in Party /\ Listed(p) /\ o \in Members(p, g)
           /\ \A h \in Groups : Members(party, h) \subseteq Members(p, h)
           /\ \A x \in Players \ {o} : p.of[x] = party.of[x]
<1>1. party \in Party /\ Listed(party)
    BY FitFields DEF ContractsInv
<1>2. o \in Players
    BY ContractsAssumption
<1>3. CASE party.of[o] = NoGroup
    BY <1>1, <1>2, <1>3, CreateFacts DEF FreeGroup
<1>4. CASE party.of[o] # NoGroup
    BY <1>1, <1>2, <1>4, PointsAt
<1> QED
    BY <1>3, <1>4

(* No room: the contract ends in a world that handlers may be called in.   *)
LEMMA ArriveRefunds ==
    ASSUME ContractsInv, Arrive
    PROVE  \/ \E w : Fit(w) /\ w.contracts = contracts /\ EndAndRefund(w)
           \/ /\ UNCHANGED <<gold, sessions, freed>>
              /\ \E g \in Groups : \E p \in Party :
                    /\ Listed(p) /\ Current.owner \in Members(p, g)
                    /\ \A h \in Groups : Members(party, h) \subseteq Members(p, h)
                    /\ \A x \in Players \ {Current.owner} : p.of[x] = party.of[x]
                    /\ Keep([Current EXCEPT !.stage = "active", !.wait = 0])
                    /\ party' = AddMember(p, g, Current.account)
<1> DEFINE o == Current.owner
           a == Current.account
           c == [Current EXCEPT !.stage = "active", !.wait = 0]
<1>1. /\ cursor > 0 /\ UNCHANGED <<offers, place, drops>> /\ Current.stage = "summoning"
      /\ ~Absent /\ Ready(a)
    BY DEF Arrive, Summoned
<1>2. /\ Current \in Contract /\ o \in Owners /\ a \in Accounts
      /\ o \in Players /\ a \in Players
    BY <1>1, CurrentFacts, ContractsAssumption
<1>3. place[o] = "world" /\ Playing(World, a)
    BY <1>1, <1>2, WorldIs DEF Absent, InWorld, Ready, Playing
<1>4. /\ contracts \in Seq(Contract) /\ Fit(World)
      /\ party \in Party /\ Listed(party) /\ Backed(contracts, party)
      /\ \A x \in Owners : place[x] = "out" => party.of[x] = NoGroup
      /\ \A x \in Accounts : ~Playing(World, x) => party.of[x] = NoGroup
    BY FitFields DEF ContractsInv
<1>5. PICK g \in IF party.of[o] = NoGroup THEN FreeGroup(party) ELSE {party.of[o]} :
            LET p == IF party.of[o] = NoGroup THEN Create(party, g, o) ELSE party
            IN IF IsFull(p, g)
               THEN EndAndRefund([World EXCEPT !.party = p])
               ELSE /\ Keep(c)
                    /\ party' = AddMember(p, g, a)
                    /\ UNCHANGED <<gold, sessions, freed>>
    BY DEF Arrive
<1> DEFINE p == IF party.of[o] = NoGroup THEN Create(party, g, o) ELSE party
<1>6. /\ g \in Groups /\ p \in Party /\ Listed(p) /\ o \in Members(p, g)
      /\ \A h \in Groups : Members(party, h) \subseteq Members(p, h)
      /\ \A x \in Players \ {o} : p.of[x] = party.of[x]
  <2>1. place[o] # "out"
      BY <1>3
  <2>2. p = IF party.of[o] = NoGroup THEN Create(party, g, o) ELSE party
      OBVIOUS
  <2> HIDE DEF p, o
  <2> QED
      BY <1>2, <2>1, <2>2, Employers
<1>7. \/ EndAndRefund([World EXCEPT !.party = p])
      \/ /\ Keep(c) /\ party' = AddMember(p, g, a) /\ UNCHANGED <<gold, sessions, freed>>
    BY <1>5
<1> HIDE DEF p
<1>9. CASE EndAndRefund([World EXCEPT !.party = p])
  <2> DEFINE w == [World EXCEPT !.party = p]
  <2>1. World \in Worlds
      BY <1>4 DEF Fit, Sound
  <2>2. w \in Worlds /\ w.contracts = contracts /\ w.sessions = sessions /\ w.party = p
      BY <1>6, <2>1, NewParty, WorldIs
  <2>3. EndAndRefund(w)
      BY <1>9
  <2> HIDE DEF w
  <2>4. Backed(contracts, p)
      BY <1>4, <1>6, BackedMembers
  <2>5. Loose(w)
    <3> SUFFICES ASSUME NEW x \in Players, x \notin Online(w)
                 PROVE  p.of[x] = NoGroup
        BY <2>2 DEF Loose
    <3>1. x # o
        BY <1>2, <1>3, OnlineFacts
    <3>2. x \in Owners => place[x] = "out"
        BY OnlineFacts
    <3>3. x \in Accounts => ~Playing(World, x)
        BY <2>2, OnlineFacts, WorldIs DEF Playing
    <3> HIDE DEF o
    <3> QED
        BY <1>4, <1>6, <3>1, <3>2, <3>3, ContractsAssumption
  <2>6. Fit(w)
      BY <1>4, <1>6, <2>2, <2>4, <2>5, FitFields DEF Fit, Sound, ContractsInv
  <2> QED
      BY <2>2, <2>3, <2>6
<1>10. CASE Keep(c) /\ party' = AddMember(p, g, a) /\ UNCHANGED <<gold, sessions, freed>>
    BY <1>6, <1>10
<1> QED
    BY <1>7, <1>9, <1>10

(* The contract once the mercenary is there.                               *)
LEMMA ActiveContract ==
    ASSUME NEW c \in Contract
    PROVE  LET d == [c EXCEPT !.stage = "active", !.wait = 0] IN
           /\ d \in Contract /\ d.account = c.account /\ d.owner = c.owner
           /\ d.stage = "active"
<1> DEFINE e == [c EXCEPT !.stage = "active"]
           d == [c EXCEPT !.stage = "active", !.wait = 0]
<1>1. e \in Contract
    BY DEF Contract
<1>2. d = [e EXCEPT !.wait = 0] /\ d.stage = "active"
    BY DEF Contract
<1>3. 0 \in 0 .. Timeout
    BY ContractsAssumption
<1>4. d \in Contract
  <2> HIDE DEF d, e
  <2> QED
      BY <1>1, <1>2, <1>3 DEF Contract
<1> QED
    BY <1>2, <1>4 DEF Contract

(* The mercenary enters the group of its employer, or finds no room.       *)
LEMMA KeepsArrive ==
    ASSUME ContractsInv, Arrive
    PROVE  ContractsInv'
<1> DEFINE o == Current.owner
           a == Current.account
           c == [Current EXCEPT !.stage = "active", !.wait = 0]
<1>1. /\ cursor > 0 /\ UNCHANGED <<offers, place, drops>> /\ Current.stage = "summoning"
      /\ ~Absent /\ Ready(a)
    BY DEF Arrive, Summoned
<1>2. /\ Current \in Contract /\ o \in Owners /\ a \in Accounts
      /\ o \in Players /\ a \in Players
    BY <1>1, CurrentFacts, ContractsAssumption
<1>3. place[o] = "world" /\ Playing(World, a)
    BY <1>1, <1>2, WorldIs DEF Absent, InWorld, Ready, Playing
<1>4. /\ contracts \in Seq(Contract)
      /\ party \in Party /\ Listed(party) /\ Backed(contracts, party)
      /\ \A x \in Owners : place[x] = "out" => party.of[x] = NoGroup
      /\ \A x \in Accounts : ~Playing(World, x) => party.of[x] = NoGroup
    BY FitFields DEF ContractsInv
<1>5. c \in Contract /\ c.account = a /\ c.owner = o /\ c.stage = "active"
    BY <1>2, ActiveContract
<1>6. CASE \E w : Fit(w) /\ w.contracts = contracts /\ EndAndRefund(w)
    BY <1>1, <1>6, RefundKeeps
<1>7. CASE ~(\E w : Fit(w) /\ w.contracts = contracts /\ EndAndRefund(w))
  <2>1. /\ UNCHANGED <<gold, sessions, freed>>
        /\ \E g \in Groups : \E p \in Party :
              /\ Listed(p) /\ o \in Members(p, g)
              /\ \A h \in Groups : Members(party, h) \subseteq Members(p, h)
              /\ \A x \in Players \ {o} : p.of[x] = party.of[x]
              /\ Keep(c)
              /\ party' = AddMember(p, g, a)
      BY <1>7, ArriveRefunds
  <2> HIDE DEF c, o, a
  <2>2. PICK g \in Groups, p \in Party :
              /\ Listed(p) /\ o \in Members(p, g)
              /\ \A h \in Groups : Members(party, h) \subseteq Members(p, h)
              /\ \A x \in Players \ {o} : p.of[x] = party.of[x]
              /\ Keep(c)
              /\ party' = AddMember(p, g, a)
      BY <2>1
  <2>3. /\ party' \in Party /\ Listed(party') /\ a \in Members(party', g)
        /\ \A h \in Groups : Members(p, h) \subseteq Members(party', h)
        /\ \A x \in Players \ {a} : party'.of[x] = p.of[x]
      BY <1>2, <2>2, AddMemberFacts
  <2>4. \A d \in ToSet(contracts') : d = c \/ d \in ToSet(contracts)
      BY <1>1, <1>5, <2>2, KeepSteps DEF o, a
  <2>5. o \in Members(party', g)
      BY <2>2, <2>3
  <2>6. Backed(contracts', party')
    <3> SUFFICES ASSUME NEW d \in ToSet(contracts'), d.stage = "active", ~d.pending
                 PROVE  \E h \in Groups :
                            d.owner \in Members(party', h) /\ d.account \in Members(party', h)
        BY <2>3, BackedMembers
    <3>1. CASE d = c
        BY <1>5, <2>3, <2>5, <3>1
    <3>2. CASE d \in ToSet(contracts)
      <4>1. \E h \in Groups : d.owner \in Members(party, h) /\ d.account \in Members(party, h)
          BY <1>4, <3>2, BackedMembers
      <4> QED
          BY <2>2, <2>3, <4>1
    <3> QED
        BY <2>4, <3>1, <3>2
  <2>7. \A x \in Players : x # o /\ x # a => party'.of[x] = party.of[x]
      BY <2>2, <2>3
  <2>8. \A x \in Owners : place[x] = "out" => party'.of[x] = NoGroup
      BY <1>2, <1>3, <1>4, <2>7, ContractsAssumption
  <2>9. \A x \in Accounts : ~Playing(World, x) => party'.of[x] = NoGroup
      BY <1>2, <1>3, <1>4, <2>7, ContractsAssumption
  <2> QED
      BY <1>1, <1>5, <2>1, <2>2, <2>3, <2>6, <2>8, <2>9, KeptKeeps DEF o, a
<1> QED
    BY <1>6, <1>7

-----------------------------------------------------------------------------
(* The theorems.                                                           *)

(* Nobody is hired yet.                                                    *)
LEMMA InitFit ==
    ASSUME Init
    PROVE  ContractsInv
<1>1. /\ contracts = <<>> /\ party = NoParty /\ freed = FALSE /\ cursor = 0 /\ drops = 0
      /\ gold = [o \in Owners |-> Purse] /\ offers = [o \in Owners |-> Offers]
      /\ place \in [Owners -> {"out", "world"}]
      /\ sessions \in [Accounts -> [player : {"none", "world"}, schedule : {"none"}]]
    BY DEF Init
<1>2. /\ contracts \in Seq(Contract) /\ Single(contracts) /\ ToSet(contracts) = {}
      /\ Len(contracts) = 0
    BY <1>1 DEF Single, ToSet
<1>3. sessions \in [Accounts -> Session]
    BY <1>1 DEF Session
<1>4. party \in Party /\ \A m \in Players : party.of[m] = NoGroup /\ party.row[m] = NoGroup
  <2>1. [g \in Groups |-> <<>>] \in [Groups -> Seq(Players)]
      OBVIOUS
  <2>2. [g \in Groups |-> Nobody] \in [Groups -> Players \cup {Nobody}]
      OBVIOUS
  <2>3. [m \in Players |-> NoGroup] \in [Players -> Groups \cup {NoGroup}]
      OBVIOUS
  <2> QED
      BY <1>1, <2>1, <2>2, <2>3 DEF NoParty, Party
<1>5. FitNow
  <2>1. World \in Worlds
      BY <1>1, <1>2, <1>3, <1>4 DEF World, Worlds
  <2>2. Backed(contracts, party)
      BY <1>2 DEF Backed
  <2>3. Listed(party) /\ Loose(World)
      BY <1>4, WorldIs DEF Listed, Loose
  <2> QED
      BY <1>2, <2>1, <2>2, <2>3, WorldIs DEF FitNow, Fit, Sound
<1>6. Amounts
  <2>1. Purse \in Nat /\ Offers \in Nat /\ MaxDrops \in Nat
      BY ContractsAssumption
  <2> QED
      BY <1>1, <1>2, <2>1 DEF Amounts
<1>7. Funds
  <2>1. \A o \in Owners : Awaited(contracts, o) = {}
      BY <1>2 DEF Awaited
  <2>2. Purse \in Nat /\ Offers \in Nat /\ Cardinality({}) = 0
      BY ContractsAssumption, FS_EmptySet
  <2>3. \A o \in Owners : gold[o] + offers[o] + 0 <= Purse + Offers
      BY <1>1, <2>2
  <2> QED
      BY <2>1, <2>2, <2>3 DEF Funds
<1> QED
    BY <1>5, <1>6, <1>7 DEF ContractsInv

(* Nothing happens.                                                        *)
LEMMA KeepsStutter ==
    ASSUME ContractsInv, UNCHANGED vars
    PROVE  ContractsInv'
    BY DEF ContractsInv, FitNow, Fit, Sound, Loose, Online, Playing, World, Amounts, Funds,
           Awaited, Single, Listed, Backed, Worlds, vars

(* Every handler, and every step of Update, keeps the invariant.           *)
LEMMA Keeps ==
    ASSUME ContractsInv, [Next]_vars
    PROVE  ContractsInv'
<1>1. CASE \E o \in Owners : OwnerStep(o)
  <2>1. PICK o \in Owners : OwnerStep(o)
      BY <1>1
  <2>2. CASE \E free \in BOOLEAN : Summon(o, free)
      BY <2>2, KeepsSummon
  <2>3. CASE DismissCompany(o) \/ DismissFreeEscort(o)
      BY <2>3, KeepsDismissals
  <2>4. CASE Login(o)
      BY <2>4, KeepsLogin
  <2>5. CASE Teleport(o)
      BY <2>5, KeepsTeleport
  <2>6. CASE \E socket \in BOOLEAN : Logout(o, socket)
      BY <2>6, KeepsLogout
  <2>7. CASE LeaveGroup(o) \/ \E m \in Players : Uninvite(o, m)
      BY <2>7, KeepsDepartures
  <2>8. CASE \E m \in Players : AcceptInvite(o, m)
      BY <2>8, KeepsAcceptInvite
  <2> QED
      BY <2>1, <2>2, <2>3, <2>4, <2>5, <2>6, <2>7, <2>8 DEF OwnerStep
<1>2. CASE \E a \in Accounts : BotStep(a)
  <2>1. PICK a \in Accounts : BotStep(a)
      BY <1>2
  <2> QED
      BY <2>1, KeepsBots, KeepsEndLogin, KeepsIdleLogout DEF BotStep
<1>3. CASE Update
    BY <1>3, KeepsStartUpdate, KeepsBroken, KeepsAbsence, KeepsServe, KeepsExpect, KeepsArrive
    DEF Update
<1>4. CASE UNCHANGED vars
    BY <1>4, KeepsStutter
<1> QED
    BY <1>1, <1>2, <1>3, <1>4 DEF Next

(* The invariant holds in every state of MercenaryMgr that the handlers    *)
(* and the passes of Update lead to.                                       *)
THEOREM Invariant == Spec => []ContractsInv
<1>1. Init => ContractsInv
    BY InitFit
<1>2. ContractsInv /\ [Next]_vars => ContractsInv'
    BY Keeps
<1> QED
    BY <1>1, <1>2, PTL DEF Spec

(* The fields of m_contracts, of the sessions and of the groups have their *)
(* types whatever handlers run, the cursor of Update stays in the list,    *)
(* and no owner ever has more gold than what it came with and was offered. *)
THEOREM TypeCorrect == Spec => []TypeOK
<1>1. ContractsInv => TypeOK
  <2> SUFFICES ASSUME ContractsInv
               PROVE  TypeOK
      OBVIOUS
  <2>1. /\ contracts \in Seq(Contract) /\ sessions \in [Accounts -> Session]
        /\ party \in Party /\ freed \in BOOLEAN
      BY FitFields DEF ContractsInv
  <2>2. /\ gold \in [Owners -> Nat] /\ offers \in [Owners -> 0 .. Offers]
        /\ Purse \in Nat /\ Offers \in Nat
      BY ContractsAssumption DEF ContractsInv, Amounts
  <2>3. ASSUME NEW o \in Owners
        PROVE  gold[o] \in 0 .. Purse + Offers
    <3>1. Cardinality(Awaited(contracts, o)) \in Nat
        BY <2>1, AwaitedFinite
    <3>2. gold[o] + offers[o] + Cardinality(Awaited(contracts, o)) <= Purse + Offers
        BY DEF ContractsInv, Funds
    <3>3. gold[o] \in Nat /\ offers[o] \in Nat
        BY <2>2
    <3> QED
        BY <2>2, <3>1, <3>2, <3>3
  <2>4. gold \in [Owners -> 0 .. Purse + Offers]
      BY <2>2, <2>3
  <2> QED
      BY <2>1, <2>4 DEF TypeOK, ContractsInv, Amounts
<1> QED
    BY <1>1, Invariant, PTL

(* FindCandidate hires no bot that IsAccountHired knows: no account is     *)
(* under two contracts, whatever the number of players and of bots.        *)
THEOREM OneContractCorrect == Spec => []OneContractPerBot
<1>1. ContractsInv => OneContractPerBot
    BY FitFields DEF ContractsInv, Single, OneContractPerBot
<1> QED
    BY <1>1, Invariant, PTL

(* Group::RemoveMember and Group::Disband call the hooks of MercenaryMgr   *)
(* before they touch a slot, so that an active contract no hook has marked *)
(* is backed by a group that lists both the employer and the mercenary.    *)
THEOREM LinkedCorrect == Spec => []Linked
<1>1. ContractsInv => Linked
  <2> SUFFICES ASSUME ContractsInv, NEW i \in DOMAIN contracts,
                      contracts[i].stage = "active", ~contracts[i].pending
               PROVE  \E g \in Groups : /\ IsMember(party, g, contracts[i].owner)
                                        /\ IsMember(party, g, contracts[i].account)
      BY DEF Linked
  <2>1. Backed(contracts, party) /\ contracts[i] \in ToSet(contracts)
      BY FitFields DEF ContractsInv, ToSet
  <2> QED
      BY <2>1 DEF Backed
<1> QED
    BY <1>1, Invariant, PTL

(* The hooks only mark contracts: none of them makes the group disappear   *)
(* that Group::RemoveMember or Group::Disband goes on with (the double     *)
(* free of MercenaryMgr.cpp:590).                                          *)
THEOREM NoUseAfterDeleteCorrect == Spec => []NoUseAfterDelete
<1>1. ContractsInv => NoUseAfterDelete
    BY FitFields DEF ContractsInv, NoUseAfterDelete
<1> QED
    BY <1>1, Invariant, PTL

(* Only the summons that Update gives up pays: one recruitment, to its     *)
(* employer.                                                               *)
LEMMA RefundSteps ==
    ASSUME ContractsInv, [Next]_vars, NEW o \in Owners, gold'[o] > gold[o]
    PROVE  /\ cursor > 0 /\ Current.owner = o /\ gold'[o] = gold[o] + 1
           /\ Current.stage = "summoning" /\ ~Current.pending
           /\ \A j \in DOMAIN contracts' : contracts'[j].account # Current.account
<1>1. gold \in [Owners -> Nat]
    BY DEF ContractsInv, Amounts
<1>2. gold[o] \in Nat
    BY <1>1
<1>3. gold' # gold
    BY <1>2
<1>4. ASSUME NEW x \in Owners, OwnerStep(x)
      PROVE  FALSE
  <2>1. PICK free \in BOOLEAN : Summon(x, free)
      BY <1>3, <1>4 DEF OwnerStep, DismissCompany, DismissFreeEscort, Login, Teleport, Logout,
                        LeaveGroup, AcceptInvite, Uninvite
  <2>2. /\ gold' = [gold EXCEPT ![x] = IF free THEN @ ELSE @ - 1]
        /\ gold[x] \in Nat
      BY <1>1, <2>1 DEF Summon
  <2>3. gold'[o] <= gold[o]
      BY <1>1, <1>2, <2>2
  <2>4. gold'[o] \in Int
      BY <1>1, <1>2, <2>2
  <2> QED
      BY <1>2, <2>3, <2>4
<1>5. ASSUME NEW a \in Accounts, BotStep(a)
      PROVE  FALSE
    BY <1>3, <1>5 DEF BotStep, CastSchedule, StartLogin, EndLogin, BotTeleport, IdleLogout
<1>6. Expect \/ Arrive
    BY <1>3, <1>4, <1>5 DEF Next, Update, StartUpdate, Broken, Absence, Serve, vars
<1>7. /\ cursor > 0 /\ Current.stage = "summoning" /\ ~Current.pending
      /\ UNCHANGED <<offers, place, drops>>
    BY <1>6 DEF Expect, Arrive, Summoned
<1>8. PICK w : Fit(w) /\ w.contracts = contracts /\ EndAndRefund(w)
  <2>1. Fit(World) /\ World.contracts = contracts
      BY FitFields, WorldIs DEF ContractsInv
  <2>2. CASE Expect
      BY <1>3, <2>1, <2>2 DEF Expect
  <2>3. CASE Arrive
      BY <1>3, <2>3, ArriveRefunds
  <2> QED
      BY <1>6, <2>2, <2>3
<1>9. gold' = [gold EXCEPT ![Current.owner] = @ + 1]
    BY <1>8 DEF EndAndRefund, Refund
<1>10. Current.owner = o /\ gold'[o] = gold[o] + 1
    BY <1>1, <1>2, <1>9
<1>11. \A d \in ToSet(contracts') : d.account # Current.account
    BY <1>7, <1>8, EndFacts DEF EndAndRefund
<1> QED
    BY <1>7, <1>10, <1>11 DEF ToSet

(* The money goes back only with the end of a contract, and to a recruit   *)
(* that was neither active nor marked: a refund happens once.              *)
THEOREM RefundCorrect == Spec => RefundEndsContract
<1>1. ContractsInv /\ [Next]_vars =>
        [\A o \in Owners : gold'[o] > gold[o] =>
          /\ cursor > 0 /\ Current.owner = o /\ gold'[o] = gold[o] + 1
          /\ Current.stage = "summoning" /\ ~Current.pending
          /\ \A j \in DOMAIN contracts' : contracts'[j].account # Current.account]_vars
    BY RefundSteps
<1> QED
    BY <1>1, Invariant, PTL DEF Spec, RefundEndsContract
=============================================================================
