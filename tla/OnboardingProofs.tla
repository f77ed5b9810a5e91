--------------------------- MODULE OnboardingProofs ---------------------------
(***************************************************************************)
(* The Hub's block in AGENTS.md and the registration of projects, for any  *)
(* number of projects, files, commands and requests, killed, failing and   *)
(* overlapping, and next to a person who edits the files.                  *)
(***************************************************************************)
EXTENDS Onboarding, SequenceTheorems, FiniteSetTheorems, TLAPS

-----------------------------------------------------------------------------
(***************************************************************************)
(* Texts.                                                                  *)
(***************************************************************************)
Plain(t) == \A k \in 1..Len(t) : t[k] \notin {Start, End}

(* The markers are at i and j and nowhere else. *)
Marked(t, i, j) ==
  /\ i \in 1..Len(t) /\ j \in 1..Len(t) /\ i < j
  /\ \A k \in 1..Len(t) : (t[k] = Start <=> k = i) /\ (t[k] = End <=> k = j)

WellFormed(t) == t \in Seq(Piece) /\ (Plain(t) \/ \E i, j \in 1..Len(t) : Marked(t, i, j))

(* Where the block is, or will be put: after i - 1 pieces, before the      *)
(* pieces from j + 1 on.                                                   *)
Slot(t, i, j) ==
  \/ Plain(t) /\ i = Len(t) + 1 /\ j = Len(t)
  \/ Marked(t, i, j)

(* What is not between the markers. *)
Outside(t) ==
  {t[k] : k \in {k \in 1..Len(t) : ~\E i, j \in 1..Len(t) : Marked(t, i, j) /\ i <= k /\ k <= j}}

LEMMA Pieced ==
  /\ Start \in Piece /\ End \in Piece /\ Start # End /\ Slug \subseteq Piece /\ Word \subseteq Piece
  /\ Start \notin Slug \cup Word /\ End \notin Slug \cup Word
  BY OnboardingAssumption DEF Piece

LEMMA PlaceOf ==
  ASSUME NEW t \in Seq(Piece), NEW i \in 1..Len(t), \A k \in 1..Len(t) : t[k] = t[i] => k = i
  PROVE  Place(t, t[i]) = i
<1>1. t[i] = t[i] /\ \A j \in 1..(i - 1) : t[j] # t[i]
  BY LenProperties
<1>2. \A k \in 1..Len(t) : t[k] = t[i] /\ (\A j \in 1..(k - 1) : t[j] # t[i]) => k = i
  OBVIOUS
<1> QED
  BY <1>1, <1>2 DEF Place

LEMMA Places ==
  ASSUME NEW t \in Seq(Piece), NEW i, NEW j, Marked(t, i, j)
  PROVE  {Start, End} \subseteq Pieces(t) /\ Place(t, Start) = i /\ Place(t, End) = j
<1>1. i \in 1..Len(t) /\ j \in 1..Len(t) /\ t[i] = Start /\ t[j] = End
  BY DEF Marked
<1>2. \A k \in 1..Len(t) : (t[k] = t[i] => k = i) /\ (t[k] = t[j] => k = j)
  BY <1>1 DEF Marked
<1> QED
  BY <1>1, <1>2, PlaceOf DEF Pieces

LEMMA WellFormedSlot ==
  ASSUME NEW t, WellFormed(t)
  PROVE  /\ t \in Seq(Piece) /\ Len(t) \in Nat
         /\ \E i, j \in Nat : Slot(t, i, j)
<1>1. t \in Seq(Piece) /\ Len(t) \in Nat
  BY LenProperties DEF WellFormed
<1>2. CASE Plain(t)
  BY <1>1, <1>2 DEF Slot
<1>3. CASE \E i, j \in 1..Len(t) : Marked(t, i, j)
  <2>1. PICK i \in 1..Len(t), j \in 1..Len(t) : Marked(t, i, j)
    BY <1>3
  <2>2. i \in Nat /\ j \in Nat
    BY <1>1
  <2> QED
    BY <1>1, <2>1, <2>2 DEF Slot
<1> QED
  BY <1>1, <1>2, <1>3 DEF WellFormed

(* A text put together from three. *)
LEMMA Parts ==
  ASSUME NEW l \in Seq(Piece), NEW b \in Seq(Piece), NEW r \in Seq(Piece)
  PROVE  LET u == l \o b \o r
         IN /\ u \in Seq(Piece) /\ Len(u) = Len(l) + Len(b) + Len(r)
            /\ \A k \in 1..Len(l) : u[k] = l[k]
            /\ \A k \in 1..Len(b) : u[Len(l) + k] = b[k]
            /\ \A k \in 1..Len(r) : u[Len(l) + Len(b) + k] = r[k]
<1> DEFINE lb == l \o b
           u  == lb \o r
<1>1. Len(l) \in Nat /\ Len(b) \in Nat /\ Len(r) \in Nat
  BY LenProperties
<1>2. /\ lb \in Seq(Piece) /\ Len(lb) = Len(l) + Len(b)
      /\ \A k \in 1..(Len(l) + Len(b)) : lb[k] = IF k <= Len(l) THEN l[k] ELSE b[k - Len(l)]
  BY ConcatProperties
<1> HIDE DEF lb
<1>3. /\ u \in Seq(Piece) /\ Len(u) = Len(lb) + Len(r)
      /\ \A k \in 1..(Len(lb) + Len(r)) : u[k] = IF k <= Len(lb) THEN lb[k] ELSE r[k - Len(lb)]
  <2>1. lb \in Seq(Piece)
    BY <1>2
  <2> QED
    BY <2>1, ConcatProperties
<1> HIDE DEF u
<1>4. Len(u) = Len(l) + Len(b) + Len(r)
  BY <1>1, <1>2, <1>3
<1>5. \A k \in 1..Len(l) : u[k] = l[k]
  BY <1>1, <1>2, <1>3
<1>6. ASSUME NEW k \in 1..Len(b) PROVE u[Len(l) + k] = b[k]
  <2>1. /\ Len(l) + k \in 1..(Len(l) + Len(b)) /\ Len(l) + k \in 1..(Len(lb) + Len(r))
        /\ Len(l) + k <= Len(lb) /\ ~(Len(l) + k <= Len(l)) /\ (Len(l) + k) - Len(l) = k
    BY <1>1, <1>2
  <2>2. u[Len(l) + k] = lb[Len(l) + k]
    BY <1>3, <2>1
  <2>3. lb[Len(l) + k] = b[(Len(l) + k) - Len(l)]
    BY <1>2, <2>1
  <2> QED
    BY <2>1, <2>2, <2>3
<1>7. ASSUME NEW k \in 1..Len(r) PROVE u[Len(l) + Len(b) + k] = r[k]
  <2>1. /\ Len(lb) + k \in 1..(Len(lb) + Len(r)) /\ ~(Len(lb) + k <= Len(lb)) /\ (Len(lb) + k) - Len(lb) = k
    BY <1>1, <1>2
  <2>2. u[Len(lb) + k] = r[(Len(lb) + k) - Len(lb)]
    BY <1>3, <2>1
  <2> QED
    BY <1>2, <2>1, <2>2
<1> QED
  BY <1>3, <1>4, <1>5, <1>6, <1>7 DEF u, lb

(* What is before i, and what is after j. *)
LEMMA Ends ==
  ASSUME NEW t \in Seq(Piece), NEW i \in Nat, NEW j \in Nat, 1 <= i, i <= Len(t) + 1, j <= Len(t)
  PROVE  /\ SubSeq(t, 1, i - 1) \in Seq(Piece) /\ Len(SubSeq(t, 1, i - 1)) = i - 1
         /\ \A k \in 1..(i - 1) : SubSeq(t, 1, i - 1)[k] = t[k]
         /\ SubSeq(t, j + 1, Len(t)) \in Seq(Piece) /\ Len(SubSeq(t, j + 1, Len(t))) = Len(t) - j
         /\ \A k \in 1..(Len(t) - j) : SubSeq(t, j + 1, Len(t))[k] = t[j + k]
<1>1. Len(t) \in Nat /\ \A k \in 1..Len(t) : t[k] \in Piece
  BY LenProperties, ElementOfSeq
<1>2. /\ 1 \in Int /\ i - 1 \in Int /\ \A k \in 1..(i - 1) : t[k] \in Piece
      /\ j + 1 \in Int /\ Len(t) \in Int /\ \A k \in (j + 1)..Len(t) : t[k] \in Piece
  BY <1>1
<1>3. /\ SubSeq(t, 1, i - 1) \in Seq(Piece)
      /\ Len(SubSeq(t, 1, i - 1)) = IF 1 <= i - 1 THEN (i - 1) - 1 + 1 ELSE 0
      /\ \A k \in 1..((i - 1) - 1 + 1) : SubSeq(t, 1, i - 1)[k] = t[1 + k - 1]
  BY <1>2, SubSeqProperties
<1>4. /\ SubSeq(t, j + 1, Len(t)) \in Seq(Piece)
      /\ Len(SubSeq(t, j + 1, Len(t))) = IF j + 1 <= Len(t) THEN Len(t) - (j + 1) + 1 ELSE 0
      /\ \A k \in 1..(Len(t) - (j + 1) + 1) : SubSeq(t, j + 1, Len(t))[k] = t[(j + 1) + k - 1]
  BY <1>2, SubSeqProperties
<1>5. (i - 1) - 1 + 1 = i - 1 /\ Len(t) - (j + 1) + 1 = Len(t) - j
  BY <1>1
<1>6. \A k \in Nat : 1 + k - 1 = k /\ (j + 1) + k - 1 = j + k
  OBVIOUS
<1>7. /\ Len(SubSeq(t, 1, i - 1)) = i - 1
      /\ Len(SubSeq(t, j + 1, Len(t))) = Len(t) - j
  <2>1. /\ (IF 1 <= i - 1 THEN (i - 1) - 1 + 1 ELSE 0) = i - 1
        /\ (IF j + 1 <= Len(t) THEN Len(t) - (j + 1) + 1 ELSE 0) = Len(t) - j
    BY <1>1
  <2> QED
    BY <1>3, <1>4, <2>1
<1>8. \A k \in 1..(i - 1) : SubSeq(t, 1, i - 1)[k] = t[k]
  BY <1>3, <1>5, <1>6
<1>9. \A k \in 1..(Len(t) - j) : SubSeq(t, j + 1, Len(t))[k] = t[j + k]
  BY <1>4, <1>5, <1>6
<1> QED
  BY <1>3, <1>4, <1>7, <1>8, <1>9

(* The text with the pieces from i to j replaced by b. *)
Spliced(t, i, j, b) == SubSeq(t, 1, i - 1) \o b \o SubSeq(t, j + 1, Len(t))

(* The same, piece by piece. *)
Pieceful(u, t, i, j, b) ==
  /\ u \in Seq(Piece) /\ Len(u) = (i - 1) + Len(b) + (Len(t) - j)
  /\ \A k \in 1..(i - 1) : u[k] = t[k]
  /\ \A k \in 1..Len(b) : u[(i - 1) + k] = b[k]
  /\ \A k \in 1..(Len(t) - j) : u[(i - 1) + Len(b) + k] = t[j + k]

LEMMA SplicedPieces ==
  ASSUME NEW t \in Seq(Piece), NEW b \in Seq(Piece), NEW i \in Nat, NEW j \in Nat,
         1 <= i, i <= Len(t) + 1, j <= Len(t), i <= j + 1
  PROVE  Pieceful(Spliced(t, i, j, b), t, i, j, b)
<1> DEFINE l == SubSeq(t, 1, i - 1)
           r == SubSeq(t, j + 1, Len(t))
           u == l \o b \o r
<1>1. /\ l \in Seq(Piece) /\ Len(l) = i - 1 /\ \A k \in 1..(i - 1) : l[k] = t[k]
      /\ r \in Seq(Piece) /\ Len(r) = Len(t) - j /\ \A k \in 1..(Len(t) - j) : r[k] = t[j + k]
  BY Ends
<1> HIDE DEF l, r
<1>2. /\ u \in Seq(Piece) /\ Len(u) = Len(l) + Len(b) + Len(r)
      /\ \A k \in 1..Len(l) : u[k] = l[k]
      /\ \A k \in 1..Len(b) : u[Len(l) + k] = b[k]
      /\ \A k \in 1..Len(r) : u[Len(l) + Len(b) + k] = r[k]
  BY <1>1, Parts
<1> HIDE DEF u
<1>3. Pieceful(u, t, i, j, b)
  BY <1>1, <1>2 DEF Pieceful
<1> QED
  BY <1>3 DEF Spliced, l, r, u

LEMMA SlotBounds ==
  ASSUME NEW t \in Seq(Piece), NEW i \in Nat, NEW j \in Nat, Slot(t, i, j)
  PROVE  1 <= i /\ i <= Len(t) + 1 /\ j <= Len(t) /\ i <= j + 1
<1>1. Len(t) \in Nat
  BY LenProperties
<1> QED
  BY <1>1 DEF Slot, Marked

(* There is no marker in front of the slot and none behind it. *)
LEMMA SlotApart ==
  ASSUME NEW t \in Seq(Piece), NEW i \in Nat, NEW j \in Nat, Slot(t, i, j),
         NEW k \in 1..Len(t), k < i \/ j < k
  PROVE  t[k] \notin {Start, End}
<1>1. Len(t) \in Nat
  BY LenProperties
<1>2. CASE Plain(t)
  BY <1>2 DEF Plain
<1>3. CASE Marked(t, i, j)
  <2>1. k # i /\ k # j
    BY <1>1, <1>3 DEF Marked
  <2> QED
    BY <1>3, <2>1 DEF Marked
<1> QED
  BY <1>2, <1>3 DEF Slot

LEMMA UpdateSpliced ==
  ASSUME NEW t \in Seq(Piece), NEW i \in Nat, NEW j \in Nat, Slot(t, i, j), NEW s \in Slug
  PROVE  Updated(t, s) = Spliced(t, i, j, Block(s))
<1>1. Len(t) \in Nat /\ Block(s) \in Seq(Piece)
  BY LenProperties, Pieced DEF Block
<1>2. CASE Marked(t, i, j)
  BY <1>2, Places DEF Updated, Spliced
<1>3. CASE Plain(t) /\ i = Len(t) + 1 /\ j = Len(t)
  <2>1. Start \notin Pieces(t)
    BY <1>3 DEF Plain, Pieces
  <2>2. Updated(t, s) = t \o Block(s)
    BY <2>1 DEF Updated
  <2>3. SubSeq(t, 1, Len(t)) = t
    BY SubSeqFull
  <2>4. SubSeq(t, Len(t) + 1, Len(t)) = <<>>
    BY <1>1, SubSeqEmpty
  <2>5. t \o Block(s) \in Seq(Piece)
    BY <1>1, ConcatProperties
  <2>6. t \o Block(s) \o <<>> = t \o Block(s)
    BY <2>5, ConcatEmptySeq
  <2>7. i - 1 = Len(t) /\ j + 1 = Len(t) + 1
    BY <1>1, <1>3
  <2> QED
    BY <2>2, <2>3, <2>4, <2>6, <2>7 DEF Spliced
<1> QED
  BY <1>2, <1>3 DEF Slot

(* An update piece by piece: the block takes the slot. *)
Filled(u, t, i, j, s) ==
  /\ u \in Seq(Piece) /\ Len(u) = i + 2 + (Len(t) - j)
  /\ \A k \in 1..(i - 1) : u[k] = t[k]
  /\ u[i] = Start /\ u[i + 1] = s /\ u[i + 2] = End
  /\ \A k \in 1..(Len(t) - j) : u[i + 2 + k] = t[j + k]

LEMMA UpdatePieces ==
  ASSUME NEW t \in Seq(Piece), NEW i \in Nat, NEW j \in Nat, Slot(t, i, j), NEW s \in Slug
  PROVE  Filled(Updated(t, s), t, i, j, s)
<1> DEFINE u == Updated(t, s)
           b == Block(s)
<1>1. Len(t) \in Nat /\ 1 <= i /\ i <= Len(t) + 1 /\ j <= Len(t) /\ i <= j + 1
  BY LenProperties, SlotBounds
<1>2. b \in Seq(Piece) /\ Len(b) = 3 /\ b[1] = Start /\ b[2] = s /\ b[3] = End
  BY Pieced DEF Block
<1>3. u = Spliced(t, i, j, b)
  BY UpdateSpliced
<1> HIDE DEF u, b
<1>4. /\ u \in Seq(Piece) /\ Len(u) = (i - 1) + Len(b) + (Len(t) - j)
      /\ \A k \in 1..(i - 1) : u[k] = t[k]
      /\ \A k \in 1..Len(b) : u[(i - 1) + k] = b[k]
      /\ \A k \in 1..(Len(t) - j) : u[(i - 1) + Len(b) + k] = t[j + k]
  <2>1. Pieceful(Spliced(t, i, j, b), t, i, j, b)
    BY <1>1, <1>2, SplicedPieces
  <2> QED
    BY <1>3, <2>1 DEF Pieceful
<1>5. /\ (i - 1) + Len(b) = i + 2 /\ 1 \in 1..Len(b) /\ 2 \in 1..Len(b) /\ 3 \in 1..Len(b)
      /\ (i - 1) + 1 = i /\ (i - 1) + 2 = i + 1 /\ (i - 1) + 3 = i + 2
  BY <1>1, <1>2
<1>6. u[i] = Start /\ u[i + 1] = s /\ u[i + 2] = End
  BY <1>2, <1>4, <1>5
<1>7. Filled(u, t, i, j, s)
  BY <1>4, <1>5, <1>6 DEF Filled
<1> QED
  BY <1>7 DEF u

(* After an update the block is marked, ... *)
LEMMA UpdateMarked ==
  ASSUME NEW t \in Seq(Piece), NEW i \in Nat, NEW j \in Nat, Slot(t, i, j), NEW s \in Slug
  PROVE  LET u == Updated(t, s) IN u \in Seq(Piece) /\ Marked(u, i, i + 2)
<1> DEFINE u == Updated(t, s)
<1>1. Len(t) \in Nat /\ 1 <= i /\ i <= Len(t) + 1 /\ j <= Len(t) /\ i <= j + 1
  BY LenProperties, SlotBounds
<1>2. /\ u \in Seq(Piece) /\ Len(u) = i + 2 + (Len(t) - j)
      /\ \A k \in 1..(i - 1) : u[k] = t[k]
      /\ u[i] = Start /\ u[i + 1] = s /\ u[i + 2] = End
      /\ \A k \in 1..(Len(t) - j) : u[i + 2 + k] = t[j + k]
  <2>1. Filled(u, t, i, j, s)
    BY UpdatePieces
  <2> QED
    BY <2>1 DEF Filled
<1> HIDE DEF u
<1>3. i \in 1..Len(u) /\ i + 2 \in 1..Len(u) /\ i < i + 2
  BY <1>1, <1>2
<1>4. ASSUME NEW k \in 1..Len(u)
      PROVE  (u[k] = Start <=> k = i) /\ (u[k] = End <=> k = i + 2)
  <2>1. CASE k < i
    <3>1. k \in 1..Len(t) /\ k \in 1..(i - 1) /\ k # i /\ k # i + 2
      BY <1>1, <1>2, <2>1
    <3>2. u[k] \notin {Start, End}
      BY <1>2, <2>1, <3>1, SlotApart
    <3> QED
      BY <3>1, <3>2
  <2>2. CASE k = i
    <3>1. k # i + 2
      BY <2>2
    <3> QED
      BY <1>2, <2>2, <3>1, Pieced
  <2>3. CASE k = i + 1
    <3>1. k # i /\ k # i + 2
      BY <2>3
    <3> QED
      BY <1>2, <2>3, <3>1, Pieced
  <2>4. CASE k = i + 2
    <3>1. k # i
      BY <2>4
    <3> QED
      BY <1>2, <2>4, <3>1, Pieced
  <2>5. CASE i + 2 < k
    <3> DEFINE d == k - (i + 2)
    <3>1. /\ d \in 1..(Len(t) - j) /\ k = i + 2 + d /\ j + d \in 1..Len(t) /\ j < j + d
          /\ k # i /\ k # i + 2
      BY <1>1, <1>2, <2>5
    <3> HIDE DEF d
    <3>2. u[k] = t[j + d]
      BY <1>2, <3>1
    <3>3. t[j + d] \notin {Start, End}
      BY <3>1, SlotApart
    <3> QED
      BY <3>1, <3>2, <3>3
  <2>6. k < i \/ k = i \/ k = i + 1 \/ k = i + 2 \/ i + 2 < k
    <3>1. Len(u) \in Nat
      BY <1>1, <1>2
    <3>2. k \in Int
      BY <3>1
    <3> QED
      BY <3>2
  <2> QED
    BY <2>1, <2>2, <2>3, <2>4, <2>5, <2>6
<1> QED
  BY <1>2, <1>3, <1>4 DEF Marked, u

(* ... the text is well-formed, and a second update for the same project   *)
(* changes nothing.                                                        *)
LEMMA UpdateTwice ==
  ASSUME NEW t, WellFormed(t), NEW s \in Slug
  PROVE  WellFormed(Updated(t, s)) /\ Updated(Updated(t, s), s) = Updated(t, s)
<1>1. t \in Seq(Piece) /\ \E i, j \in Nat : Slot(t, i, j)
  BY WellFormedSlot
<1>2. PICK i \in Nat, j \in Nat : Slot(t, i, j)
  BY <1>1
<1> DEFINE u == Updated(t, s)
           v == Updated(u, s)
<1>3. /\ u \in Seq(Piece) /\ Marked(u, i, i + 2) /\ u[i] = Start /\ u[i + 1] = s /\ u[i + 2] = End
  <2>1. Filled(u, t, i, j, s) /\ u \in Seq(Piece) /\ Marked(u, i, i + 2)
    BY <1>1, <1>2, UpdateMarked, UpdatePieces
  <2> QED
    BY <2>1 DEF Filled
<1> HIDE DEF u
<1>4. i + 2 \in Nat /\ Slot(u, i, i + 2) /\ Len(u) \in Nat /\ i \in 1..Len(u) /\ i + 2 \in 1..Len(u)
  BY <1>3, LenProperties DEF Slot, Marked
<1>5. /\ v \in Seq(Piece) /\ Len(v) = i + 2 + (Len(u) - (i + 2))
      /\ \A k \in 1..(i - 1) : v[k] = u[k]
      /\ v[i] = Start /\ v[i + 1] = s /\ v[i + 2] = End
      /\ \A k \in 1..(Len(u) - (i + 2)) : v[i + 2 + k] = u[i + 2 + k]
  <2>1. Filled(v, u, i, i + 2, s)
    BY <1>3, <1>4, UpdatePieces
  <2> QED
    BY <2>1 DEF Filled
<1> HIDE DEF v
<1>6. Len(v) = Len(u)
  BY <1>4, <1>5
<1>7. ASSUME NEW k \in 1..Len(u) PROVE v[k] = u[k]
  <2>1. CASE k < i
    <3>1. k \in 1..(i - 1)
      BY <1>4, <2>1
    <3> QED
      BY <1>5, <3>1
  <2>2. CASE k = i \/ k = i + 1 \/ k = i + 2
    BY <1>3, <1>5, <2>2
  <2>3. CASE i + 2 < k
    <3> DEFINE d == k - (i + 2)
    <3>1. d \in 1..(Len(u) - (i + 2)) /\ k = i + 2 + d
      BY <1>4, <2>3
    <3> HIDE DEF d
    <3> QED
      BY <1>5, <3>1
  <2>4. k < i \/ k = i \/ k = i + 1 \/ k = i + 2 \/ i + 2 < k
    BY <1>4
  <2> QED
    BY <2>1, <2>2, <2>3, <2>4
<1>8. v = u
  BY <1>3, <1>5, <1>6, <1>7, SeqEqual
<1>9. WellFormed(u)
  BY <1>3, <1>4 DEF WellFormed
<1> QED
  BY <1>8, <1>9 DEF u, v

LEMMA SlotUnique ==
  ASSUME NEW t \in Seq(Piece), NEW i \in Nat, NEW j \in Nat, Slot(t, i, j), NEW a, NEW b, Marked(t, a, b)
  PROVE  a = i /\ b = j
<1>1. a \in 1..Len(t) /\ t[a] = Start /\ b \in 1..Len(t) /\ t[b] = End
  BY DEF Marked
<1>2. ~Plain(t)
  BY <1>1 DEF Plain
<1> QED
  BY <1>1, <1>2 DEF Slot, Marked

(* What is outside the block is what is in front of the slot or behind it. *)
LEMMA OutsideSlot ==
  ASSUME NEW t \in Seq(Piece), NEW i \in Nat, NEW j \in Nat, Slot(t, i, j)
  PROVE  Outside(t) = {t[k] : k \in {k \in 1..Len(t) : k < i \/ j < k}}
<1>0. Len(t) \in Nat
  BY LenProperties
<1>1. ASSUME NEW k \in 1..Len(t)
      PROVE  (~\E a, b \in 1..Len(t) : Marked(t, a, b) /\ a <= k /\ k <= b) <=> k < i \/ j < k
  <2>1. CASE Marked(t, i, j)
    <3>1. i \in 1..Len(t) /\ j \in 1..Len(t)
      BY <2>1 DEF Marked
    <3>2. \A a, b \in 1..Len(t) : Marked(t, a, b) => a = i /\ b = j
      BY SlotUnique
    <3>3. (\E a, b \in 1..Len(t) : Marked(t, a, b) /\ a <= k /\ k <= b) <=> i <= k /\ k <= j
      BY <2>1, <3>1, <3>2
    <3> QED
      BY <1>0, <3>3
  <2>2. CASE Plain(t) /\ i = Len(t) + 1 /\ j = Len(t)
    <3>1. \A a, b \in 1..Len(t) : ~Marked(t, a, b)
      BY <2>2 DEF Plain, Marked
    <3>2. k < i
      BY <1>0, <2>2
    <3> QED
      BY <3>1, <3>2
  <2> QED
    BY <2>1, <2>2 DEF Slot
<1>2. {k \in 1..Len(t) : ~\E a, b \in 1..Len(t) : Marked(t, a, b) /\ a <= k /\ k <= b}
        = {k \in 1..Len(t) : k < i \/ j < k}
  BY <1>1
<1> QED
  BY <1>2 DEF Outside

LEMMA OutsidePieces ==
  ASSUME NEW t
  PROVE  Outside(t) \subseteq Pieces(t)
BY DEF Outside, Pieces

(* An update keeps what is outside the block. *)
LEMMA UpdateOutside ==
  ASSUME NEW t, WellFormed(t), NEW s \in Slug
  PROVE  Outside(t) \subseteq Outside(Updated(t, s))
<1>1. t \in Seq(Piece) /\ Len(t) \in Nat /\ \E i, j \in Nat : Slot(t, i, j)
  BY WellFormedSlot
<1>2. PICK i \in Nat, j \in Nat : Slot(t, i, j)
  BY <1>1
<1>3. 1 <= i /\ i <= Len(t) + 1 /\ j <= Len(t) /\ i <= j + 1
  BY <1>1, <1>2, SlotBounds
<1> DEFINE u == Updated(t, s)
<1>4. Filled(u, t, i, j, s) /\ u \in Seq(Piece) /\ Marked(u, i, i + 2)
  BY <1>1, <1>2, UpdatePieces, UpdateMarked
<1> HIDE DEF u
<1>5. i + 2 \in Nat /\ Slot(u, i, i + 2) /\ Len(u) \in Nat
  BY <1>4, LenProperties DEF Slot
<1>6. /\ Outside(t) = {t[k] : k \in {k \in 1..Len(t) : k < i \/ j < k}}
      /\ Outside(u) = {u[k] : k \in {k \in 1..Len(u) : k < i \/ i + 2 < k}}
  BY <1>1, <1>2, <1>4, <1>5, OutsideSlot
<1>7. ASSUME NEW k \in 1..Len(t), k < i \/ j < k
      PROVE  \E m \in 1..Len(u) : (m < i \/ i + 2 < m) /\ u[m] = t[k]
  <2>1. CASE k < i
    <3>1. k \in 1..(i - 1) /\ k \in 1..Len(u)
      BY <1>1, <1>3, <1>4, <2>1 DEF Filled
    <3>2. u[k] = t[k]
      BY <1>4, <3>1 DEF Filled
    <3> QED
      BY <2>1, <3>1, <3>2
  <2>2. CASE j < k
    <3> DEFINE d == k - j
    <3>1. d \in 1..(Len(t) - j) /\ j + d = k /\ i + 2 < i + 2 + d
      BY <1>1, <2>2
    <3>2. i + 2 + d \in 1..Len(u)
      BY <1>1, <1>3, <1>4, <3>1 DEF Filled
    <3> HIDE DEF d
    <3>3. u[i + 2 + d] = t[k]
      BY <1>4, <3>1 DEF Filled
    <3> QED
      BY <3>1, <3>2, <3>3
  <2> QED
    BY <1>7, <2>1, <2>2
<1>8. Outside(t) \subseteq Outside(u)
  BY <1>6, <1>7
<1> QED
  BY <1>8 DEF u

(* A word that a person writes. *)
Inserted(t, k, w) == SubSeq(t, 1, k - 1) \o <<w>> \o SubSeq(t, k, Len(t))

LEMMA InsertedPieces ==
  ASSUME NEW t \in Seq(Piece), NEW k \in 1..(Len(t) + 1), NEW w \in Word
  PROVE  LET v == Inserted(t, k, w)
         IN /\ v \in Seq(Piece) /\ Len(v) = Len(t) + 1 /\ v[k] = w
            /\ \A m \in 1..Len(t) : m < k => v[m] = t[m]
            /\ \A m \in 1..Len(t) : k <= m => v[m + 1] = t[m]
<1> DEFINE v == Inserted(t, k, w)
           b == <<w>>
           j == k - 1
<1>1. Len(t) \in Nat /\ k \in Nat /\ 1 <= k /\ k <= Len(t) + 1
  BY LenProperties
<1>2. j \in Nat /\ j <= Len(t) /\ k <= j + 1 /\ j + 1 = k
  BY <1>1
<1>3. b \in Seq(Piece) /\ Len(b) = 1 /\ b[1] = w
  BY Pieced
<1>4. v = Spliced(t, k, j, b)
  BY <1>2 DEF Inserted, Spliced
<1> HIDE DEF v, b
<1>5. Pieceful(Spliced(t, k, j, b), t, k, j, b)
  <2> HIDE DEF j
  <2> QED
    BY <1>1, <1>2, <1>3, SplicedPieces
<1>6. /\ v \in Seq(Piece) /\ Len(v) = (k - 1) + Len(b) + (Len(t) - j)
      /\ \A m \in 1..(k - 1) : v[m] = t[m]
      /\ \A m \in 1..Len(b) : v[(k - 1) + m] = b[m]
      /\ \A m \in 1..(Len(t) - j) : v[(k - 1) + Len(b) + m] = t[j + m]
  BY <1>4, <1>5 DEF Pieceful
<1>7. Len(v) = Len(t) + 1
  BY <1>1, <1>3, <1>6
<1>8. v[k] = w
  <2>1. (k - 1) + 1 = k /\ 1 \in 1..Len(b)
    BY <1>1, <1>3
  <2> QED
    BY <1>3, <1>6, <2>1
<1>9. ASSUME NEW m \in 1..Len(t), m < k PROVE v[m] = t[m]
  <2>1. m \in 1..(k - 1)
    BY <1>1, <1>9
  <2> QED
    BY <1>6, <2>1
<1>10. ASSUME NEW m \in 1..Len(t), k <= m PROVE v[m + 1] = t[m]
  <2> DEFINE d == m - j
  <2>1. d \in 1..(Len(t) - j) /\ j + d = m /\ (k - 1) + Len(b) + d = m + 1
    BY <1>1, <1>3, <1>10
  <2> HIDE DEF d
  <2> QED
    BY <1>6, <2>1
<1> QED
  BY <1>6, <1>7, <1>8, <1>9, <1>10 DEF v

(* Where a piece of the text is after the insertion, and where a piece of  *)
(* the new text comes from.                                                *)
Shift(k, m) == IF m < k THEN m ELSE m + 1

LEMMA InsertedShift ==
  ASSUME NEW t \in Seq(Piece), NEW k \in 1..(Len(t) + 1), NEW w \in Word
  PROVE  LET v == Inserted(t, k, w)
         IN /\ v \in Seq(Piece) /\ Len(v) = Len(t) + 1 /\ v[k] = w
            /\ \A m \in 1..Len(t) : Shift(k, m) \in 1..Len(v) /\ v[Shift(k, m)] = t[m]
            /\ \A n \in 1..Len(v) : n = k \/ \E m \in 1..Len(t) : n = Shift(k, m)
<1> DEFINE v == Inserted(t, k, w)
<1>1. Len(t) \in Nat
  BY LenProperties
<1>2. /\ v \in Seq(Piece) /\ Len(v) = Len(t) + 1 /\ v[k] = w
      /\ \A m \in 1..Len(t) : m < k => v[m] = t[m]
      /\ \A m \in 1..Len(t) : k <= m => v[m + 1] = t[m]
  BY InsertedPieces
<1> HIDE DEF v
<1>3. ASSUME NEW m \in 1..Len(t)
      PROVE  Shift(k, m) \in 1..Len(v) /\ v[Shift(k, m)] = t[m]
  <2>1. CASE m < k
    BY <1>1, <1>2, <2>1 DEF Shift
  <2>2. CASE ~(m < k)
    <3>1. k <= m /\ m + 1 \in 1..Len(v) /\ Shift(k, m) = m + 1
      BY <1>1, <1>2, <2>2 DEF Shift
    <3> QED
      BY <1>2, <3>1
  <2> QED
    BY <2>1, <2>2
<1>4. ASSUME NEW n \in 1..Len(v), n # k
      PROVE  \E m \in 1..Len(t) : n = Shift(k, m)
  <2>1. CASE n < k
    <3>1. n \in 1..Len(t) /\ n = Shift(k, n)
      BY <1>1, <1>2, <2>1 DEF Shift
    <3> QED
      BY <3>1
  <2>2. CASE k < n
    <3>1. n - 1 \in 1..Len(t) /\ n = Shift(k, n - 1)
      BY <1>1, <1>2, <2>2 DEF Shift
    <3> QED
      BY <3>1
  <2> QED
    BY <1>1, <1>2, <1>4, <2>1, <2>2
<1> QED
  BY <1>2, <1>3, <1>4 DEF v

(* The markers stay where they are, relative to the rest of the text. *)
LEMMA InsertedSlot ==
  ASSUME NEW t \in Seq(Piece), NEW k \in 1..(Len(t) + 1), NEW w \in Word
  PROVE  LET v == Inserted(t, k, w)
         IN /\ Plain(t) => Plain(v)
            /\ \A i, j \in 1..Len(t) : Marked(t, i, j) => Marked(v, Shift(k, i), Shift(k, j))
<1> DEFINE v == Inserted(t, k, w)
<1>1. Len(t) \in Nat /\ w # Start /\ w # End
  BY LenProperties, Pieced
<1>2. /\ v \in Seq(Piece) /\ Len(v) = Len(t) + 1 /\ v[k] = w
      /\ \A m \in 1..Len(t) : Shift(k, m) \in 1..Len(v) /\ v[Shift(k, m)] = t[m]
      /\ \A n \in 1..Len(v) : n = k \/ \E m \in 1..Len(t) : n = Shift(k, m)
  BY InsertedShift
<1> HIDE DEF v
<1>3. ASSUME Plain(t) PROVE Plain(v)
  BY <1>1, <1>2, <1>3 DEF Plain
<1>4. ASSUME NEW i \in 1..Len(t), NEW j \in 1..Len(t), Marked(t, i, j)
      PROVE  Marked(v, Shift(k, i), Shift(k, j))
  <2>1. Shift(k, i) \in 1..Len(v) /\ Shift(k, j) \in 1..Len(v) /\ Shift(k, i) < Shift(k, j)
    BY <1>1, <1>2, <1>4 DEF Shift, Marked
  <2>2. ASSUME NEW n \in 1..Len(v)
        PROVE  (v[n] = Start <=> n = Shift(k, i)) /\ (v[n] = End <=> n = Shift(k, j))
    <3>1. CASE n = k
      <4>1. n # Shift(k, i) /\ n # Shift(k, j)
        BY <1>1, <3>1 DEF Shift
      <4> QED
        BY <1>1, <1>2, <3>1, <4>1
    <3>2. CASE \E m \in 1..Len(t) : n = Shift(k, m)
      <4>1. PICK m \in 1..Len(t) : n = Shift(k, m)
        BY <3>2
      <4>2. (n = Shift(k, i) <=> m = i) /\ (n = Shift(k, j) <=> m = j)
        BY <1>1, <4>1 DEF Shift
      <4>3. v[n] = t[m]
        BY <1>2, <4>1
      <4> QED
        BY <1>4, <4>2, <4>3 DEF Marked
    <3> QED
      BY <1>2, <3>1, <3>2
  <2> QED
    BY <2>1, <2>2 DEF Marked
<1> QED
  BY <1>3, <1>4 DEF v

(* A word leaves a well-formed text well-formed and what is outside the    *)
(* block outside, and is itself outside unless it was written inside.      *)
LEMMA InsertedText ==
  ASSUME NEW t, WellFormed(t), NEW k \in 1..(Len(t) + 1), NEW w \in Word
  PROVE  LET v == Inserted(t, k, w)
         IN /\ WellFormed(v) /\ Outside(t) \subseteq Outside(v)
            /\ ~Inside(t, k) => w \in Outside(v)
<1> DEFINE v == Inserted(t, k, w)
<1>1. t \in Seq(Piece) /\ Len(t) \in Nat
  BY WellFormedSlot
<1>2. /\ v \in Seq(Piece) /\ Len(v) = Len(t) + 1 /\ v[k] = w
      /\ \A m \in 1..Len(t) : Shift(k, m) \in 1..Len(v) /\ v[Shift(k, m)] = t[m]
  BY <1>1, InsertedShift
<1>3. /\ Plain(t) => Plain(v)
      /\ \A i, j \in 1..Len(t) : Marked(t, i, j) => Marked(v, Shift(k, i), Shift(k, j))
  BY <1>1, InsertedSlot
<1> HIDE DEF v
<1>4. CASE Plain(t)
  <2>1. Plain(v) /\ WellFormed(v)
    BY <1>2, <1>3, <1>4 DEF WellFormed
  <2>2. \A n \in 1..Len(v) : v[n] \in Outside(v)
    BY <2>1 DEF Outside, Plain, Marked
  <2>3. \A x \in Outside(t) : \E m \in 1..Len(t) : x = t[m]
    BY DEF Outside
  <2>4. Outside(t) \subseteq Outside(v)
    BY <1>2, <2>2, <2>3
  <2>5. w \in Outside(v)
    BY <1>1, <1>2, <2>2
  <2> QED
    BY <2>1, <2>4, <2>5 DEF v
<1>5. CASE \E i, j \in 1..Len(t) : Marked(t, i, j)
  <2>1. PICK i \in 1..Len(t), j \in 1..Len(t) : Marked(t, i, j)
    BY <1>5
  <2> DEFINE a == Shift(k, i)
             b == Shift(k, j)
  <2>2. Marked(v, a, b) /\ a \in 1..Len(v) /\ b \in 1..Len(v)
    BY <1>2, <1>3, <2>1
  <2>3. WellFormed(v)
    BY <1>2, <2>2 DEF WellFormed
  <2>4. /\ i \in Nat /\ j \in Nat /\ Slot(t, i, j)
        /\ a \in Nat /\ b \in Nat /\ Slot(v, a, b) /\ Len(v) \in Nat
    BY <1>1, <1>2, <2>1, <2>2 DEF Slot
  <2>5. /\ Outside(t) = {t[m] : m \in {m \in 1..Len(t) : m < i \/ j < m}}
        /\ Outside(v) = {v[n] : n \in {n \in 1..Len(v) : n < a \/ b < n}}
    <3> HIDE DEF a, b
    <3>1. Outside(t) = {t[m] : m \in {m \in 1..Len(t) : m < i \/ j < m}}
      BY <1>1, <2>4, OutsideSlot
    <3>2. Outside(v) = {v[n] : n \in {n \in 1..Len(v) : n < a \/ b < n}}
      BY <1>2, <2>4, OutsideSlot
    <3> QED
      BY <3>1, <3>2
  <2>6. ASSUME NEW m \in 1..Len(t), m < i \/ j < m
        PROVE  t[m] \in Outside(v)
    <3>1. Shift(k, m) < a \/ b < Shift(k, m)
      BY <1>1, <2>1, <2>6 DEF Shift
    <3>2. Shift(k, m) \in 1..Len(v) /\ v[Shift(k, m)] = t[m]
      BY <1>2
    <3> QED
      BY <2>5, <3>1, <3>2
  <2>7. ASSUME ~Inside(t, k) PROVE w \in Outside(v)
    <3>1. {Start, End} \subseteq Pieces(t) /\ Place(t, Start) = i /\ Place(t, End) = j
      BY <1>1, <2>1, Places
    <3>2. ~(i < k /\ k <= j)
      BY <2>7, <3>1 DEF Inside
    <3>3. k < a \/ b < k
      BY <1>1, <2>1, <3>2 DEF Shift
    <3>4. k \in 1..Len(v)
      BY <1>1, <1>2
    <3> QED
      BY <1>2, <2>5, <3>3, <3>4
  <2>8. Outside(t) \subseteq Outside(v)
    BY <2>5, <2>6
  <2> QED
    BY <2>3, <2>7, <2>8 DEF v
<1> QED
  BY <1>4, <1>5 DEF WellFormed

LEMMA EmptyText == WellFormed(<<>>)
BY DEF WellFormed, Plain

(* A well-formed text has a block or none. *)
LEMMA OneBlock ==
  ASSUME NEW t, WellFormed(t)
  PROVE  Number(t, Start) = Number(t, End) /\ Number(t, Start) <= 1
<1>1. CASE Plain(t)
  <2>1. {k \in 1..Len(t) : t[k] = Start} = {} /\ {k \in 1..Len(t) : t[k] = End} = {}
    BY <1>1 DEF Plain
  <2>2. Number(t, Start) = 0 /\ Number(t, End) = 0
    BY <2>1, FS_EmptySet DEF Number
  <2> QED
    BY <2>2
<1>2. CASE \E i, j \in 1..Len(t) : Marked(t, i, j)
  <2>1. PICK i \in 1..Len(t), j \in 1..Len(t) : Marked(t, i, j)
    BY <1>2
  <2>2. {k \in 1..Len(t) : t[k] = Start} = {i} /\ {k \in 1..Len(t) : t[k] = End} = {j}
    BY <2>1 DEF Marked
  <2>3. Cardinality({i}) = 1 /\ Cardinality({j}) = 1
    BY FS_Singleton
  <2>4. Number(t, Start) = 1 /\ Number(t, End) = 1
    BY <2>2, <2>3 DEF Number
  <2> QED
    BY <2>4
<1> QED
  BY <1>1, <1>2 DEF WellFormed

-----------------------------------------------------------------------------
(***************************************************************************)
(* The inductive invariant.                                                *)
(***************************************************************************)
Stage    == {"new", "plan", "guard", "register", "truncate", "fill", "ok", "failed", "killed"}
Project  == [status : {"active", "archived"}, path : Folder \cup {None}, agent : {TRUE}]
Server   == [loopback : BOOLEAN, token : Nat]
Orders   == [how : {"register", "install"}, slug : Slug, folder : Folder, target : Target, install : BOOLEAN]
Requests == [how : {"form", "setup"}, slug : Slug, folder : Folder \cup {None}, target : {AgentsMd},
             install : BOOLEAN, local : BOOLEAN, token : Nat]

TypeOK ==
  /\ project \in [Slug -> {None} \cup Project]
  /\ server \in Server
  /\ job \in [Proc -> {None} \cup Orders \cup Requests]
  /\ pc \in [Proc -> Stage]
  /\ alone \in [Proc -> BOOLEAN] /\ stale \in [Proc -> BOOLEAN] /\ struck \in [Proc -> BOOLEAN]
  /\ broken \in [File -> BOOLEAN] /\ raced \in [File -> BOOLEAN] /\ torn \in [File -> BOOLEAN]
  /\ mine \in [File -> SUBSET Word]
  /\ DOMAIN file = File /\ DOMAIN plan = Proc

Planned(p) == pc[p] \in {"truncate", "fill"} \/ (pc[p] = "register" /\ job[p].install)
Filling(p, f) == pc[p] = "fill" /\ At(p) = f

(* What a process was asked, and where that leads it. *)
JobOf(p) ==
  /\ pc[p] # "new" /\ p \in Command => job[p] \in Orders
  /\ pc[p] # "new" /\ p \in Request =>
       /\ job[p] \in Requests /\ job[p].token <= server.token
       /\ job[p].install = (job[p].how = "setup")
       /\ job[p].how = "form" => job[p].folder \in Folder
  /\ p \in Command => pc[p] # "guard"
  /\ pc[p] = "register" => job[p].how \in {"register", "form"}
  /\ pc[p] \in {"plan", "truncate", "fill"} => job[p].folder \in Folder /\ job[p].install
  /\ pc[p] = "plan" => job[p].how # "form"

TextOf(f) ==
  /\ ~broken[f] /\ ~torn[f] => WellFormed(Text(f))
  /\ ~broken[f] /\ ~torn[f] /\ ~raced[f] /\ (\A p \in Proc : ~Filling(p, f)) => mine[f] \subseteq Outside(Text(f))

(* A plan is an update of some text of the file. *)
PlanOf(p) ==
  Planned(p) /\ ~broken[At(p)] /\ ~torn[At(p)] =>
    /\ \E t : WellFormed(t) /\ plan[p] = Updated(t, job[p].slug)
    /\ LET f == At(p)
       IN ~stale[p] /\ ~raced[f] /\ (\A o \in Proc \ {p} : ~Filling(o, f)) =>
            mine[f] \subseteq Outside(plan[p])

Ready(row) == row # None /\ row.status = "active" /\ row.path # None

(* What stands when nobody else has changed anything. *)
AloneOf(p) ==
  alone[p] =>
    /\ pc[p] \in {"truncate", "fill", "ok"} /\ job[p].how \in {"register", "form"} =>
         project[job[p].slug] = Row(job[p].folder)
    /\ pc[p] \in {"plan", "truncate", "fill", "ok"} /\ job[p].how = "setup" =>
         Ready(project[job[p].slug]) /\ project[job[p].slug].path = job[p].folder
    /\ pc[p] = "ok" /\ job[p].install =>
         /\ At(p) \in File
         /\ ~broken[At(p)] /\ ~torn[At(p)] => Unchanged(At(p), job[p].slug)
    /\ pc[p] = "failed" =>
         \/ struck[p]
         \/ p \in Request /\ ~Allowed(p)
         \/ job[p].how = "setup" /\ ~Ready(project[job[p].slug])
         \/ At(p) \in File /\ Cut \in Pieces(Text(At(p)))

IInv ==
  /\ TypeOK
  /\ \A p \in Proc : JobOf(p) /\ PlanOf(p) /\ AloneOf(p)
  /\ \A f \in File : TextOf(f)

-----------------------------------------------------------------------------
LEMMA Apart ==
  /\ None \notin Slug /\ None \notin Folder /\ None \notin Proc
  /\ Command \subseteq Proc /\ Request \subseteq Proc /\ \A p \in Command : p \notin Request
  /\ \A t : WellFormed(t) => t # None
BY OnboardingAssumption DEF Proc, WellFormed

LEMMA InitIInv == Init => IInv
<1> SUFFICES ASSUME Init PROVE IInv
  OBVIOUS
<1>1. TypeOK
  BY DEF Init, TypeOK, Server, Stage
<1>2. ASSUME NEW p \in Proc PROVE JobOf(p) /\ PlanOf(p) /\ AloneOf(p)
  BY DEF Init, JobOf, PlanOf, Planned, AloneOf
<1>3. ASSUME NEW f \in File PROVE TextOf(f)
  BY EmptyText DEF Init, TextOf, Text
<1> QED
  BY <1>1, <1>2, <1>3 DEF IInv

(* What a process that is on its way was asked. *)
LEMMA Asked ==
  ASSUME IInv, NEW p \in Proc, pc[p] \notin {"new", "ok", "failed", "killed"}
  PROVE  /\ job[p] \in Orders \cup Requests /\ job[p].slug \in Slug
         /\ pc[p] \in {"plan", "register", "truncate", "fill"} => job[p].folder \in Folder /\ At(p) \in File
         /\ p \in Command => job[p] \in Orders
         /\ p \in Request => job[p] \in Requests
<1>1. JobOf(p) /\ (p \in Command \/ p \in Request)
  BY DEF IInv, Proc
<1>2. (p \in Command => job[p] \in Orders) /\ (p \in Request => job[p] \in Requests)
  BY <1>1 DEF JobOf
<1>3. job[p] \in Orders \cup Requests /\ job[p].slug \in Slug /\ job[p].target \in Target
  BY <1>1, <1>2, OnboardingAssumption DEF Orders, Requests
<1>4. pc[p] \in {"plan", "register", "truncate", "fill"} => job[p].folder \in Folder
  <2>1. p \in Command => job[p].folder \in Folder
    BY <1>2 DEF Orders
  <2>2. p \in Request /\ pc[p] = "register" => job[p].how = "form"
    BY <1>1, <1>2 DEF JobOf, Requests
  <2> QED
    BY <1>1, <2>1, <2>2 DEF JobOf
<1>5. job[p].folder \in Folder => At(p) \in File
  BY <1>3 DEF At, File
<1> QED
  BY <1>2, <1>3, <1>4, <1>5

-----------------------------------------------------------------------------
(***************************************************************************)
(* Types.                                                                  *)
(***************************************************************************)
LEMMA GotoType ==
  ASSUME TypeOK, NEW p \in Proc, NEW a,
         NEW b \in {"plan", "guard", "register", "truncate", "fill", "ok", "failed", "killed"},
         Goto(p, a, b)
  PROVE  pc' \in [Proc -> Stage]
BY DEF TypeOK, Goto, Stage

LEMMA DisturbType == ASSUME NEW p, TypeOK, Disturb(p) PROVE alone' \in [Proc -> BOOLEAN]
BY DEF Disturb, TypeOK

LEMMA TouchType == ASSUME NEW p, NEW f, TypeOK, Touch(p, f) PROVE stale' \in [Proc -> BOOLEAN]
BY DEF Touch, TypeOK

LEMMA FaultType == ASSUME NEW p \in Proc, TypeOK, Fault(p) PROVE struck' \in [Proc -> BOOLEAN]
<1>1. TRUE \in BOOLEAN /\ struck \in [Proc -> BOOLEAN]
  BY DEF TypeOK
<1> QED
  BY <1>1, Zenon DEF Fault

LEMMA RacedType ==
  ASSUME NEW f, NEW b \in BOOLEAN, TypeOK, raced' = [raced EXCEPT ![f] = b]
  PROVE  raced' \in [File -> BOOLEAN]
<1>1. raced \in [File -> BOOLEAN]
  BY DEF TypeOK
<1> QED
  BY <1>1, Zenon

LEMMA TornType ==
  ASSUME NEW f, NEW b \in BOOLEAN, TypeOK, torn' = [torn EXCEPT ![f] = b]
  PROVE  torn' \in [File -> BOOLEAN]
<1>1. torn \in [File -> BOOLEAN]
  BY DEF TypeOK
<1> QED
  BY <1>1, Zenon

(* What the end of a writing does to its file, and to no other. *)
Wrote(f, t, plans) ==
  /\ file' = [file EXCEPT ![f] = t]
  /\ torn' = [torn EXCEPT ![f] = @ \/ t \notin plans]

LEMMA WroteType ==
  ASSUME TypeOK, NEW f, NEW t, NEW plans, Wrote(f, t, plans)
  PROVE  DOMAIN file' = File /\ torn' \in [File -> BOOLEAN]
<1>1. DOMAIN file' = File
  BY DEF TypeOK, Wrote
<1>2. (torn[f] \/ t \notin plans) \in BOOLEAN
  OBVIOUS
<1>3. torn' = [torn EXCEPT ![f] = torn[f] \/ t \notin plans]
  BY DEF Wrote
<1> QED
  BY <1>1, <1>2, <1>3, TornType

LEMMA WroteOnly ==
  ASSUME TypeOK, NEW f, NEW t, NEW plans, Wrote(f, t, plans), NEW g \in File
  PROVE  /\ g # f => file'[g] = file[g] /\ torn'[g] = torn[g]
         /\ g = f => file'[g] = t /\ (torn'[g] <=> torn[g] \/ t \notin plans)
BY DEF TypeOK, Wrote

(* A writer that is stopped: whether it had begun to write or not.         *)
LEMMA StopsEither ==
  ASSUME NEW p \in Proc, Stops(p)
  PROVE  \/ /\ pc[p] = "fill" /\ Disturb(p) /\ Touch(p, At(p))
            /\ raced' = [raced EXCEPT ![At(p)] = TRUE]
            /\ \E t : Wrote(At(p), t, {Text(At(p)), plan[p]})
         \/ pc[p] # "fill" /\ UNCHANGED <<file, torn, raced, alone, stale>>
BY DEF Stops, Wrote

LEMMA StopsType ==
  ASSUME TypeOK, NEW p \in Proc, Stops(p)
  PROVE  /\ DOMAIN file' = File /\ torn' \in [File -> BOOLEAN] /\ raced' \in [File -> BOOLEAN]
         /\ alone' \in [Proc -> BOOLEAN] /\ stale' \in [Proc -> BOOLEAN]
<1>1. CASE UNCHANGED <<file, torn, raced, alone, stale>>
  BY <1>1 DEF TypeOK
<1>2. CASE /\ Disturb(p) /\ Touch(p, At(p)) /\ raced' = [raced EXCEPT ![At(p)] = TRUE]
           /\ \E t : Wrote(At(p), t, {Text(At(p)), plan[p]})
  BY <1>2, DisturbType, TouchType, RacedType, WroteType
<1> QED
  BY <1>1, <1>2, StopsEither

LEMMA FillWrote ==
  ASSUME NEW p \in Proc, Fill(p)
  PROVE  \E t : Wrote(At(p), t, {plan[p]})
BY DEF Fill, Wrote

LEMMA RebindType == ASSUME TypeOK, Rebind PROVE server' \in Server
BY DEF TypeOK, Rebind, Server

LEMMA TypeStep == IInv /\ Next => TypeOK'
<1> SUFFICES ASSUME IInv, Next PROVE TypeOK'
  OBVIOUS
<1>0. TypeOK
  BY DEF IInv
<1>1. ASSUME NEW p \in Command, Begin(p) PROVE TypeOK'
  <2>1. p \in Proc
    BY DEF Proc
  <2>2. pc' \in [Proc -> Stage]
    BY <1>0, <1>1, <2>1, GotoType DEF Begin
  <2>3. PICK s \in Slug, f \in Folder, t \in Target, i \in BOOLEAN :
          job' = [job EXCEPT ![p] = IF i THEN Register(f, s, t, i) ELSE Install(f, s, t)]
    BY <1>1 DEF Begin
  <2>4. (IF i THEN Register(f, s, t, i) ELSE Install(f, s, t)) \in Orders
    BY DEF Register, Install, Orders
  <2>5. job' \in [Proc -> {None} \cup Orders \cup Requests]
    BY <1>0, <2>3, <2>4 DEF TypeOK
  <2> QED
    BY <1>0, <1>1, <2>2, <2>5 DEF TypeOK, Begin, ghosts
<1>2. ASSUME NEW p \in Command, BeginNoInstall(p) PROVE TypeOK'
  <2>1. p \in Proc
    BY DEF Proc
  <2>2. pc' \in [Proc -> Stage]
    BY <1>0, <1>2, <2>1, GotoType DEF BeginNoInstall
  <2>3. PICK s \in Slug, f \in Folder : job' = [job EXCEPT ![p] = Register(f, s, AgentsMd, FALSE)]
    BY <1>2 DEF BeginNoInstall
  <2>4. Register(f, s, AgentsMd, FALSE) \in Orders
    BY OnboardingAssumption DEF Register, Orders
  <2>5. job' \in [Proc -> {None} \cup Orders \cup Requests]
    BY <1>0, <2>3, <2>4 DEF TypeOK
  <2> QED
    BY <1>0, <1>2, <2>2, <2>5 DEF TypeOK, BeginNoInstall, ghosts
<1>3. ASSUME NEW p \in Command, Kill(p) PROVE TypeOK'
  <2>1. p \in Proc
    BY DEF Proc
  <2>2. pc' \in [Proc -> Stage]
    BY <1>0, <1>3, <2>1 DEF TypeOK, Stage, Kill
  <2>3. struck' \in [Proc -> BOOLEAN]
    BY <1>0, <1>3, <2>1, FaultType DEF Kill
  <2>4. DOMAIN plan' = Proc
    BY <1>0, <1>3 DEF TypeOK, Kill
  <2>5. Stops(p)
    BY <1>3 DEF Kill
  <2> QED
    BY <1>0, <1>3, <2>1, <2>2, <2>3, <2>4, <2>5, StopsType DEF TypeOK, Kill
<1>4. ASSUME NEW q \in Request, Post(q) PROVE TypeOK'
  <2>1. q \in Proc
    BY DEF Proc
  <2>2. pc' \in [Proc -> Stage]
    BY <1>0, <1>4, <2>1, GotoType DEF Post
  <2>3. PICK s \in Slug, f \in Folder, how \in {"form", "setup"}, local \in BOOLEAN, t \in 0..server.token :
          job' = [job EXCEPT ![q] =
                    [how |-> how, slug |-> s, folder |-> IF how = "form" THEN f ELSE None,
                     target |-> AgentsMd, install |-> how = "setup", local |-> local, token |-> t]]
    BY <1>4 DEF Post
  <2>4. [how |-> how, slug |-> s, folder |-> IF how = "form" THEN f ELSE None,
         target |-> AgentsMd, install |-> how = "setup", local |-> local, token |-> t] \in Requests
    BY <1>0 DEF Requests, TypeOK, Server
  <2>5. job' \in [Proc -> {None} \cup Orders \cup Requests]
    BY <1>0, <2>3, <2>4 DEF TypeOK
  <2> QED
    BY <1>0, <1>4, <2>2, <2>5 DEF TypeOK, Post, ghosts
<1>5. ASSUME NEW q \in Request, GuardForm(q) PROVE TypeOK'
  <2>1. q \in Proc
    BY DEF Proc
  <2>2. pc' \in [Proc -> Stage]
    BY <1>0, <1>5, <2>1 DEF TypeOK, Stage, GuardForm, Goto
  <2> QED
    BY <1>0, <1>5, <2>2 DEF TypeOK, GuardForm, ghosts
<1>6. ASSUME NEW q \in Request, GuardSetup(q) PROVE TypeOK'
  <2>1. q \in Proc /\ pc[q] = "guard"
    BY <1>6 DEF Proc, GuardSetup, Goto
  <2>2. pc' \in [Proc -> Stage]
    BY <1>0, <1>6, <2>1 DEF TypeOK, Stage, GuardSetup, Goto
  <2>3. job[q] \in Requests /\ job[q].slug \in Slug
    BY <2>1, Asked
  <2> DEFINE row == project[job[q].slug]
  <2>4. job' = job \/ (row # None /\ job' = [job EXCEPT ![q].folder = row.path])
    BY <1>6 DEF GuardSetup
  <2>5. row # None => row.path \in Folder \cup {None}
    BY <1>0, <2>3 DEF TypeOK, Project
  <2>6. row # None => [job[q] EXCEPT !.folder = row.path] \in Requests
    <3> HIDE DEF row
    <3> QED
      BY <2>3, <2>5 DEF Requests
  <2>7. job' \in [Proc -> {None} \cup Orders \cup Requests]
    <3>1. CASE job' = job
      BY <1>0, <3>1 DEF TypeOK
    <3>2. CASE row # None /\ job' = [job EXCEPT ![q].folder = row.path]
      <4> DEFINE new == [job[q] EXCEPT !.folder = row.path]
      <4>1. job' = [job EXCEPT ![q] = new] /\ new \in Requests
        BY <2>6, <3>2
      <4> HIDE DEF new
      <4> QED
        BY <1>0, <4>1 DEF TypeOK
    <3> QED
      BY <2>4, <3>1, <3>2
  <2> QED
    BY <1>0, <1>6, <2>2, <2>7 DEF TypeOK, GuardSetup, ghosts
<1>7. ASSUME NEW p \in Proc, Plan(p) PROVE TypeOK'
  <2>1. pc' \in [Proc -> Stage]
    BY <1>0, <1>7 DEF TypeOK, Stage, Plan, Goto
  <2>2. DOMAIN plan' = Proc
    BY <1>0, <1>7 DEF TypeOK, Plan
  <2> QED
    BY <1>0, <1>7, <2>1, <2>2 DEF TypeOK, Plan, ghosts
<1>8. ASSUME NEW p \in Proc, RegisterProject(p) PROVE TypeOK'
  <2>1. pc[p] = "register" /\ job[p].folder \in Folder
    BY <1>8, Asked DEF RegisterProject, Goto
  <2>2. pc' \in [Proc -> Stage]
    BY <1>0, <1>8 DEF TypeOK, Stage, RegisterProject, Goto
  <2>3. alone' \in [Proc -> BOOLEAN]
    BY <1>0, <1>8, DisturbType DEF RegisterProject
  <2>4. Row(job[p].folder) \in Project
    BY <2>1 DEF Row, Project
  <2>5. project' \in [Slug -> {None} \cup Project]
    BY <1>0, <1>8, <2>4 DEF TypeOK, RegisterProject
  <2> QED
    BY <1>0, <1>8, <2>2, <2>3, <2>5 DEF TypeOK, RegisterProject, ghosts
<1>9. ASSUME NEW p \in Proc, RegisterFails(p) PROVE TypeOK'
  <2>1. pc' \in [Proc -> Stage]
    BY <1>0, <1>9, GotoType DEF RegisterFails
  <2>2. struck' \in [Proc -> BOOLEAN]
    BY <1>0, <1>9, FaultType DEF RegisterFails
  <2> QED
    BY <1>0, <1>9, <2>1, <2>2 DEF TypeOK, RegisterFails, ghosts
<1>10. ASSUME NEW p \in Proc, Truncate(p) PROVE TypeOK'
  <2>1. pc' \in [Proc -> Stage]
    BY <1>0, <1>10, GotoType DEF Truncate
  <2>2. alone' \in [Proc -> BOOLEAN] /\ stale' \in [Proc -> BOOLEAN]
    BY <1>0, <1>10, DisturbType, TouchType DEF Truncate
  <2>3. DOMAIN file' = File
    BY <1>0, <1>10 DEF TypeOK, Truncate
  <2> QED
    BY <1>0, <1>10, <2>1, <2>2, <2>3 DEF TypeOK, Truncate, ghosts
<1>11. ASSUME NEW p \in Proc, Fill(p) PROVE TypeOK'
  <2>1. PICK f : f = At(p)
    OBVIOUS
  <2>2. pc' \in [Proc -> Stage]
    BY <1>0, <1>11, GotoType DEF Fill
  <2>3. alone' \in [Proc -> BOOLEAN] /\ stale' \in [Proc -> BOOLEAN]
    BY <1>0, <1>11, DisturbType, TouchType DEF Fill
  <2>4. DOMAIN plan' = Proc
    BY <1>0, <1>11 DEF TypeOK, Fill
  <2>5. DOMAIN file' = File /\ torn' \in [File -> BOOLEAN]
    <3>1. \E t : Wrote(f, t, {plan[p]})
      BY <1>11, <2>1, FillWrote
    <3> QED
      BY <1>0, <3>1, WroteType
  <2>6. (raced[f] \/ stale[p]) \in BOOLEAN
    OBVIOUS
  <2>7. raced' = [raced EXCEPT ![f] = raced[f] \/ stale[p]]
    BY <1>11, <2>1 DEF Fill
  <2>8. raced' \in [File -> BOOLEAN]
    BY <1>0, <2>6, <2>7, RacedType
  <2> QED
    BY <1>0, <1>11, <2>2, <2>3, <2>4, <2>5, <2>8 DEF TypeOK, Fill
<1>12. ASSUME NEW p \in Proc, InstallFails(p) PROVE TypeOK'
  <2>1. pc' \in [Proc -> Stage]
    BY <1>0, <1>12, GotoType DEF InstallFails
  <2>2. struck' \in [Proc -> BOOLEAN]
    BY <1>0, <1>12, FaultType DEF InstallFails
  <2>3. DOMAIN plan' = Proc
    BY <1>0, <1>12 DEF TypeOK, InstallFails
  <2>4. Stops(p)
    BY <1>12 DEF InstallFails
  <2> QED
    BY <1>0, <1>12, <2>1, <2>2, <2>3, <2>4, StopsType DEF TypeOK, InstallFails
<1>13. ASSUME Restart PROVE TypeOK'
  <2>1. server' \in Server
    BY <1>0, <1>13, RebindType DEF Restart
  <2> QED
    BY <1>0, <1>13, <2>1 DEF TypeOK, Restart, ghosts
<1>18. ASSUME NEW q \in Request, RestartDuring(q) PROVE TypeOK'
  <2>1. q \in Proc /\ Stops(q)
    BY <1>18 DEF Proc, RestartDuring
  <2>2. server' \in Server
    BY <1>0, <1>18, RebindType DEF RestartDuring
  <2>3. pc' \in [Proc -> Stage] /\ DOMAIN plan' = Proc
    BY <1>0, <1>18, <2>1 DEF TypeOK, Stage, RestartDuring
  <2> QED
    BY <1>0, <1>18, <2>1, <2>2, <2>3, StopsType DEF TypeOK, RestartDuring
<1>19. ASSUME NEW p \in Proc, PlanFails(p) PROVE TypeOK'
  <2>1. pc' \in [Proc -> Stage]
    BY <1>0, <1>19, GotoType DEF PlanFails
  <2>2. struck' \in [Proc -> BOOLEAN]
    BY <1>0, <1>19, FaultType DEF PlanFails, TypeOK
  <2> QED
    BY <1>0, <1>19, <2>1, <2>2 DEF TypeOK, PlanFails, ghosts
<1>14. ASSUME NEW s \in Slug, CreateProject(s) PROVE TypeOK'
  <2>1. alone' \in [Proc -> BOOLEAN]
    BY <1>0, <1>14, DisturbType DEF CreateProject, Change
  <2>2. [status |-> "active", path |-> None, agent |-> TRUE] \in Project
    BY DEF Project
  <2>3. project' \in [Slug -> {None} \cup Project]
    BY <1>0, <1>14, <2>2 DEF TypeOK, CreateProject
  <2> QED
    BY <1>0, <1>14, <2>1, <2>3 DEF TypeOK, CreateProject, ghosts
<1>15. ASSUME NEW s \in Slug, Archive(s) PROVE TypeOK'
  <2>1. alone' \in [Proc -> BOOLEAN]
    BY <1>0, <1>15, DisturbType DEF Archive, Change
  <2> DEFINE row == project[s]
             new == [row EXCEPT !.status = "archived"]
  <2>2. row \in Project
    BY <1>0, <1>15 DEF TypeOK, Archive
  <2>3. new \in Project
    <3> HIDE DEF row
    <3> QED
      BY <2>2 DEF Project
  <2>4. project' = [project EXCEPT ![s] = new]
    BY <1>15 DEF Archive
  <2> HIDE DEF new
  <2>5. project' \in [Slug -> {None} \cup Project]
    BY <1>0, <2>3, <2>4 DEF TypeOK
  <2> QED
    BY <1>0, <1>15, <2>1, <2>5 DEF TypeOK, Archive, ghosts
<1>16. ASSUME NEW f \in File, NEW w \in Word, Write(f, w) PROVE TypeOK'
  <2>1. alone' \in [Proc -> BOOLEAN] /\ stale' \in [Proc -> BOOLEAN]
    BY <1>0, <1>16, DisturbType, TouchType DEF Write, Change
  <2>2. DOMAIN file' = File /\ mine' \in [File -> SUBSET Word]
    BY <1>0, <1>16 DEF TypeOK, Write
  <2> QED
    BY <1>0, <1>16, <2>1, <2>2 DEF TypeOK, Write
<1>17. ASSUME NEW f \in File, TakeMarker(f) PROVE TypeOK'
  <2>1. alone' \in [Proc -> BOOLEAN] /\ stale' \in [Proc -> BOOLEAN]
    BY <1>0, <1>17, DisturbType, TouchType DEF TakeMarker, Change
  <2>2. DOMAIN file' = File
    BY <1>0, <1>17 DEF TypeOK, TakeMarker
  <2>3. broken' \in [File -> BOOLEAN]
    <3>1. broken \in [File -> BOOLEAN] /\ broken' = [broken EXCEPT ![f] = TRUE] /\ TRUE \in BOOLEAN
      BY <1>0, <1>17 DEF TypeOK, TakeMarker
    <3> QED
      BY <3>1, Zenon
  <2> QED
    BY <1>0, <1>17, <2>1, <2>2, <2>3 DEF TypeOK, TakeMarker
<1> QED
  BY <1>1, <1>2, <1>3, <1>4, <1>5, <1>6, <1>7, <1>8, <1>9, <1>10, <1>11, <1>12, <1>13, <1>14, <1>15,
     <1>16, <1>17, <1>18, <1>19 DEF Next, Others

-----------------------------------------------------------------------------
(***************************************************************************)
(* What a step leaves alone.                                               *)
(***************************************************************************)
ByProcess(p) ==
  \/ p \in Command /\ (Begin(p) \/ BeginNoInstall(p) \/ Kill(p))
  \/ p \in Request /\ (Post(p) \/ GuardForm(p) \/ GuardSetup(p))
  \/ Plan(p) \/ PlanFails(p) \/ RegisterProject(p) \/ RegisterFails(p)
  \/ Truncate(p) \/ Fill(p) \/ InstallFails(p)

LEMMA NextSteps ==
  ASSUME Next
  PROVE  (\E p \in Proc : ByProcess(p)) \/ (\E q \in Request : RestartDuring(q)) \/ Restart \/ Others
BY DEF Next, ByProcess, Proc

Kept(o) ==
  /\ pc'[o] = pc[o] /\ job'[o] = job[o] /\ plan'[o] = plan[o]
  /\ stale[o] => stale'[o]
  /\ struck[o] => struck'[o]

(* A process changes only what is its own, ... *)
LEMMA KeptByOthers ==
  ASSUME TypeOK, NEW p \in Proc, ByProcess(p) \/ RestartDuring(p), NEW o \in Proc, o # p
  PROVE  Kept(o)
<1>1. pc'[o] = pc[o]
  BY DEF ByProcess, Begin, BeginNoInstall, Kill, Post, GuardForm, GuardSetup, Plan, PlanFails, RegisterProject,
         RegisterFails, Truncate, Fill, InstallFails, RestartDuring, Goto, TypeOK
<1>2. job'[o] = job[o]
  <2>1. GuardSetup(p) => job'[o] = job[o]
    BY DEF GuardSetup, TypeOK
  <2>2. Begin(p) \/ BeginNoInstall(p) \/ Post(p) => job'[o] = job[o]
    BY DEF Begin, BeginNoInstall, Post, TypeOK
  <2> QED
    BY <2>1, <2>2
    DEF ByProcess, Kill, GuardForm, Plan, PlanFails, RegisterProject, RegisterFails, Truncate, Fill,
        InstallFails, RestartDuring
<1>3. plan'[o] = plan[o]
  BY DEF ByProcess, Begin, BeginNoInstall, Kill, Post, GuardForm, GuardSetup, Plan, PlanFails, RegisterProject,
         RegisterFails, Truncate, Fill, InstallFails, RestartDuring, TypeOK
<1>4. stale[o] => stale'[o]
  BY DEF ByProcess, Begin, BeginNoInstall, Kill, Post, GuardForm, GuardSetup, Plan, PlanFails, RegisterProject,
         RegisterFails, Truncate, Fill, InstallFails, RestartDuring, Stops, Touch
<1>5. struck[o] => struck'[o]
  <2>1. Fault(p) => struck'[o] = struck[o]
    BY DEF Fault, TypeOK
  <2> QED
    BY <2>1
    DEF ByProcess, Begin, BeginNoInstall, Kill, Post, GuardForm, GuardSetup, Plan, PlanFails, RegisterProject,
        RegisterFails, Truncate, Fill, InstallFails, RestartDuring
<1> QED
  BY <1>1, <1>2, <1>3, <1>4, <1>5 DEF Kept

(* ... and so do the others. *)
LEMMA KeptFromOthers ==
  ASSUME Others, NEW o \in Proc
  PROVE  Kept(o) /\ (alone'[o] => pc'[o] = "new")
<1>1. o # None
  BY Apart
<1>2. Change => (alone'[o] => pc[o] = "new")
  BY <1>1 DEF Change, Disturb
<1>3. Change /\ pc' = pc /\ job' = job /\ plan' = plan /\ struck' = struck
  BY DEF Others, CreateProject, Archive, Write, TakeMarker
<1>4. stale[o] => stale'[o]
  BY DEF Others, CreateProject, Archive, Write, TakeMarker, Touch
<1> QED
  BY <1>2, <1>3, <1>4 DEF Kept

(* Either nobody notices, or everybody else is disturbed. *)
LEMMA Noticed ==
  ASSUME NEW p \in Proc, ByProcess(p) \/ RestartDuring(p), NEW o \in Proc, o # p
  PROVE  \/ alone'[o] => pc[o] = "new"
         \/ alone' = alone /\ UNCHANGED <<project, file, broken, torn>>
<1>1. Disturb(p) => (alone'[o] => pc[o] = "new")
  BY DEF Disturb
<1>2. Stops(p) => (alone'[o] => pc[o] = "new") \/ UNCHANGED <<alone, file, torn>>
  BY <1>1, StopsEither
<1> QED
  BY <1>1, <1>2
  DEF ByProcess, Begin, BeginNoInstall, Kill, Post, GuardForm, GuardSetup, Plan, PlanFails, RegisterProject,
      RegisterFails, Truncate, Fill, InstallFails, RestartDuring, ghosts

(* The server's token tells a request of before from one of now. *)
LEMMA Rebound ==
  ASSUME TypeOK, Rebind, NEW o \in Proc, JobOf(o)
  PROVE  /\ server.token <= server'.token
         /\ o \in Request /\ pc[o] # "new" => job[o].token <= server'.token /\ job[o].token # server'.token
<1>1. server.token \in Nat /\ server'.token = server.token + 1
  BY DEF TypeOK, Rebind, Server
<1>2. o \in Request /\ pc[o] # "new" => job[o].token \in Nat /\ job[o].token <= server.token
  BY DEF JobOf, Requests
<1> QED
  BY <1>1, <1>2

(* What has happened to a file stays so. *)
LEMMA RacedGrows ==
  ASSUME TypeOK, Next, NEW f \in File
  PROVE  (raced[f] => raced'[f]) /\ (torn[f] => torn'[f])
<1>1. UNCHANGED <<raced, torn>> => (raced[f] => raced'[f]) /\ (torn[f] => torn'[f])
  OBVIOUS
<1>2. ASSUME NEW p \in Proc, Stops(p) PROVE (raced[f] => raced'[f]) /\ (torn[f] => torn'[f])
  <2>1. CASE /\ raced' = [raced EXCEPT ![At(p)] = TRUE]
             /\ \E t : Wrote(At(p), t, {Text(At(p)), plan[p]})
    <3>1. torn[f] => torn'[f]
      BY <2>1, WroteOnly
    <3>2. raced[f] => raced'[f]
      BY <2>1 DEF TypeOK
    <3> QED
      BY <3>1, <3>2
  <2>2. CASE UNCHANGED <<torn, raced>>
    BY <2>2
  <2> QED
    BY <1>2, <2>1, <2>2, StopsEither
<1>3. ASSUME NEW p \in Proc, Fill(p) PROVE (raced[f] => raced'[f]) /\ (torn[f] => torn'[f])
  <2>1. \E t : Wrote(At(p), t, {plan[p]})
    BY <1>3, FillWrote
  <2>2. torn[f] => torn'[f]
    BY <2>1, WroteOnly
  <2>3. raced[f] => raced'[f]
    BY <1>3 DEF TypeOK, Fill
  <2> QED
    BY <2>2, <2>3
<1>4. ASSUME NEW p \in Proc, ByProcess(p) \/ RestartDuring(p)
      PROVE  (raced[f] => raced'[f]) /\ (torn[f] => torn'[f])
  <2>1. Stops(p) \/ Fill(p) \/ UNCHANGED <<raced, torn>>
    BY <1>4
    DEF ByProcess, Begin, BeginNoInstall, Kill, Post, GuardForm, GuardSetup, Plan, PlanFails, RegisterProject,
        RegisterFails, Truncate, InstallFails, RestartDuring, ghosts
  <2> QED
    BY <1>1, <1>2, <1>3, <2>1
<1>5. Restart \/ Others => UNCHANGED <<raced, torn>>
  BY DEF Restart, Others, CreateProject, Archive, Write, TakeMarker, ghosts
<1> QED
  BY <1>1, <1>4, <1>5, NextSteps DEF Proc

(* Whoever empties a file fills it again, or the file has been raced.      *)
LEMMA FillingEnds ==
  ASSUME IInv, Next, NEW q \in Proc, NEW f \in File, Filling(q, f)
  PROVE  Filling(q, f)' \/ raced'[f] \/ Fill(q)
<1>0. TypeOK /\ pc[q] = "fill" /\ At(q) = f
  BY DEF IInv, Filling
<1>1. ASSUME NEW o \in Proc, Kept(o), o = q PROVE Filling(q, f)'
  BY <1>0, <1>1 DEF Kept, Filling, At
<1>2. ASSUME Stops(q) PROVE raced'[f]
  <2>1. raced' = [raced EXCEPT ![At(q)] = TRUE]
    BY <1>0, <1>2, StopsEither
  <2> QED
    BY <1>0, <2>1 DEF TypeOK
<1>3. ASSUME ByProcess(q) \/ RestartDuring(q) PROVE raced'[f] \/ Fill(q)
  <2>1. Stops(q) \/ Fill(q)
    BY <1>0, <1>3
    DEF ByProcess, Begin, BeginNoInstall, Kill, Post, GuardForm, GuardSetup, Plan, PlanFails, RegisterProject,
        RegisterFails, Truncate, InstallFails, RestartDuring, Goto
  <2> QED
    BY <1>2, <2>1
<1>4. ASSUME NEW p \in Proc, ByProcess(p) \/ RestartDuring(p), p # q PROVE Filling(q, f)'
  BY <1>0, <1>1, <1>4, KeptByOthers
<1>5. ASSUME Restart PROVE Filling(q, f)'
  BY <1>0, <1>5 DEF Restart, Filling, At
<1>6. ASSUME Others PROVE Filling(q, f)'
  BY <1>1, <1>6, KeptFromOthers
<1> QED
  BY <1>3, <1>4, <1>5, <1>6, NextSteps DEF Proc

-----------------------------------------------------------------------------
(***************************************************************************)
(* What a process was asked.                                               *)
(***************************************************************************)
LEMMA JobKept ==
  ASSUME NEW o \in Proc, JobOf(o), Kept(o),
         \/ server' = server
         \/ o \in Request /\ pc[o] # "new" => job[o].token <= server'.token
  PROVE  JobOf(o)'
BY DEF JobOf, Kept

LEMMA JobStep == IInv /\ Next => \A o \in Proc : JobOf(o)'
<1> SUFFICES ASSUME IInv, Next, NEW o \in Proc PROVE JobOf(o)'
  OBVIOUS
<1>0. TypeOK /\ JobOf(o) /\ (o \in Command => o \notin Request)
  BY Apart DEF IInv
<1>1. ASSUME NEW p \in Proc, ByProcess(p), p # o PROVE JobOf(o)'
  <2>1. server' = server
    BY <1>1 DEF ByProcess, Begin, BeginNoInstall, Kill, Post, GuardForm, GuardSetup, Plan, PlanFails,
                RegisterProject, RegisterFails, Truncate, Fill, InstallFails
  <2>2. Kept(o)
    BY <1>0, <1>1, KeptByOthers
  <2> QED
    BY <1>0, <2>1, <2>2, JobKept
<1>2. ASSUME ByProcess(o) PROVE JobOf(o)'
  <2>1. CASE o \in Command /\ Begin(o)
    <3>1. pc'[o] = "plan"
      BY <1>0, <2>1 DEF Begin, Goto, TypeOK
    <3>2. PICK s \in Slug, f \in Folder, t \in Target, i \in BOOLEAN :
            job' = [job EXCEPT ![o] = IF i THEN Register(f, s, t, i) ELSE Install(f, s, t)]
      BY <2>1 DEF Begin
    <3>3. job'[o] = IF i THEN Register(f, s, t, i) ELSE Install(f, s, t)
      BY <1>0, <3>2 DEF TypeOK
    <3>4. job'[o] \in Orders /\ job'[o].folder \in Folder /\ job'[o].install /\ job'[o].how # "form"
      BY <3>3 DEF Register, Install, Orders
    <3> QED
      BY <1>0, <2>1, <3>1, <3>4 DEF JobOf
  <2>2. CASE o \in Command /\ BeginNoInstall(o)
    <3>1. pc'[o] = "register"
      BY <1>0, <2>2 DEF BeginNoInstall, Goto, TypeOK
    <3>2. PICK s \in Slug, f \in Folder : job' = [job EXCEPT ![o] = Register(f, s, AgentsMd, FALSE)]
      BY <2>2 DEF BeginNoInstall
    <3>3. job'[o] = Register(f, s, AgentsMd, FALSE)
      BY <1>0, <3>2 DEF TypeOK
    <3>4. job'[o] \in Orders /\ job'[o].how = "register"
      BY <3>3, OnboardingAssumption DEF Register, Orders
    <3> QED
      BY <1>0, <2>2, <3>1, <3>4 DEF JobOf
  <2>3. CASE o \in Request /\ Post(o)
    <3>1. pc'[o] = "guard" /\ server' = server
      BY <1>0, <2>3 DEF Post, Goto, TypeOK
    <3>2. PICK s \in Slug, f \in Folder, how \in {"form", "setup"}, local \in BOOLEAN, t \in 0..server.token :
            job' = [job EXCEPT ![o] =
                      [how |-> how, slug |-> s, folder |-> IF how = "form" THEN f ELSE None,
                       target |-> AgentsMd, install |-> how = "setup", local |-> local, token |-> t]]
      BY <2>3 DEF Post
    <3>3. job'[o] = [how |-> how, slug |-> s, folder |-> IF how = "form" THEN f ELSE None,
                     target |-> AgentsMd, install |-> how = "setup", local |-> local, token |-> t]
      BY <1>0, <3>2 DEF TypeOK
    <3>4. server.token \in Nat
      BY <1>0 DEF TypeOK, Server
    <3>5. /\ job'[o] \in Requests /\ job'[o].token <= server.token
          /\ job'[o].install = (job'[o].how = "setup")
          /\ job'[o].how = "form" => job'[o].folder \in Folder
      BY <3>3, <3>4 DEF Requests
    <3> QED
      BY <1>0, <2>3, <3>1, <3>5 DEF JobOf
  <2>4. CASE o \in Request /\ GuardForm(o)
    <3>1. pc[o] = "guard" /\ pc'[o] \in {"register", "failed"} /\ job' = job /\ server' = server /\ job[o].how = "form"
      BY <1>0, <2>4 DEF GuardForm, Goto, TypeOK
    <3> QED
      BY <1>0, <2>4, <3>1 DEF JobOf
  <2>5. CASE o \in Request /\ GuardSetup(o)
    <3> DEFINE row == project[job[o].slug]
    <3>1. pc[o] = "guard" /\ job[o].how = "setup" /\ server' = server
      BY <2>5 DEF GuardSetup, Goto
    <3>2. job[o] \in Requests /\ job[o].slug \in Slug /\ job[o].install /\ job[o].token <= server.token
      BY <1>0, <2>5, <3>1 DEF JobOf, Requests
    <3>3. CASE Allowed(o) /\ row # None /\ row.status = "active" /\ row.path # None
      <4> DEFINE new == [job[o] EXCEPT !.folder = row.path]
      <4>1. pc'[o] = "plan" /\ job'[o] = new
        BY <1>0, <2>5, <3>3 DEF GuardSetup, Goto, TypeOK
      <4>2. row.path \in Folder
        BY <1>0, <3>2, <3>3 DEF TypeOK, Project
      <4>3. /\ new \in Requests /\ new.token <= server.token /\ new.folder \in Folder
            /\ new.how = "setup" /\ new.install
        <5> HIDE DEF row
        <5> QED
          BY <3>1, <3>2, <4>2 DEF Requests
      <4> HIDE DEF new
      <4> QED
        BY <1>0, <2>5, <3>1, <4>1, <4>3 DEF JobOf
    <3>4. CASE ~(Allowed(o) /\ row # None /\ row.status = "active" /\ row.path # None)
      <4>1. pc'[o] = "failed" /\ job' = job
        BY <1>0, <2>5, <3>4 DEF GuardSetup, Goto, TypeOK
      <4> QED
        BY <1>0, <2>5, <3>1, <4>1 DEF JobOf
    <3> QED
      BY <3>3, <3>4
  <2>6. CASE Plan(o)
    <3>1. /\ pc[o] = "plan" /\ job' = job /\ server' = server
          /\ pc'[o] = IF job[o].how = "register" THEN "register" ELSE "truncate"
      BY <1>0, <2>6 DEF Plan, Goto, TypeOK
    <3> QED
      BY <1>0, <3>1 DEF JobOf
  <2>7. CASE RegisterProject(o)
    <3>1. /\ pc[o] = "register" /\ job' = job /\ server' = server
          /\ pc'[o] = IF job[o].install THEN "truncate" ELSE "ok"
      BY <1>0, <2>7 DEF RegisterProject, Goto, TypeOK
    <3>2. job[o].folder \in Folder
      BY <3>1, Asked
    <3> QED
      BY <1>0, <3>1, <3>2 DEF JobOf
  <2>8. CASE Truncate(o)
    <3>1. pc[o] = "truncate" /\ job' = job /\ server' = server /\ pc'[o] = "fill"
      BY <1>0, <2>8 DEF Truncate, Goto, TypeOK
    <3> QED
      BY <1>0, <3>1 DEF JobOf
  <2>9. CASE PlanFails(o) \/ RegisterFails(o) \/ Fill(o) \/ InstallFails(o) \/ (o \in Command /\ Kill(o))
    <3>1. /\ pc[o] # "new" /\ job' = job /\ server' = server
          /\ pc'[o] \in {"ok", "failed", "killed"}
      BY <1>0, <2>9 DEF PlanFails, RegisterFails, Fill, InstallFails, Kill, Running, Goto, TypeOK
    <3> QED
      BY <1>0, <3>1 DEF JobOf
  <2> QED
    BY <1>2, <2>1, <2>2, <2>3, <2>4, <2>5, <2>6, <2>7, <2>8, <2>9 DEF ByProcess
<1>3. ASSUME Restart PROVE JobOf(o)'
  <2>1. Kept(o) /\ Rebind
    BY <1>3 DEF Restart, Kept
  <2> QED
    BY <1>0, <2>1, Rebound, JobKept
<1>5. ASSUME NEW q \in Request, RestartDuring(q) PROVE JobOf(o)'
  <2>1. q \in Proc /\ Rebind
    BY <1>5 DEF Proc, RestartDuring
  <2>2. CASE q # o
    <3>1. Kept(o)
      BY <1>0, <1>5, <2>1, <2>2, KeptByOthers
    <3> QED
      BY <1>0, <2>1, <3>1, Rebound, JobKept
  <2>3. CASE q = o
    <3>1. pc[o] # "new" /\ pc'[o] = "killed" /\ job' = job
      BY <1>0, <1>5, <2>3 DEF RestartDuring, Running, TypeOK
    <3>2. o \in Request /\ pc[o] # "new" => job[o].token <= server'.token
      BY <1>0, <2>1, Rebound
    <3> QED
      BY <1>0, <3>1, <3>2 DEF JobOf
  <2> QED
    BY <2>2, <2>3
<1>4. ASSUME Others PROVE JobOf(o)'
  <2>1. server' = server
    BY <1>4 DEF Others, CreateProject, Archive, Write, TakeMarker
  <2> QED
    BY <1>0, <1>4, <2>1, KeptFromOthers, JobKept
<1> QED
  BY <1>1, <1>2, <1>3, <1>4, <1>5, NextSteps

-----------------------------------------------------------------------------
(***************************************************************************)
(* The text of a file.                                                     *)
(***************************************************************************)
LEMMA TextKept ==
  ASSUME IInv, Next, NEW f \in File,
         file'[f] = file[f], mine'[f] = mine[f], broken'[f] = broken[f], ~\E q \in Proc : Fill(q)
  PROVE  TextOf(f)'
<1>1. TextOf(f) /\ Text(f)' = Text(f) /\ (raced[f] => raced'[f]) /\ (torn[f] => torn'[f])
  BY RacedGrows DEF IInv, Text
<1>2. ASSUME ~raced'[f], \A q \in Proc : ~Filling(q, f)'
      PROVE  \A q \in Proc : ~Filling(q, f)
  BY <1>2, FillingEnds
<1> QED
  BY <1>1, <1>2 DEF TextOf

(* The end of a writing: what was planned, what was there, or a torn file. *)
LEMMA WrotePlan ==
  ASSUME IInv, NEW p \in Proc, pc[p] = "fill", NEW f, f = At(p), NEW t, NEW plans, plans \subseteq {Text(f), plan[p]},
         Wrote(f, t, plans), ~broken[f], ~torn'[f]
  PROVE  ~torn[f] /\ t \in plans /\ WellFormed(t) /\ Text(f)' = t
<1>1. f \in File /\ job[p].slug \in Slug /\ Planned(p) /\ TypeOK
  BY Asked DEF Planned, IInv
<1>2. ~torn[f] /\ t \in plans /\ file'[f] = t
  BY <1>1, WroteOnly
<1>3. WellFormed(Text(f))
  BY <1>1, <1>2 DEF IInv, TextOf
<1>4. \E u : WellFormed(u) /\ plan[p] = Updated(u, job[p].slug)
  BY <1>1, <1>2 DEF IInv, PlanOf
<1>5. WellFormed(plan[p])
  BY <1>1, <1>4, UpdateTwice
<1>6. WellFormed(t)
  BY <1>2, <1>3, <1>5
<1>7. t # None
  BY <1>6, Apart
<1> QED
  BY <1>2, <1>6, <1>7 DEF Text

LEMMA TextStep == IInv /\ Next => \A f \in File : TextOf(f)'
<1> SUFFICES ASSUME IInv, Next, NEW f \in File PROVE TextOf(f)'
  OBVIOUS
<1>0. TypeOK /\ TextOf(f) /\ \A p \in Proc : JobOf(p) /\ PlanOf(p)
  BY DEF IInv
<1>1. ASSUME NEW p \in Proc, Truncate(p) PROVE TextOf(f)'
  <2>1. pc[p] = "truncate" /\ pc'[p] = "fill" /\ job' = job /\ broken' = broken /\ mine' = mine
    BY <1>0, <1>1 DEF Truncate, Goto, TypeOK, ghosts
  <2>2. CASE At(p) = f
    <3>1. Text(f)' = <<>>
      BY <1>0, <1>1, <2>2 DEF Truncate, Text, TypeOK
    <3>2. Filling(p, f)'
      BY <2>1, <2>2 DEF Filling, At
    <3> QED
      BY <3>1, <3>2, EmptyText DEF TextOf
  <2>3. CASE At(p) # f
    <3>1. file'[f] = file[f]
      BY <1>0, <1>1, <2>3 DEF Truncate, TypeOK
    <3>2. ~\E q \in Proc : Fill(q)
      <4>1. \A q \in Proc : Fill(q) => pc[q] = "fill" /\ pc'[q] = "ok"
        BY <1>0 DEF Fill, Goto, TypeOK
      <4>2. \A q \in Proc : q # p => pc'[q] = pc[q]
        BY <1>0, <1>1 DEF Truncate, Goto, TypeOK
      <4> QED
        BY <2>1, <4>1, <4>2
    <3> QED
      BY <2>1, <3>1, <3>2, TextKept
  <2> QED
    BY <2>2, <2>3
<1>2. ASSUME NEW p \in Proc, Fill(p) PROVE TextOf(f)'
  <2>1. /\ pc[p] = "fill" /\ pc'[p] = "ok" /\ job' = job /\ broken' = broken /\ mine' = mine
        /\ \A q \in Proc : q # p => pc'[q] = pc[q]
    BY <1>0, <1>2 DEF Fill, Goto, TypeOK
  <2>2. At(p) \in File /\ Planned(p)
    BY <2>1, Asked DEF Planned
  <2>3. CASE At(p) = f
    <3>1. raced'[f] <=> raced[f] \/ stale[p]
      BY <1>0, <1>2, <2>3 DEF Fill, TypeOK
    <3>2. PICK t : Wrote(f, t, {plan[p]})
      BY <1>2, <2>3, FillWrote
    <3>3. ASSUME ~broken[f], ~torn'[f]
          PROVE  ~torn[f] /\ WellFormed(Text(f)') /\ Text(f)' = plan[p]
      <4>1. {plan[p]} \subseteq {Text(f), plan[p]}
        OBVIOUS
      <4>2. ~torn[f] /\ t \in {plan[p]} /\ WellFormed(t) /\ Text(f)' = t
        BY <2>1, <2>3, <3>2, <3>3, <4>1, WrotePlan
      <4> QED
        BY <4>2
    <3>4. ASSUME ~broken[f], ~torn'[f], ~raced'[f], \A o \in Proc : ~Filling(o, f)'
          PROVE  mine[f] \subseteq Outside(plan[p])
      <4>1. \A o \in Proc \ {p} : ~Filling(o, f)
        BY <2>1, <3>4 DEF Filling, At
      <4>2. ~raced[f] /\ ~stale[p] /\ ~torn[f]
        BY <3>1, <3>3, <3>4
      <4> QED
        BY <1>0, <2>2, <2>3, <3>4, <4>1, <4>2 DEF PlanOf
    <3> QED
      BY <2>1, <3>3, <3>4 DEF TextOf
  <2>4. CASE At(p) # f
    <3>1. file'[f] = file[f] /\ raced'[f] = raced[f] /\ torn'[f] = torn[f]
      <4>1. \E t : Wrote(At(p), t, {plan[p]})
        BY <1>2, FillWrote
      <4>2. file'[f] = file[f] /\ torn'[f] = torn[f]
        BY <1>0, <2>4, <4>1, WroteOnly
      <4>3. raced'[f] = raced[f]
        BY <1>0, <1>2, <2>4 DEF Fill, TypeOK
      <4> QED
        BY <4>2, <4>3
    <3>2. Text(f)' = Text(f) /\ \A q \in Proc : Filling(q, f)' <=> Filling(q, f)
      BY <2>1, <2>4, <3>1 DEF Text, Filling, At
    <3> QED
      BY <1>0, <2>1, <3>1, <3>2 DEF TextOf
  <2> QED
    BY <2>3, <2>4
<1>8. ASSUME NEW p \in Proc, Stops(p), ~\E q \in Proc : Fill(q), broken' = broken, mine' = mine
      PROVE  TextOf(f)'
  <2>1. CASE pc[p] = "fill" /\ At(p) = f
    <3>1. raced'[f]
      BY <1>0, <1>8, <2>1, StopsEither DEF TypeOK
    <3>2. PICK t : Wrote(f, t, {Text(f), plan[p]})
      BY <1>8, <2>1, StopsEither
    <3>3. ASSUME ~broken[f], ~torn'[f]
          PROVE  WellFormed(Text(f)')
      <4>1. WellFormed(t) /\ Text(f)' = t
        BY <2>1, <3>2, <3>3, WrotePlan
      <4> QED
        BY <4>1
    <3> QED
      BY <1>8, <3>1, <3>3 DEF TextOf
  <2>2. CASE ~(pc[p] = "fill" /\ At(p) = f)
    <3>1. file'[f] = file[f]
      <4>1. CASE file' = file
        BY <4>1
      <4>2. CASE At(p) # f /\ \E t : Wrote(At(p), t, {Text(At(p)), plan[p]})
        BY <1>0, <4>2, WroteOnly
      <4> QED
        BY <1>8, <2>2, <4>1, <4>2, StopsEither
    <3> QED
      BY <1>8, <3>1, TextKept
  <2> QED
    BY <2>1, <2>2
<1>3. ASSUME NEW g \in File, NEW w \in Word, Write(g, w) PROVE TextOf(f)'
  <2>1. pc' = pc /\ job' = job /\ broken' = broken /\ raced' = raced /\ torn' = torn
    BY <1>3 DEF Write
  <2>2. \A q \in Proc : Filling(q, f)' <=> Filling(q, f)
    BY <2>1 DEF Filling, At
  <2>3. CASE g = f
    <3> DEFINE t == Text(f)
    <3>1. PICK k \in 1..(Len(t) + 1) :
            /\ file' = [file EXCEPT ![f] = Inserted(t, k, w)]
            /\ mine' = IF Inside(t, k) THEN mine ELSE [mine EXCEPT ![f] = @ \cup {w}]
      BY <1>3, <2>3 DEF Write, Inserted
    <3> HIDE DEF t
    <3>2. file'[f] = Inserted(t, k, w)
      BY <1>0, <3>1 DEF TypeOK
    <3>3. mine'[f] = IF Inside(t, k) THEN mine[f] ELSE mine[f] \cup {w}
      BY <1>0, <3>1 DEF TypeOK
    <3>4. ASSUME ~broken[f], ~torn[f]
          PROVE  /\ WellFormed(Text(f)') /\ Outside(t) \subseteq Outside(Text(f)')
                 /\ ~Inside(t, k) => w \in Outside(Text(f)')
      <4>1. WellFormed(t)
        BY <1>0, <3>4 DEF TextOf, t
      <4>2. LET v == Inserted(t, k, w)
            IN /\ WellFormed(v) /\ Outside(t) \subseteq Outside(v)
               /\ ~Inside(t, k) => w \in Outside(v)
        BY <4>1, InsertedText
      <4>3. Text(f)' = Inserted(t, k, w)
        BY <3>2, <4>2, Apart DEF Text
      <4> QED
        BY <4>2, <4>3
    <3>5. ASSUME ~broken[f], ~torn[f], ~raced[f], \A q \in Proc : ~Filling(q, f)
          PROVE  mine'[f] \subseteq Outside(Text(f)')
      <4>1. mine[f] \subseteq Outside(t)
        BY <1>0, <3>5 DEF TextOf, t
      <4> QED
        BY <3>3, <3>4, <3>5, <4>1
    <3> QED
      BY <2>1, <2>2, <3>4, <3>5 DEF TextOf
  <2>4. CASE g # f
    <3>1. file'[f] = file[f] /\ mine'[f] = mine[f]
      BY <1>0, <1>3, <2>4 DEF Write, TypeOK
    <3>2. Text(f)' = Text(f)
      BY <3>1 DEF Text
    <3> QED
      BY <1>0, <2>1, <2>2, <3>1, <3>2 DEF TextOf
  <2> QED
    BY <2>3, <2>4
<1>4. ASSUME NEW g \in File, TakeMarker(g) PROVE TextOf(f)'
  <2>1. pc' = pc /\ job' = job /\ mine' = mine /\ raced' = raced /\ torn' = torn
    BY <1>4 DEF TakeMarker
  <2>2. CASE g = f
    <3>1. broken'[f]
      BY <1>0, <1>4, <2>2 DEF TakeMarker, TypeOK
    <3> QED
      BY <3>1 DEF TextOf
  <2>3. CASE g # f
    <3>1. broken'[f] = broken[f] /\ file'[f] = file[f]
      BY <1>0, <1>4, <2>3 DEF TakeMarker, TypeOK
    <3>2. Text(f)' = Text(f) /\ \A q \in Proc : Filling(q, f)' <=> Filling(q, f)
      BY <2>1, <3>1 DEF Text, Filling, At
    <3> QED
      BY <1>0, <2>1, <3>1, <3>2 DEF TextOf
  <2> QED
    BY <2>2, <2>3
<1>5. ASSUME NEW p \in Proc, ByProcess(p) \/ RestartDuring(p), ~Truncate(p), ~\E q \in Proc : Fill(q)
      PROVE  TextOf(f)'
  <2>1. mine' = mine /\ broken' = broken
    BY <1>5 DEF ByProcess, Begin, BeginNoInstall, Kill, Post, GuardForm, GuardSetup, Plan, PlanFails,
                RegisterProject, RegisterFails, InstallFails, RestartDuring, ghosts
  <2>2. Stops(p) \/ file' = file
    BY <1>5 DEF ByProcess, Begin, BeginNoInstall, Kill, Post, GuardForm, GuardSetup, Plan, PlanFails,
                RegisterProject, RegisterFails, InstallFails, RestartDuring
  <2> QED
    BY <1>5, <1>8, <2>1, <2>2, TextKept
<1>6. ASSUME Restart, ~\E q \in Proc : Fill(q) PROVE TextOf(f)'
  BY <1>6, TextKept DEF Restart, ghosts
<1>7. ASSUME NEW s \in Slug, CreateProject(s) \/ Archive(s), ~\E q \in Proc : Fill(q) PROVE TextOf(f)'
  BY <1>7, TextKept DEF CreateProject, Archive, ghosts
<1> QED
  BY <1>1, <1>2, <1>3, <1>4, <1>5, <1>6, <1>7, NextSteps DEF Others, Proc

-----------------------------------------------------------------------------
(***************************************************************************)
(* The plans.                                                              *)
(***************************************************************************)
(* A plan that is not touched stays good, or is stale.                     *)
LEMMA PlanKept ==
  ASSUME IInv, Next, NEW o \in Proc, Kept(o), broken' = broken, mine' = mine,
         \A q \in Proc : Fill(q) /\ At(q) = At(o) /\ Planned(o) => stale'[o] \/ broken[At(o)] \/ torn[At(o)]
  PROVE  PlanOf(o)'
<1>0. PICK f : f = At(o)
  OBVIOUS
<1>1. PlanOf(o) /\ (Planned(o)' <=> Planned(o))
  BY DEF IInv, Planned, Kept
<1>2. ASSUME Planned(o) PROVE f \in File
  <2>1. pc[o] \in {"register", "truncate", "fill"}
    BY <1>2 DEF Planned
  <2> QED
    BY <1>0, <2>1, Asked
<1>3. ASSUME Planned(o), ~broken[f], ~torn[f], ~stale'[o], ~raced'[f], \A q \in Proc \ {o} : ~Filling(q, f)'
      PROVE  ~stale[o] /\ ~raced[f] /\ \A q \in Proc \ {o} : ~Filling(q, f)
  <2>1. ~stale[o]
    BY <1>3 DEF Kept
  <2>2. ~raced[f]
    BY <1>2, <1>3, RacedGrows DEF IInv
  <2>3. ASSUME NEW q \in Proc \ {o}, Filling(q, f) PROVE FALSE
    <3>1. Fill(q) /\ At(q) = At(o)
      BY <1>0, <1>2, <1>3, <2>3, FillingEnds DEF Filling
    <3> QED
      BY <1>0, <1>3, <3>1
  <2> QED
    BY <2>1, <2>2, <2>3
<1>4. At(o)' = f /\ job'[o].slug = job[o].slug /\ plan'[o] = plan[o]
  BY <1>0 DEF Kept, At
<1>5. ASSUME Planned(o), ~broken[f], ~torn[f]
      PROVE  /\ \E t : WellFormed(t) /\ plan[o] = Updated(t, job[o].slug)
             /\ ~stale[o] /\ ~raced[f] /\ (\A q \in Proc \ {o} : ~Filling(q, f)) => mine[f] \subseteq Outside(plan[o])
  BY <1>0, <1>1, <1>5 DEF PlanOf
<1>6. ASSUME Planned(o), ~broken[f], ~torn[f]
      PROVE  ~stale'[o] /\ ~raced'[f] /\ (\A q \in Proc \ {o} : ~Filling(q, f)') => mine'[f] \subseteq Outside(plan'[o])
  BY <1>3, <1>4, <1>5, <1>6
<1>7. Planned(o) /\ ~torn'[f] => ~torn[f]
  BY <1>2, RacedGrows DEF IInv
<1> QED
  BY <1>0, <1>1, <1>4, <1>5, <1>6, <1>7 DEF PlanOf

(* A plan of a text of f. *)
LEMMA PlanText ==
  ASSUME IInv, NEW o \in Proc, Planned(o), ~broken[At(o)], ~torn[At(o)]
  PROVE  plan[o] # None
<1>1. PICK t : WellFormed(t) /\ plan[o] = Updated(t, job[o].slug)
  BY DEF IInv, PlanOf
<1>2. job[o].slug \in Slug
  <2>1. pc[o] \in {"register", "truncate", "fill"}
    BY DEF Planned
  <2> QED
    BY <2>1, Asked
<1> QED
  BY <1>1, <1>2, UpdateTwice, Apart

LEMMA PlanStep == IInv /\ Next => \A o \in Proc : PlanOf(o)'
<1> SUFFICES ASSUME IInv, Next, NEW o \in Proc PROVE PlanOf(o)'
  OBVIOUS
<1>0. TypeOK /\ PlanOf(o) /\ JobOf(o) /\ (\A f \in File : TextOf(f)) /\ (o \in Command => o \notin Request)
  BY Apart DEF IInv
<1>1. ASSUME NEW p \in Proc, ByProcess(p) \/ RestartDuring(p), p # o PROVE PlanOf(o)'
  <2>1. broken' = broken /\ mine' = mine
    BY <1>1 DEF ByProcess, Begin, BeginNoInstall, Kill, Post, GuardForm, GuardSetup, Plan, PlanFails,
                RegisterProject, RegisterFails, Truncate, Fill, InstallFails, RestartDuring, ghosts
  <2>2. Kept(o)
    BY <1>0, <1>1, KeptByOthers
  <2>3. ASSUME NEW q \in Proc, Fill(q), At(q) = At(o), Planned(o), ~broken[At(o)], ~torn[At(o)]
        PROVE  stale'[o]
    <3>1. q # o
      BY <1>0, <2>2, <2>3 DEF Fill, Goto, TypeOK, Kept
    <3>2. plan[o] # None
      BY <2>3, PlanText
    <3> QED
      BY <2>3, <3>1, <3>2 DEF Fill, Touch
  <2> QED
    BY <2>1, <2>2, <2>3, PlanKept
<1>2. CASE Plan(o)
  <2>0. PICK f : f = At(o)
    OBVIOUS
  <2>1. /\ pc[o] = "plan" /\ plan'[o] = Updated(Text(f), job[o].slug)
        /\ UNCHANGED <<file, job, stale, mine, broken, raced, torn>>
        /\ \A q \in Proc : q # o => pc'[q] = pc[q]
    BY <1>0, <1>2, <2>0 DEF Plan, Goto, TypeOK, ghosts
  <2>2. f \in File /\ job[o].slug \in Slug /\ At(o)' = f
    BY <2>0, <2>1, Asked DEF At
  <2>3. ASSUME ~broken[f], ~torn[f]
        PROVE  WellFormed(Text(f)) /\ Outside(Text(f)) \subseteq Outside(Updated(Text(f), job[o].slug))
    <3>1. WellFormed(Text(f))
      BY <1>0, <2>2, <2>3 DEF TextOf
    <3> QED
      BY <2>2, <3>1, UpdateOutside
  <2>4. ASSUME ~broken[f], ~torn[f], ~raced[f], \A q \in Proc \ {o} : ~Filling(q, f)'
        PROVE  mine[f] \subseteq Outside(Updated(Text(f), job[o].slug))
    <3>1. \A q \in Proc : ~Filling(q, f)
      BY <2>1, <2>4 DEF Filling, At
    <3>2. mine[f] \subseteq Outside(Text(f))
      BY <1>0, <2>2, <2>4, <3>1 DEF TextOf
    <3> QED
      BY <2>3, <2>4, <3>2
  <2> QED
    BY <2>1, <2>2, <2>3, <2>4 DEF PlanOf
<1>3. CASE RegisterProject(o) \/ Truncate(o)
  <2>1. /\ Planned(o)' => Planned(o)
        /\ UNCHANGED <<job, plan, mine, broken, raced, torn>> /\ (stale[o] => stale'[o])
        /\ \A q \in Proc : q # o => pc'[q] = pc[q]
    BY <1>0, <1>3 DEF RegisterProject, Truncate, Touch, Goto, TypeOK, Planned, ghosts
  <2>2. At(o)' = At(o) /\ \A q \in Proc \ {o} : \A f : Filling(q, f)' <=> Filling(q, f)
    BY <2>1 DEF Filling, At
  <2> QED
    BY <1>0, <2>1, <2>2 DEF PlanOf
<1>4. CASE ByProcess(o) /\ ~(Plan(o) \/ RegisterProject(o) \/ Truncate(o))
  <2>1. ~Planned(o)'
    <3>1. CASE o \in Command /\ BeginNoInstall(o)
      <4>1. pc'[o] = "register" /\ \E s \in Slug, f \in Folder : job' = [job EXCEPT ![o] = Register(f, s, AgentsMd, FALSE)]
        BY <1>0, <3>1 DEF BeginNoInstall, Goto, TypeOK
      <4>2. pc'[o] = "register" /\ ~job'[o].install
        BY <1>0, <4>1 DEF Register, TypeOK
      <4> QED
        BY <4>2 DEF Planned
    <3>2. CASE o \in Request /\ GuardForm(o)
      <4>1. job' = job /\ job[o].how = "form" /\ pc[o] = "guard" /\ pc'[o] \in {"register", "failed"}
        BY <1>0, <3>2 DEF GuardForm, Goto, TypeOK
      <4>2. ~job[o].install
        BY <1>0, <3>2, <4>1 DEF JobOf
      <4> QED
        BY <4>1, <4>2 DEF Planned
    <3>3. CASE \/ o \in Command /\ (Begin(o) \/ Kill(o))
               \/ o \in Request /\ (Post(o) \/ GuardSetup(o))
               \/ PlanFails(o) \/ RegisterFails(o) \/ Fill(o) \/ InstallFails(o)
      <4>1. pc'[o] \in {"plan", "guard", "ok", "failed", "killed"}
        BY <1>0, <3>3 DEF Begin, Kill, Post, GuardSetup, PlanFails, RegisterFails, Fill, InstallFails, Goto, TypeOK
      <4> QED
        BY <4>1 DEF Planned
    <3> QED
      BY <1>4, <3>1, <3>2, <3>3 DEF ByProcess
  <2> QED
    BY <2>1 DEF PlanOf
<1>5. CASE Restart
  <2>1. Kept(o) /\ broken' = broken /\ mine' = mine
    BY <1>5 DEF Restart, Kept, ghosts
  <2>2. \A q \in Proc : ~Fill(q)
    BY <1>0, <1>5 DEF Restart, Fill, Goto, TypeOK
  <2> QED
    BY <2>1, <2>2, PlanKept
<1>9. CASE o \in Request /\ RestartDuring(o)
  <2>1. ~Planned(o)'
    BY <1>0, <1>9 DEF RestartDuring, Planned, TypeOK
  <2> QED
    BY <2>1 DEF PlanOf
<1>6. ASSUME NEW s \in Slug, CreateProject(s) \/ Archive(s) PROVE PlanOf(o)'
  <2>1. UNCHANGED <<job, plan, pc, mine, broken, raced, torn, stale>>
    BY <1>6 DEF CreateProject, Archive, ghosts
  <2> QED
    BY <1>0, <2>1 DEF PlanOf, Planned, Filling, At
<1>7. ASSUME NEW g \in File, NEW w \in Word, Write(g, w) PROVE PlanOf(o)'
  <2>1. UNCHANGED <<job, plan, pc, broken, raced, torn>> /\ (stale[o] => stale'[o])
    BY <1>7 DEF Write, Touch
  <2>2. /\ Planned(o)' <=> Planned(o)
        /\ At(o)' = At(o) /\ \A q \in Proc : \A f : Filling(q, f)' <=> Filling(q, f)
    BY <2>1 DEF Planned, Filling, At
  <2>3. CASE At(o) = g
    <3>1. Planned(o) /\ ~broken[g] /\ ~torn[g] => stale'[o]
      BY <1>7, <2>3, PlanText, Apart DEF Write, Touch
    <3> QED
      BY <1>0, <2>1, <2>2, <2>3, <3>1 DEF PlanOf
  <2>4. CASE At(o) # g
    <3>1. mine'[At(o)] = mine[At(o)]
      BY <1>0, <1>7, <2>4 DEF Write, TypeOK
    <3> QED
      BY <1>0, <2>1, <2>2, <3>1 DEF PlanOf
  <2> QED
    BY <2>3, <2>4
<1>8. ASSUME NEW g \in File, TakeMarker(g) PROVE PlanOf(o)'
  <2>1. UNCHANGED <<job, plan, pc, mine, raced, torn>> /\ (stale[o] => stale'[o])
    BY <1>8 DEF TakeMarker, Touch
  <2>2. Planned(o) => At(o) \in File
    <3>1. Planned(o) => pc[o] \in {"register", "truncate", "fill"}
      BY DEF Planned
    <3> QED
      BY <3>1, Asked
  <2>3. Planned(o) /\ ~broken'[At(o)] => ~broken[At(o)]
    BY <1>0, <1>8, <2>2 DEF TakeMarker, TypeOK
  <2>4. /\ Planned(o)' <=> Planned(o)
        /\ At(o)' = At(o) /\ \A q \in Proc : \A f : Filling(q, f)' <=> Filling(q, f)
    BY <2>1 DEF Planned, Filling, At
  <2> QED
    BY <1>0, <2>1, <2>3, <2>4 DEF PlanOf
<1> QED
  BY <1>1, <1>2, <1>3, <1>4, <1>5, <1>6, <1>7, <1>8, <1>9, NextSteps DEF Others, Proc

-----------------------------------------------------------------------------
(***************************************************************************)
(* Those whom nobody has disturbed.                                        *)
(***************************************************************************)
LEMMA AloneStep == IInv /\ Next => \A o \in Proc : AloneOf(o)'
<1> SUFFICES ASSUME IInv, Next, NEW o \in Proc PROVE AloneOf(o)'
  OBVIOUS
<1>0. /\ TypeOK /\ JobOf(o) /\ PlanOf(o) /\ AloneOf(o) /\ (\A f \in File : TextOf(f))
      /\ (o \in Command => o \notin Request)
  BY Apart DEF IInv
<1>1. ASSUME Kept(o), alone'[o] => pc[o] = "new" PROVE AloneOf(o)'
  BY <1>1 DEF AloneOf, Kept
<1>2. ASSUME NEW p \in Proc, ByProcess(p) \/ RestartDuring(p), p # o PROVE AloneOf(o)'
  <2>1. Kept(o) /\ At(o)' = At(o)
    BY <1>0, <1>2, KeptByOthers DEF Kept, At
  <2>2. CASE alone' = alone /\ UNCHANGED <<project, file, broken, torn>>
    <3>1. \A f : (Unchanged(f, job[o].slug)' <=> Unchanged(f, job[o].slug)) /\ Text(f)' = Text(f)
      BY <2>1, <2>2 DEF Kept, Unchanged, Text
    <3>2. o \in Request /\ pc[o] # "new" /\ ~Allowed(o) => ~Allowed(o)'
      <4>1. CASE ByProcess(p)
        <5>1. server' = server
          BY <4>1 DEF ByProcess, Begin, BeginNoInstall, Kill, Post, GuardForm, GuardSetup, Plan, PlanFails,
                      RegisterProject, RegisterFails, Truncate, Fill, InstallFails
        <5> QED
          BY <2>1, <5>1 DEF Allowed, Kept
      <4>2. CASE RestartDuring(p)
        <5>1. Rebind
          BY <4>2 DEF RestartDuring
        <5>2. o \in Request /\ pc[o] # "new" => job[o].token # server'.token
          BY <1>0, <5>1, Rebound
        <5> QED
          BY <2>1, <5>2 DEF Allowed, Kept
      <4> QED
        BY <1>2, <4>1, <4>2
    <3> QED
      BY <1>0, <2>1, <2>2, <3>1, <3>2 DEF AloneOf, Kept
  <2> QED
    BY <1>1, <1>2, <2>1, <2>2, Noticed
<1>3. CASE o \in Command /\ Begin(o)
  <2>1. pc'[o] = "plan" /\ \E s \in Slug, f \in Folder, t \in Target, i \in BOOLEAN :
          job' = [job EXCEPT ![o] = IF i THEN Register(f, s, t, i) ELSE Install(f, s, t)]
    BY <1>0, <1>3 DEF Begin, Goto, TypeOK
  <2>2. job'[o].how # "setup"
    BY <1>0, <2>1 DEF TypeOK, Register, Install
  <2> QED
    BY <2>1, <2>2 DEF AloneOf
<1>4. CASE (o \in Command /\ (BeginNoInstall(o) \/ Kill(o))) \/ (o \in Request /\ Post(o))
  <2>1. pc'[o] \in {"register", "killed", "guard"}
    BY <1>0, <1>4 DEF BeginNoInstall, Kill, Post, Goto, TypeOK
  <2> QED
    BY <2>1 DEF AloneOf
<1>5. CASE o \in Request /\ GuardForm(o)
  <2>1. /\ pc'[o] = IF Allowed(o) THEN "register" ELSE "failed"
        /\ UNCHANGED <<server, job>>
    BY <1>0, <1>5 DEF GuardForm, Goto, TypeOK
  <2>2. Allowed(o)' <=> Allowed(o)
    BY <2>1 DEF Allowed
  <2> QED
    BY <1>5, <2>1, <2>2 DEF AloneOf
<1>6. CASE o \in Request /\ GuardSetup(o)
  <2>1. /\ pc[o] = "guard" /\ job[o].how = "setup" /\ UNCHANGED <<server, project>>
        /\ pc'[o] = IF Allowed(o) /\ Ready(project[job[o].slug]) THEN "plan" ELSE "failed"
        /\ job' = IF Allowed(o) /\ Ready(project[job[o].slug])
                    THEN [job EXCEPT ![o].folder = project[job[o].slug].path] ELSE job
    BY <1>0, <1>6 DEF GuardSetup, Goto, TypeOK, Ready
  <2>2. job[o] \in Requests
    BY <1>0, <1>6, <2>1 DEF JobOf
  <2>3. CASE Allowed(o) /\ Ready(project[job[o].slug])
    <3>1. job'[o].slug = job[o].slug /\ job'[o].folder = project[job[o].slug].path
      BY <1>0, <2>1, <2>2, <2>3 DEF TypeOK, Requests
    <3> QED
      BY <2>1, <2>3, <3>1 DEF AloneOf
  <2>4. CASE ~(Allowed(o) /\ Ready(project[job[o].slug]))
    <3>1. pc'[o] = "failed" /\ job' = job /\ (Allowed(o)' <=> Allowed(o))
      BY <2>1, <2>4 DEF Allowed
    <3> QED
      BY <1>6, <2>1, <2>4, <3>1 DEF AloneOf
  <2> QED
    BY <2>3, <2>4
<1>7. CASE Plan(o)
  <2>1. /\ pc[o] = "plan" /\ UNCHANGED <<project, job, alone>>
        /\ pc'[o] = IF job[o].how = "register" THEN "register" ELSE "truncate"
    BY <1>0, <1>7 DEF Plan, Goto, TypeOK
  <2>2. job[o].how # "form"
    BY <1>0, <2>1 DEF JobOf
  <2> QED
    BY <1>0, <2>1, <2>2 DEF AloneOf
<1>8. CASE RegisterProject(o)
  <2>1. /\ pc[o] = "register" /\ job' = job /\ project' = [project EXCEPT ![job[o].slug] = Row(job[o].folder)]
        /\ pc'[o] = IF job[o].install THEN "truncate" ELSE "ok"
    BY <1>0, <1>8 DEF RegisterProject, Goto, TypeOK
  <2>2. job[o].slug \in Slug /\ job[o].how \in {"register", "form"}
    BY <1>0, <2>1, Asked DEF JobOf
  <2>3. project'[job[o].slug] = Row(job[o].folder)
    BY <1>0, <2>1, <2>2 DEF TypeOK
  <2> QED
    BY <2>1, <2>2, <2>3 DEF AloneOf
<1>9. CASE RegisterFails(o) \/ InstallFails(o)
  <2>1. pc'[o] = "failed" /\ struck'[o]
    BY <1>0, <1>9 DEF RegisterFails, InstallFails, Fault, Goto, TypeOK
  <2> QED
    BY <2>1 DEF AloneOf
<1>10. CASE Truncate(o)
  <2>1. pc[o] = "truncate" /\ pc'[o] = "fill" /\ UNCHANGED <<project, job>> /\ (alone'[o] => alone[o])
    BY <1>0, <1>10 DEF Truncate, Disturb, Goto, TypeOK
  <2> QED
    BY <1>0, <2>1 DEF AloneOf
<1>11. CASE Fill(o)
  <2>0. PICK f : f = At(o)
    OBVIOUS
  <2>1. /\ pc[o] = "fill" /\ pc'[o] = "ok" /\ UNCHANGED <<project, job, broken>> /\ (alone'[o] => alone[o])
    BY <1>0, <1>11 DEF Fill, Disturb, Goto, TypeOK
  <2>2. f \in File /\ job[o].slug \in Slug /\ Planned(o) /\ At(o)' = f
    BY <2>0, <2>1, Asked DEF Planned, At
  <2>3. PICK t : Wrote(f, t, {plan[o]})
    BY <1>11, <2>0, FillWrote
  <2>4. ASSUME ~broken[f], ~torn'[f] PROVE Unchanged(f, job[o].slug)'
    <3>1. file'[f] = t /\ t = plan[o] /\ ~torn[f]
      BY <1>0, <2>2, <2>3, <2>4, WroteOnly
    <3>2. PICK u : WellFormed(u) /\ plan[o] = Updated(u, job[o].slug)
      BY <1>0, <2>0, <2>2, <2>4, <3>1 DEF PlanOf
    <3>3. WellFormed(plan[o]) /\ Updated(plan[o], job[o].slug) = plan[o] /\ plan[o] # None
      BY <2>2, <3>2, UpdateTwice, Apart
    <3>4. Text(f)' = plan[o] /\ file'[f] # None
      BY <3>1, <3>3 DEF Text
    <3> QED
      BY <2>1, <3>3, <3>4 DEF Unchanged
  <2>5. alone[o] => /\ job[o].how \in {"register", "form"} => project[job[o].slug] = Row(job[o].folder)
                    /\ job[o].how = "setup" =>
                         Ready(project[job[o].slug]) /\ project[job[o].slug].path = job[o].folder
    BY <1>0, <2>1 DEF AloneOf
  <2> QED
    BY <2>1, <2>2, <2>4, <2>5 DEF AloneOf
<1>12. CASE Restart
  <2>1. /\ UNCHANGED <<project, file, job, alone, struck, broken, torn, pc>> /\ Rebind
    BY <1>0, <1>12 DEF Restart, TypeOK, ghosts
  <2>2. o \in Request /\ pc[o] = "failed" => ~Allowed(o)'
    BY <1>0, <2>1, Rebound DEF Allowed
  <2>3. At(o)' = At(o) /\ \A f : (Unchanged(f, job[o].slug)' <=> Unchanged(f, job[o].slug)) /\ Text(f)' = Text(f)
    BY <2>1 DEF Unchanged, Text, At
  <2> QED
    BY <1>0, <2>1, <2>2, <2>3 DEF AloneOf
<1>14. CASE o \in Request /\ RestartDuring(o)
  <2>1. pc'[o] = "killed"
    BY <1>0, <1>14 DEF RestartDuring, TypeOK
  <2> QED
    BY <2>1 DEF AloneOf
<1>15. CASE PlanFails(o)
  <2>1. pc[o] = "plan" /\ pc'[o] = "failed" /\ job' = job /\ file' = file
    BY <1>0, <1>15 DEF PlanFails, Goto, TypeOK
  <2>2. At(o) \in File
    BY <2>1, Asked
  <2>3. struck'[o] \/ Cut \in Pieces(Text(At(o)))
    BY <1>0, <1>15 DEF PlanFails, Fault, TypeOK
  <2>4. At(o)' = At(o) /\ Text(At(o))' = Text(At(o))
    BY <2>1 DEF At, Text
  <2> QED
    BY <2>1, <2>2, <2>3, <2>4 DEF AloneOf
<1>13. CASE Others
  BY <1>13, KeptFromOthers DEF AloneOf
<1> QED
  BY <1>2, <1>3, <1>4, <1>5, <1>6, <1>7, <1>8, <1>9, <1>10, <1>11, <1>12, <1>13, <1>14, <1>15, NextSteps DEF ByProcess, Proc

-----------------------------------------------------------------------------
(***************************************************************************)
(* The theorems.                                                           *)
(***************************************************************************)
LEMMA StepIInv == IInv /\ [Next]_vars => IInv'
<1> SUFFICES ASSUME IInv, [Next]_vars PROVE IInv'
  OBVIOUS
<1>1. CASE Next
  BY <1>1, TypeStep, JobStep, PlanStep, AloneStep, TextStep DEF IInv
<1>2. CASE UNCHANGED vars
  BY <1>2 DEF IInv, TypeOK, JobOf, PlanOf, AloneOf, TextOf, Planned, Filling, Ready, Allowed, Unchanged,
              Text, At, vars, ghosts
<1> QED
  BY <1>1, <1>2

(* The inductive invariant holds in every reachable state. *)
THEOREM Invariance == Spec => []IInv
<1>1. Init => IInv
  BY InitIInv
<1>2. IInv /\ [Next]_vars => IInv'
  BY StepIInv
<1> QED
  BY <1>1, <1>2, PTL DEF Spec

(* The state of the registrations, the files and their writers is well     *)
(* formed.                                                                 *)
THEOREM TypeCorrect == Spec => []TypeOK
<1>1. IInv => TypeOK
  BY DEF IInv
<1> QED
  BY <1>1, Invariance, PTL

(* update_repo_agent_memory_text and install_repo_agent_memory: a file has *)
(* one block or none and a second install changes nothing, however many    *)
(* commands and requests install, overlap, fail or are killed, unless one  *)
(* of them was stopped in the middle of its text or wrote over a longer    *)
(* text of another; and a person's words outside the block stay, unless it *)
(* was written from an outdated plan or left empty.                        *)
THEOREM BlocksKeepToThemselves == Spec => []InstructionsKept
<1>1. ASSUME IInv, NEW f \in File, ~broken[f], ~torn[f], \A p \in Proc : pc[p] = "fill" => At(p) # f
      PROVE  /\ Number(Text(f), Start) = Number(Text(f), End) /\ Number(Text(f), Start) <= 1
             /\ \A s \in Slug : Updated(Updated(Text(f), s), s) = Updated(Text(f), s)
             /\ ~raced[f] => mine[f] \subseteq Pieces(Text(f))
  <2>1. WellFormed(Text(f)) /\ (~raced[f] => mine[f] \subseteq Outside(Text(f)))
    BY <1>1 DEF IInv, TextOf, Filling
  <2> QED
    BY <2>1, OneBlock, UpdateTwice, OutsidePieces
<1>2. IInv => InstructionsKept
  BY <1>1 DEF InstructionsKept
<1> QED
  BY <1>2, Invariance, PTL

(* run_register_project and handle_codex_setup_post: what an undisturbed   *)
(* registration or setup reports is so, unless it found a torn text or     *)
(* one without its markers, and it fails only for a reason.                *)
THEOREM RetriesRecover == Spec => []RetryRecovers
<1>1. ASSUME IInv, NEW p \in Proc, alone[p], pc[p] = "ok", job[p].how \in {"register", "form"}
      PROVE  LET row == project[job[p].slug]
             IN row.status = "active" /\ row.path = job[p].folder /\ row.agent
  <2>1. project[job[p].slug] = Row(job[p].folder)
    BY <1>1 DEF IInv, AloneOf
  <2> QED
    BY <2>1 DEF Row
<1>2. ASSUME IInv, NEW p \in Proc, alone[p], pc[p] = "ok", job[p].how \in {"register", "setup"}, job[p].install,
             job[p].target = AgentsMd, ~broken[At(p)], ~torn[At(p)]
      PROVE  CodexState(job[p].slug) = "connected"
  <2>1. job[p].folder \in Folder /\ Unchanged(<<job[p].folder, AgentsMd>>, job[p].slug)
    BY <1>2 DEF IInv, AloneOf, At, File
  <2>2. project[job[p].slug].path = job[p].folder
    <3>1. job[p].how = "register" => project[job[p].slug] = Row(job[p].folder)
      BY <1>2 DEF IInv, AloneOf
    <3>2. job[p].how = "setup" => project[job[p].slug].path = job[p].folder
      BY <1>2 DEF IInv, AloneOf
    <3> QED
      BY <1>2, <3>1, <3>2 DEF Row
  <2> QED
    BY <2>1, <2>2, Apart DEF CodexState
<1>3. ASSUME IInv, NEW p \in Proc, alone[p], pc[p] = "failed"
      PROVE  \/ struck[p]
             \/ p \in Request /\ ~Allowed(p)
             \/ job[p].how = "setup" /\ \/ project[job[p].slug] = None
                                        \/ project[job[p].slug].status # "active"
                                        \/ project[job[p].slug].path = None
             \/ \E f \in File : f = At(p) /\ Cut \in Pieces(Text(f))
  BY <1>3 DEF IInv, AloneOf, Ready
<1>4. IInv => RetryRecovers
  BY <1>1, <1>2, <1>3 DEF RetryRecovers
<1> QED
  BY <1>4, Invariance, PTL
=============================================================================
