------------------------- MODULE WiphyInfo_proofs -------------------------
(***************************************************************************)
(* Proofs about WiphyInfo: for any capabilities of the bands, any set of   *)
(* channels, any cut of a description into messages and any number of      *)
(* collected replies, the limits are those of the client's own wiphy, the  *)
(* band information is fresh once every regulatory event is read, and a    *)
(* complete reply is accepted.                                             *)
(*                                                                         *)
(* The argument: the steps of a dump follow one another (Linked), so that  *)
(* what the messages about the own wiphy have merged to is the beginning   *)
(* of one description (Once) or has the limits of two (Twice).  Messages   *)
(* are merged, packets collected and channels sorted by folds; what the    *)
(* folds compute is proved by induction over the places of a sequence.     *)
(***************************************************************************)
EXTENDS WiphyInfo, WellFoundedInduction, FiniteSetTheorems, TLAPS

-----------------------------------------------------------------------------
(***************************************************************************)
(* Folds.  FoldLeft is a recursive function of the sets of places, which   *)
(* exists because of induction over the places.  Induction is used on sets *)
(* of numbers, of which the least one outside is looked at.                *)
(***************************************************************************)

\* Induction over the naturals, for a set.
LEMMA SetInduction ==
    ASSUME NEW T, T \subseteq Nat, 0 \in T, \A n \in T : n + 1 \in T
    PROVE  \A n \in Nat : n \in T
  <1> SUFFICES ASSUME Nat \ T # {} PROVE FALSE
    OBVIOUS
  <1>1. PICK x \in Nat \ T : \A y \in Nat \ T : ~ (<<y, x>> \in OpToRel(<, Nat))
    BY NatLessThanWellFounded, WFMin, Nat \ T \subseteq Nat
  <1>2. \A y \in Nat \ T : ~ (y < x)
    BY <1>1 DEF OpToRel
  <1>3. x # 0
    OBVIOUS
  <1>4. x - 1 \in Nat /\ x - 1 < x
    BY <1>3
  <1>5. x - 1 \in T
    BY <1>2, <1>4
  <1> QED BY <1>5

\* The greatest of the places up to n + 1.
LEMMA LastPlace ==
    ASSUME NEW n \in Nat, NEW s \in SUBSET (1..(n + 1)), n + 1 \in s
    PROVE  Max(s) = n + 1
  <1>1. \A y \in s : n + 1 >= y
    OBVIOUS
  <1>2. \A x \in s : (\A y \in s : x >= y) => x = n + 1
    OBVIOUS
  <1> QED BY <1>1, <1>2 DEF Max

\* The recursive function of a fold of seq with F, up to place n.
Folds(f, F, base, seq, n) ==
    \A s \in SUBSET (1..n) :
        /\ f[s] = IF s = {} THEN base ELSE F[<<f[s \ {Max(s)}], seq[Max(s)]>>]
        /\ s # {} => Max(s) \in 1..n

\* There is one.
LEMMA FoldExists ==
    ASSUME NEW A, NEW B, NEW F \in [B \X A -> B], NEW base \in B,
           NEW seq \in Seq(A)
    PROVE  \E f \in [SUBSET (1..Len(seq)) -> B] : Folds(f, F, base, seq, Len(seq))
  <1> DEFINE Good(n) == \E f \in [SUBSET (1..n) -> B] : Folds(f, F, base, seq, n)
  <1> DEFINE T == {n \in Nat : n <= Len(seq) => Good(n)}
  <1> HIDE DEF Good
  <1>1. 0 \in T
    <2> DEFINE f == [s \in SUBSET (1..0) |-> base]
    <2>1. \A s \in SUBSET (1..0) : s = {}
      OBVIOUS
    <2>2. Folds(f, F, base, seq, 0)
      BY <2>1 DEF Folds
    <2>3. f \in [SUBSET (1..0) -> B]
      OBVIOUS
    <2> HIDE DEF f
    <2> QED BY <2>2, <2>3 DEF Good
  <1>2. ASSUME NEW n \in T PROVE n + 1 \in T
    <2>0. n \in Nat /\ n + 1 \in Nat
      OBVIOUS
    <2> SUFFICES ASSUME n + 1 <= Len(seq) PROVE Good(n + 1)
      BY <2>0
    <2>1. PICK g \in [SUBSET (1..n) -> B] : Folds(g, F, base, seq, n)
      <3>1. Good(n)
        BY <2>0
      <3> QED BY <3>1 DEF Good
    <2> DEFINE f == [s \in SUBSET (1..(n + 1)) |->
                        IF n + 1 \in s THEN F[<<g[s \ {n + 1}], seq[n + 1]>>]
                        ELSE g[s]]
    <2>2. ASSUME NEW s \in SUBSET (1..(n + 1))
          PROVE  /\ f[s] \in B
                 /\ s # {} => Max(s) \in 1..(n + 1)
                 /\ f[s] = IF s = {} THEN base
                           ELSE F[<<f[s \ {Max(s)}], seq[Max(s)]>>]
      <3>1. CASE n + 1 \in s
        <4>1. Max(s) = n + 1
          BY <3>1, LastPlace
        <4>2. s \ {n + 1} \in SUBSET (1..(n + 1)) /\ n + 1 \notin s \ {n + 1}
          OBVIOUS
        <4>3. f[s \ {n + 1}] = g[s \ {n + 1}]
          BY <4>2
        <4>4. f[s] = F[<<g[s \ {n + 1}], seq[n + 1]>>]
          BY <3>1
        <4>5. s \ {n + 1} \in SUBSET (1..n) /\ seq[n + 1] \in A
          OBVIOUS
        <4>6. g[s \ {n + 1}] \in B
          BY <4>5
        <4> HIDE DEF f
        <4>7. f[s] \in B
          BY <4>4, <4>5, <4>6
        <4>8. Max(s) \in 1..(n + 1)
          BY <4>1
        <4> QED BY <3>1, <4>1, <4>3, <4>4, <4>7, <4>8
      <3>2. CASE n + 1 \notin s
        <4>1. s \in SUBSET (1..n)
          BY <3>2
        <4>2. f[s] = g[s] /\ g[s] \in B
          BY <3>2, <4>1
        <4>3. CASE s = {}
          BY <2>1, <4>1, <4>2, <4>3 DEF Folds
        <4>4. CASE s # {}
          <5>1. s \ {Max(s)} \in SUBSET (1..(n + 1)) /\ n + 1 \notin s \ {Max(s)}
            BY <3>2
          <5>2. f[s \ {Max(s)}] = g[s \ {Max(s)}]
            BY <5>1
          <5>3. /\ g[s] = F[<<g[s \ {Max(s)}], seq[Max(s)]>>]
                /\ Max(s) \in 1..n
            BY <2>1, <4>1, <4>4 DEF Folds
          <5>4. Max(s) \in 1..(n + 1)
            BY <5>3
          <5> HIDE DEF f
          <5> QED BY <4>2, <4>4, <5>2, <5>3, <5>4
        <4> QED BY <4>3, <4>4
      <3> QED BY <3>1, <3>2
    <2>3. Folds(f, F, base, seq, n + 1) /\ f \in [SUBSET (1..(n + 1)) -> B]
      BY <2>2 DEF Folds
    <2> HIDE DEF f
    <2> QED BY <2>3 DEF Good
  <1>3. \A n \in Nat : n \in T
    <2> HIDE DEF T
    <2>1. T \subseteq Nat
      BY DEF T
    <2>2. \A n \in T : n + 1 \in T
      BY <1>2
    <2> QED BY <1>1, <2>1, <2>2, SetInduction
  <1>4. Len(seq) \in Nat
    OBVIOUS
  <1>5. Good(Len(seq))
    BY <1>3, <1>4
  <1> QED BY <1>5 DEF Good

\* A run of F through seq: the results, place by place.
Runs(g, F, B, base, seq) ==
    /\ g[0] = base
    /\ \A k \in 1..Len(seq) :
          g[k - 1] \in B => g[k] = F[<<g[k - 1], seq[k]>>]

\* Two runs, through a sequence and its continuation.
TwoRuns(A, B, F, base, s, t, g, h) ==
    /\ F \in [B \X A -> B] /\ base \in B
    /\ s \in Seq(A) /\ t \in Seq(A) /\ Len(s) <= Len(t)
    /\ \A k \in 1..Len(s) : t[k] = s[k]
    /\ Runs(g, F, B, base, s) /\ Runs(h, F, B, base, t)

\* Their results have their type and are the same ones.
LEMMA RunsAgree ==
    ASSUME NEW A, NEW B, NEW F, NEW base, NEW s, NEW t, NEW g, NEW h,
           TwoRuns(A, B, F, base, s, t, g, h)
    PROVE  \A k \in 0..Len(s) : g[k] \in B /\ h[k] = g[k]
  <1> USE DEF TwoRuns
  <1> DEFINE T == {k \in Nat : k <= Len(s) => g[k] \in B /\ h[k] = g[k]}
  <1>1. 0 \in T
    BY DEF Runs
  <1>2. ASSUME NEW k \in T PROVE k + 1 \in T
    <2> SUFFICES ASSUME k + 1 <= Len(s)
                 PROVE  g[k + 1] \in B /\ h[k + 1] = g[k + 1]
      OBVIOUS
    <2>1. k + 1 \in 1..Len(s) /\ k + 1 \in 1..Len(t) /\ (k + 1) - 1 = k
      OBVIOUS
    <2>2. g[k] \in B /\ h[k] = g[k]
      OBVIOUS
    <2>3. g[k + 1] = F[<<g[k], s[k + 1]>>] /\ h[k + 1] = F[<<g[k], s[k + 1]>>]
      BY <2>1, <2>2 DEF Runs
    <2>4. s[k + 1] \in A
      BY <2>1
    <2> QED BY <2>2, <2>3, <2>4
  <1>3. \A k \in Nat : k \in T
    <2> HIDE DEF T
    <2>1. T \subseteq Nat
      BY DEF T
    <2>2. \A k \in T : k + 1 \in T
      BY <1>2
    <2> QED BY <1>1, <2>1, <2>2, SetInduction
  <1> QED BY <1>3

MoreRuns(A, B, F, base, s, x, g, h) ==
    /\ F \in [B \X A -> B] /\ base \in B
    /\ s \in Seq(A) /\ x \in A
    /\ Runs(g, F, B, base, s) /\ Runs(h, F, B, base, Append(s, x))

\* One more element is one more application.
LEMMA RunAppends ==
    ASSUME NEW A, NEW B, NEW F, NEW base, NEW s, NEW x, NEW g, NEW h,
           MoreRuns(A, B, F, base, s, x, g, h)
    PROVE  /\ g[Len(s)] \in B
           /\ h[Len(s) + 1] = F[<<g[Len(s)], x>>]
  <1> USE DEF MoreRuns
  <1>1. PICK t : t = Append(s, x)
    OBVIOUS
  <1>2. t \in Seq(A) /\ Len(t) = Len(s) + 1 /\ t[Len(s) + 1] = x
    BY <1>1
  <1>3. Len(s) <= Len(t)
    BY <1>2
  <1>4. \A k \in 1..Len(s) : t[k] = s[k]
    BY <1>1
  <1>5. Runs(h, F, B, base, t)
    BY <1>1
  <1>6. \A k \in 0..Len(s) : g[k] \in B /\ h[k] = g[k]
    <2>1. TwoRuns(A, B, F, base, s, t, g, h)
      BY <1>2, <1>3, <1>4, <1>5 DEF TwoRuns
    <2> QED BY <2>1, RunsAgree
  <1>7. PICK n \in Nat : n = Len(s)
    OBVIOUS
  <1>8. n + 1 \in 1..Len(t) /\ (n + 1) - 1 = n /\ n \in 0..Len(s)
    BY <1>2, <1>7
  <1>9. h[(n + 1) - 1] \in B => h[n + 1] = F[<<h[(n + 1) - 1], t[n + 1]>>]
    BY <1>5, <1>8 DEF Runs
  <1>10. g[n] \in B /\ h[n] = g[n]
    BY <1>6, <1>8
  <1> QED BY <1>2, <1>7, <1>8, <1>9, <1>10

\* r is what F makes of seq.
FoldOf(r, F, B, base, seq) ==
    \E g : Runs(g, F, B, base, seq) /\ r = g[Len(seq)]

\* The recursive function of a fold, of which the types are not yet known.
Iterates(f, F, B, base, seq) ==
    \A s \in SUBSET (1..Len(seq)) :
        f[s] = IF s = {} THEN base
               ELSE IF f[s \ {Max(s)}] \in B /\ Max(s) \in 1..Len(seq)
               THEN F[<<f[s \ {Max(s)}], seq[Max(s)]>>] ELSE f[s]

\* A fold gives a run: the results are those of the sets of the first places.
LEMMA FoldRuns ==
    ASSUME NEW S, NEW seq \in Seq(S), NEW F, NEW B, NEW base, NEW f,
           Iterates(f, F, B, base, seq)
    PROVE  FoldOf(f[1..Len(seq)], F, B, base, seq)
  <1> USE DEF Iterates
  <1> DEFINE g == [k \in 0..Len(seq) |-> f[1..k]]
  <1>1. g[0] = base
    <2>1. 1..0 = {} /\ {} \in SUBSET (1..Len(seq)) /\ 0 \in 0..Len(seq)
      OBVIOUS
    <2> QED BY <2>1
  <1>2. ASSUME NEW k \in 1..Len(seq), g[k - 1] \in B
        PROVE  g[k] = F[<<g[k - 1], seq[k]>>]
    <2>1. k - 1 \in Nat /\ (k - 1) + 1 = k
      OBVIOUS
    <2>2. 1..k \in SUBSET (1..Len(seq)) /\ k \in 1..k
      OBVIOUS
    <2>3. Max(1..k) = k
      BY <2>1, <2>2, LastPlace, 1..k \in SUBSET (1..((k - 1) + 1))
    <2>4. (1..k) \ {k} = 1..(k - 1)
      OBVIOUS
    <2>5. g[k] = f[1..k] /\ g[k - 1] = f[1..(k - 1)]
      OBVIOUS
    <2> QED BY <1>2, <2>2, <2>3, <2>4, <2>5
  <1> HIDE DEF g
  <1>3. Runs(g, F, B, base, seq)
    BY <1>1, <1>2 DEF Runs
  <1>4. Len(seq) \in 0..Len(seq)
    OBVIOUS
  <1>5. g[Len(seq)] = f[1..Len(seq)]
    BY <1>4 DEF g
  <1> QED BY <1>3, <1>5 DEF FoldOf

\* Of nothing it makes base, and one more element is one more application.
LEMMA FoldOfEmpty ==
    ASSUME NEW r, NEW F, NEW B, NEW base, FoldOf(r, F, B, base, <<>>)
    PROVE  r = base
  BY DEF FoldOf, Runs

FoldsMore(A, B, F, base, s, x, r, q) ==
    /\ F \in [B \X A -> B] /\ base \in B
    /\ s \in Seq(A) /\ x \in A
    /\ FoldOf(r, F, B, base, s) /\ FoldOf(q, F, B, base, Append(s, x))

\* Of a longer sequence it makes one more application.
LEMMA FoldOfAppend ==
    ASSUME NEW A, NEW B, NEW F, NEW base, NEW s, NEW x, NEW r, NEW q,
           FoldsMore(A, B, F, base, s, x, r, q)
    PROVE  r \in B /\ q = F[<<r, x>>]
  <1> USE DEF FoldsMore
  <1>1. PICK g : Runs(g, F, B, base, s) /\ r = g[Len(s)]
    BY DEF FoldOf
  <1>2. PICK h : Runs(h, F, B, base, Append(s, x)) /\ q = h[Len(Append(s, x))]
    BY DEF FoldOf
  <1>3. Len(Append(s, x)) = Len(s) + 1
    OBVIOUS
  <1>4. g[Len(s)] \in B /\ h[Len(s) + 1] = F[<<g[Len(s)], x>>]
    <2>1. MoreRuns(A, B, F, base, s, x, g, h)
      BY <1>1, <1>2 DEF MoreRuns
    <2> QED BY <2>1, RunAppends
  <1> QED BY <1>1, <1>2, <1>3, <1>4
-----------------------------------------------------------------------------
(***************************************************************************)
(* The invariant.                                                          *)
(***************************************************************************)

ChannelFrequencies == {freq \in Nat : IsChannel(freq)}

ChannelType == [freq: ChannelFrequencies, disabled: BOOLEAN, noIr: BOOLEAN,
                dfs: {"absent", "usable", "unavailable", "available"}]

\* The frequencies that the model itself chooses.
LEMMA FixedFrequencies == 2412 \in ChannelFrequencies /\ 5180 \in ChannelFrequencies
  <1>1. 1 \in 1..13 /\ 2412 = 2407 + 5 * 1
    OBVIOUS
  <1>2. 36 \in 1..177 /\ 5180 = 5000 + 5 * 36
    OBVIOUS
  <1>3. Channel2g(2412)
    BY <1>1 DEF Channel2g
  <1>4. Channel5g(5180)
    BY <1>2 DEF Channel5g
  <1> QED BY <1>3, <1>4 DEF ChannelFrequencies, IsChannel

CapaType == {Bands[1], Bands[2], NoCapabilities}

EntryType == [capa: CapaType, freqs: Seq(ChannelType)]

PieceType == [limits: Seq({4, 9}), bands: Seq(EntryType), features: Seq(Wiphys)]

MessageType == [wiphy: Wiphys \cup {"error"}, attrs: PieceType]

\* The number of pieces of a description.
Count(w) == IF w = "own" /\ split THEN 6 ELSE 1

WiphyType ==
    /\ split \in BOOLEAN
    /\ order \in IF split THEN {<<"own", "other">>, <<"other", "own">>}
                           ELSE {<<"own">>}
    /\ chunk \in Nat \ {0}
    /\ channels \in Seq(ChannelType) /\ Len(channels) = 2
    /\ unread \in BOOLEAN
    /\ calling \in {"constructor", "update", "nobody"}
    /\ todo \in Seq(Wiphys \X Nat)
    /\ response \in Seq(MessageType)
    /\ calling = "nobody" => todo = <<>> /\ response = <<>>
    /\ ok \in BOOLEAN /\ born \in BOOLEAN


-----------------------------------------------------------------------------
(***************************************************************************)
(* The folds of the module                                                 *)
(***************************************************************************)

\* An empty piece is one.
LEMMA EmptyType == Empty \in PieceType
  BY DEF Empty, Piece, PieceType

\* Merge of two pieces is one.
LEMMA MergeType ==
    ASSUME NEW p \in PieceType, NEW q \in PieceType
    PROVE  Merge(p, q) \in PieceType
  BY DEF Merge, Piece, PieceType

\* Pieces, merged.
SumOf(pieces) == FoldLeft(Merge, Empty, pieces)

MergePair == [z \in PieceType \X PieceType |-> Merge(z[1], z[2])]

\* The fold exists, and gives a run.
LEMMA MergeFold ==
    ASSUME NEW pieces \in Seq(PieceType)
    PROVE  FoldOf(SumOf(pieces), MergePair, PieceType, Empty, pieces)
  <1> DEFINE n == Len(pieces)
             Step(f) == [s \in SUBSET (1..n) |->
                            IF s = {} THEN Empty
                            ELSE Merge(f[s \ {Max(s)}], pieces[Max(s)])]
  <1>1. MergePair \in [PieceType \X PieceType -> PieceType] /\ Empty \in PieceType
    BY EmptyType, MergeType DEF MergePair
  <1>2. PICK f \in [SUBSET (1..n) -> PieceType] : Folds(f, MergePair, Empty, pieces, n)
    BY <1>1, FoldExists
  <1>3. f = Step(f)
    <2>1. ASSUME NEW s \in SUBSET (1..n) PROVE f[s] = Step(f)[s]
      <3>1. CASE s = {}
        BY <1>2, <3>1 DEF Folds
      <3>2. CASE s # {}
        <4>1. /\ f[s] = MergePair[<<f[s \ {Max(s)}], pieces[Max(s)]>>]
              /\ Max(s) \in 1..n
          BY <1>2, <3>2 DEF Folds
        <4>2. s \ {Max(s)} \in SUBSET (1..n)
          OBVIOUS
        <4>3. f[s \ {Max(s)}] \in PieceType /\ pieces[Max(s)] \in PieceType
          BY <4>1, <4>2
        <4> QED BY <3>2, <4>1, <4>3 DEF MergePair
      <3> QED BY <3>1, <3>2
    <2> QED BY <2>1
  <1>4. PICK h : h = Step(h) /\ SumOf(pieces) = h[1..n]
    <2> DEFINE h == CHOOSE h : h = Step(h)
    <2>1. h = Step(h)
      BY <1>3
    <2>2. DOMAIN pieces = 1..n
      OBVIOUS
    <2>3. SumOf(pieces) = h[1..n]
      BY <2>2 DEF SumOf, FoldLeft, MapThenFoldSet
    <2> HIDE DEF h
    <2> QED BY <2>1, <2>3
  <1>5. Iterates(h, MergePair, PieceType, Empty, pieces)
    <2> SUFFICES ASSUME NEW s \in SUBSET (1..n)
                 PROVE  h[s] = IF s = {} THEN Empty
                               ELSE IF h[s \ {Max(s)}] \in PieceType /\ Max(s) \in 1..n
                               THEN MergePair[<<h[s \ {Max(s)}], pieces[Max(s)]>>] ELSE h[s]
      BY DEF Iterates
    <2>1. h[s] = Step(h)[s]
      BY <1>4
    <2>2. Max(s) \in 1..n => pieces[Max(s)] \in PieceType
      OBVIOUS
    <2> QED BY <2>1, <2>2 DEF MergePair
  <1> HIDE DEF Step
  <1> QED BY <1>4, <1>5, FoldRuns

\* It begins empty, and grows piece by piece.
LEMMA MergeGrows ==
    ASSUME NEW pieces \in Seq(PieceType), NEW piece \in PieceType
    PROVE  /\ SumOf(<<>>) = Empty
           /\ SumOf(pieces) \in PieceType
           /\ SumOf(Append(pieces, piece)) =
                  Merge(SumOf(pieces), piece)
  <1>1. MergePair \in [PieceType \X PieceType -> PieceType] /\ Empty \in PieceType
    BY EmptyType, MergeType DEF MergePair
  <1>2. <<>> \in Seq(PieceType) /\ Append(pieces, piece) \in Seq(PieceType)
    OBVIOUS
  <1>3. /\ FoldOf(SumOf(pieces), MergePair, PieceType, Empty, pieces)
        /\ FoldOf(SumOf(<<>>), MergePair, PieceType, Empty, <<>>)
        /\ FoldOf(SumOf(Append(pieces, piece)), MergePair, PieceType, Empty, Append(pieces, piece))
    BY <1>2, MergeFold
  <1>4. FoldsMore(PieceType, PieceType, MergePair, Empty, pieces, piece, SumOf(pieces), SumOf(Append(pieces, piece)))
    BY <1>1, <1>3 DEF FoldsMore
  <1>5. SumOf(pieces) \in PieceType /\ SumOf(Append(pieces, piece)) = MergePair[<<SumOf(pieces), piece>>]
    BY <1>4, FoldOfAppend
  <1>6. SumOf(<<>>) = Empty
    BY <1>3, FoldOfEmpty
  <1> QED BY <1>5, <1>6 DEF MergePair

\* The messages of the client's wiphy, merged.
MergedOf(msgs) ==
    FoldLeft(LAMBDA p, m : IF m.wiphy = "own" THEN Merge(p, m.attrs) ELSE p,
             Empty, msgs)

TakeOwn ==
    [z \in PieceType \X MessageType |->
        IF z[2].wiphy = "own" THEN Merge(z[1], z[2].attrs) ELSE z[1]]

\* The fold exists, and gives a run.
LEMMA OwnFold ==
    ASSUME NEW msgs \in Seq(MessageType)
    PROVE  FoldOf(MergedOf(msgs), TakeOwn, PieceType, Empty, msgs)
  <1> DEFINE n == Len(msgs)
             Step(f) == [s \in SUBSET (1..n) |->
                            IF s = {} THEN Empty
                            ELSE IF msgs[Max(s)].wiphy = "own"
                            THEN Merge(f[s \ {Max(s)}], msgs[Max(s)].attrs)
                            ELSE f[s \ {Max(s)}]]
  <1>1. TakeOwn \in [PieceType \X MessageType -> PieceType] /\ Empty \in PieceType
    BY EmptyType, MergeType DEF TakeOwn, MessageType
  <1>2. PICK f \in [SUBSET (1..n) -> PieceType] : Folds(f, TakeOwn, Empty, msgs, n)
    BY <1>1, FoldExists
  <1>3. f = Step(f)
    <2>1. ASSUME NEW s \in SUBSET (1..n) PROVE f[s] = Step(f)[s]
      <3>1. CASE s = {}
        BY <1>2, <3>1 DEF Folds
      <3>2. CASE s # {}
        <4>1. /\ f[s] = TakeOwn[<<f[s \ {Max(s)}], msgs[Max(s)]>>]
              /\ Max(s) \in 1..n
          BY <1>2, <3>2 DEF Folds
        <4>2. s \ {Max(s)} \in SUBSET (1..n)
          OBVIOUS
        <4>3. f[s \ {Max(s)}] \in PieceType /\ msgs[Max(s)] \in MessageType
          BY <4>1, <4>2
        <4> QED BY <3>2, <4>1, <4>3 DEF TakeOwn
      <3> QED BY <3>1, <3>2
    <2> QED BY <2>1
  <1>4. PICK h : h = Step(h) /\ MergedOf(msgs) = h[1..n]
    <2> DEFINE h == CHOOSE h : h = Step(h)
    <2>1. h = Step(h)
      BY <1>3
    <2>2. DOMAIN msgs = 1..n
      OBVIOUS
    <2>3. MergedOf(msgs) = h[1..n]
      BY <2>2 DEF MergedOf, FoldLeft, MapThenFoldSet
    <2> HIDE DEF h
    <2> QED BY <2>1, <2>3
  <1>5. Iterates(h, TakeOwn, PieceType, Empty, msgs)
    <2> SUFFICES ASSUME NEW s \in SUBSET (1..n)
                 PROVE  h[s] = IF s = {} THEN Empty
                               ELSE IF h[s \ {Max(s)}] \in PieceType /\ Max(s) \in 1..n
                               THEN TakeOwn[<<h[s \ {Max(s)}], msgs[Max(s)]>>] ELSE h[s]
      BY DEF Iterates
    <2>1. h[s] = Step(h)[s]
      BY <1>4
    <2>2. Max(s) \in 1..n => msgs[Max(s)] \in MessageType
      OBVIOUS
    <2> QED BY <2>1, <2>2 DEF TakeOwn
  <1> HIDE DEF Step
  <1> QED BY <1>4, <1>5, FoldRuns

\* It begins empty, and grows message by message.
LEMMA OwnGrows ==
    ASSUME NEW msgs \in Seq(MessageType), NEW m \in MessageType
    PROVE  /\ MergedOf(<<>>) = Empty
           /\ MergedOf(msgs) \in PieceType
           /\ MergedOf(Append(msgs, m)) =
                  IF m.wiphy = "own" THEN Merge(MergedOf(msgs), m.attrs) ELSE MergedOf(msgs)
  <1>1. TakeOwn \in [PieceType \X MessageType -> PieceType] /\ Empty \in PieceType
    BY EmptyType, MergeType DEF TakeOwn, MessageType
  <1>2. <<>> \in Seq(MessageType) /\ Append(msgs, m) \in Seq(MessageType)
    OBVIOUS
  <1>3. /\ FoldOf(MergedOf(msgs), TakeOwn, PieceType, Empty, msgs)
        /\ FoldOf(MergedOf(<<>>), TakeOwn, PieceType, Empty, <<>>)
        /\ FoldOf(MergedOf(Append(msgs, m)), TakeOwn, PieceType, Empty, Append(msgs, m))
    BY <1>2, OwnFold
  <1>4. FoldsMore(MessageType, PieceType, TakeOwn, Empty, msgs, m, MergedOf(msgs), MergedOf(Append(msgs, m)))
    BY <1>1, <1>3 DEF FoldsMore
  <1>5. MergedOf(msgs) \in PieceType /\ MergedOf(Append(msgs, m)) = TakeOwn[<<MergedOf(msgs), m>>]
    BY <1>4, FoldOfAppend
  <1>6. MergedOf(<<>>) = Empty
    BY <1>3, FoldOfEmpty
  <1> QED BY <1>5, <1>6 DEF TakeOwn

\* The messages of the client's wiphy, one by one.
PacketsOf(msgs) ==
    FoldLeft(LAMBDA ps, m : IF m.wiphy = "own" THEN Append(ps, m.attrs) ELSE ps,
             <<>>, msgs)

KeepOwn ==
    [z \in Seq(PieceType) \X MessageType |->
        IF z[2].wiphy = "own" THEN Append(z[1], z[2].attrs) ELSE z[1]]

\* The fold exists, and gives a run.
LEMMA PacketsFold ==
    ASSUME NEW msgs \in Seq(MessageType)
    PROVE  FoldOf(PacketsOf(msgs), KeepOwn, Seq(PieceType), <<>>, msgs)
  <1> DEFINE n == Len(msgs)
             Step(f) == [s \in SUBSET (1..n) |->
                            IF s = {} THEN <<>>
                            ELSE IF msgs[Max(s)].wiphy = "own"
                            THEN Append(f[s \ {Max(s)}], msgs[Max(s)].attrs)
                            ELSE f[s \ {Max(s)}]]
  <1>1. KeepOwn \in [Seq(PieceType) \X MessageType -> Seq(PieceType)] /\ <<>> \in Seq(PieceType)
    BY DEF KeepOwn, MessageType
  <1>2. PICK f \in [SUBSET (1..n) -> Seq(PieceType)] : Folds(f, KeepOwn, <<>>, msgs, n)
    BY <1>1, FoldExists
  <1>3. f = Step(f)
    <2>1. ASSUME NEW s \in SUBSET (1..n) PROVE f[s] = Step(f)[s]
      <3>1. CASE s = {}
        BY <1>2, <3>1 DEF Folds
      <3>2. CASE s # {}
        <4>1. /\ f[s] = KeepOwn[<<f[s \ {Max(s)}], msgs[Max(s)]>>]
              /\ Max(s) \in 1..n
          BY <1>2, <3>2 DEF Folds
        <4>2. s \ {Max(s)} \in SUBSET (1..n)
          OBVIOUS
        <4>3. f[s \ {Max(s)}] \in Seq(PieceType) /\ msgs[Max(s)] \in MessageType
          BY <4>1, <4>2
        <4> QED BY <3>2, <4>1, <4>3 DEF KeepOwn
      <3> QED BY <3>1, <3>2
    <2> QED BY <2>1
  <1>4. PICK h : h = Step(h) /\ PacketsOf(msgs) = h[1..n]
    <2> DEFINE h == CHOOSE h : h = Step(h)
    <2>1. h = Step(h)
      BY <1>3
    <2>2. DOMAIN msgs = 1..n
      OBVIOUS
    <2>3. PacketsOf(msgs) = h[1..n]
      BY <2>2 DEF PacketsOf, FoldLeft, MapThenFoldSet
    <2> HIDE DEF h
    <2> QED BY <2>1, <2>3
  <1>5. Iterates(h, KeepOwn, Seq(PieceType), <<>>, msgs)
    <2> SUFFICES ASSUME NEW s \in SUBSET (1..n)
                 PROVE  h[s] = IF s = {} THEN <<>>
                               ELSE IF h[s \ {Max(s)}] \in Seq(PieceType) /\ Max(s) \in 1..n
                               THEN KeepOwn[<<h[s \ {Max(s)}], msgs[Max(s)]>>] ELSE h[s]
      BY DEF Iterates
    <2>1. h[s] = Step(h)[s]
      BY <1>4
    <2>2. Max(s) \in 1..n => msgs[Max(s)] \in MessageType
      OBVIOUS
    <2> QED BY <2>1, <2>2 DEF KeepOwn
  <1> HIDE DEF Step
  <1> QED BY <1>4, <1>5, FoldRuns

\* It begins empty, and grows message by message.
LEMMA PacketsGrows ==
    ASSUME NEW msgs \in Seq(MessageType), NEW m \in MessageType
    PROVE  /\ PacketsOf(<<>>) = <<>>
           /\ PacketsOf(msgs) \in Seq(PieceType)
           /\ PacketsOf(Append(msgs, m)) =
                  IF m.wiphy = "own" THEN Append(PacketsOf(msgs), m.attrs) ELSE PacketsOf(msgs)
  <1>1. KeepOwn \in [Seq(PieceType) \X MessageType -> Seq(PieceType)] /\ <<>> \in Seq(PieceType)
    BY DEF KeepOwn, MessageType
  <1>2. <<>> \in Seq(MessageType) /\ Append(msgs, m) \in Seq(MessageType)
    OBVIOUS
  <1>3. /\ FoldOf(PacketsOf(msgs), KeepOwn, Seq(PieceType), <<>>, msgs)
        /\ FoldOf(PacketsOf(<<>>), KeepOwn, Seq(PieceType), <<>>, <<>>)
        /\ FoldOf(PacketsOf(Append(msgs, m)), KeepOwn, Seq(PieceType), <<>>, Append(msgs, m))
    BY <1>2, PacketsFold
  <1>4. FoldsMore(MessageType, Seq(PieceType), KeepOwn, <<>>, msgs, m, PacketsOf(msgs), PacketsOf(Append(msgs, m)))
    BY <1>1, <1>3 DEF FoldsMore
  <1>5. PacketsOf(msgs) \in Seq(PieceType) /\ PacketsOf(Append(msgs, m)) = KeepOwn[<<PacketsOf(msgs), m>>]
    BY <1>4, FoldOfAppend
  <1>6. PacketsOf(<<>>) = <<>>
    BY <1>3, FoldOfEmpty
  <1> QED BY <1>5, <1>6 DEF KeepOwn


\* FlattenSeq, as a fold.
Concat(S) == [z \in Seq(S) \X Seq(S) |-> z[1] \o z[2]]

\* FlattenSeq is a fold with concatenation.
LEMMA FlattenFold ==
    ASSUME NEW S, NEW seqs \in Seq(Seq(S))
    PROVE  FoldOf(FlattenSeq(seqs), Concat(S), Seq(S), <<>>, seqs)
  <1> DEFINE n == Len(seqs)
             Step(f) == [i \in 1..n |->
                            IF i = 1 THEN seqs[i] ELSE f[i - 1] \o seqs[i]]
  <1>1. Concat(S) \in [Seq(S) \X Seq(S) -> Seq(S)] /\ <<>> \in Seq(S)
    BY DEF Concat
  <1>2. CASE n = 0
    <2>1. FlattenSeq(seqs) = <<>>
      BY <1>2 DEF FlattenSeq
    <2> DEFINE g == [k \in 0..0 |-> <<>>]
    <2>2. Runs(g, Concat(S), Seq(S), <<>>, seqs) /\ g[n] = <<>>
      BY <1>2 DEF Runs
    <2> HIDE DEF g
    <2> QED BY <2>1, <2>2 DEF FoldOf
  <1>3. CASE n # 0
    <2>1. PICK f \in [SUBSET (1..n) -> Seq(S)] : Folds(f, Concat(S), <<>>, seqs, n)
      BY <1>1, FoldExists
    <2>2. Iterates(f, Concat(S), Seq(S), <<>>, seqs)
      <3>1. ASSUME NEW s \in SUBSET (1..n)
            PROVE  f[s] = IF s = {} THEN <<>>
                          ELSE IF f[s \ {Max(s)}] \in Seq(S) /\ Max(s) \in 1..n
                          THEN Concat(S)[<<f[s \ {Max(s)}], seqs[Max(s)]>>] ELSE f[s]
        BY <2>1 DEF Folds
      <3> QED BY <3>1 DEF Iterates
    <2>3. PICK g : Runs(g, Concat(S), Seq(S), <<>>, seqs)
      BY <2>2, FoldRuns DEF FoldOf
    <2>4. TwoRuns(Seq(S), Seq(S), Concat(S), <<>>, seqs, seqs, g, g)
      BY <1>1, <2>3 DEF TwoRuns
    <2>5. \A k \in 0..n : g[k] \in Seq(S)
      BY <2>4, RunsAgree
    <2>6. ASSUME NEW i \in 1..n
          PROVE  g[i] = IF i = 1 THEN seqs[i] ELSE g[i - 1] \o seqs[i]
      <3>1. i - 1 \in 0..n /\ seqs[i] \in Seq(S)
        OBVIOUS
      <3>2. g[i - 1] \in Seq(S)
        BY <2>5, <3>1
      <3>3. g[i] = g[i - 1] \o seqs[i]
        BY <2>3, <3>1, <3>2 DEF Runs, Concat
      <3>4. i = 1 => g[i - 1] = <<>>
        BY <2>3 DEF Runs
      <3>5. <<>> \o seqs[i] = seqs[i]
        BY <3>1
      <3> QED BY <3>3, <3>4, <3>5
    <2> DEFINE f0 == [i \in 1..n |-> g[i]]
    <2>7. f0 = Step(f0)
      <3>1. \A i \in 1..n : i # 1 => i - 1 \in 1..n
        OBVIOUS
      <3> QED BY <2>6, <3>1
    <2>8. PICK h : h = Step(h) /\ FlattenSeq(seqs) = h[n]
      <3> DEFINE h == CHOOSE h : h = Step(h)
      <3>1. h = Step(h)
        BY <2>7
      <3>2. FlattenSeq(seqs) = h[n]
        BY <1>3 DEF FlattenSeq
      <3> HIDE DEF h
      <3> QED BY <3>1, <3>2
    <2> DEFINE r == [k \in 0..n |-> IF k = 0 THEN <<>> ELSE h[k]]
    <2>9. Runs(r, Concat(S), Seq(S), <<>>, seqs)
      <3>1. r[0] = <<>>
        OBVIOUS
      <3>2. ASSUME NEW k \in 1..n, r[k - 1] \in Seq(S)
            PROVE  r[k] = Concat(S)[<<r[k - 1], seqs[k]>>]
        <4>1. seqs[k] \in Seq(S) /\ k - 1 \in 0..n /\ k \in 0..n
          OBVIOUS
        <4>2. Concat(S)[<<r[k - 1], seqs[k]>>] = r[k - 1] \o seqs[k]
          BY <3>2, <4>1 DEF Concat
        <4>3. h[k] = IF k = 1 THEN seqs[k] ELSE h[k - 1] \o seqs[k]
          BY <2>8
        <4>4. r[k] = h[k]
          OBVIOUS
        <4>5. k = 1 => r[k - 1] = <<>>
          OBVIOUS
        <4>6. k # 1 => r[k - 1] = h[k - 1]
          OBVIOUS
        <4> HIDE DEF r
        <4>7. <<>> \o seqs[k] = seqs[k]
          BY <4>1
        <4> QED BY <4>2, <4>3, <4>4, <4>5, <4>6, <4>7
      <3> HIDE DEF r
      <3> QED BY <3>1, <3>2 DEF Runs
    <2>10. r[n] = h[n]
      BY <1>3
    <2> HIDE DEF r
    <2> QED BY <2>8, <2>9, <2>10 DEF FoldOf
  <1> QED BY <1>2, <1>3

\* It begins empty, and grows sequence by sequence.
LEMMA FlattenGrows ==
    ASSUME NEW S, NEW seqs \in Seq(Seq(S)), NEW s \in Seq(S)
    PROVE  /\ FlattenSeq(<<>>) = <<>>
           /\ FlattenSeq(seqs) \in Seq(S)
           /\ FlattenSeq(Append(seqs, s)) = FlattenSeq(seqs) \o s
  <1>1. Concat(S) \in [Seq(S) \X Seq(S) -> Seq(S)] /\ <<>> \in Seq(S)
    BY DEF Concat
  <1>2. <<>> \in Seq(Seq(S)) /\ Append(seqs, s) \in Seq(Seq(S))
    OBVIOUS
  <1>3. /\ FoldOf(FlattenSeq(seqs), Concat(S), Seq(S), <<>>, seqs)
        /\ FoldOf(FlattenSeq(<<>>), Concat(S), Seq(S), <<>>, <<>>)
        /\ FoldOf(FlattenSeq(Append(seqs, s)), Concat(S), Seq(S), <<>>, Append(seqs, s))
    BY <1>2, FlattenFold
  <1>4. FoldsMore(Seq(S), Seq(S), Concat(S), <<>>, seqs, s, FlattenSeq(seqs),
                  FlattenSeq(Append(seqs, s)))
    BY <1>1, <1>3 DEF FoldsMore
  <1>5. /\ FlattenSeq(seqs) \in Seq(S)
        /\ FlattenSeq(Append(seqs, s)) = Concat(S)[<<FlattenSeq(seqs), s>>]
    BY <1>4, FoldOfAppend
  <1>6. FlattenSeq(<<>>) = <<>>
    BY <1>3, FoldOfEmpty
  <1> QED BY <1>5, <1>6 DEF Concat

\* Of one, two or four sequences.
LEMMA FlattenOne ==
    ASSUME NEW S, NEW a \in Seq(S)
    PROVE  FlattenSeq(<<a>>) = a
  <1>1. <<a>> = Append(<<>>, a) /\ <<>> \in Seq(Seq(S))
    OBVIOUS
  <1>2. FlattenSeq(Append(<<>>, a)) = FlattenSeq(<<>>) \o a /\ FlattenSeq(<<>>) = <<>>
    BY <1>1, FlattenGrows
  <1>3. <<>> \o a = a
    OBVIOUS
  <1> QED BY <1>1, <1>2, <1>3

\* Of two sequences.
LEMMA FlattenTwo ==
    ASSUME NEW S, NEW a \in Seq(S), NEW b \in Seq(S)
    PROVE  FlattenSeq(<<a, b>>) = a \o b
  <1>1. <<a, b>> = Append(<<a>>, b) /\ <<a>> \in Seq(Seq(S))
    OBVIOUS
  <1>2. FlattenSeq(Append(<<a>>, b)) = FlattenSeq(<<a>>) \o b
    BY <1>1, FlattenGrows
  <1>3. FlattenSeq(<<a>>) = a
    BY FlattenOne
  <1> QED BY <1>1, <1>2, <1>3

FourSeqs(S, a, b, c, d) == a \in Seq(S) /\ b \in Seq(S) /\ c \in Seq(S) /\ d \in Seq(S)

FourFlat(a, b, c, d) == FlattenSeq(<<a, b, c, d>>) = ((a \o b) \o c) \o d

\* Of four.
LEMMA FlattenFour ==
    ASSUME NEW S, NEW a, NEW b, NEW c, NEW d, FourSeqs(S, a, b, c, d)
    PROVE  FourFlat(a, b, c, d)
  <1> USE DEF FourSeqs, FourFlat
  <1>1. /\ <<a, b, c>> = Append(<<a, b>>, c) /\ <<a, b>> \in Seq(Seq(S))
        /\ <<a, b, c, d>> = Append(<<a, b, c>>, d) /\ <<a, b, c>> \in Seq(Seq(S))
    OBVIOUS
  <1>2. FlattenSeq(Append(<<a, b>>, c)) = FlattenSeq(<<a, b>>) \o c
    BY <1>1, FlattenGrows
  <1>3. FlattenSeq(Append(<<a, b, c>>, d)) = FlattenSeq(<<a, b, c>>) \o d
    BY <1>1, FlattenGrows
  <1>4. FlattenSeq(<<a, b>>) = a \o b
    BY FlattenTwo
  <1> QED BY <1>1, <1>2, <1>3, <1>4
\* What follows a step of a dump.
Follower(x) ==
    IF x[2] < Count(x[1]) THEN <<x[1], x[2] + 1>>
    ELSE IF ~split THEN <<"own", 1>>
    ELSE IF x[1] = "own" THEN <<"other", 1>> ELSE <<"own", 1>>

\* The steps of a dump, or of the rest of it, lead from one to the next.
Linked(steps) ==
    /\ \A i \in 1..Len(steps) :
          /\ steps[i][1] = "other" => split
          /\ steps[i][2] \in 1..Count(steps[i][1])
          /\ i < Len(steps) => steps[i + 1] = Follower(steps[i])
    /\ steps # <<>> =>
          LET w == order[Len(order)] IN steps[Len(steps)] = <<w, Count(w)>>

\* The bands of the client's wiphy, entry by entry.
Described ==
    <<Entry(Bands[1], <<>>), Entry(NoCapabilities, <<channels[1]>>),
      Entry(Bands[2], <<>>), Entry(NoCapabilities, <<channels[2]>>)>>

\* The band entries among the first j pieces.
Entries(j) == IF j <= 1 THEN 0 ELSE IF j = 6 THEN 4 ELSE j - 1

\* What the messages about the client's wiphy have so far.
MergedOwn == MergedOf(response)

\* A message of the client's wiphy with limits.
HasLimits(i) == response[i].wiphy = "own" /\ response[i].attrs.limits # <<>>

\* The first j pieces of one description were sent.
Once(j) ==
    /\ MergedOwn.limits = IF j = 0 THEN <<>> ELSE <<4>>
    /\ MergedOwn.features = IF j = 6 THEN <<"own">> ELSE <<>>
    /\ Len(MergedOwn.bands) = Entries(j)
    /\ ~unread => MergedOwn.bands = SubSeq(Described, 1, Entries(j))
    /\ j # 0 => \E i \in DOMAIN response : HasLimits(i)
    /\ j = 0 => /\ todo # <<>>
                /\ todo[1] # <<"own", 1>> =>
                      todo[1] = <<"other", 1>> /\ Len(todo) > 1
    /\ j \in 1..5 => todo # <<>> /\ todo[1] = <<"own", j + 1>>
    /\ j = 6 /\ todo # <<>> => todo[1][2] = 1

\* Two descriptions were begun.
Twice ==
    /\ Len(MergedOwn.limits) > 1
    /\ \E a, b \in DOMAIN response : a # b /\ HasLimits(a) /\ HasLimits(b)

\* A split dump, up to now.
SplitDump == (\E j \in 0..6 : Once(j)) \/ Twice

\* A dump that is not split: each message is a whole description.
PlainDump ==
    \A i \in DOMAIN response :
        /\ response[i].wiphy # "other"
        /\ response[i].wiphy = "own" =>
              /\ Len(response[i].attrs.limits) = 1 /\ response[i].attrs.limits[1] = 4
              /\ Len(response[i].attrs.features) = 1
              /\ response[i].attrs.bands # <<>>
              /\ ~unread => response[i].attrs = Whole("own")

DumpInv ==
    calling # "nobody" =>
        /\ Linked(todo)
        /\ IF split THEN Refused \/ SplitDump ELSE PlainDump

\* The client's knowledge.
ClientInv == LimitsOwn /\ BandInfoFresh

WiphyInv == WiphyType /\ DumpInv /\ ClientInv

-----------------------------------------------------------------------------
(***************************************************************************)
(* Descriptions                                                            *)
(***************************************************************************)

\* A function on 1..2 is a pair.
LEMMA Pair ==
    ASSUME NEW f, f = [i \in 1..2 |-> f[i]]
    PROVE  f = <<f[1], f[2]>>
  OBVIOUS

\* Two pairs, joined.
LEMMA FourInRow ==
    ASSUME NEW S, NEW a \in S, NEW b \in S, NEW c \in S, NEW d \in S
    PROVE  <<a, b>> \o <<c, d>> = <<a, b, c, d>>
  <1>1. PICK x \in Seq(S) : x = <<a, b>> \o <<c, d>>
    <2>1. <<a, b>> \in Seq(S) /\ <<c, d>> \in Seq(S)
      OBVIOUS
    <2>2. <<a, b>> \o <<c, d>> \in Seq(S)
      BY <2>1
    <2> QED BY <2>2
  <1>2. Len(x) = 4 /\ x[1] = a /\ x[2] = b /\ x[3] = c /\ x[4] = d
    BY <1>1
  <1>3. PICK y \in Seq(S) : y = <<a, b, c, d>>
    <2>1. <<a, b, c, d>> \in Seq(S)
      OBVIOUS
    <2> QED BY <2>1
  <1>4. Len(y) = 4 /\ y[1] = a /\ y[2] = b /\ y[3] = c /\ y[4] = d
    BY <1>3
  <1>5. \A i \in 1..4 : x[i] = y[i]
    BY <1>2, <1>4
  <1>6. x = y
    BY <1>2, <1>4, <1>5
  <1> QED BY <1>1, <1>3, <1>6

\* One, four and one, joined.
LEMMA SixInRow ==
    ASSUME NEW S, NEW a \in S, NEW b \in S, NEW c \in S, NEW d \in S,
           NEW e \in S, NEW f \in S
    PROVE  (<<a>> \o <<b, c, d, e>>) \o <<f>> = <<a, b, c, d, e, f>>
  <1>1. PICK x \in Seq(S) : x = (<<a>> \o <<b, c, d, e>>) \o <<f>>
    <2>1. <<a>> \in Seq(S) /\ <<b, c, d, e>> \in Seq(S) /\ <<f>> \in Seq(S)
      OBVIOUS
    <2>2. (<<a>> \o <<b, c, d, e>>) \o <<f>> \in Seq(S)
      BY <2>1
    <2> QED BY <2>2
  <1>2. /\ Len(x) = 6 /\ x[1] = a /\ x[2] = b /\ x[3] = c /\ x[4] = d
        /\ x[5] = e /\ x[6] = f
    BY <1>1
  <1>3. PICK y \in Seq(S) : y = <<a, b, c, d, e, f>>
    <2>1. <<a, b, c, d, e, f>> \in Seq(S)
      OBVIOUS
    <2> QED BY <2>1
  <1>4. /\ Len(y) = 6 /\ y[1] = a /\ y[2] = b /\ y[3] = c /\ y[4] = d
        /\ y[5] = e /\ y[6] = f
    BY <1>3
  <1>5. \A i \in 1..6 : x[i] = y[i]
    BY <1>2, <1>4
  <1>6. x = y
    BY <1>2, <1>4, <1>5
  <1> QED BY <1>1, <1>3, <1>6

\* The client's wiphy has two channels.
LEMMA OwnChannels ==
    ASSUME WiphyType
    PROVE  channels[1] \in ChannelType /\ channels[2] \in ChannelType
  <1>1. channels \in Seq(ChannelType) /\ Len(channels) = 2
    BY DEF WiphyType
  <1> HIDE DEF WiphyType
  <1> QED BY <1>1

\* So has each wiphy.
LEMMA ChannelsType ==
    ASSUME WiphyType, NEW w \in Wiphys
    PROVE  ChannelsOf(w)[1] \in ChannelType /\ ChannelsOf(w)[2] \in ChannelType
  <1>1. CASE w = "own"
    BY <1>1, OwnChannels DEF ChannelsOf
  <1>2. CASE w # "own"
    BY <1>2, WiphyAssumption, FixedFrequencies DEF ChannelsOf, Channel, ChannelType
  <1> QED BY <1>1, <1>2

\* A whole description.
LEMMA WholeIs ==
    ASSUME WiphyType, NEW w \in Wiphys
    PROVE  /\ Whole(w) \in PieceType
           /\ Whole(w) = Piece(<<Limits(w)>>,
                               <<Entry(Bands[1], <<ChannelsOf(w)[1]>>),
                                 Entry(Bands[2], <<ChannelsOf(w)[2]>>)>>, <<w>>)
  <1> DEFINE bs == [i \in DOMAIN Bands |-> Entry(Bands[i], <<ChannelsOf(w)[i]>>)]
  <1>1. bs = <<Entry(Bands[1], <<ChannelsOf(w)[1]>>),
               Entry(Bands[2], <<ChannelsOf(w)[2]>>)>>
    <2>1. /\ bs = [i \in 1..2 |-> bs[i]]
          /\ bs[1] = Entry(Bands[1], <<ChannelsOf(w)[1]>>)
          /\ bs[2] = Entry(Bands[2], <<ChannelsOf(w)[2]>>)
      BY WiphyAssumption
    <2> HIDE DEF bs
    <2> QED BY <2>1, Pair
  <1>2. Whole(w) = Piece(<<Limits(w)>>, bs, <<w>>)
    BY DEF Whole
  <1> HIDE DEF bs
  <1>3. /\ Entry(Bands[1], <<ChannelsOf(w)[1]>>) \in EntryType
        /\ Entry(Bands[2], <<ChannelsOf(w)[2]>>) \in EntryType
    BY ChannelsType DEF Entry, EntryType, CapaType
  <1>4. bs \in Seq(EntryType)
    BY <1>1, <1>3
  <1>5. Limits(w) \in {4, 9}
    BY DEF Limits
  <1>6. Piece(<<Limits(w)>>, bs, <<w>>) \in PieceType
    BY <1>4, <1>5 DEF Piece, PieceType
  <1> QED BY <1>1, <1>2, <1>6

\* The description of the client's wiphy, cut into pieces.
OwnPieces ==
    <<Piece(<<4>>, <<>>, <<>>),
      Piece(<<>>, <<Described[1]>>, <<>>), Piece(<<>>, <<Described[2]>>, <<>>),
      Piece(<<>>, <<Described[3]>>, <<>>), Piece(<<>>, <<Described[4]>>, <<>>),
      Piece(<<>>, <<>>, <<"own">>)>>

\* The bands of the client's wiphy make four entries.
LEMMA DescribedType ==
    ASSUME WiphyType
    PROVE  Described \in Seq(EntryType) /\ Len(Described) = 4
  <1>1. channels[1] \in ChannelType /\ channels[2] \in ChannelType
    BY OwnChannels
  <1>2. /\ Entry(Bands[1], <<>>) \in EntryType
        /\ Entry(Bands[2], <<>>) \in EntryType
        /\ Entry(NoCapabilities, <<channels[1]>>) \in EntryType
        /\ Entry(NoCapabilities, <<channels[2]>>) \in EntryType
    BY <1>1 DEF Entry, EntryType, CapaType
  <1> QED BY <1>2 DEF Described

\* Its description makes six pieces.
LEMMA OwnPiecesType ==
    ASSUME WiphyType
    PROVE  OwnPieces \in Seq(PieceType) /\ Len(OwnPieces) = 6
  <1>1. \A i \in 1..4 : Described[i] \in EntryType
    <2>1. PICK d \in Seq(EntryType) : d = Described /\ Len(d) = 4
      BY DescribedType
    <2>2. \A i \in 1..Len(d) : d[i] \in EntryType
      OBVIOUS
    <2> QED BY <2>1, <2>2
  <1>2. \A ls \in Seq({4, 9}), bs \in Seq(EntryType), fs \in Seq(Wiphys) :
           Piece(ls, bs, fs) \in PieceType
    BY DEF Piece, PieceType
  <1>3. ASSUME NEW e \in EntryType PROVE Piece(<<>>, <<e>>, <<>>) \in PieceType
    <2>1. <<e>> \in Seq(EntryType) /\ <<>> \in Seq({4, 9}) /\ <<>> \in Seq(Wiphys)
      OBVIOUS
    <2> QED BY <1>2, <2>1
  <1>4. Piece(<<4>>, <<>>, <<>>) \in PieceType
    <2>1. <<4>> \in Seq({4, 9}) /\ <<>> \in Seq(EntryType) /\ <<>> \in Seq(Wiphys)
      OBVIOUS
    <2> QED BY <1>2, <2>1
  <1>5. Piece(<<>>, <<>>, <<"own">>) \in PieceType
    <2>1. <<"own">> \in Seq(Wiphys) /\ <<>> \in Seq({4, 9}) /\ <<>> \in Seq(EntryType)
      BY DEF Wiphys
    <2> QED BY <1>2, <2>1
  <1> QED BY <1>1, <1>3, <1>4, <1>5 DEF OwnPieces

\* The pieces of the model are those.
LEMMA PiecesAre ==
    ASSUME WiphyType
    PROVE  /\ Pieces("own") = IF split THEN OwnPieces ELSE <<Whole("own")>>
           /\ Pieces("other") = <<Whole("other")>>
  <1>1. ASSUME split PROVE Pieces("own") = OwnPieces
    <2> DEFINE bs == [i \in DOMAIN Bands |->
                <<Piece(<<>>, <<Entry(Bands[i], <<>>)>>, <<>>),
                  Piece(<<>>, <<Entry(NoCapabilities, <<ChannelsOf("own")[i]>>)>>,
                        <<>>)>>]
    <2>1. ChannelsOf("own") = channels /\ Limits("own") = 4
      BY DEF ChannelsOf, Limits
    <2> DEFINE p2 == Piece(<<>>, <<Described[1]>>, <<>>)
               p3 == Piece(<<>>, <<Described[2]>>, <<>>)
               p4 == Piece(<<>>, <<Described[3]>>, <<>>)
               p5 == Piece(<<>>, <<Described[4]>>, <<>>)
               p6 == Piece(<<>>, <<>>, <<"own">>)
    <2>2. bs = <<<<p2, p3>>, <<p4, p5>>>>
      <3>1. bs = [i \in 1..2 |-> bs[i]] /\ bs[1] = <<p2, p3>> /\ bs[2] = <<p4, p5>>
        BY <2>1, WiphyAssumption DEF Described
      <3> HIDE DEF bs, p2, p3, p4, p5
      <3> QED BY <3>1, Pair
    <2>3. Pieces("own") = <<Piece(<<4>>, <<>>, <<>>)>> \o FlattenSeq(bs) \o <<p6>>
      BY <1>1, <2>1 DEF Pieces
    <2>4. p2 \in PieceType /\ p3 \in PieceType /\ p4 \in PieceType /\ p5 \in PieceType
      BY OwnPiecesType DEF OwnPieces
    <2>5. OwnPieces = <<Piece(<<4>>, <<>>, <<>>), p2, p3, p4, p5, p6>>
      BY DEF OwnPieces
    <2> DEFINE p1 == Piece(<<4>>, <<>>, <<>>)
    <2>0. p1 \in PieceType /\ p6 \in PieceType
      BY OwnPiecesType DEF OwnPieces
    <2> HIDE DEF bs, p1, p2, p3, p4, p5, p6
    <2>6. <<p2, p3>> \in Seq(PieceType) /\ <<p4, p5>> \in Seq(PieceType)
      BY <2>4
    <2>7. FlattenSeq(<<<<p2, p3>>, <<p4, p5>>>>) = <<p2, p3>> \o <<p4, p5>>
      BY <2>6, FlattenTwo
    <2>8. <<p2, p3>> \o <<p4, p5>> = <<p2, p3, p4, p5>>
      BY <2>4, FourInRow
    <2>9. (<<p1>> \o <<p2, p3, p4, p5>>) \o <<p6>> = <<p1, p2, p3, p4, p5, p6>>
      BY <2>0, <2>4, SixInRow
    <2> QED BY <2>2, <2>3, <2>5, <2>7, <2>8, <2>9 DEF p1
  <1>2. ASSUME ~split PROVE Pieces("own") = <<Whole("own")>>
    BY <1>2 DEF Pieces
  <1>3. Pieces("other") = <<Whole("other")>>
    BY DEF Pieces
  <1> QED BY <1>1, <1>2, <1>3 DEF WiphyType

\* Some of the pieces.
LEMMA SubSeqType ==
    ASSUME NEW S, NEW s \in Seq(S), NEW a \in Nat, NEW b \in Nat,
           1 <= a, b <= Len(s)
    PROVE  /\ SubSeq(s, a, b) \in Seq(S)
           /\ Len(SubSeq(s, a, b)) = IF a <= b THEN b - a + 1 ELSE 0
  OBVIOUS

\* One element more.
LEMMA SubSeqGrows ==
    ASSUME NEW S, NEW s \in Seq(S), NEW a \in Nat, NEW b \in Nat,
           1 <= a, a <= b + 1, b + 1 <= Len(s)
    PROVE  /\ SubSeq(s, a, b) \in Seq(S)
           /\ SubSeq(s, a, b + 1) = Append(SubSeq(s, a, b), s[b + 1])
           /\ SubSeq(s, a, b + 1) = SubSeq(s, a, b) \o <<s[b + 1]>>
  <1>1. SubSeq(s, a, b) \in Seq(S) /\ SubSeq(s, a, b + 1) \in Seq(S) /\ s[b + 1] \in S
    OBVIOUS
  <1>2. Len(SubSeq(s, a, b)) = b - a + 1 /\ Len(SubSeq(s, a, b + 1)) = b - a + 2
    OBVIOUS
  <1>3. /\ \A i \in 1..(b - a + 1) : SubSeq(s, a, b)[i] = s[a + i - 1]
        /\ \A i \in 1..(b - a + 2) : SubSeq(s, a, b + 1)[i] = s[a + i - 1]
    OBVIOUS
  <1>4. PICK x \in Seq(S), y \in Seq(S) : x = SubSeq(s, a, b) /\ y = SubSeq(s, a, b + 1)
    BY <1>1
  <1>5. PICK n \in Nat : n = b - a + 1
    OBVIOUS
  <1>6. /\ Len(x) = n /\ Len(y) = n + 1
        /\ \A i \in 1..n : x[i] = y[i]
        /\ y[n + 1] = s[b + 1]
    BY <1>2, <1>3, <1>4, <1>5
  <1>7. y = Append(x, s[b + 1])
    BY <1>1, <1>6
  <1>8. y = x \o <<s[b + 1]>>
    BY <1>1, <1>6
  <1> QED BY <1>4, <1>7, <1>8

\* The pieces from a to b, merged.
Between(a, b) ==
    Piece(IF a = 1 /\ b >= 1 THEN <<4>> ELSE <<>>,
          SubSeq(Described, Entries(a - 1) + 1, Entries(b)),
          IF a <= 6 /\ b = 6 THEN <<"own">> ELSE <<>>)

\* One more piece adds one more part.
LEMMA BetweenGrows ==
    ASSUME WiphyType, NEW a \in 1..6, NEW b \in 0..5, a <= b + 1
    PROVE  Merge(Between(a, b), OwnPieces[b + 1]) = Between(a, b + 1)
  <1>1. PICK d \in Seq(EntryType) : d = Described /\ Len(d) = 4
    BY DescribedType
  <1>2. PICK lo \in 1..5 : lo = Entries(a - 1) + 1 /\ (a = b + 1 => lo = Entries(b) + 1)
                           /\ lo <= Entries(b) + 1
    BY DEF Entries
  <1>3. Between(a, b) = Piece(IF a = 1 /\ b >= 1 THEN <<4>> ELSE <<>>,
                              SubSeq(d, lo, Entries(b)),
                              IF a <= 6 /\ b = 6 THEN <<"own">> ELSE <<>>)
    BY <1>1, <1>2 DEF Between
  <1>4. Between(a, b + 1) = Piece(IF a = 1 /\ b + 1 >= 1 THEN <<4>> ELSE <<>>,
                                  SubSeq(d, lo, Entries(b + 1)),
                                  IF a <= 6 /\ b + 1 = 6 THEN <<"own">> ELSE <<>>)
    BY <1>1, <1>2 DEF Between
  <1>6. /\ <<>> \o <<>> = <<>> /\ <<4>> \o <<>> = <<4>> /\ <<>> \o <<4>> = <<4>>
        /\ <<>> \o <<"own">> = <<"own">>
    OBVIOUS
  <1>7. SubSeq(d, lo, Entries(b)) \o <<>> = SubSeq(d, lo, Entries(b))
    <2>1. Entries(b) \in Nat /\ Entries(b) <= Len(d) /\ lo \in Nat /\ 1 <= lo
      BY <1>1 DEF Entries
    <2>2. SubSeq(d, lo, Entries(b)) \in Seq(EntryType)
      BY <2>1, SubSeqType
    <2> QED BY <2>2
  <1>8. CASE b = 0
    <2>1. OwnPieces[1] = Piece(<<4>>, <<>>, <<>>) /\ a = 1
      BY <1>8 DEF OwnPieces
    <2>2. Entries(b + 1) = Entries(b)
      BY <1>8 DEF Entries
    <2>3. Between(a, b) = Piece(<<>>, SubSeq(d, lo, Entries(b)), <<>>)
      BY <1>3, <1>8, <2>1
    <2>4. Between(a, b + 1) = Piece(<<4>>, SubSeq(d, lo, Entries(b)), <<>>)
      BY <1>4, <1>8, <2>1, <2>2
    <2>5. OwnPieces[b + 1] = Piece(<<4>>, <<>>, <<>>)
      BY <1>8, <2>1
    <2>6. PICK x : x = SubSeq(d, lo, Entries(b))
      OBVIOUS
    <2>7. Merge(Piece(<<>>, x, <<>>), Piece(<<4>>, <<>>, <<>>))
             = Piece(<<>> \o <<4>>, x \o <<>>, <<>> \o <<>>)
      BY DEF Merge, Piece
    <2> QED BY <1>6, <1>7, <2>3, <2>4, <2>5, <2>6, <2>7
  <1>9. CASE b \in 1..4
    <2>1. Entries(b) = b - 1 /\ Entries(b + 1) = b
      BY <1>9 DEF Entries
    <2>2. OwnPieces[b + 1] = Piece(<<>>, <<d[b]>>, <<>>)
      BY <1>1, <1>9 DEF OwnPieces
    <2>3. SubSeq(d, lo, b) = SubSeq(d, lo, b - 1) \o <<d[b]>>
      <3>1. PICK c \in Nat : c + 1 = b /\ c = b - 1
        BY <1>9
      <3>2. 1 <= lo /\ lo <= c + 1 /\ c + 1 <= Len(d) /\ lo \in Nat
        BY <1>1, <1>2, <1>9, <2>1, <3>1
      <3>3. SubSeq(d, lo, c + 1) = SubSeq(d, lo, c) \o <<d[c + 1]>>
        BY <3>2, SubSeqGrows
      <3> QED BY <3>1, <3>3
    <2>4. Between(a, b) = Piece(IF a = 1 THEN <<4>> ELSE <<>>, SubSeq(d, lo, b - 1), <<>>)
      BY <1>3, <1>9, <2>1
    <2>5. Between(a, b + 1) = Piece(IF a = 1 THEN <<4>> ELSE <<>>, SubSeq(d, lo, b), <<>>)
      BY <1>4, <1>9, <2>1
    <2>6. PICK x, ls : x = SubSeq(d, lo, b - 1) /\ ls = IF a = 1 THEN <<4>> ELSE <<>>
      OBVIOUS
    <2>7. Merge(Piece(ls, x, <<>>), Piece(<<>>, <<d[b]>>, <<>>))
             = Piece(ls \o <<>>, x \o <<d[b]>>, <<>> \o <<>>)
      BY DEF Merge, Piece
    <2>8. ls \o <<>> = ls
      BY <1>6, <2>6
    <2> QED BY <1>6, <2>2, <2>3, <2>4, <2>5, <2>6, <2>7, <2>8
  <1>10. CASE b = 5
    <2>1. Entries(b) = 4 /\ Entries(b + 1) = 4
      BY <1>10 DEF Entries
    <2>2. OwnPieces[b + 1] = Piece(<<>>, <<>>, <<"own">>)
      BY <1>10 DEF OwnPieces
    <2>3. Between(a, b) = Piece(IF a = 1 THEN <<4>> ELSE <<>>, SubSeq(d, lo, 4), <<>>)
      BY <1>3, <1>10, <2>1
    <2>4. Between(a, b + 1) = Piece(IF a = 1 THEN <<4>> ELSE <<>>, SubSeq(d, lo, 4), <<"own">>)
      BY <1>4, <1>10, <2>1
    <2>5. PICK x, ls : x = SubSeq(d, lo, 4) /\ ls = IF a = 1 THEN <<4>> ELSE <<>>
      OBVIOUS
    <2>6. Merge(Piece(ls, x, <<>>), Piece(<<>>, <<>>, <<"own">>))
             = Piece(ls \o <<>>, x \o <<>>, <<>> \o <<"own">>)
      BY DEF Merge, Piece
    <2>7. ls \o <<>> = ls /\ x \o <<>> = x
      BY <1>6, <1>7, <2>1, <2>5
    <2> QED BY <1>6, <2>2, <2>3, <2>4, <2>5, <2>6, <2>7
  <1> QED BY <1>8, <1>9, <1>10

\* Pieces in a row, merged.
LEMMA SumIsBetween ==
    ASSUME WiphyType, NEW a \in 1..6, NEW b \in 1..6, a <= b
    PROVE  SumOf(SubSeq(OwnPieces, a, b)) = Between(a, b)
  <1>1. PICK ps \in Seq(PieceType) : ps = OwnPieces /\ Len(ps) = 6
    BY OwnPiecesType
  <1> DEFINE T == {k \in Nat : a - 1 + k <= 6 =>
                      SumOf(SubSeq(ps, a, a - 1 + k)) = Between(a, a - 1 + k)}
  <1>2. 0 \in T
    <2>1. PICK c \in 0..5 : c = a - 1
      OBVIOUS
    <2>2. SubSeq(ps, a, c) = <<>>
      BY <1>1, <2>1
    <2>3. SumOf(<<>>) = Empty
      BY EmptyType, MergeGrows, <1>1
    <2>4. Between(a, c) = Empty
      <3>1. PICK d \in Seq(EntryType) : d = Described /\ Len(d) = 4
        BY DescribedType
      <3>2. Entries(c) \in 0..4 /\ a - 1 = c
        BY <2>1 DEF Entries
      <3>3. SubSeq(d, Entries(c) + 1, Entries(c)) = <<>>
        BY <3>1, <3>2
      <3>4. ~(a = 1 /\ c >= 1) /\ c # 6
        BY <2>1
      <3> QED BY <3>1, <3>2, <3>3, <3>4 DEF Between, Empty
    <2>5. a - 1 + 0 = c
      BY <2>1
    <2> QED BY <2>2, <2>3, <2>4, <2>5
  <1>3. ASSUME NEW k \in T PROVE k + 1 \in T
    <2>0. k \in Nat /\ k + 1 \in Nat
      OBVIOUS
    <2> SUFFICES ASSUME a - 1 + (k + 1) <= 6
                 PROVE  SumOf(SubSeq(ps, a, a - 1 + (k + 1))) = Between(a, a - 1 + (k + 1))
      BY <2>0
    <2>1. PICK c \in 0..5 : c = a - 1 + k
      BY <2>0
    <2>2. a - 1 + (k + 1) = c + 1 /\ a <= c + 1 /\ a \in Nat /\ c \in Nat /\ 1 <= a
      BY <2>0, <2>1
    <2>3. SumOf(SubSeq(ps, a, c)) = Between(a, c)
      BY <2>0, <2>1
    <2>4. /\ SubSeq(ps, a, c) \in Seq(PieceType)
          /\ SubSeq(ps, a, c + 1) = Append(SubSeq(ps, a, c), ps[c + 1])
      <3>1. c + 1 <= Len(ps)
        BY <1>1
      <3> QED BY <2>2, <3>1, SubSeqGrows
    <2>5. ps[c + 1] \in PieceType
      <3>1. c + 1 \in 1..Len(ps)
        BY <1>1
      <3> QED BY <3>1
    <2>6. SumOf(Append(SubSeq(ps, a, c), ps[c + 1])) = Merge(SumOf(SubSeq(ps, a, c)), ps[c + 1])
      BY <2>4, <2>5, MergeGrows
    <2>7. Merge(Between(a, c), ps[c + 1]) = Between(a, c + 1)
      BY <1>1, <2>2, BetweenGrows
    <2> QED BY <2>2, <2>3, <2>4, <2>6, <2>7
  <1>4. \A k \in Nat : k \in T
    <2> HIDE DEF T
    <2>1. T \subseteq Nat
      BY DEF T
    <2>2. \A k \in T : k + 1 \in T
      BY <1>3
    <2> QED BY <1>2, <2>1, <2>2, SetInduction
  <1>5. PICK k \in Nat : a - 1 + k = b
    <2>1. b - a + 1 \in Nat /\ a - 1 + (b - a + 1) = b
      OBVIOUS
    <2> QED BY <2>1
  <1>6. k \in T
    BY <1>4
  <1> QED BY <1>1, <1>5, <1>6

-----------------------------------------------------------------------------
(***************************************************************************)
(* Requests                                                                *)
(***************************************************************************)

FirstOf == order[1]
LastOf == order[Len(order)]

\* The wiphys of a dump.
LEMMA OrderIs ==
    ASSUME WiphyType
    PROVE  /\ split => /\ order = <<FirstOf, LastOf>>
                       /\ \/ FirstOf = "own" /\ LastOf = "other"
                          \/ FirstOf = "other" /\ LastOf = "own"
           /\ ~split => order = <<"own">> /\ FirstOf = "own" /\ LastOf = "own"
  <1>1. ASSUME split
        PROVE  /\ order = <<FirstOf, LastOf>>
               /\ \/ FirstOf = "own" /\ LastOf = "other"
                  \/ FirstOf = "other" /\ LastOf = "own"
    <2>1. order = <<"own", "other">> \/ order = <<"other", "own">>
      BY <1>1 DEF WiphyType
    <2>2. Len(order) = 2
      BY <2>1
    <2>3. FirstOf = order[1] /\ LastOf = order[2]
      BY <2>2 DEF FirstOf, LastOf
    <2> QED BY <2>1, <2>3
  <1>2. ASSUME ~split
        PROVE  order = <<"own">> /\ FirstOf = "own" /\ LastOf = "own"
    <2>1. order = <<"own">>
      BY <1>2 DEF WiphyType
    <2>2. Len(order) = 1
      BY <2>1
    <2>3. FirstOf = order[1] /\ LastOf = order[1]
      BY <2>2 DEF FirstOf, LastOf
    <2> QED BY <2>1, <2>3
  <1> QED BY <1>1, <1>2

\* One or more dumps.
LinkedFrom(steps) ==
    /\ steps \in Seq(Wiphys \X Nat)
    /\ steps # <<>>
    /\ steps[1] = <<FirstOf, 1>>
    /\ Linked(steps)

\* Two dumps in a row are linked if each is.
LEMMA LinkedJoin ==
    ASSUME WiphyType, NEW x, LinkedFrom(x), NEW y, LinkedFrom(y)
    PROVE  LinkedFrom(x \o y)
  <1>1. /\ x \in Seq(Wiphys \X Nat) /\ y \in Seq(Wiphys \X Nat)
        /\ x # <<>> /\ y # <<>> /\ x[1] = <<FirstOf, 1>> /\ y[1] = <<FirstOf, 1>>
    BY DEF LinkedFrom
  <1>2. PICK z \in Seq(Wiphys \X Nat) : z = x \o y
    <2>1. x \o y \in Seq(Wiphys \X Nat)
      BY <1>1
    <2> QED BY <2>1
  <1>3. /\ Len(z) = Len(x) + Len(y) /\ Len(x) \in Nat \ {0} /\ Len(y) \in Nat \ {0}
        /\ \A i \in 1..Len(x) : z[i] = x[i]
        /\ \A i \in (Len(x) + 1)..(Len(x) + Len(y)) : z[i] = y[i - Len(x)]
    BY <1>1, <1>2
  <1>4. z # <<>> /\ z[1] = <<FirstOf, 1>>
    <2>1. 1 \in 1..Len(x) /\ Len(z) # 0
      BY <1>3
    <2>2. z[1] = x[1]
      BY <1>3, <2>1
    <2> QED BY <1>1, <2>1, <2>2
  <1>5. x[Len(x)] = <<LastOf, Count(LastOf)>> /\ y[Len(y)] = <<LastOf, Count(LastOf)>>
    BY <1>1 DEF LinkedFrom, Linked, LastOf
  <1>6. Follower(x[Len(x)]) = y[1]
    <2>1. Follower(<<LastOf, Count(LastOf)>>) = <<FirstOf, 1>>
      BY OrderIs DEF Follower, Count
    <2> QED BY <1>1, <1>5, <2>1
  <1>7. ASSUME NEW i \in 1..Len(z)
        PROVE  /\ z[i][1] = "other" => split
               /\ z[i][2] \in 1..Count(z[i][1])
               /\ i < Len(z) => z[i + 1] = Follower(z[i])
    <2>1. CASE i < Len(x)
      <3>1. i \in 1..Len(x) /\ i + 1 \in 1..Len(x)
        BY <1>3, <2>1
      <3>2. z[i] = x[i] /\ z[i + 1] = x[i + 1]
        BY <1>3, <3>1
      <3> QED BY <2>1, <3>1, <3>2 DEF LinkedFrom, Linked
    <2>2. CASE i = Len(x)
      <3>1. z[i] = x[i]
        BY <1>3, <2>2
      <3>2. i + 1 \in (Len(x) + 1)..(Len(x) + Len(y)) /\ (i + 1) - Len(x) = 1
        BY <1>3, <2>2
      <3>3. z[i + 1] = y[1]
        BY <1>3, <3>2
      <3>4. i \in 1..Len(x)
        BY <1>3, <2>2
      <3>5. (x[i][1] = "other" => split) /\ x[i][2] \in 1..Count(x[i][1])
        BY <3>4 DEF LinkedFrom, Linked
      <3> QED BY <1>6, <2>2, <3>1, <3>3, <3>5
    <2>3. CASE i > Len(x)
      <3>1. PICK k \in 1..Len(y) : k = i - Len(x)
        <4>1. i - Len(x) \in 1..Len(y)
          BY <1>3, <2>3, SMTT(30)
        <4> QED BY <4>1
      <3>2. z[i] = y[k]
        <4>1. i \in (Len(x) + 1)..(Len(x) + Len(y))
          BY <1>3, <2>3
        <4> QED BY <1>3, <3>1, <4>1
      <3>3. i < Len(z) => k < Len(y) /\ z[i + 1] = y[k + 1]
        <4> SUFFICES ASSUME i < Len(z) PROVE k < Len(y) /\ z[i + 1] = y[k + 1]
          OBVIOUS
        <4>1. /\ i + 1 \in (Len(x) + 1)..(Len(x) + Len(y))
              /\ (i + 1) - Len(x) = k + 1 /\ k < Len(y)
          <5>1. i - Len(x) = k /\ i < Len(x) + Len(y) /\ Len(x) \in Nat /\ Len(y) \in Nat
            BY <1>3, <3>1
          <5> QED BY <3>1, <5>1
        <4>2. z[i + 1] = y[(i + 1) - Len(x)]
          BY <1>3, <4>1
        <4> QED BY <4>1, <4>2
      <3>4. /\ y[k][1] = "other" => split
            /\ y[k][2] \in 1..Count(y[k][1])
            /\ k < Len(y) => y[k + 1] = Follower(y[k])
        BY DEF LinkedFrom, Linked
      <3> QED BY <3>2, <3>3, <3>4
    <2> QED BY <1>3, <2>1, <2>2, <2>3
  <1>8. z[Len(z)] = <<LastOf, Count(LastOf)>>
    <2>1. Len(z) \in (Len(x) + 1)..(Len(x) + Len(y)) /\ Len(z) - Len(x) = Len(y)
      BY <1>3
    <2>2. z[Len(z)] = y[Len(y)]
      BY <1>3, <2>1
    <2> QED BY <1>5, <2>2
  <1>9. Linked(z)
    BY <1>7, <1>8 DEF Linked, LastOf
  <1> QED BY <1>2, <1>4, <1>9 DEF LinkedFrom

\* The steps of one description.
StepsOf(w) == [k \in 1..Count(w) |-> <<w, k>>]

\* The steps of one dump.
LEMMA StepsType ==
    ASSUME WiphyType, NEW w \in Wiphys
    PROVE  /\ StepsOf(w) \in Seq(Wiphys \X Nat)
           /\ Len(StepsOf(w)) = Count(w) /\ Count(w) \in Nat \ {0}
           /\ \A k \in 1..Count(w) : StepsOf(w)[k] = <<w, k>>
           /\ DOMAIN Pieces(w) = 1..Count(w) /\ Len(Pieces(w)) = Count(w)
  <1>1. Count(w) \in Nat \ {0}
    BY DEF Count
  <1>2. /\ StepsOf(w) \in Seq(Wiphys \X Nat)
        /\ Len(StepsOf(w)) = Count(w)
        /\ \A k \in 1..Count(w) : StepsOf(w)[k] = <<w, k>>
    BY <1>1 DEF StepsOf
  <1>3. DOMAIN Pieces(w) = 1..Count(w) /\ Len(Pieces(w)) = Count(w)
    <2>1. CASE w = "own" /\ split
      <3>1. PICK ps \in Seq(PieceType) : ps = OwnPieces /\ Len(ps) = 6
        BY OwnPiecesType
      <3>2. Pieces(w) = ps /\ Count(w) = 6
        BY <2>1, <3>1, PiecesAre DEF Count
      <3>3. DOMAIN ps = 1..Len(ps)
        OBVIOUS
      <3> QED BY <3>1, <3>2, <3>3
    <2>2. CASE ~(w = "own" /\ split)
      <3>1. PICK p : Pieces(w) = <<p>>
        BY <2>2, PiecesAre DEF Wiphys
      <3>2. Count(w) = 1
        BY <2>2 DEF Count
      <3>3. DOMAIN <<p>> = 1..1 /\ Len(<<p>>) = 1
        OBVIOUS
      <3> QED BY <3>1, <3>2, <3>3
    <2> QED BY <2>1, <2>2
  <1> QED BY <1>1, <1>2, <1>3

\* One dump.
OneDump == FlattenSeq([j \in DOMAIN order |->
                         [k \in DOMAIN Pieces(order[j]) |-> <<order[j], k>>]])

\* They are linked.
LEMMA DumpLinked ==
    ASSUME WiphyType
    PROVE  LinkedFrom(OneDump)
  <1> DEFINE all == [j \in DOMAIN order |->
                         [k \in DOMAIN Pieces(order[j]) |-> <<order[j], k>>]]
  <1>1. CASE ~split
    <2>1. order = <<"own">> /\ FirstOf = "own" /\ LastOf = "own"
      BY <1>1, OrderIs
    <2>2. /\ StepsOf("own") \in Seq(Wiphys \X Nat) /\ Len(StepsOf("own")) = 1
          /\ StepsOf("own")[1] = <<"own", 1>> /\ Count("own") = 1
          /\ DOMAIN Pieces("own") = 1..Count("own")
      BY <1>1, StepsType DEF Wiphys, Count
    <2>3. all = <<StepsOf("own")>>
      BY <2>1, <2>2 DEF StepsOf
    <2>4. OneDump = StepsOf("own")
      <3>1. OneDump = FlattenSeq(all)
        BY DEF OneDump
      <3> HIDE DEF all
      <3>2. FlattenSeq(<<StepsOf("own")>>) = StepsOf("own")
        BY <2>2, FlattenOne
      <3> QED BY <2>3, <3>1, <3>2
    <2>5. PICK z \in Seq(Wiphys \X Nat) : z = OneDump
      BY <2>2, <2>4
    <2>6. Len(z) = 1 /\ z[1] = <<"own", 1>>
      BY <2>2, <2>4, <2>5
    <2>7. Linked(z)
      <3>1. LastOf = "own" /\ Count("own") = 1
        BY <1>1, <2>1 DEF Count
      <3>2. ASSUME NEW i \in 1..Len(z)
            PROVE  z[i] = <<"own", 1>> /\ ~(i < Len(z))
        BY <2>6
      <3> QED BY <2>6, <3>1, <3>2 DEF Linked, LastOf
    <2>8. z # <<>>
      <3>1. ASSUME z = <<>> PROVE Len(z) = 0
        BY <3>1
      <3> QED BY <2>6, <3>1
    <2> QED BY <2>1, <2>5, <2>6, <2>7, <2>8 DEF LinkedFrom
  <1>2. CASE split
    <2>1. PICK v \in Wiphys, w \in Wiphys :
             /\ v = FirstOf /\ w = LastOf /\ order = <<v, w>>
             /\ \/ v = "own" /\ w = "other"
                \/ v = "other" /\ w = "own"
      BY <1>2, OrderIs DEF Wiphys
    <2>2. /\ StepsOf(v) \in Seq(Wiphys \X Nat)
          /\ Len(StepsOf(v)) = Count(v) /\ Count(v) \in Nat \ {0}
          /\ \A k \in 1..Count(v) : StepsOf(v)[k] = <<v, k>>
          /\ DOMAIN Pieces(v) = 1..Count(v)
      BY StepsType
    <2>3. /\ StepsOf(w) \in Seq(Wiphys \X Nat)
          /\ Len(StepsOf(w)) = Count(w) /\ Count(w) \in Nat \ {0}
          /\ \A k \in 1..Count(w) : StepsOf(w)[k] = <<w, k>>
          /\ DOMAIN Pieces(w) = 1..Count(w)
      BY StepsType
    <2>4. all = <<StepsOf(v), StepsOf(w)>>
      <3>1. DOMAIN order = 1..2 /\ order[1] = v /\ order[2] = w
        BY <2>1
      <3>2. all = [i \in 1..2 |-> all[i]]
        BY <3>1
      <3>3. all[1] = StepsOf(v) /\ all[2] = StepsOf(w)
        BY <2>2, <2>3, <3>1 DEF StepsOf
      <3> HIDE DEF all
      <3> QED BY <3>2, <3>3, Pair
    <2>5. OneDump = StepsOf(v) \o StepsOf(w)
      <3>1. OneDump = FlattenSeq(all)
        BY DEF OneDump
      <3> HIDE DEF all
      <3>2. FlattenSeq(<<StepsOf(v), StepsOf(w)>>) = StepsOf(v) \o StepsOf(w)
        BY <2>2, <2>3, FlattenTwo
      <3> QED BY <2>4, <3>1, <3>2
    <2> HIDE DEF all
    <2>6. PICK z \in Seq(Wiphys \X Nat) : z = OneDump
      <3>1. StepsOf(v) \o StepsOf(w) \in Seq(Wiphys \X Nat)
        BY <2>2, <2>3
      <3> QED BY <2>5, <3>1
    <2>7. /\ Len(z) = Count(v) + Count(w)
          /\ \A i \in 1..Count(v) : z[i] = <<v, i>>
          /\ \A i \in (Count(v) + 1)..(Count(v) + Count(w)) : z[i] = <<w, i - Count(v)>>
      BY <2>2, <2>3, <2>5, <2>6
    <2>8. ASSUME NEW i \in 1..Len(z)
          PROVE  /\ z[i][1] = "other" => split
                 /\ z[i][2] \in 1..Count(z[i][1])
                 /\ i < Len(z) => z[i + 1] = Follower(z[i])
      <3>1. CASE i < Count(v)
        <4>1. z[i] = <<v, i>> /\ z[i + 1] = <<v, i + 1>>
          <5>1. i \in 1..Count(v) /\ i + 1 \in 1..Count(v)
            BY <2>2, <3>1
          <5> QED BY <2>7, <5>1
        <4>2. Follower(<<v, i>>) = <<v, i + 1>>
          BY <3>1 DEF Follower
        <4> QED BY <1>2, <3>1, <4>1, <4>2, <2>2
      <3>2. CASE i = Count(v)
        <4>1. z[i] = <<v, i>>
          <5>1. i \in 1..Count(v)
            BY <2>2, <3>2
          <5> QED BY <2>7, <5>1
        <4>2. i + 1 \in (Count(v) + 1)..(Count(v) + Count(w)) /\ (i + 1) - Count(v) = 1
          BY <2>2, <2>3, <3>2
        <4>3. z[i + 1] = <<w, 1>>
          BY <2>7, <4>2
        <4>4. Follower(<<v, Count(v)>>) = <<w, 1>>
          BY <1>2, <2>1, <2>2 DEF Follower
        <4> QED BY <1>2, <2>2, <3>2, <4>1, <4>3, <4>4
      <3>3. CASE i > Count(v)
        <4>0. PICK cv \in Nat \ {0}, cw \in Nat \ {0} :
                 cv = Count(v) /\ cw = Count(w) /\ Len(z) = cv + cw
          BY <2>2, <2>3, <2>7
        <4>1. PICK k \in 1..Count(w) : k = i - Count(v)
          <5>1. i - cv \in 1..cw
            BY <3>3, <4>0
          <5> QED BY <4>0, <5>1
        <4>2. z[i] = <<w, k>>
          <5>1. i \in (cv + 1)..(cv + cw)
            BY <3>3, <4>0
          <5> QED BY <2>7, <4>0, <4>1, <5>1
        <4>3. i < Len(z) => k < Count(w) /\ z[i + 1] = <<w, k + 1>>
          <5> SUFFICES ASSUME i < Len(z) PROVE k < Count(w) /\ z[i + 1] = <<w, k + 1>>
            OBVIOUS
          <5>1. i + 1 \in (cv + 1)..(cv + cw) /\ (i + 1) - cv = k + 1 /\ k < cw
            <6>1. k = i - cv /\ i < cv + cw /\ i \in Nat /\ i > cv
              BY <3>3, <4>0, <4>1
            <6> QED BY <6>1
          <5>2. z[i + 1] = <<w, (i + 1) - cv>>
            BY <2>7, <4>0, <5>1
          <5> QED BY <4>0, <5>1, <5>2
        <4>4. k < Count(w) => Follower(<<w, k>>) = <<w, k + 1>>
          BY DEF Follower
        <4> QED BY <1>2, <4>2, <4>3, <4>4
      <3> QED BY <2>2, <3>1, <3>2, <3>3
    <2>9. /\ z # <<>> /\ z[1] = <<FirstOf, 1>> /\ z[Len(z)] = <<LastOf, Count(LastOf)>>
      <3>1. z # <<>> /\ z[1] = <<v, 1>>
        BY <2>2, <2>3, <2>7
      <3>2. Len(z) \in (Count(v) + 1)..(Count(v) + Count(w)) /\ Len(z) - Count(v) = Count(w)
        BY <2>2, <2>3, <2>7
      <3>3. z[Len(z)] = <<w, Count(w)>>
        BY <2>7, <3>2
      <3> QED BY <2>1, <3>1, <3>3
    <2>10. Linked(z)
      BY <2>8, <2>9 DEF Linked, LastOf
    <2> QED BY <2>6, <2>9, <2>10 DEF LinkedFrom
  <1> QED BY <1>1, <1>2

\* Any number of dumps.
LEMMA CopiesLinked ==
    ASSUME WiphyType
    PROVE  \A n \in Nat \ {0} : LinkedFrom(FlattenSeq([i \in 1..n |-> OneDump]))
  <1> DEFINE many(n) == [i \in 1..n |-> OneDump]
             T == {n \in Nat : LinkedFrom(FlattenSeq(many(n + 1)))}
  <1>1. LinkedFrom(OneDump)
    BY DumpLinked
  <1>2. OneDump \in Seq(Wiphys \X Nat)
    BY <1>1 DEF LinkedFrom
  <1>3. 0 \in T
    <2>1. many(0 + 1) = <<OneDump>>
      OBVIOUS
    <2>2. FlattenSeq(<<OneDump>>) = OneDump
      BY <1>2, FlattenOne
    <2> HIDE DEF many
    <2>3. LinkedFrom(FlattenSeq(many(0 + 1)))
      BY <1>1, <2>1, <2>2
    <2> QED BY <2>3
  <1>4. ASSUME NEW n \in T PROVE n + 1 \in T
    <2>1. n \in Nat
      OBVIOUS
    <2>2. PICK m \in Nat : m = n + 1
      BY <2>1
    <2>3. many(m) \in Seq(Seq(Wiphys \X Nat))
      BY <1>2
    <2>4. many(m + 1) = Append(many(m), OneDump)
      BY <1>2
    <2>5. LinkedFrom(FlattenSeq(many(m)))
      BY <2>2
    <2> HIDE DEF many
    <2>6. FlattenSeq(Append(many(m), OneDump)) = FlattenSeq(many(m)) \o OneDump
      BY <1>2, <2>3, FlattenGrows
    <2>7. LinkedFrom(FlattenSeq(many(m + 1)))
      BY <1>1, <2>4, <2>5, <2>6, LinkedJoin
    <2> QED BY <2>1, <2>2, <2>7
  <1> HIDE DEF many
  <1>5. \A n \in Nat : n \in T
    <2> HIDE DEF T
    <2>1. T \subseteq Nat
      BY DEF T
    <2>2. \A n \in T : n + 1 \in T
      BY <1>4
    <2> QED BY <1>3, <2>1, <2>2, SetInduction
  <1>6. ASSUME NEW n \in Nat \ {0} PROVE LinkedFrom(FlattenSeq(many(n)))
    <2>1. PICK m \in Nat : n = m + 1
      <3>1. n - 1 \in Nat /\ n = (n - 1) + 1
        OBVIOUS
      <3> QED BY <3>1
    <2>2. m \in T
      BY <1>5
    <2> QED BY <2>1, <2>2
  <1> QED BY <1>6 DEF many

-----------------------------------------------------------------------------
(***************************************************************************)
(* The kernel's replies                                                    *)
(***************************************************************************)

\* The rest of a description lies ahead.
LEMMA Ahead ==
    ASSUME WiphyType, Linked(todo), todo # <<>>,
           NEW w, NEW a \in Nat, todo[1] = <<w, a>>
    PROVE  \A i \in 0..(Count(w) - a) : i + 1 <= Len(todo) /\ todo[i + 1] = <<w, a + i>>
  <1> DEFINE T == {i \in Nat : i <= Count(w) - a =>
                      i + 1 <= Len(todo) /\ todo[i + 1] = <<w, a + i>>}
  <1>1. todo \in Seq(Wiphys \X Nat) /\ Len(todo) \in Nat \ {0}
    BY DEF WiphyType
  <1>2. Count(w) \in Nat
    BY DEF Count
  <1>3. todo[Len(todo)] = <<LastOf, Count(LastOf)>>
    BY DEF Linked, LastOf
  <1>4. 0 \in T
    BY <1>1
  <1>5. ASSUME NEW i \in T PROVE i + 1 \in T
    <2>0. i \in Nat
      OBVIOUS
    <2> SUFFICES ASSUME i + 1 <= Count(w) - a
                 PROVE  (i + 1) + 1 <= Len(todo) /\ todo[(i + 1) + 1] = <<w, a + (i + 1)>>
      BY <2>0
    <2>1. i + 1 <= Len(todo) /\ todo[i + 1] = <<w, a + i>> /\ a + i < Count(w)
      BY <1>2, <2>0
    <2>2. i + 1 < Len(todo)
      <3>1. ASSUME i + 1 = Len(todo) PROVE FALSE
        BY <1>3, <2>0, <2>1, <3>1
      <3> QED BY <1>1, <2>0, <2>1, <3>1
    <2>3. i + 1 \in 1..Len(todo)
      BY <1>1, <2>0, <2>1
    <2>4. todo[(i + 1) + 1] = Follower(<<w, a + i>>)
      BY <2>1, <2>2, <2>3 DEF Linked
    <2>5. Follower(<<w, a + i>>) = <<w, (a + i) + 1>>
      BY <2>1 DEF Follower
    <2>6. (a + i) + 1 = a + (i + 1)
      BY <2>0
    <2> QED BY <1>1, <2>0, <2>2, <2>4, <2>5, <2>6
  <1>6. \A i \in Nat : i \in T
    <2> HIDE DEF T
    <2>1. T \subseteq Nat
      BY DEF T
    <2>2. \A i \in T : i + 1 \in T
      BY <1>5
    <2> QED BY <1>4, <2>1, <2>2, SetInduction
  <1> QED BY <1>6

\* The lesser of two numbers.
LEMMA SmallerOf ==
    ASSUME NEW a \in Nat, NEW b \in Nat
    PROVE  Min({a, b}) = IF a <= b THEN a ELSE b
  <1>1. \A x \in {a, b} : (\A y \in {a, b} : x =< y) <=> (x = IF a <= b THEN a ELSE b)
    OBVIOUS
  <1>2. (IF a <= b THEN a ELSE b) \in {a, b}
    OBVIOUS
  <1> QED BY <1>1, <1>2 DEF Min

\* What a reply takes of the steps, n of a description w from its piece a on,
\* and what it leaves.
Takes(w, a, n) ==
    /\ todo # <<>> /\ todo[1] = <<w, a>> /\ w \in Wiphys
    /\ a \in 1..Count(w) /\ n \in 1..(Count(w) - a + 1)
    /\ n <= Len(todo)
    /\ todo' = SubSeq(todo, n + 1, Len(todo))
    /\ todo' \in Seq(Wiphys \X Nat) /\ Len(todo') = Len(todo) - n
    /\ Linked(todo')
    /\ a + n - 1 < Count(w) => todo' # <<>> /\ todo'[1] = <<w, a + n>>
    /\ a + n - 1 = Count(w) /\ todo' # <<>> => todo'[1] = Follower(<<w, Count(w)>>)
    /\ response' = Append(response,
           [wiphy |-> w, attrs |-> SumOf(SubSeq(Pieces(w), a, a + n - 1))])

\* What a message of the kernel takes.
LEMMA ReplyTakes ==
    ASSUME WiphyType, Linked(todo), KernelReplies
    PROVE  \E w \in Wiphys, a, n \in Nat : Takes(w, a, n)
  <1> DEFINE w == Head(todo)[1]
             a == Head(todo)[2]
             n == Min({chunk, Len(Pieces(w)) - a + 1})
  <1>1. todo \in Seq(Wiphys \X Nat) /\ todo # <<>> /\ Len(todo) \in Nat \ {0}
    BY DEF WiphyType, KernelReplies
  <1>2. Head(todo) = todo[1] /\ todo[1] \in Wiphys \X Nat
    BY <1>1
  <1>3. w \in Wiphys /\ a \in Nat /\ todo[1] = <<w, a>>
    BY <1>2
  <1>4. /\ response' = Append(response,
               [wiphy |-> w, attrs |-> SumOf(SubSeq(Pieces(w), a, a + n - 1))])
        /\ todo' = SubSeq(todo, n + 1, Len(todo))
    BY DEF KernelReplies, SumOf
  <1>5. Len(Pieces(w)) = Count(w) /\ Count(w) \in Nat \ {0}
    BY <1>3, StepsType
  <1>6. a \in 1..Count(w)
    <2>1. 1 \in 1..Len(todo)
      BY <1>1
    <2>2. todo[1][2] \in 1..Count(todo[1][1])
      BY <2>1 DEF Linked
    <2> QED BY <1>2, <2>2
  <1>7. n \in 1..(Count(w) - a + 1)
    <2>1. PICK c \in Nat \ {0} : c = chunk
      BY DEF WiphyType
    <2>2. PICK b \in Nat \ {0} : b = Count(w) - a + 1
      BY <1>5, <1>6
    <2>3. n = IF c <= b THEN c ELSE b
      BY <1>5, <2>1, <2>2, SmallerOf
    <2> HIDE DEF n
    <2> QED BY <2>1, <2>2, <2>3
  <1> HIDE DEF w, a, n
  <1>8. \A i \in 0..(Count(w) - a) : i + 1 <= Len(todo) /\ todo[i + 1] = <<w, a + i>>
    BY <1>1, <1>3, Ahead
  <1>9. n <= Len(todo) /\ todo[n] = <<w, a + n - 1>> /\ n \in Nat \ {0}
    <2>1. PICK i \in 0..(Count(w) - a) : i + 1 = n /\ a + i = a + n - 1
      <3>1. n - 1 \in 0..(Count(w) - a) /\ (n - 1) + 1 = n /\ a + (n - 1) = a + n - 1
        BY <1>3, <1>5, <1>6, <1>7
      <3> QED BY <3>1
    <2>2. n \in Nat \ {0}
      BY <1>3, <1>5, <1>6, <1>7
    <2> QED BY <1>8, <2>1, <2>2
  <1>10. PICK t \in Seq(Wiphys \X Nat) :
            /\ t = todo' /\ Len(t) = Len(todo) - n
            /\ \A i \in 1..(Len(todo) - n) : t[i] = todo[n + i]
    <2>1. PICK m \in Nat : m = n + 1 /\ 1 <= m
      BY <1>9
    <2>2. Len(todo) \in Nat /\ Len(todo) <= Len(todo)
      BY <1>1
    <2>3. /\ SubSeq(todo, m, Len(todo)) \in Seq(Wiphys \X Nat)
          /\ Len(SubSeq(todo, m, Len(todo))) =
                IF m <= Len(todo) THEN Len(todo) - m + 1 ELSE 0
      BY <1>1, <2>1, <2>2, SubSeqType
    <2>4. Len(SubSeq(todo, m, Len(todo))) = Len(todo) - n
      BY <1>1, <1>9, <2>1, <2>3
    <2>5. \A i \in 1..(Len(todo) - n) : SubSeq(todo, m, Len(todo))[i] = todo[n + i]
      BY <1>1, <1>9, <2>1
    <2> QED BY <1>4, <2>1, <2>3, <2>4, <2>5
  <1>11. Linked(t)
    <2>1. ASSUME NEW i \in 1..Len(t)
          PROVE  /\ t[i][1] = "other" => split
                 /\ t[i][2] \in 1..Count(t[i][1])
                 /\ i < Len(t) => t[i + 1] = Follower(t[i])
      <3>1. PICK k \in 1..Len(todo) : k = n + i
        BY <1>1, <1>9, <1>10
      <3>2. t[i] = todo[k]
        BY <1>10, <3>1
      <3>3. i < Len(t) => k < Len(todo) /\ t[i + 1] = todo[k + 1]
        <4> SUFFICES ASSUME i < Len(t) PROVE k < Len(todo) /\ t[i + 1] = todo[k + 1]
          OBVIOUS
        <4>1. i + 1 \in 1..(Len(todo) - n) /\ n + (i + 1) = k + 1 /\ k < Len(todo)
          <5>1. /\ i \in Nat /\ 1 <= i /\ i < Len(todo) - n /\ k = n + i
                /\ n \in Nat /\ Len(todo) \in Nat
            BY <1>1, <1>9, <1>10, <3>1
          <5> QED BY <5>1
        <4>2. t[i + 1] = todo[n + (i + 1)]
          BY <1>10, <4>1
        <4> QED BY <4>1, <4>2
      <3>4. /\ todo[k][1] = "other" => split
            /\ todo[k][2] \in 1..Count(todo[k][1])
            /\ k < Len(todo) => todo[k + 1] = Follower(todo[k])
        BY DEF Linked
      <3> QED BY <3>2, <3>3, <3>4
    <2>2. ASSUME t # <<>> PROVE t[Len(t)] = <<LastOf, Count(LastOf)>>
      <3>1. Len(t) \in 1..(Len(todo) - n) /\ n + Len(t) = Len(todo)
        BY <1>1, <1>9, <1>10, <2>2
      <3>2. t[Len(t)] = todo[n + Len(t)]
        BY <1>10, <3>1
      <3>3. todo[Len(todo)] = <<LastOf, Count(LastOf)>>
        BY <1>1 DEF Linked, LastOf
      <3> QED BY <3>1, <3>2, <3>3
    <2> QED BY <2>1, <2>2 DEF Linked, LastOf
  <1>12. ASSUME t # <<>> PROVE t[1] = Follower(<<w, a + n - 1>>)
    <2>1. 1 \in 1..(Len(todo) - n) /\ n < Len(todo) /\ n \in 1..Len(todo)
      BY <1>1, <1>9, <1>10, <1>12
    <2>2. t[1] = todo[n + 1]
      BY <1>10, <2>1
    <2>3. todo[n + 1] = Follower(todo[n])
      BY <2>1 DEF Linked
    <2> QED BY <1>9, <2>2, <2>3
  <1>13. ASSUME a + n - 1 < Count(w) PROVE t # <<>> /\ t[1] = <<w, a + n>>
    <2>1. n \in 0..(Count(w) - a)
      BY <1>3, <1>5, <1>6, <1>9, <1>13
    <2>2. n + 1 <= Len(todo)
      BY <1>8, <2>1
    <2>3. t # <<>>
      BY <1>1, <1>9, <1>10, <2>2
    <2>4. Follower(<<w, a + n - 1>>) = <<w, (a + n - 1) + 1>> /\ (a + n - 1) + 1 = a + n
      BY <1>3, <1>9, <1>13 DEF Follower
    <2> QED BY <1>12, <2>3, <2>4
  <1>14. Takes(w, a, n)
    BY <1>1, <1>3, <1>4, <1>6, <1>7, <1>9, <1>10, <1>11, <1>12, <1>13 DEF Takes
  <1> QED BY <1>3, <1>9, <1>14

\* A reply is a message.
LEMMA ReplyType ==
    ASSUME WiphyType, NEW w \in Wiphys, NEW a \in 1..Count(w),
           NEW n \in 1..(Count(w) - a + 1)
    PROVE  SumOf(SubSeq(Pieces(w), a, a + n - 1)) =
               IF w = "own" /\ split THEN Between(a, a + n - 1) ELSE Whole(w)
  <1>0. Count(w) \in Nat \ {0}
    BY DEF Count
  <1>1. CASE w = "own" /\ split
    <2>1. Count(w) = 6
      BY <1>1 DEF Count
    <2>2. PICK b \in 1..6 : b = a + n - 1 /\ a <= b /\ a \in 1..6
      <3>1. a \in 1..6 /\ n \in 1..(6 - a + 1)
        BY <2>1
      <3>2. a + n - 1 \in 1..6 /\ a <= a + n - 1
        BY <3>1
      <3> QED BY <3>1, <3>2
    <2>3. Pieces(w) = OwnPieces
      BY <1>1, PiecesAre
    <2>4. SumOf(SubSeq(OwnPieces, a, b)) = Between(a, b)
      BY <2>2, SumIsBetween
    <2> QED BY <1>1, <2>2, <2>3, <2>4
  <1>2. CASE ~(w = "own" /\ split)
    <2>1. Count(w) = 1
      BY <1>2 DEF Count
    <2>2. a = 1 /\ n = 1
      BY <2>1
    <2>3. Pieces(w) = <<Whole(w)>>
      BY <1>2, PiecesAre DEF Wiphys
    <2>4. PICK p \in PieceType : p = Whole(w)
      BY WholeIs
    <2>5. SubSeq(<<p>>, 1, 1) = <<p>>
      <3>1. PICK s \in Seq(PieceType) : s = <<p>> /\ Len(s) = 1
        <4>1. <<p>> \in Seq(PieceType) /\ Len(<<p>>) = 1
          OBVIOUS
        <4> QED BY <4>1
      <3>2. SubSeq(s, 1, 1) = s
        <4>1. SubSeq(s, 1, 1) \in Seq(PieceType) /\ Len(SubSeq(s, 1, 1)) = 1
          BY <3>1, SubSeqType
        <4>2. SubSeq(s, 1, 1)[1] = s[1]
          BY <3>1
        <4>3. PICK u \in Seq(PieceType) : u = SubSeq(s, 1, 1)
          BY <4>1
        <4>4. Len(u) = Len(s) /\ \A i \in 1..Len(s) : u[i] = s[i]
          BY <3>1, <4>1, <4>2, <4>3
        <4>5. u = s
          BY <4>4
        <4> QED BY <4>3, <4>5
      <3> QED BY <3>1, <3>2
    <2>6. <<p>> = Append(<<>>, p) /\ <<>> \in Seq(PieceType)
      OBVIOUS
    <2>7. SumOf(Append(<<>>, p)) = Merge(SumOf(<<>>), p) /\ SumOf(<<>>) = Empty
      BY <2>6, MergeGrows
    <2>8. Merge(Empty, p) = p
      <3>1. /\ p.limits \in Seq({4, 9}) /\ p.bands \in Seq(EntryType)
            /\ p.features \in Seq(Wiphys) /\ p = Piece(p.limits, p.bands, p.features)
        BY DEF PieceType, Piece
      <3>2. <<>> \o p.limits = p.limits /\ <<>> \o p.bands = p.bands
            /\ <<>> \o p.features = p.features
        BY <3>1
      <3>3. Merge(Empty, p) =
               Piece(<<>> \o p.limits, <<>> \o p.bands, <<>> \o p.features)
        BY DEF Merge, Empty, Piece
      <3> QED BY <3>1, <3>2, <3>3
    <2>9. a + n - 1 = 1
      BY <2>2
    <2> QED BY <1>2, <2>2, <2>3, <2>4, <2>5, <2>6, <2>7, <2>8, <2>9
  <1> QED BY <1>1, <1>2

\* The parts of pieces in a row.
LEMMA BetweenIs ==
    ASSUME WiphyType, NEW a \in 1..6, NEW b \in 1..6, a <= b
    PROVE  /\ Between(a, b) \in PieceType
           /\ Between(a, b).limits = IF a = 1 THEN <<4>> ELSE <<>>
           /\ Between(a, b).features = IF b = 6 THEN <<"own">> ELSE <<>>
           /\ Between(a, b).bands = SubSeq(Described, Entries(a - 1) + 1, Entries(b))
           /\ Len(Between(a, b).bands) = Entries(b) - Entries(a - 1)
  <1>1. PICK d \in Seq(EntryType) : d = Described /\ Len(d) = 4
    BY DescribedType
  <1>2. PICK e \in 0..4, f \in 0..4 : e = Entries(a - 1) /\ f = Entries(b) /\ e <= f
    BY DEF Entries
  <1>3. /\ SubSeq(d, e + 1, f) \in Seq(EntryType)
        /\ Len(SubSeq(d, e + 1, f)) = f - e
    <2>1. e + 1 \in Nat /\ f \in Nat /\ 1 <= e + 1 /\ f <= Len(d)
      BY <1>1, <1>2
    <2>2. /\ SubSeq(d, e + 1, f) \in Seq(EntryType)
          /\ Len(SubSeq(d, e + 1, f)) = IF e + 1 <= f THEN f - (e + 1) + 1 ELSE 0
      BY <2>1, SubSeqType
    <2> QED BY <1>2, <2>2
  <1>4. PICK x : x = SubSeq(d, e + 1, f)
    OBVIOUS
  <1>5. Between(a, b) = Piece(IF a = 1 THEN <<4>> ELSE <<>>, x,
                              IF b = 6 THEN <<"own">> ELSE <<>>)
    BY <1>1, <1>2, <1>4 DEF Between
  <1>6. /\ (IF a = 1 THEN <<4>> ELSE <<>>) \in Seq({4, 9})
        /\ (IF b = 6 THEN <<"own">> ELSE <<>>) \in Seq(Wiphys)
    <2>1. <<4>> \in Seq({4, 9}) /\ <<>> \in Seq({4, 9})
      OBVIOUS
    <2>2. <<"own">> \in Seq(Wiphys) /\ <<>> \in Seq(Wiphys)
      BY DEF Wiphys
    <2> QED BY <2>1, <2>2
  <1>7. Between(a, b) \in PieceType
    BY <1>3, <1>4, <1>5, <1>6 DEF Piece, PieceType
  <1>8. /\ Between(a, b).limits = IF a = 1 THEN <<4>> ELSE <<>>
        /\ Between(a, b).features = IF b = 6 THEN <<"own">> ELSE <<>>
        /\ Between(a, b).bands = x
    BY <1>5 DEF Piece
  <1> QED BY <1>1, <1>2, <1>3, <1>4, <1>7, <1>8

\* Neighbouring parts of a sequence, joined.
LEMMA SubSeqJoins ==
    ASSUME NEW S, NEW d \in Seq(S), NEW e \in Nat, NEW f \in Nat, e <= f, f <= Len(d)
    PROVE  SubSeq(d, 1, e) \o SubSeq(d, e + 1, f) = SubSeq(d, 1, f)
  <1>1. SubSeq(d, 1, e) \in Seq(S) /\ Len(SubSeq(d, 1, e)) = e
    BY SubSeqType
  <1>2. SubSeq(d, e + 1, f) \in Seq(S) /\ Len(SubSeq(d, e + 1, f)) = f - e
    <2>1. e + 1 \in Nat /\ 1 <= e + 1
      OBVIOUS
    <2>2. /\ SubSeq(d, e + 1, f) \in Seq(S)
          /\ Len(SubSeq(d, e + 1, f)) = IF e + 1 <= f THEN f - (e + 1) + 1 ELSE 0
      BY <2>1, SubSeqType
    <2> QED BY <2>2
  <1>3. SubSeq(d, 1, f) \in Seq(S) /\ Len(SubSeq(d, 1, f)) = f
    BY SubSeqType
  <1>4. \A i \in 1..e : SubSeq(d, 1, e)[i] = d[i]
    OBVIOUS
  <1>5. \A i \in 1..(f - e) : SubSeq(d, e + 1, f)[i] = d[e + i]
    OBVIOUS
  <1>6. \A i \in 1..f : SubSeq(d, 1, f)[i] = d[i]
    OBVIOUS
  <1>7. PICK x \in Seq(S), y \in Seq(S), z \in Seq(S) :
           x = SubSeq(d, 1, e) /\ y = SubSeq(d, e + 1, f) /\ z = SubSeq(d, 1, f)
    BY <1>1, <1>2, <1>3
  <1>8. Len(x) = e /\ Len(y) = f - e /\ Len(z) = f
    BY <1>1, <1>2, <1>3, <1>7
  <1>9. PICK u \in Seq(S) : u = x \o y
    <2>1. x \o y \in Seq(S)
      OBVIOUS
    <2> QED BY <2>1
  <1>10. Len(u) = f
    BY <1>8, <1>9
  <1>11. ASSUME NEW i \in 1..f PROVE u[i] = z[i]
    <2>1. CASE i <= e
      BY <1>4, <1>6, <1>7, <1>8, <1>9, <2>1
    <2>2. CASE ~(i <= e)
      <3>1. i - e \in 1..(f - e) /\ e + (i - e) = i
        BY <2>2
      <3>2. u[i] = y[i - e]
        BY <1>8, <1>9, <2>2, <3>1
      <3> QED BY <1>5, <1>6, <1>7, <3>1, <3>2
    <2> QED BY <2>1, <2>2
  <1>12. u = z
    BY <1>8, <1>10, <1>11
  <1> QED BY <1>7, <1>9, <1>12

\* Entries follow on each other.
LEMMA DescribedJoins ==
    ASSUME WiphyType, NEW j \in 0..6, NEW b \in 0..6, j <= b
    PROVE  SubSeq(Described, 1, Entries(j)) \o SubSeq(Described, Entries(j) + 1, Entries(b))
               = SubSeq(Described, 1, Entries(b))
  <1>1. PICK d \in Seq(EntryType) : d = Described /\ Len(d) = 4
    BY DescribedType
  <1>2. PICK e \in 0..4, f \in 0..4 : e = Entries(j) /\ f = Entries(b) /\ e <= f
    BY DEF Entries
  <1>3. SubSeq(d, 1, e) \o SubSeq(d, e + 1, f) = SubSeq(d, 1, f)
    <2>1. e \in Nat /\ f \in Nat /\ f <= Len(d)
      BY <1>1, <1>2
    <2> QED BY <1>2, <2>1, SubSeqJoins
  <1> QED BY <1>1, <1>2, <1>3

\* What the messages of the client's wiphy have after one more message.
LEMMA MergedGrows ==
    ASSUME WiphyType, NEW m \in MessageType, response' = Append(response, m)
    PROVE  /\ MergedOwn \in PieceType
           /\ m.wiphy # "own" => MergedOwn' = MergedOwn
           /\ m.wiphy = "own" =>
                 /\ MergedOwn'.limits = MergedOwn.limits \o m.attrs.limits
                 /\ MergedOwn'.bands = MergedOwn.bands \o m.attrs.bands
                 /\ MergedOwn'.features = MergedOwn.features \o m.attrs.features
  <1>1. response \in Seq(MessageType)
    BY DEF WiphyType
  <1>2. /\ MergedOf(response) \in PieceType
        /\ MergedOf(Append(response, m)) =
              IF m.wiphy = "own" THEN Merge(MergedOf(response), m.attrs)
              ELSE MergedOf(response)
    BY <1>1, OwnGrows
  <1>3. MergedOwn = MergedOf(response) /\ MergedOwn' = MergedOf(Append(response, m))
    BY DEF MergedOwn
  <1>4. \A p, q : /\ Merge(p, q).limits = p.limits \o q.limits
                  /\ Merge(p, q).bands = p.bands \o q.bands
                  /\ Merge(p, q).features = p.features \o q.features
    BY DEF Merge, Piece
  <1> QED BY <1>2, <1>3, <1>4

\* Messages with limits stay.
LEMMA LimitsStay ==
    ASSUME WiphyType, NEW m, response' = Append(response, m)
    PROVE  /\ DOMAIN response' = 1..(Len(response) + 1)
           /\ DOMAIN response = 1..Len(response) /\ Len(response) \in Nat
           /\ \A i \in DOMAIN response : response'[i] = response[i]
           /\ \A i \in DOMAIN response : i \in DOMAIN response' /\ (HasLimits(i) => HasLimits(i)')
           /\ response'[Len(response) + 1] = m
  <1>1. response \in Seq(MessageType)
    BY DEF WiphyType
  <1>2. /\ DOMAIN response' = 1..(Len(response) + 1)
        /\ DOMAIN response = 1..Len(response) /\ Len(response) \in Nat
        /\ \A i \in DOMAIN response : i \in DOMAIN response' /\ response'[i] = response[i]
        /\ response'[Len(response) + 1] = m
    BY <1>1
  <1> QED BY <1>2 DEF HasLimits

\* Two descriptions begun remain so.
LEMMA TwiceStays ==
    ASSUME WiphyType, NEW m \in MessageType, response' = Append(response, m), Twice
    PROVE  Twice'
  <1>1. Len(MergedOwn'.limits) > 1
    <2>1. MergedOwn.limits \in Seq({4, 9}) /\ m.attrs.limits \in Seq({4, 9})
      BY MergedGrows DEF PieceType, MessageType
    <2>2. PICK x \in Seq({4, 9}), y \in Seq({4, 9}) :
             x = MergedOwn.limits /\ y = m.attrs.limits
      BY <2>1
    <2>3. Len(x) > 1 /\ Len(x \o y) > 1
      <3>1. Len(x \o y) = Len(x) + Len(y) /\ Len(x) \in Nat /\ Len(y) \in Nat
        OBVIOUS
      <3>2. Len(x) > 1
        BY <2>2 DEF Twice
      <3> QED BY <3>1, <3>2
    <2>4. CASE m.wiphy = "own"
      <3>1. MergedOwn'.limits = MergedOwn.limits \o m.attrs.limits
        BY <2>4, MergedGrows
      <3> QED BY <2>2, <2>3, <3>1
    <2>5. CASE m.wiphy # "own"
      BY <2>2, <2>3, <2>5, MergedGrows
    <2> QED BY <2>4, <2>5
  <1>2. \E a, b \in DOMAIN response' : a # b /\ HasLimits(a)' /\ HasLimits(b)'
    BY LimitsStay DEF Twice
  <1> QED BY <1>1, <1>2 DEF Twice

\* A message about the other wiphy.
LEMMA OtherReply ==
    ASSUME WiphyType, split, SplitDump, NEW a \in Nat, NEW n \in Nat,
           Takes("other", a, n), UNCHANGED <<kernelVars, split>>,
           NEW m \in MessageType, response' = Append(response, m), m.wiphy = "other"
    PROVE  SplitDump'
  <1>1. Count("other") = 1
    BY DEF Count
  <1>2. a = 1 /\ n = 1
    <2>1. a \in 1..1 /\ n \in 1..(1 - a + 1)
      BY <1>1 DEF Takes
    <2> QED BY <2>1
  <1>3. /\ todo # <<>> /\ todo[1] = <<"other", 1>>
        /\ Len(todo') = Len(todo) - 1 /\ todo' \in Seq(Wiphys \X Nat)
        /\ todo' # <<>> => todo'[1] = Follower(<<"other", 1>>)
    BY <1>1, <1>2 DEF Takes
  <1>4. Follower(<<"other", 1>>) = <<"own", 1>>
    BY <1>1 DEF Follower
  <1>5. MergedOwn' = MergedOwn
    BY MergedGrows
  <1>6. ASSUME NEW j \in 0..6, Once(j) PROVE Once(j)'
    <2>1. j \notin 1..5
      BY <1>3, <1>6 DEF Once
    <2>2. j = 0 => todo' # <<>> /\ todo'[1] = <<"own", 1>>
      <3>1. j = 0 => Len(todo) > 1
        BY <1>3, <1>6 DEF Once
      <3>2. Len(todo) \in Nat
        BY DEF WiphyType
      <3> QED BY <1>3, <1>4, <3>1, <3>2
    <2>3. j = 6 /\ todo' # <<>> => todo'[1][2] = 1
      BY <1>3, <1>4
    <2>4. j # 0 => \E i \in DOMAIN response' : HasLimits(i)'
      BY <1>6, LimitsStay DEF Once
    <2>5. unread' = unread /\ Described' = Described
      BY DEF kernelVars, Described
    <2> QED BY <1>5, <1>6, <2>1, <2>2, <2>3, <2>4, <2>5 DEF Once, Entries
  <1>7. Twice => Twice'
    BY TwiceStays
  <1> QED BY <1>6, <1>7 DEF SplitDump

\* A message about the client's wiphy.
LEMMA OwnReply ==
    ASSUME WiphyType, split, SplitDump, NEW a \in Nat, NEW n \in Nat,
           Takes("own", a, n), UNCHANGED <<kernelVars, split>>,
           NEW m \in MessageType, response' = Append(response, m),
           m.wiphy = "own", m.attrs = Between(a, a + n - 1)
    PROVE  SplitDump'
  <1>1. Count("own") = 6
    BY DEF Count
  <1>2. PICK b \in 1..6 : b = a + n - 1 /\ a <= b /\ a \in 1..6 /\ b + 1 = a + n
    <2>1. a \in 1..6 /\ n \in 1..(6 - a + 1)
      BY <1>1 DEF Takes
    <2>2. a + n - 1 \in 1..6 /\ a <= a + n - 1 /\ (a + n - 1) + 1 = a + n
      BY <2>1
    <2> QED BY <2>1, <2>2
  <1>3. /\ todo # <<>> /\ todo[1] = <<"own", a>>
        /\ b < 6 => todo' # <<>> /\ todo'[1] = <<"own", b + 1>>
        /\ b = 6 /\ todo' # <<>> => todo'[1] = Follower(<<"own", 6>>)
    BY <1>1, <1>2 DEF Takes
  <1>4. Follower(<<"own", 6>>) = <<"other", 1>>
    BY <1>1 DEF Follower
  <1>5. m.attrs = Between(a, b)
    BY <1>2
  <1>6. /\ m.attrs.limits = IF a = 1 THEN <<4>> ELSE <<>>
        /\ m.attrs.features = IF b = 6 THEN <<"own">> ELSE <<>>
        /\ m.attrs.bands = SubSeq(Described, Entries(a - 1) + 1, Entries(b))
        /\ Len(m.attrs.bands) = Entries(b) - Entries(a - 1)
    <2>1. WiphyType /\ a \in 1..6 /\ b \in 1..6 /\ a <= b
      BY <1>2
    <2>2. Between(a, b).limits = IF a = 1 THEN <<4>> ELSE <<>>
      BY <2>1, BetweenIs, ZenonT(30)
    <2>3. Between(a, b).features = IF b = 6 THEN <<"own">> ELSE <<>>
      BY <2>1, BetweenIs, ZenonT(30)
    <2>4. Between(a, b).bands = SubSeq(Described, Entries(a - 1) + 1, Entries(b))
      BY <2>1, BetweenIs
    <2>5. Len(Between(a, b).bands) = Entries(b) - Entries(a - 1)
      BY <2>1, BetweenIs
    <2> QED BY <1>5, <2>2, <2>3, <2>4, <2>5
  <1>0. PICK k \in Nat : k = Len(response) + 1
    BY LimitsStay
  <1>7. /\ MergedOwn \in PieceType
        /\ MergedOwn'.limits = MergedOwn.limits \o m.attrs.limits
        /\ MergedOwn'.bands = MergedOwn.bands \o m.attrs.bands
        /\ MergedOwn'.features = MergedOwn.features \o m.attrs.features
    BY MergedGrows
  <1>8. ASSUME NEW j \in 0..5, Once(j) PROVE Once(b)'
    <2>1. a = j + 1 /\ a - 1 = j
      BY <1>2, <1>3, <1>8 DEF Once
    <2>2. MergedOwn.limits = (IF j = 0 THEN <<>> ELSE <<4>>) /\ MergedOwn.features = <<>>
      BY <1>8 DEF Once
    <2>3. MergedOwn'.limits = <<4>>
      <3>1. j = 0 => a = 1
        BY <2>1
      <3>2. j # 0 => a # 1
        BY <2>1
      <3>3. <<>> \o <<4>> = <<4>> /\ <<4>> \o <<>> = <<4>>
        OBVIOUS
      <3> QED BY <1>6, <1>7, <2>2, <3>1, <3>2, <3>3
    <2>4. MergedOwn'.features = IF b = 6 THEN <<"own">> ELSE <<>>
      <3>1. <<>> \o <<"own">> = <<"own">> /\ <<>> \o <<>> = <<>>
        OBVIOUS
      <3> QED BY <1>6, <1>7, <2>2, <3>1
    <2>5. Len(MergedOwn'.bands) = Entries(b)
      <3>1. MergedOwn.bands \in Seq(EntryType) /\ m.attrs.bands \in Seq(EntryType)
        BY <1>7 DEF PieceType, MessageType
      <3>2. Len(MergedOwn'.bands) = Len(MergedOwn.bands) + Len(m.attrs.bands)
        BY <1>7, <3>1
      <3>3. Len(MergedOwn.bands) = Entries(j)
        BY <1>8 DEF Once
      <3>4. Entries(j) \in Nat /\ Entries(b) \in Nat
        BY DEF Entries
      <3> QED BY <1>6, <2>1, <3>2, <3>3, <3>4
    <2>6. unread' = unread /\ Described' = Described
      BY DEF kernelVars, Described
    <2>7. ~unread' => MergedOwn'.bands = SubSeq(Described', 1, Entries(b))
      <3> SUFFICES ASSUME ~unread PROVE MergedOwn'.bands = SubSeq(Described, 1, Entries(b))
        BY <2>6
      <3>1. MergedOwn.bands = SubSeq(Described, 1, Entries(j))
        BY <1>8 DEF Once
      <3>2. m.attrs.bands = SubSeq(Described, Entries(j) + 1, Entries(b))
        BY <1>6, <2>1
      <3>3. j \in 0..6 /\ b \in 0..6 /\ j <= b
        BY <1>2, <2>1
      <3> QED BY <1>7, <3>1, <3>2, <3>3, DescribedJoins
    <2>8. \E i \in DOMAIN response' : HasLimits(i)'
      <3>1. CASE j = 0
        <4>1. k \in DOMAIN response' /\ response'[k] = m
          BY <1>0, LimitsStay
        <4>2. m.attrs.limits # <<>>
          <5>1. m.attrs.limits = <<4>> /\ <<4>> # <<>>
            BY <1>6, <2>1, <3>1
          <5> QED BY <5>1
        <4> QED BY <4>1, <4>2 DEF HasLimits
      <3>2. CASE j # 0
        BY <1>8, <3>2, LimitsStay DEF Once
      <3> QED BY <3>1, <3>2
    <2>9. b \in 1..5 => todo' # <<>> /\ todo'[1] = <<"own", b + 1>>
      BY <1>3
    <2>10. b = 6 /\ todo' # <<>> => todo'[1][2] = 1
      BY <1>3, <1>4
    <2> QED BY <2>3, <2>4, <2>5, <2>7, <2>8, <2>9, <2>10 DEF Once, Entries
  <1>9. ASSUME Once(6) PROVE Twice'
    <2>1. a = 1
      BY <1>3, <1>9 DEF Once
    <2>2. MergedOwn'.limits = <<4>> \o <<4>>
      BY <1>6, <1>7, <1>9, <2>1 DEF Once
    <2>3. Len(MergedOwn'.limits) > 1
      <3>1. Len(<<4>> \o <<4>>) = 2
        OBVIOUS
      <3> QED BY <2>2, <3>1
    <2>4. PICK i \in DOMAIN response : HasLimits(i)
      BY <1>9 DEF Once
    <2>5. i \in DOMAIN response' /\ HasLimits(i)' /\ i # k
      BY <1>0, <2>4, LimitsStay
    <2>6. k \in DOMAIN response' /\ HasLimits(k)'
      <3>1. k \in DOMAIN response' /\ response'[k] = m
        BY <1>0, LimitsStay
      <3>2. m.attrs.limits # <<>>
        <4>1. m.attrs.limits = <<4>> /\ <<4>> # <<>>
          BY <1>6, <2>1
        <4> QED BY <4>1
      <3> QED BY <3>1, <3>2 DEF HasLimits
    <2> QED BY <2>3, <2>5, <2>6 DEF Twice
  <1>10. Twice => Twice'
    BY TwiceStays
  <1> QED BY <1>2, <1>8, <1>9, <1>10 DEF SplitDump

\* A message of a dump that is not split.
LEMMA PlainReply ==
    ASSUME WiphyType, ~split, PlainDump, UNCHANGED <<kernelVars, split>>,
           NEW m \in MessageType, response' = Append(response, m),
           m.wiphy = "error" \/ (m.wiphy = "own" /\ m.attrs = Whole("own"))
    PROVE  PlainDump'
  <1>1. /\ DOMAIN response' = 1..(Len(response) + 1)
        /\ DOMAIN response = 1..Len(response) /\ Len(response) \in Nat
        /\ \A i \in DOMAIN response : response'[i] = response[i]
        /\ response'[Len(response) + 1] = m
    BY LimitsStay
  <1>2. unread' = unread /\ Whole("own")' = Whole("own")
    BY DEF kernelVars, Whole, ChannelsOf
  <1>3. /\ Len(Whole("own").limits) = 1 /\ Whole("own").limits[1] = 4
        /\ Len(Whole("own").features) = 1
        /\ Whole("own").bands # <<>>
    <2>1. PICK x, y : Whole("own") = Piece(<<4>>, <<x, y>>, <<"own">>)
      BY WholeIs DEF Wiphys, Limits
    <2>2. /\ Whole("own").limits = <<4>> /\ Whole("own").features = <<"own">>
          /\ Whole("own").bands = <<x, y>>
      BY <2>1 DEF Piece
    <2>3. Len(<<4>>) = 1 /\ <<4>>[1] = 4
      OBVIOUS
    <2>4. Len(<<"own">>) = 1
      OBVIOUS
    <2>5. <<x, y>> # <<>>
      OBVIOUS
    <2>6. Len(Whole("own").limits) = 1 /\ Whole("own").limits[1] = 4
      BY <2>2, <2>3
    <2>7. Len(Whole("own").features) = 1
      BY <2>2, <2>4
    <2>8. Whole("own").bands # <<>>
      BY <2>2, <2>5
    <2> QED BY <2>6, <2>7, <2>8
  <1>4. ASSUME NEW i \in DOMAIN response'
        PROVE  /\ response'[i].wiphy # "other"
               /\ response'[i].wiphy = "own" =>
                     /\ Len(response'[i].attrs.limits) = 1
                     /\ response'[i].attrs.limits[1] = 4
                     /\ Len(response'[i].attrs.features) = 1
                     /\ response'[i].attrs.bands # <<>>
                     /\ ~unread' => response'[i].attrs = Whole("own")'
    <2>1. CASE i \in DOMAIN response
      BY <1>1, <1>2, <2>1 DEF PlainDump
    <2>2. CASE i \notin DOMAIN response
      <3>1. i = Len(response) + 1
        BY <1>1, <2>2
      <3>2. response'[i] = m
        BY <1>1, <3>1
      <3> QED BY <1>2, <1>3, <3>2
    <2> QED BY <2>1, <2>2
  <1> QED BY <1>4 DEF PlainDump

\* The kernel's messages keep the invariant.
LEMMA RepliesStep ==
    ASSUME WiphyInv, KernelReplies
    PROVE  WiphyInv'
  <1>1. WiphyType /\ DumpInv /\ ClientInv
    BY DEF WiphyInv
  <1>2. UNCHANGED <<kernelVars, calling, split, clientVars>> /\ todo # <<>>
    BY DEF KernelReplies
  <1>3. calling # "nobody"
    BY <1>1, <1>2 DEF WiphyType
  <1>4. Linked(todo)
    BY <1>1, <1>3 DEF DumpInv
  <1>5. PICK w \in Wiphys, a \in Nat, n \in Nat : Takes(w, a, n)
    BY <1>1, <1>4, ReplyTakes
  <1>6. PICK m : /\ response' = Append(response, m)
                 /\ m = [wiphy |-> w, attrs |-> SumOf(SubSeq(Pieces(w), a, a + n - 1))]
    BY <1>5 DEF Takes
  <1>7. a \in 1..Count(w) /\ n \in 1..(Count(w) - a + 1)
    BY <1>5 DEF Takes
  <1>8. m.wiphy = w /\ m.attrs = IF w = "own" /\ split THEN Between(a, a + n - 1) ELSE Whole(w)
    BY <1>1, <1>6, <1>7, ReplyType
  <1>9. m \in MessageType
    <2>1. m.attrs \in PieceType
      <3>1. CASE w = "own" /\ split
        <4>1. Count(w) = 6
          BY <3>1 DEF Count
        <4>2. PICK b \in 1..6 : b = a + n - 1 /\ a <= b /\ a \in 1..6
          <5>1. a \in 1..6 /\ n \in 1..(6 - a + 1)
            BY <1>7, <4>1
          <5>2. a + n - 1 \in 1..6 /\ a <= a + n - 1
            BY <5>1
          <5> QED BY <5>1, <5>2
        <4>3. Between(a, b) \in PieceType
          BY <1>1, <4>2, BetweenIs
        <4> QED BY <1>8, <3>1, <4>2, <4>3
      <3>2. CASE ~(w = "own" /\ split)
        BY <1>1, <1>8, <3>2, WholeIs
      <3> QED BY <3>1, <3>2
    <2>2. m = [wiphy |-> m.wiphy, attrs |-> m.attrs]
      BY <1>6
    <2> QED BY <1>8, <2>1, <2>2 DEF MessageType
  <1>10. WiphyType'
    <2>1. response' \in Seq(MessageType)
      BY <1>1, <1>6, <1>9 DEF WiphyType
    <2>2. todo' \in Seq(Wiphys \X Nat)
      BY <1>5 DEF Takes
    <2> QED BY <1>1, <1>2, <1>3, <2>1, <2>2 DEF WiphyType, kernelVars, clientVars
  <1>11. DumpInv'
    <2>1. Linked(todo)'
      <3>1. Linked(todo')
        BY <1>5 DEF Takes
      <3> QED BY <1>2, <3>1 DEF Linked, Follower, Count, kernelVars
    <2>2. ASSUME split PROVE SplitDump'
      <3>1. SplitDump
        BY <1>1, <1>3, <2>2 DEF DumpInv, KernelReplies
      <3>2. CASE w = "own"
        BY <1>1, <1>2, <1>5, <1>6, <1>8, <1>9, <2>2, <3>1, <3>2, OwnReply
      <3>3. CASE w = "other"
        BY <1>1, <1>2, <1>5, <1>6, <1>8, <1>9, <2>2, <3>1, <3>3, OtherReply
      <3> QED BY <3>2, <3>3 DEF Wiphys
    <2>3. ASSUME ~split PROVE PlainDump'
      <3>1. PlainDump
        BY <1>1, <1>3, <2>3 DEF DumpInv
      <3>2. w = "own"
        <4>1. 1 \in 1..Len(todo) /\ todo[1] = <<w, a>>
          BY <1>1, <1>2, <1>5 DEF WiphyType, Takes
        <4>2. todo[1][1] = "other" => split
          BY <1>4, <4>1 DEF Linked
        <4> QED BY <2>3, <4>1, <4>2 DEF Wiphys
      <3> QED BY <1>1, <1>2, <1>6, <1>8, <1>9, <2>3, <3>1, <3>2, PlainReply
    <2>4. split' = split /\ split \in BOOLEAN
      BY <1>1, <1>2 DEF WiphyType
    <2> QED BY <2>1, <2>2, <2>3, <2>4 DEF DumpInv
  <1>12. ClientInv'
    <2>1. LimitsOwn'
      BY <1>1, <1>2 DEF ClientInv, LimitsOwn, clientVars, Limits
    <2>2. BandInfoFresh'
      BY <1>2, <1>3 DEF BandInfoFresh
    <2> QED BY <2>1, <2>2 DEF ClientInv
  <1> QED BY <1>10, <1>11, <1>12 DEF WiphyInv

\* So does its refusal.
LEMMA RefusesStep ==
    ASSUME WiphyInv, KernelRefuses
    PROVE  WiphyInv'
  <1>1. WiphyType /\ DumpInv /\ ClientInv
    BY DEF WiphyInv
  <1>2. /\ UNCHANGED <<kernelVars, calling, todo, split, clientVars>> /\ todo # <<>>
        /\ response' = Append(response, [wiphy |-> "error", attrs |-> Empty])
    BY DEF KernelRefuses
  <1>3. calling # "nobody"
    BY <1>1, <1>2 DEF WiphyType
  <1>4. PICK m \in MessageType : m.wiphy = "error" /\ response' = Append(response, m)
    <2>1. [wiphy |-> "error", attrs |-> Empty] \in MessageType
      BY EmptyType DEF MessageType
    <2> QED BY <1>2, <2>1
  <1>5. WiphyType'
    <2>1. response' \in Seq(MessageType)
      BY <1>1, <1>4 DEF WiphyType
    <2> QED BY <1>1, <1>2, <1>3, <2>1 DEF WiphyType, kernelVars, clientVars
  <1>6. DumpInv'
    <2>1. Linked(todo)'
      BY <1>1, <1>2, <1>3 DEF DumpInv, Linked, Follower, Count, kernelVars
    <2>2. Refused'
      <3>1. PICK k \in DOMAIN response' : response'[k] = m
        BY <1>1, <1>4, LimitsStay
      <3> QED BY <1>4, <3>1 DEF Refused, Range
    <2>3. ASSUME ~split PROVE PlainDump'
      <3>1. PlainDump
        BY <1>1, <1>3, <2>3 DEF DumpInv
      <3> QED BY <1>1, <1>2, <1>4, <2>3, <3>1, PlainReply
    <2>4. split' = split /\ split \in BOOLEAN
      BY <1>1, <1>2 DEF WiphyType
    <2> QED BY <2>1, <2>2, <2>3, <2>4 DEF DumpInv
  <1>7. ClientInv'
    <2>1. LimitsOwn'
      BY <1>1, <1>2 DEF ClientInv, LimitsOwn, clientVars, Limits
    <2>2. BandInfoFresh'
      BY <1>2, <1>3 DEF BandInfoFresh
    <2> QED BY <2>1, <2>2 DEF ClientInv
  <1> QED BY <1>5, <1>6, <1>7 DEF WiphyInv

\* A request begins a dump.
LEMMA RequestStep ==
    ASSUME WiphyType, NEW c \in {"constructor", "update"}, Request(c),
           UNCHANGED <<order, chunk, channels, split>>
    PROVE  /\ calling' = c /\ response' = <<>> /\ todo' \in Seq(Wiphys \X Nat)
           /\ DumpInv'
  <1>1. calling' = c /\ response' = <<>>
    BY DEF Request
  <1>2. PICK n \in Nat \ {0} : todo' = FlattenSeq([i \in 1..n |-> OneDump])
    <2>1. PICK n \in 1..MaxCopies : todo' = FlattenSeq([i \in 1..n |-> OneDump])
      BY DEF Request, OneDump
    <2>2. n \in Nat \ {0}
      BY WiphyAssumption
    <2> QED BY <2>1, <2>2
  <1>3. LinkedFrom(todo')
    BY <1>2, CopiesLinked
  <1>4. PICK t \in Seq(Wiphys \X Nat) :
           t = todo' /\ t # <<>> /\ t[1] = <<FirstOf, 1>> /\ Linked(t)
    BY <1>3 DEF LinkedFrom
  <1>5. Linked(todo)'
    BY <1>4 DEF Linked, Follower, Count
  <1>6. ASSUME split PROVE Once(0)'
    <2>1. MergedOwn' = Empty
      <3>1. <<>> \in Seq(MessageType) /\ [wiphy |-> "error", attrs |-> Empty] \in MessageType
        BY EmptyType DEF MessageType
      <3>2. MergedOf(<<>>) = Empty
        BY <3>1, OwnGrows
      <3>3. MergedOwn' = MergedOf(response')
        BY DEF MergedOwn
      <3> QED BY <1>1, <3>2, <3>3
    <2>2. MergedOwn'.limits = <<>> /\ MergedOwn'.bands = <<>> /\ MergedOwn'.features = <<>>
      BY <2>1 DEF Empty, Piece
    <2>3. Entries(0) = 0
      BY DEF Entries
    <2>4. SubSeq(Described', 1, 0) = <<>>
      <3>1. Described' = Described
        BY DEF Described
      <3>2. PICK d \in Seq(EntryType) : d = Described /\ Len(d) = 4
        BY DescribedType
      <3>3. SubSeq(d, 1, 0) = <<>>
        OBVIOUS
      <3> QED BY <3>1, <3>2, <3>3
    <2>5. t[1] # <<"own", 1>> => t[1] = <<"other", 1>> /\ Len(t) > 1
      <3> SUFFICES ASSUME t[1] # <<"own", 1>> PROVE t[1] = <<"other", 1>> /\ Len(t) > 1
        OBVIOUS
      <3>1. FirstOf = "other" /\ LastOf = "own"
        BY <1>4, <1>6, OrderIs
      <3>2. t[Len(t)] = <<"own", Count("own")>>
        BY <1>4, <3>1 DEF Linked, LastOf
      <3>3. Len(t) # 1
        BY <1>4, <3>1, <3>2
      <3>4. Len(t) \in Nat \ {0}
        BY <1>4
      <3>5. Len(t) > 1
        <4>1. \A n0 \in Nat \ {0} : n0 # 1 => n0 > 1
          OBVIOUS
        <4> QED BY <3>3, <3>4, <4>1
      <3>6. t[1] = <<"other", 1>>
        BY <1>4, <3>1
      <3> QED BY <3>5, <3>6
    <2>6. Len(<<>>) = 0
      OBVIOUS
    <2> QED BY <1>4, <2>2, <2>3, <2>4, <2>5, <2>6 DEF Once
  <1>7. PlainDump'
    BY <1>1 DEF PlainDump
  <1>8. split => SplitDump'
    <2>1. 0 \in 0..6
      OBVIOUS
    <2> QED BY <1>6, <2>1 DEF SplitDump
  <1> QED BY <1>1, <1>4, <1>5, <1>7, <1>8 DEF DumpInv

\* A function on 1..2 is a sequence.
LEMMA TwoIsSeq ==
    ASSUME NEW S, NEW f \in [1..2 -> S]
    PROVE  f \in Seq(S) /\ Len(f) = 2
  <1>1. f = [i \in 1..2 |-> f[i]]
    OBVIOUS
  <1>2. [i \in 1..2 |-> f[i]] \in Seq(S)
    OBVIOUS
  <1>3. Len([i \in 1..2 |-> f[i]]) = 2
    OBVIOUS
  <1> QED BY <1>1, <1>2, <1>3

\* The initial states satisfy the invariant.
LEMMA InitWiphy == Init => WiphyInv
  <1> SUFFICES ASSUME Init PROVE WiphyInv
    OBVIOUS
  <1>1. channels \in Seq(ChannelType) /\ Len(channels) = 2
    <2>1. PICK f \in Frequencies, q \in Regulations[1], r \in Regulations[2] :
             channels = <<Channel(2412, q), Channel(f, r)>>
      BY DEF Init
    <2>2. q \in Regulation /\ r \in Regulation /\ f \in ChannelFrequencies
      BY WiphyAssumption, FrequencyAssumption DEF ChannelFrequencies
    <2>3. Channel(2412, q) \in ChannelType /\ Channel(f, r) \in ChannelType
      BY <2>2, FixedFrequencies DEF Channel, ChannelType, Regulation
    <2> QED BY <2>1, <2>3
  <1>2. chunk \in Nat \ {0}
    BY WiphyAssumption DEF Init
  <1>3. WiphyType
    <2>1. order \in IF split THEN {<<"own", "other">>, <<"other", "own">>} ELSE {<<"own">>}
      BY DEF Init
    <2>2. response \in Seq(MessageType) /\ todo \in Seq(Wiphys \X Nat)
      BY DEF Init
    <2>3. /\ split \in BOOLEAN /\ unread = FALSE /\ calling = "nobody"
          /\ todo = <<>> /\ response = <<>> /\ ok = FALSE /\ born = FALSE
      BY DEF Init
    <2> QED BY <1>1, <1>2, <2>1, <2>2, <2>3 DEF WiphyType
  <1>4. DumpInv
    BY DEF Init, DumpInv
  <1>5. LimitsOwn
    BY DEF Init, LimitsOwn
  <1>6. BandInfoFresh
    BY DEF Init, BandInfoFresh
  <1> QED BY <1>3, <1>4, <1>5, <1>6 DEF WiphyInv, ClientInv

\* The constructor of ClientInterfaceImpl begins a call.
LEMMA ConstructorStep ==
    ASSUME WiphyInv, ClientInterfaceImpl
    PROVE  WiphyInv'
  <1>1. WiphyType /\ ClientInv
    BY DEF WiphyInv
  <1>2. /\ Request("constructor") /\ UNCHANGED <<kernelVars, split, scanner, ok, born>>
        /\ limits' = Undefined /\ scanner = 0
    BY DEF ClientInterfaceImpl
  <1>3. /\ calling' = "constructor" /\ response' = <<>>
        /\ todo' \in Seq(Wiphys \X Nat) /\ DumpInv'
    BY <1>1, <1>2, RequestStep DEF kernelVars
  <1>4. WiphyType'
    <2>1. response' \in Seq(MessageType)
      BY <1>3
    <2> QED BY <1>1, <1>2, <1>3, <2>1 DEF WiphyType, kernelVars
  <1>5. LimitsOwn'
    BY <1>1, <1>2 DEF ClientInv, LimitsOwn, Limits
  <1>6. BandInfoFresh'
    BY <1>3 DEF BandInfoFresh
  <1> QED BY <1>3, <1>4, <1>5, <1>6 DEF WiphyInv, ClientInv

\* So does UpdateBandInfo.
LEMMA UpdateStep ==
    ASSUME WiphyInv, UpdateBandInfo
    PROVE  WiphyInv'
  <1>1. WiphyType /\ ClientInv
    BY DEF WiphyInv
  <1>2. /\ Request("update") /\ UNCHANGED <<order, chunk, channels, split, clientVars>>
        /\ unread' \in {unread, FALSE}
    BY DEF UpdateBandInfo
  <1>3. /\ calling' = "update" /\ response' = <<>>
        /\ todo' \in Seq(Wiphys \X Nat) /\ DumpInv'
    BY <1>1, <1>2, RequestStep
  <1>4. WiphyType'
    <2>1. response' \in Seq(MessageType)
      BY <1>3
    <2>2. unread' \in BOOLEAN
      BY <1>1, <1>2 DEF WiphyType
    <2> QED BY <1>1, <1>2, <1>3, <2>1, <2>2 DEF WiphyType, clientVars
  <1>5. LimitsOwn'
    BY <1>1, <1>2 DEF ClientInv, LimitsOwn, Limits, clientVars
  <1>6. BandInfoFresh'
    BY <1>3 DEF BandInfoFresh
  <1> QED BY <1>3, <1>4, <1>5, <1>6 DEF WiphyInv, ClientInv

\* A client that is torn down knows nothing.
LEMMA DestroyStep ==
    ASSUME WiphyInv, Destroy
    PROVE  WiphyInv'
  <1>1. WiphyType
    BY DEF WiphyInv
  <1>2. /\ calling = "nobody" /\ scanner' = 0 /\ unread' = FALSE /\ limits' = Undefined
        /\ ok' = FALSE /\ born' = FALSE
        /\ UNCHANGED <<order, chunk, channels, calling, todo, response, split>>
    BY DEF Destroy
  <1>3. WiphyType'
    BY <1>1, <1>2 DEF WiphyType
  <1>4. DumpInv'
    BY <1>2 DEF DumpInv
  <1>5. LimitsOwn'
    BY <1>2 DEF LimitsOwn
  <1>6. BandInfoFresh'
    BY <1>2 DEF BandInfoFresh
  <1> QED BY <1>3, <1>4, <1>5, <1>6 DEF WiphyInv, ClientInv

\* A call without a reply leaves the limits alone.
LEMMA FailsStep ==
    ASSUME WiphyInv, GetWiphyInfoFails
    PROVE  WiphyInv'
  <1>1. WiphyType /\ ClientInv
    BY DEF WiphyInv
  <1>2. /\ calling' = "nobody" /\ ok' = FALSE /\ limits' = limits
        /\ response' = <<>> /\ todo' = <<>> /\ UNCHANGED <<kernelVars, split>>
        /\ born' = IF calling = "constructor" THEN ok' ELSE born
        /\ scanner' = IF calling = "constructor" THEN limits' ELSE scanner
    BY DEF GetWiphyInfoFails, Return
  <1>3. WiphyType'
    <2>1. response' \in Seq(MessageType) /\ todo' \in Seq(Wiphys \X Nat)
      BY <1>2
    <2>2. born' \in BOOLEAN /\ ok' \in BOOLEAN
      BY <1>1, <1>2 DEF WiphyType
    <2> QED BY <1>1, <1>2, <2>1, <2>2 DEF WiphyType, kernelVars
  <1>4. DumpInv'
    BY <1>2 DEF DumpInv
  <1>5. LimitsOwn'
    BY <1>1, <1>2 DEF ClientInv, LimitsOwn, Limits
  <1>6. BandInfoFresh'
    BY <1>2 DEF BandInfoFresh
  <1> QED BY <1>3, <1>4, <1>5, <1>6 DEF WiphyInv, ClientInv

\* A regulatory change is an unread event if there is somebody to read it.
LEMMA RegChangeStep ==
    ASSUME WiphyInv, RegChange
    PROVE  WiphyInv'
  <1>1. WiphyType /\ ClientInv /\ DumpInv
    BY DEF WiphyInv
  <1>2. /\ unread' = (calling # "nobody" \/ scanner # 0)
        /\ UNCHANGED <<order, chunk, calling, todo, response, split, clientVars>>
    BY DEF RegChange
  <1>3. channels' \in Seq(ChannelType) /\ Len(channels') = 2
    <2>1. channels \in Seq(ChannelType) /\ Len(channels) = 2
      BY <1>1 DEF WiphyType
    <2>2. PICK i \in DOMAIN channels : \E r \in Regulations[i] :
             channels' = [channels EXCEPT ![i] = Channel(@.freq, r)]
      BY DEF RegChange
    <2>3. i \in 1..2
      BY <2>1
    <2>4. PICK r \in Regulation :
             channels' = [channels EXCEPT ![i] = Channel(@.freq, r)]
      BY <2>2, <2>3, WiphyAssumption
    <2>5. PICK c \in ChannelType : c = Channel(channels[i].freq, r)
      <3>1. channels[i] \in ChannelType
        BY <2>1, <2>3
      <3> QED BY <2>4, <3>1 DEF Channel, ChannelType, Regulation
    <2>6. channels' = [channels EXCEPT ![i] = c]
      BY <2>4, <2>5
    <2>7. channels \in [1..2 -> ChannelType]
      BY <2>1
    <2>8. channels' \in [1..2 -> ChannelType]
      BY <2>3, <2>6, <2>7
    <2> QED BY <2>8, TwoIsSeq
  <1>4. WiphyType'
    <2>1. unread' \in BOOLEAN
      BY <1>2
    <2> QED BY <1>1, <1>2, <1>3, <2>1 DEF WiphyType, clientVars
  <1>5. DumpInv'
    <2> SUFFICES ASSUME calling # "nobody" PROVE DumpInv'
      BY <1>2 DEF DumpInv
    <2>1. unread' = TRUE
      BY <1>2
    <2>2. Linked(todo)'
      BY <1>1, <1>2 DEF DumpInv, Linked, Follower, Count
    <2>3. Refused => Refused'
      BY <1>2 DEF Refused
    <2>4. MergedOwn' = MergedOwn
      BY <1>2 DEF MergedOwn
    <2>5. ASSUME NEW j \in 0..6, Once(j) PROVE Once(j)'
      BY <1>2, <2>1, <2>4, <2>5 DEF Once, HasLimits
    <2>6. Twice => Twice'
      BY <1>2, <2>4 DEF Twice, HasLimits
    <2>7. SplitDump => SplitDump'
      BY <2>5, <2>6 DEF SplitDump
    <2>8. PlainDump => PlainDump'
      BY <1>2, <2>1 DEF PlainDump
    <2> QED BY <1>1, <1>2, <2>2, <2>3, <2>7, <2>8 DEF DumpInv
  <1>6. LimitsOwn'
    BY <1>1, <1>2 DEF ClientInv, LimitsOwn, clientVars, Limits
  <1>7. BandInfoFresh'
    BY <1>2 DEF BandInfoFresh, clientVars
  <1> QED BY <1>4, <1>5, <1>6, <1>7 DEF WiphyInv, ClientInv

-----------------------------------------------------------------------------
(***************************************************************************)
(* The end of a call.                                                      *)
(***************************************************************************)

\* A sequence that is not empty is one to which an element was appended.
LEMMA LastAppended ==
    ASSUME NEW S, NEW n \in Nat, NEW s \in Seq(S), Len(s) = n + 1
    PROVE  \E t \in Seq(S), x \in S : Len(t) = n /\ s = Append(t, x)
  <1>1. PICK t \in Seq(S) : t = SubSeq(s, 1, n) /\ Len(t) = n
    <2>1. SubSeq(s, 1, n) \in Seq(S)
      OBVIOUS
    <2>2. Len(SubSeq(s, 1, n)) = n
      OBVIOUS
    <2> QED BY <2>1, <2>2
  <1>2. PICK x \in S : x = s[n + 1]
    OBVIOUS
  <1>3. s = Append(t, x)
    BY <1>1, <1>2
  <1> QED BY <1>1, <1>3

\* The packets of messages that are not merged.
Gathers(msgs) ==
    /\ \A i \in DOMAIN PacketsOf(msgs) : \E k \in DOMAIN msgs :
          msgs[k].wiphy = "own" /\ PacketsOf(msgs)[i] = msgs[k].attrs
    /\ (\E k \in DOMAIN msgs : msgs[k].wiphy = "own") => PacketsOf(msgs) # <<>>

\* One more message.
LEMMA GathersMore ==
    ASSUME NEW msgs \in Seq(MessageType), NEW m \in MessageType, Gathers(msgs)
    PROVE  Gathers(Append(msgs, m))
  <1>1. PICK more \in Seq(MessageType) : more = Append(msgs, m)
    <2>1. Append(msgs, m) \in Seq(MessageType)
      OBVIOUS
    <2> QED BY <2>1
  <1>2. PICK n \in Nat : n = Len(msgs) /\ DOMAIN msgs = 1..n
    OBVIOUS
  <1>3. /\ DOMAIN more = 1..(n + 1) /\ more[n + 1] = m
        /\ \A k \in 1..n : more[k] = msgs[k]
    BY <1>1, <1>2
  <1>4. PICK ps \in Seq(PieceType) : ps = PacketsOf(msgs)
    BY PacketsGrows
  <1>5. PacketsOf(more) = IF m.wiphy = "own" THEN Append(ps, m.attrs) ELSE ps
    BY <1>1, <1>4, PacketsGrows
  <1>6. /\ \A i \in DOMAIN ps : \E k \in 1..n :
              msgs[k].wiphy = "own" /\ ps[i] = msgs[k].attrs
        /\ (\E k \in 1..n : msgs[k].wiphy = "own") => ps # <<>>
    BY <1>2, <1>4 DEF Gathers
  <1>7. CASE m.wiphy = "own"
    <2>1. m.attrs \in PieceType
      BY DEF MessageType
    <2>2. PICK qs \in Seq(PieceType) : qs = Append(ps, m.attrs)
      <3>1. Append(ps, m.attrs) \in Seq(PieceType)
        BY <2>1
      <3> QED BY <3>1
    <2>3. PICK l \in Nat : l = Len(ps) /\ DOMAIN ps = 1..l
      OBVIOUS
    <2>4. /\ DOMAIN qs = 1..(l + 1) /\ qs[l + 1] = m.attrs
          /\ \A i \in 1..l : qs[i] = ps[i]
      BY <2>1, <2>2, <2>3
    <2>5. ASSUME NEW i \in DOMAIN qs
          PROVE  \E k \in 1..(n + 1) : more[k].wiphy = "own" /\ qs[i] = more[k].attrs
      <3>1. CASE i \in 1..l
        <4>1. PICK k \in 1..n : msgs[k].wiphy = "own" /\ ps[i] = msgs[k].attrs
          BY <1>6, <2>3, <3>1
        <4>2. k \in 1..(n + 1) /\ more[k] = msgs[k] /\ qs[i] = ps[i]
          BY <1>3, <2>4, <3>1
        <4> QED BY <4>1, <4>2
      <3>2. CASE i \notin 1..l
        <4>1. i = l + 1 /\ n + 1 \in 1..(n + 1)
          BY <2>4, <3>2
        <4> QED BY <1>3, <1>7, <2>4, <4>1
      <3> QED BY <3>1, <3>2
    <2>6. qs # <<>>
      BY <2>1, <2>2
    <2>7. PacketsOf(more) = qs
      BY <1>5, <1>7, <2>2
    <2>8. Gathers(more)
      BY <1>3, <2>5, <2>6, <2>7 DEF Gathers
    <2> QED BY <1>1, <2>8
  <1>8. CASE m.wiphy # "own"
    <2>1. ASSUME NEW i \in DOMAIN ps
          PROVE  \E k \in 1..(n + 1) : more[k].wiphy = "own" /\ ps[i] = more[k].attrs
      <3>1. PICK k \in 1..n : msgs[k].wiphy = "own" /\ ps[i] = msgs[k].attrs
        BY <1>6
      <3>2. k \in 1..(n + 1) /\ more[k] = msgs[k]
        BY <1>3
      <3> QED BY <3>1, <3>2
    <2>2. ASSUME NEW k \in 1..(n + 1), more[k].wiphy = "own" PROVE ps # <<>>
      <3>1. k \in 1..n
        BY <1>3, <1>8, <2>2
      <3> QED BY <1>3, <1>6, <2>2, <3>1
    <2>3. PacketsOf(more) = ps
      BY <1>5, <1>8
    <2>4. Gathers(more)
      BY <1>3, <2>1, <2>2, <2>3 DEF Gathers
    <2> QED BY <1>1, <2>4
  <1> QED BY <1>7, <1>8

\* By induction, any messages.
LEMMA AllGather == \A msgs \in Seq(MessageType) : Gathers(msgs)
  <1> DEFINE T == {n \in Nat : \A msgs \in Seq(MessageType) : Len(msgs) = n => Gathers(msgs)}
  <1>1. 0 \in T
    <2> SUFFICES ASSUME NEW msgs \in Seq(MessageType), Len(msgs) = 0 PROVE Gathers(msgs)
      OBVIOUS
    <2>1. msgs = <<>>
      OBVIOUS
    <2>2. [wiphy |-> "error", attrs |-> Empty] \in MessageType
      BY EmptyType DEF MessageType
    <2>3. PacketsOf(msgs) = <<>>
      BY <2>1, <2>2, PacketsGrows
    <2>4. DOMAIN msgs = {} /\ DOMAIN PacketsOf(msgs) = {}
      BY <2>1, <2>3
    <2> QED BY <2>4 DEF Gathers
  <1>2. ASSUME NEW n \in T PROVE n + 1 \in T
    <2> SUFFICES ASSUME NEW msgs \in Seq(MessageType), Len(msgs) = n + 1 PROVE Gathers(msgs)
      OBVIOUS
    <2>1. PICK t \in Seq(MessageType), x \in MessageType :
             Len(t) = n /\ msgs = Append(t, x)
      BY LastAppended
    <2>2. Gathers(t)
      BY <2>1
    <2> QED BY <2>1, <2>2, GathersMore
  <1>3. \A n \in Nat : n \in T
    <2> HIDE DEF T
    <2>1. T \subseteq Nat
      BY DEF T
    <2>2. \A n \in T : n + 1 \in T
      BY <1>2
    <2> QED BY <1>1, <2>1, <2>2, SetInduction
  <1>4. \A msgs \in Seq(MessageType) : Len(msgs) \in Nat
    OBVIOUS
  <1> QED BY <1>3, <1>4

\* A complete reply to a call.
Ended == calling # "nobody" /\ response # <<>> /\ (todo = <<>> \/ Refused)

\* The packets of a split dump.
LEMMA SplitPackets ==
    ASSUME split
    PROVE  PacketsOfWiphy =
               IF ~Refused /\ (\E i \in DOMAIN response : response[i].wiphy = "own")
               THEN <<MergedOwn>> ELSE <<>>
  <1> DEFINE Fold(w) == FoldLeft(LAMBDA p, m : IF m.wiphy = w THEN Merge(p, m.attrs) ELSE p,
                                 Empty, response)
             merged == MergePacketsForSplitWiphyDump(response)
             seen == {m.wiphy : m \in Range(response)}
  <1>1. Fold("own") = MergedOwn
    BY DEF MergedOwn, MergedOf
  <1>2. merged = IF Refused THEN [w \in {} |-> Empty] ELSE [w \in seen |-> Fold(w)]
    BY DEF MergePacketsForSplitWiphyDump
  <1>3. PacketsOfWiphy = IF "own" \in DOMAIN merged THEN <<merged["own"]>> ELSE <<>>
    BY DEF PacketsOfWiphy
  <1>4. "own" \in seen <=> \E i \in DOMAIN response : response[i].wiphy = "own"
    BY DEF Range
  <1> HIDE DEF Fold, merged, seen
  <1>5. CASE Refused
    BY <1>2, <1>3, <1>5
  <1>6. CASE ~Refused
    BY <1>1, <1>2, <1>3, <1>4, <1>6
  <1> QED BY <1>5, <1>6

\* The packets of a dump that is not split.
LEMMA PlainPackets ==
    ASSUME ~split
    PROVE  PacketsOfWiphy = PacketsOf(response)
  BY DEF PacketsOfWiphy, OwnPackets, PacketsOf

\* The greatest and the least of one number.
LEMMA OnlyOne == Max({1}) = 1
  BY DEF Max

\* No place is before the first.
LEMMA LeastOne ==
    ASSUME NEW s \in SUBSET (Nat \ {0}), 1 \in s
    PROVE  Min(s) = 1
  <1>1. \A y \in s : 1 =< y
    OBVIOUS
  <1>2. \A x \in s : (\A y \in s : x =< y) => x = 1
    OBVIOUS
  <1> QED BY <1>1, <1>2 DEF Min

\* Nothing to parse.
LEMMA ParsedNone ==
    ASSUME Parsed, PacketsOfWiphy = <<>>
    PROVE  ok' = FALSE /\ limits' = limits
  <1>1. DOMAIN PacketsOfWiphy = {} /\ Len(PacketsOfWiphy) = 0 /\ 1..0 = {}
    OBVIOUS
  <1>2. {i \in DOMAIN PacketsOfWiphy : Parses(PacketsOfWiphy[i])} = {}
    BY <1>1
  <1>3. {i \in {i \in 1..Len(PacketsOfWiphy) : PacketsOfWiphy[i].bands # <<>>} :
            Len(PacketsOfWiphy[i].limits) = 1} = {}
    BY <1>1
  <1> QED BY <1>2, <1>3 DEF Parsed

\* The first packet is accepted.
LEMMA ParsedFirst ==
    ASSUME Parsed, NEW ps \in Seq(PieceType), ps = PacketsOfWiphy, ps # <<>>,
           Parses(ps[1])
    PROVE  ok' = TRUE /\ limits' = ps[1].limits[1] /\ bandInfo' = ParseBandInfo(ps[1].bands)
  <1> DEFINE good == {i \in DOMAIN ps : Parses(ps[i])}
             last == IF good # {} THEN Min(good) ELSE Len(ps)
             seen == {i \in 1..last : ps[i].bands # <<>>}
             limited == {i \in seen : Len(ps[i].limits) = 1}
  <1>1. /\ ok' = (good # {})
        /\ bandInfo' = IF seen = {} THEN bandInfo ELSE ParseBandInfo(ps[Max(seen)].bands)
        /\ limits' = IF limited = {} THEN limits ELSE ps[Max(limited)].limits[1]
    BY DEF Parsed
  <1>2. 1 \in good /\ good \in SUBSET (Nat \ {0})
    OBVIOUS
  <1>3. last = 1
    BY <1>2, LeastOne
  <1>4. seen = {1}
    <2>1. seen = {i \in 1..1 : ps[i].bands # <<>>}
      BY <1>3
    <2>2. 1..1 = {1}
      OBVIOUS
    <2>3. ps[1].bands # <<>>
      BY DEF Parses
    <2> HIDE DEF seen
    <2> QED BY <2>1, <2>2, <2>3
  <1>5. limited = {1}
    BY <1>4 DEF Parses
  <1> HIDE DEF seen, limited, good
  <1> QED BY <1>1, <1>2, <1>4, <1>5, OnlyOne

\* The only packet is refused, because two descriptions were merged.
LEMMA ParsedTwice ==
    ASSUME Parsed, NEW p \in PieceType, PacketsOfWiphy = <<p>>, Len(p.limits) > 1
    PROVE  ok' = FALSE /\ limits' = limits
  <1> DEFINE good == {i \in DOMAIN <<p>> : Parses(<<p>>[i])}
             last == IF good # {} THEN Min(good) ELSE Len(<<p>>)
             seen == {i \in 1..last : <<p>>[i].bands # <<>>}
             limited == {i \in seen : Len(<<p>>[i].limits) = 1}
  <1>1. /\ ok' = (good # {})
        /\ limits' = IF limited = {} THEN limits ELSE <<p>>[Max(limited)].limits[1]
    BY DEF Parsed
  <1>2. Len(p.limits) # 1
    <2>1. ~(1 > 1)
      OBVIOUS
    <2> QED BY <2>1
  <1>3. DOMAIN <<p>> = {1} /\ <<p>>[1] = p /\ Len(<<p>>) = 1
    OBVIOUS
  <1>4. good = {}
    BY <1>2, <1>3 DEF Parses
  <1>5. seen \subseteq {1}
    BY <1>3, <1>4
  <1>6. limited = {}
    BY <1>2, <1>3, <1>5
  <1> HIDE DEF limited, good
  <1> QED BY <1>1, <1>4, <1>6

\* The bands that an accepted reply holds.
Fresh(bs) == ~unread => bs = IF split THEN Described ELSE Whole("own").bands

\* How a call ends.
Rejected ==
    /\ ok' = FALSE /\ limits' = limits
    /\ Refused \/ Twice \/ ~\E i \in DOMAIN response : HasLimits(i)

Accepted ==
    /\ ok' = TRUE /\ limits' = 4
    /\ \E bs \in Seq(EntryType) : bandInfo' = ParseBandInfo(bs) /\ Fresh(bs)

\* A reply of a split dump is accepted if it is one description.
LEMMA SplitOutcome ==
    ASSUME WiphyInv, GetWiphyInfo, split
    PROVE  Rejected \/ Accepted
  <1>1. WiphyType /\ DumpInv /\ calling # "nobody" /\ (todo = <<>> \/ Refused) /\ Parsed
    BY DEF WiphyInv, GetWiphyInfo
  <1>2. CASE Refused
    <2>1. PacketsOfWiphy = <<>>
      BY <1>2, SplitPackets
    <2> QED BY <1>1, <1>2, <2>1, ParsedNone DEF Rejected
  <1>3. CASE ~Refused
    <2>1. SplitDump /\ todo = <<>>
      BY <1>1, <1>3 DEF DumpInv
    <2>2. PICK p \in PieceType : p = MergedOwn
      <3>1. response \in Seq(MessageType) /\ [wiphy |-> "error", attrs |-> Empty] \in MessageType
        BY <1>1, EmptyType DEF WiphyType, MessageType
      <3> QED BY <3>1, OwnGrows DEF MergedOwn
    <2>3. ASSUME NEW i \in DOMAIN response, HasLimits(i) PROVE PacketsOfWiphy = <<p>>
      BY <1>3, <2>2, <2>3, SplitPackets DEF HasLimits
    <2>4. CASE Twice
      <3>1. PacketsOfWiphy = <<p>> /\ Len(p.limits) > 1
        BY <2>2, <2>3, <2>4 DEF Twice
      <3> QED BY <1>1, <2>4, <3>1, ParsedTwice DEF Rejected
    <2>5. CASE ~Twice
      <3>1. PICK j \in 0..6 : Once(j)
        BY <2>1, <2>5 DEF SplitDump
      <3>2. j = 6
        <4>1. j # 0
          BY <2>1, <3>1 DEF Once
        <4>2. j \notin 1..5
          BY <2>1, <3>1 DEF Once
        <4> QED BY <4>1, <4>2
      <3>3. /\ p.limits = <<4>> /\ p.features = <<"own">> /\ Len(p.bands) = 4
            /\ ~unread => p.bands = SubSeq(Described, 1, 4)
            /\ \E i \in DOMAIN response : HasLimits(i)
        BY <2>2, <3>1, <3>2 DEF Once, Entries
      <3>4. PacketsOfWiphy = <<p>>
        BY <2>3, <3>3
      <3>5. PICK ps \in Seq(PieceType) : ps = <<p>> /\ ps # <<>> /\ ps[1] = p
        <4>1. <<p>> \in Seq(PieceType) /\ <<p>> # <<>> /\ <<p>>[1] = p
          OBVIOUS
        <4> QED BY <4>1
      <3>6. Parses(p)
        <4>1. p.bands # <<>>
          BY <3>3
        <4>2. Len(<<4>>) = 1
          OBVIOUS
        <4>3. Len(<<"own">>) = 1
          OBVIOUS
        <4>4. Len(p.limits) = 1
          BY <3>3, <4>2
        <4>5. Len(p.features) = 1
          BY <3>3, <4>3
        <4> QED BY <4>1, <4>4, <4>5 DEF Parses
      <3>7. ok' = TRUE /\ limits' = p.limits[1] /\ bandInfo' = ParseBandInfo(p.bands)
        BY <1>1, <3>4, <3>5, <3>6, ParsedFirst
      <3>8. Fresh(p.bands)
        <4>1. PICK d \in Seq(EntryType) : d = Described /\ Len(d) = 4
          BY <1>1, DescribedType
        <4>2. SubSeq(d, 1, 4) = d
          BY <4>1
        <4> QED BY <3>3, <4>1, <4>2 DEF Fresh
      <3>9. <<4>>[1] = 4
        OBVIOUS
      <3>10. p.bands \in Seq(EntryType)
        BY DEF PieceType
      <3> QED BY <3>3, <3>7, <3>8, <3>9, <3>10 DEF Accepted
    <2> QED BY <2>4, <2>5
  <1> QED BY <1>2, <1>3

\* One of a dump that is not split, if there is a message of the wiphy.
LEMMA PlainOutcome ==
    ASSUME WiphyInv, GetWiphyInfo, ~split
    PROVE  Rejected \/ Accepted
  <1>1. WiphyType /\ DumpInv /\ calling # "nobody" /\ Parsed
    BY DEF WiphyInv, GetWiphyInfo
  <1>2. PlainDump
    BY <1>1 DEF DumpInv
  <1>3. response \in Seq(MessageType)
    BY <1>1 DEF WiphyType
  <1>4. Gathers(response)
    BY <1>3, AllGather
  <1>5. PICK ps \in Seq(PieceType) : ps = PacketsOf(response)
    <2>1. [wiphy |-> "error", attrs |-> Empty] \in MessageType
      BY EmptyType DEF MessageType
    <2> QED BY <1>3, <2>1, PacketsGrows
  <1>6. ps = PacketsOfWiphy
    BY <1>5, PlainPackets
  <1>7. CASE ps = <<>>
    <2>1. ~\E i \in DOMAIN response : HasLimits(i)
      BY <1>4, <1>5, <1>7 DEF Gathers, HasLimits
    <2> QED BY <1>1, <1>6, <1>7, <2>1, ParsedNone DEF Rejected
  <1>8. CASE ps # <<>>
    <2>1. 1 \in DOMAIN ps /\ ps[1] \in PieceType
      BY <1>8
    <2>2. PICK p \in PieceType : p = ps[1]
      BY <2>1
    <2>3. PICK k \in DOMAIN response : response[k].wiphy = "own" /\ p = response[k].attrs
      BY <1>4, <1>5, <2>1, <2>2 DEF Gathers
    <2>4. /\ Len(p.limits) = 1 /\ p.limits[1] = 4 /\ Len(p.features) = 1
          /\ p.bands # <<>> /\ (~unread => p = Whole("own"))
      BY <1>2, <2>3 DEF PlainDump
    <2>5. Parses(p)
      BY <2>4 DEF Parses
    <2>6. ok' = TRUE /\ limits' = p.limits[1] /\ bandInfo' = ParseBandInfo(p.bands)
      BY <1>1, <1>6, <1>8, <2>2, <2>5, ParsedFirst
    <2>7. Fresh(p.bands)
      BY <2>4 DEF Fresh
    <2>8. p.bands \in Seq(EntryType)
      BY DEF PieceType
    <2> QED BY <2>4, <2>6, <2>7, <2>8 DEF Accepted
  <1> QED BY <1>7, <1>8

\* A reply is rejected or accepted.
LEMMA Outcome ==
    ASSUME WiphyInv, GetWiphyInfo
    PROVE  Rejected \/ Accepted
  BY SplitOutcome, PlainOutcome

-----------------------------------------------------------------------------
(***************************************************************************)
(* What the client learns of the bands.                                    *)
(***************************************************************************)

\* Where the channels of each band are.
LEMMA BandRanges ==
    ASSUME NEW x \in Nat
    PROVE  /\ Channel2g(x) => x > 2400 /\ x < 2500
           /\ Channel5g(x) => x > 5000 /\ x <= 5885
           /\ Channel6g(x) => x > 5925 /\ x < 7125
           /\ Channel60g(x) => x >= 58320 /\ x < 70200
  <1>1. Channel2g(x) => x > 2400 /\ x < 2500
    BY DEF Channel2g
  <1>2. Channel5g(x) => x > 5000 /\ x <= 5885
    BY DEF Channel5g
  <1>3. Channel6g(x) => x > 5925 /\ x < 7125
    BY DEF Channel6g
  <1>4. Channel60g(x) => x >= 58320 /\ x < 70200
    BY DEF Channel60g
  <1> QED BY <1>1, <1>2, <1>3, <1>4

\* The comparisons of the code put every channel into the list of its band.
LEMMA RightList ==
    ASSUME NEW f \in ChannelType, NEW l \in Lists
    PROVE  ListOf(f) = l <=> InList(f, l)
  <1>1. PICK x \in Nat : x = f.freq /\ IsChannel(x)
    BY DEF ChannelType, ChannelFrequencies
  <1>2. f.disabled \in BOOLEAN /\ f.noIr \in BOOLEAN
    BY DEF ChannelType
  <1>3. CASE f.disabled
    <2>1. ListOf(f) = "none"
      BY <1>3 DEF ListOf
    <2>2. ~InList(f, l)
      BY <1>3 DEF InList
    <2> QED BY <2>1, <2>2 DEF Lists
  <1>4. CASE ~f.disabled /\ x > 2400 /\ x < 2500
    <2>1. Channel2g(x) /\ ~Channel5g(x) /\ ~Channel6g(x) /\ ~Channel60g(x)
      BY <1>1, <1>4, BandRanges DEF IsChannel
    <2>2. ListOf(f) = "2g"
      BY <1>1, <1>4 DEF ListOf
    <2> QED BY <1>1, <1>4, <2>1, <2>2 DEF InList, Lists
  <1>5. CASE ~f.disabled /\ x > 5000 /\ x <= 5885
    <2>1. Channel5g(x) /\ ~Channel2g(x) /\ ~Channel6g(x) /\ ~Channel60g(x)
      BY <1>1, <1>5, BandRanges DEF IsChannel
    <2>2. ListOf(f) = IF f.dfs \in {"usable", "available"} \/ f.noIr THEN "dfs" ELSE "5g"
      BY <1>1, <1>5 DEF ListOf
    <2> QED BY <1>1, <1>5, <2>1, <2>2 DEF InList, Lists
  <1>6. CASE ~f.disabled /\ x > 5925 /\ x < 7125
    <2>1. Channel6g(x) /\ ~Channel2g(x) /\ ~Channel5g(x) /\ ~Channel60g(x)
      BY <1>1, <1>6, BandRanges DEF IsChannel
    <2>2. ListOf(f) = "6g"
      BY <1>1, <1>6 DEF ListOf
    <2> QED BY <1>1, <1>6, <2>1, <2>2 DEF InList, Lists
  <1>7. CASE ~f.disabled /\ x >= 58320 /\ x < 70200
    <2>1. Channel60g(x) /\ ~Channel2g(x) /\ ~Channel5g(x) /\ ~Channel6g(x)
      BY <1>1, <1>7, BandRanges DEF IsChannel
    <2>2. ListOf(f) = "60g"
      BY <1>1, <1>7 DEF ListOf
    <2> QED BY <1>1, <1>7, <2>1, <2>2 DEF InList, Lists
  <1> QED BY <1>1, <1>2, <1>3, <1>4, <1>5, <1>6, <1>7, BandRanges DEF IsChannel

\* The lists of the code, those of the standard, and a step of both.
Sorted(chans, l) == Select(chans, LAMBDA f : ListOf(f) = l)
Standard(chans, l) == Select(chans, LAMBDA f : InList(f, l))

KeepIn(l) ==
    [z \in Seq(ChannelFrequencies) \X ChannelType |->
        IF ListOf(z[2]) = l THEN Append(z[1], z[2].freq) ELSE z[1]]

\* The step has its type.
LEMMA KeepInType ==
    ASSUME NEW l
    PROVE  /\ KeepIn(l) \in [Seq(ChannelFrequencies) \X ChannelType -> Seq(ChannelFrequencies)]
           /\ <<>> \in Seq(ChannelFrequencies)
  BY DEF KeepIn, ChannelType

\* The lists of the code are a fold with that step.
LEMMA SortedFold ==
    ASSUME NEW chans \in Seq(ChannelType), NEW l \in Lists
    PROVE  FoldOf(Sorted(chans, l), KeepIn(l), Seq(ChannelFrequencies), <<>>, chans)
  <1> DEFINE n == Len(chans)
             Step(f) == [s \in SUBSET (1..n) |->
                            IF s = {} THEN <<>>
                            ELSE IF ListOf(chans[Max(s)]) = l
                            THEN Append(f[s \ {Max(s)}], chans[Max(s)].freq)
                            ELSE f[s \ {Max(s)}]]
  <1>1. /\ KeepIn(l) \in [Seq(ChannelFrequencies) \X ChannelType -> Seq(ChannelFrequencies)]
        /\ <<>> \in Seq(ChannelFrequencies)
    BY KeepInType
  <1>2. PICK f \in [SUBSET (1..n) -> Seq(ChannelFrequencies)] : Folds(f, KeepIn(l), <<>>, chans, n)
    BY <1>1, FoldExists
  <1>3. f = Step(f)
    <2>1. ASSUME NEW s \in SUBSET (1..n) PROVE f[s] = Step(f)[s]
      <3>1. CASE s = {}
        BY <1>2, <3>1 DEF Folds
      <3>2. CASE s # {}
        <4>1. /\ f[s] = KeepIn(l)[<<f[s \ {Max(s)}], chans[Max(s)]>>]
              /\ Max(s) \in 1..n
          BY <1>2, <3>2 DEF Folds
        <4>2. s \ {Max(s)} \in SUBSET (1..n)
          OBVIOUS
        <4>3. f[s \ {Max(s)}] \in Seq(ChannelFrequencies) /\ chans[Max(s)] \in ChannelType
          BY <4>1, <4>2
        <4> QED BY <3>2, <4>1, <4>3 DEF KeepIn
      <3> QED BY <3>1, <3>2
    <2> QED BY <2>1
  <1>4. PICK h : h = Step(h) /\ Sorted(chans, l) = h[1..n]
    <2> DEFINE h == CHOOSE h : h = Step(h)
    <2>1. h = Step(h)
      BY <1>3
    <2>2. DOMAIN chans = 1..n
      OBVIOUS
    <2>3. Sorted(chans, l) = h[1..n]
      BY <2>2 DEF Sorted, Select, FoldLeft, MapThenFoldSet
    <2> HIDE DEF h
    <2> QED BY <2>1, <2>3
  <1>5. Iterates(h, KeepIn(l), Seq(ChannelFrequencies), <<>>, chans)
    <2> SUFFICES ASSUME NEW s \in SUBSET (1..n)
                 PROVE  h[s] = IF s = {} THEN <<>>
                               ELSE IF h[s \ {Max(s)}] \in Seq(ChannelFrequencies) /\ Max(s) \in 1..n
                               THEN KeepIn(l)[<<h[s \ {Max(s)}], chans[Max(s)]>>] ELSE h[s]
      BY DEF Iterates
    <2>1. h[s] = Step(h)[s]
      BY <1>4
    <2>2. Max(s) \in 1..n => chans[Max(s)] \in ChannelType
      OBVIOUS
    <2> QED BY <2>1, <2>2 DEF KeepIn
  <1> HIDE DEF Step
  <1> QED BY <1>4, <1>5, FoldRuns

\* So are those of the standard.
LEMMA StandardFold ==
    ASSUME NEW chans \in Seq(ChannelType), NEW l \in Lists
    PROVE  FoldOf(Standard(chans, l), KeepIn(l), Seq(ChannelFrequencies), <<>>, chans)
  <1> DEFINE n == Len(chans)
             Step(f) == [s \in SUBSET (1..n) |->
                            IF s = {} THEN <<>>
                            ELSE IF InList(chans[Max(s)], l)
                            THEN Append(f[s \ {Max(s)}], chans[Max(s)].freq)
                            ELSE f[s \ {Max(s)}]]
  <1>1. /\ KeepIn(l) \in [Seq(ChannelFrequencies) \X ChannelType -> Seq(ChannelFrequencies)]
        /\ <<>> \in Seq(ChannelFrequencies)
    BY KeepInType
  <1>2. PICK f \in [SUBSET (1..n) -> Seq(ChannelFrequencies)] : Folds(f, KeepIn(l), <<>>, chans, n)
    BY <1>1, FoldExists
  <1>3. f = Step(f)
    <2>1. ASSUME NEW s \in SUBSET (1..n) PROVE f[s] = Step(f)[s]
      <3>1. CASE s = {}
        BY <1>2, <3>1 DEF Folds
      <3>2. CASE s # {}
        <4>1. /\ f[s] = KeepIn(l)[<<f[s \ {Max(s)}], chans[Max(s)]>>]
              /\ Max(s) \in 1..n
          BY <1>2, <3>2 DEF Folds
        <4>2. s \ {Max(s)} \in SUBSET (1..n)
          OBVIOUS
        <4>3. f[s \ {Max(s)}] \in Seq(ChannelFrequencies) /\ chans[Max(s)] \in ChannelType
          BY <4>1, <4>2
        <4>4. ListOf(chans[Max(s)]) = l <=> InList(chans[Max(s)], l)
          BY <4>3, RightList
        <4> QED BY <3>2, <4>1, <4>3, <4>4 DEF KeepIn
      <3> QED BY <3>1, <3>2
    <2> QED BY <2>1
  <1>4. PICK h : h = Step(h) /\ Standard(chans, l) = h[1..n]
    <2> DEFINE h == CHOOSE h : h = Step(h)
    <2>1. h = Step(h)
      BY <1>3
    <2>2. DOMAIN chans = 1..n
      OBVIOUS
    <2>3. Standard(chans, l) = h[1..n]
      BY <2>2 DEF Standard, Select, FoldLeft, MapThenFoldSet
    <2> HIDE DEF h
    <2> QED BY <2>1, <2>3
  <1>5. Iterates(h, KeepIn(l), Seq(ChannelFrequencies), <<>>, chans)
    <2> SUFFICES ASSUME NEW s \in SUBSET (1..n)
                 PROVE  h[s] = IF s = {} THEN <<>>
                               ELSE IF h[s \ {Max(s)}] \in Seq(ChannelFrequencies) /\ Max(s) \in 1..n
                               THEN KeepIn(l)[<<h[s \ {Max(s)}], chans[Max(s)]>>] ELSE h[s]
      BY DEF Iterates
    <2>1. h[s] = Step(h)[s]
      BY <1>4
    <2>2. Max(s) \in 1..n =>
             chans[Max(s)] \in ChannelType /\ (ListOf(chans[Max(s)]) = l <=> InList(chans[Max(s)], l))
      BY RightList
    <2> QED BY <2>1, <2>2 DEF KeepIn
  <1> HIDE DEF Step
  <1> QED BY <1>4, <1>5, FoldRuns

\* A fold has one result.
FoldsSame(A, B, F, base, s, r, q) ==
    /\ F \in [B \X A -> B] /\ base \in B /\ s \in Seq(A)
    /\ FoldOf(r, F, B, base, s) /\ FoldOf(q, F, B, base, s)

\* Two results of a fold are the same.
LEMMA FoldUnique ==
    ASSUME NEW A, NEW B, NEW F, NEW base, NEW s, NEW r, NEW q,
           FoldsSame(A, B, F, base, s, r, q)
    PROVE  r = q
  <1> USE DEF FoldsSame
  <1>1. PICK g : Runs(g, F, B, base, s) /\ r = g[Len(s)]
    BY DEF FoldOf
  <1>2. PICK h : Runs(h, F, B, base, s) /\ q = h[Len(s)]
    BY DEF FoldOf
  <1>3. Len(s) <= Len(s) /\ Len(s) \in 0..Len(s)
    OBVIOUS
  <1>4. TwoRuns(A, B, F, base, s, s, g, h)
    BY <1>1, <1>2, <1>3 DEF TwoRuns
  <1> QED BY <1>1, <1>2, <1>3, <1>4, RunsAgree

\* The lists of the code are those of the standard.
LEMMA SortedRight ==
    ASSUME NEW chans \in Seq(ChannelType), NEW l \in Lists
    PROVE  Sorted(chans, l) = Standard(chans, l)
  <1>1. /\ KeepIn(l) \in [Seq(ChannelFrequencies) \X ChannelType -> Seq(ChannelFrequencies)]
        /\ <<>> \in Seq(ChannelFrequencies)
    BY KeepInType
  <1>2. FoldsSame(ChannelType, Seq(ChannelFrequencies), KeepIn(l), <<>>, chans,
                  Sorted(chans, l), Standard(chans, l))
    BY <1>1, SortedFold, StandardFold DEF FoldsSame
  <1> QED BY <1>2, FoldUnique

\* What is known of two channels, as a sequence.
LEMMA TwoChannels ==
    ASSUME WiphyType
    PROVE  /\ channels \in Seq(ChannelType) /\ channels = <<channels[1], channels[2]>>
           /\ channels[1] \in ChannelType /\ channels[2] \in ChannelType
  <1>1. channels \in Seq(ChannelType) /\ Len(channels) = 2
    BY DEF WiphyType
  <1>2. channels = [i \in 1..2 |-> channels[i]]
    BY <1>1
  <1>3. channels = <<channels[1], channels[2]>>
    BY <1>2, Pair
  <1> QED BY <1>1, <1>3

\* Two sequences of one channel, joined.
LEMMA Joined ==
    ASSUME NEW S, NEW x \in S, NEW y \in S
    PROVE  /\ <<x>> \o <<y>> = <<x, y>>
           /\ ((<<>> \o <<x>>) \o <<>>) \o <<y>> = <<x, y>>
  <1>1. <<x>> \o <<y>> = <<x, y>>
    <2>1. PICK a \in Seq(S) : a = <<x>> \o <<y>>
      <3>1. <<x>> \in Seq(S) /\ <<y>> \in Seq(S)
        OBVIOUS
      <3>2. <<x>> \o <<y>> \in Seq(S)
        BY <3>1
      <3> QED BY <3>2
    <2>2. Len(a) = 2 /\ a[1] = x /\ a[2] = y
      BY <2>1
    <2>3. PICK b \in Seq(S) : b = <<x, y>>
      <3>1. <<x, y>> \in Seq(S)
        OBVIOUS
      <3> QED BY <3>1
    <2>4. Len(b) = 2 /\ b[1] = x /\ b[2] = y
      BY <2>3
    <2>5. \A i \in 1..2 : a[i] = b[i]
      BY <2>2, <2>4
    <2>6. a = b
      BY <2>2, <2>4, <2>5
    <2> QED BY <2>1, <2>3, <2>6
  <1>2. PICK p \in Seq(S) : p = <<x>>
    <2>1. <<x>> \in Seq(S)
      OBVIOUS
    <2> QED BY <2>1
  <1>3. <<>> \o p = p
    OBVIOUS
  <1>4. p \o <<>> = p
    OBVIOUS
  <1> QED BY <1>1, <1>2, <1>3, <1>4

\* An entry without capabilities adds nothing.
LEMMA NothingClaimed == Streams(NoCapabilities) = {} /\ Supports(NoCapabilities) = {}
  <1>1. /\ NoCapabilities.ht = FALSE /\ NoCapabilities.vht = <<>>
        /\ NoCapabilities.htMcs = <<>> /\ NoCapabilities.vhtMcs = <<>>
        /\ NoCapabilities.iftypes = <<>>
    BY DEF NoCapabilities
  <1>2. /\ FirstIftype(NoCapabilities).hePhy = <<>>
        /\ FirstIftype(NoCapabilities).heMcs = <<>>
        /\ FirstIftype(NoCapabilities).ehtPhy = <<>>
    BY <1>1 DEF FirstIftype
  <1>3. Len(<<>>) = 0
    OBVIOUS
  <1>4. HtStreams(NoCapabilities) = {}
    BY <1>1, <1>3 DEF HtStreams
  <1>5. VhtStreams(NoCapabilities) = {}
    BY <1>1, <1>3 DEF VhtStreams
  <1>6. HeStreams(NoCapabilities) = {}
    BY <1>2, <1>3 DEF HeStreams
  <1>7. VhtWidths(NoCapabilities) = {}
    BY <1>1 DEF VhtWidths
  <1>8. HeWidths(NoCapabilities) = {}
    BY <1>2, <1>3 DEF HeWidths
  <1>9. EhtWidths(NoCapabilities) = {}
    BY <1>2, <1>3 DEF EhtWidths
  <1>10. Streams(NoCapabilities) = {}
    BY <1>4, <1>5, <1>6 DEF Streams
  <1>11. Supports(NoCapabilities) = {}
    BY <1>1, <1>2, <1>7, <1>8, <1>9 DEF Supports
  <1> QED BY <1>10, <1>11

\* The channels and the capabilities of entries.
ChansOf(entries) == FlattenSeq([i \in DOMAIN entries |-> entries[i].freqs])
CapasOf(entries) == {entries[i].capa : i \in DOMAIN entries}

\* Those of a description in pieces.
LEMMA DescribedParts ==
    ASSUME WiphyType
    PROVE  /\ ChansOf(Described) = channels
           /\ CapasOf(Described) = {Bands[1], Bands[2], NoCapabilities}
  <1>1. PICK a, b, c, d : /\ Described = <<a, b, c, d>>
                          /\ a = Entry(Bands[1], <<>>)
                          /\ b = Entry(NoCapabilities, <<channels[1]>>)
                          /\ c = Entry(Bands[2], <<>>)
                          /\ d = Entry(NoCapabilities, <<channels[2]>>)
    BY DEF Described
  <1>2. DOMAIN Described = 1..4
    BY <1>1
  <1>3. /\ a.freqs = <<>> /\ b.freqs = <<channels[1]>>
        /\ c.freqs = <<>> /\ d.freqs = <<channels[2]>>
        /\ a.capa = Bands[1] /\ b.capa = NoCapabilities
        /\ c.capa = Bands[2] /\ d.capa = NoCapabilities
    BY <1>1 DEF Entry
  <1>4. [i \in DOMAIN Described |-> Described[i].freqs]
            = <<<<>>, <<channels[1]>>, <<>>, <<channels[2]>>>>
    BY <1>1, <1>3
  <1>5. ChansOf(Described) = channels
    <2>1. PICK p \in Seq(ChannelType), q \in Seq(ChannelType), e \in Seq(ChannelType) :
             p = <<channels[1]>> /\ q = <<channels[2]>> /\ e = <<>>
      <3>1. <<channels[1]>> \in Seq(ChannelType) /\ <<channels[2]>> \in Seq(ChannelType)
        BY TwoChannels
      <3>2. <<>> \in Seq(ChannelType)
        OBVIOUS
      <3> QED BY <3>1, <3>2
    <2>2. ChansOf(Described) = FlattenSeq(<<e, p, e, q>>)
      BY <1>4, <2>1 DEF ChansOf
    <2>3. FlattenSeq(<<e, p, e, q>>) = ((e \o p) \o e) \o q
      <3>1. FourSeqs(ChannelType, e, p, e, q)
        BY DEF FourSeqs
      <3>2. FourFlat(e, p, e, q)
        BY <3>1, FlattenFour
      <3> QED BY <3>2 DEF FourFlat
    <2> QED BY <2>1, <2>2, <2>3, TwoChannels, Joined
  <1>6. CapasOf(Described) = {Bands[1], Bands[2], NoCapabilities}
    <2>1. CapasOf(Described) = {a.capa, b.capa, c.capa, d.capa}
      <3>1. 1..4 = {1, 2, 3, 4}
        OBVIOUS
      <3> QED BY <1>1, <1>2, <3>1 DEF CapasOf
    <2> QED BY <1>3, <2>1
  <1> QED BY <1>5, <1>6

\* Those of a description in one message.
LEMMA WholeParts ==
    ASSUME WiphyType
    PROVE  /\ ChansOf(Whole("own").bands) = channels
           /\ CapasOf(Whole("own").bands) = {Bands[1], Bands[2]}
  <1>1. PICK a, b : /\ Whole("own").bands = <<a, b>>
                    /\ a = Entry(Bands[1], <<channels[1]>>)
                    /\ b = Entry(Bands[2], <<channels[2]>>)
    <2>1. Whole("own").bands = [i \in 1..2 |-> Entry(Bands[i], <<channels[i]>>)]
      BY WiphyAssumption DEF Whole, Piece, ChannelsOf
    <2> QED BY <2>1
  <1>2. DOMAIN <<a, b>> = 1..2 /\ <<a, b>>[1] = a /\ <<a, b>>[2] = b
    OBVIOUS
  <1>3. /\ a.freqs = <<channels[1]>> /\ b.freqs = <<channels[2]>>
        /\ a.capa = Bands[1] /\ b.capa = Bands[2]
    BY <1>1 DEF Entry
  <1>4. [i \in DOMAIN <<a, b>> |-> <<a, b>>[i].freqs] = <<<<channels[1]>>, <<channels[2]>>>>
    BY <1>2, <1>3
  <1>5. ChansOf(<<a, b>>) = channels
    <2>1. <<channels[1]>> \in Seq(ChannelType) /\ <<channels[2]>> \in Seq(ChannelType)
      BY TwoChannels
    <2>2. ChansOf(<<a, b>>) = <<channels[1]>> \o <<channels[2]>>
      BY <1>4, <2>1, FlattenTwo DEF ChansOf
    <2> QED BY <2>2, TwoChannels, Joined
  <1>6. CapasOf(<<a, b>>) = {Bands[1], Bands[2]}
    <2>1. 1..2 = {1, 2}
      OBVIOUS
    <2> QED BY <1>2, <1>3, <2>1 DEF CapasOf
  <1> QED BY <1>1, <1>5, <1>6

\* ParseBandInfo, from channels and capabilities.
InfoOf(chans, capas) ==
    LET streams == UNION {Streams(c) : c \in capas}
    IN  [lists |-> [l \in Lists |-> Sorted(chans, l)],
         supports |-> UNION {Supports(c) : c \in capas},
         rx |-> Max({1} \cup {s.rx : s \in streams}),
         tx |-> Max({1} \cup {s.tx : s \in streams})]

\* ParseBandInfo depends on nothing else.
LEMMA InfoIs ==
    ASSUME NEW entries
    PROVE  ParseBandInfo(entries) = InfoOf(ChansOf(entries), CapasOf(entries))
  BY DEF ParseBandInfo, InfoOf, ChansOf, CapasOf, Sorted

\* Entries without capabilities do not matter.
LEMMA SameInfo ==
    ASSUME NEW chans, NEW capas, NEW more, more = capas \cup {NoCapabilities}
    PROVE  InfoOf(chans, more) = InfoOf(chans, capas)
  <1>1. UNION {Streams(c) : c \in more} = UNION {Streams(c) : c \in capas}
    BY NothingClaimed
  <1>2. UNION {Supports(c) : c \in more} = UNION {Supports(c) : c \in capas}
    BY NothingClaimed
  <1> QED BY <1>1, <1>2 DEF InfoOf

\* What the client should know.
Expected ==
    [ParseBandInfo(Whole("own").bands) EXCEPT !.lists =
        [l \in Lists |-> Standard(channels, l)]]

\* BandInfoFresh, with this name.
LEMMA FreshIs ==
    BandInfoFresh <=>
        (calling = "nobody" /\ scanner # 0 /\ ok /\ ~unread => bandInfo = Expected)
  BY DEF BandInfoFresh, Expected, Standard

\* The same of the next state.
LEMMA FreshThen ==
    (BandInfoFresh <=>
        (calling = "nobody" /\ scanner # 0 /\ ok /\ ~unread => bandInfo = Expected))'
  BY FreshIs, PTL

\* A fresh description gives it.
LEMMA FreshInfo ==
    ASSUME WiphyType, NEW bs, bs = Described \/ bs = Whole("own").bands
    PROVE  ParseBandInfo(bs) = Expected
  <1>1. PICK info : info = InfoOf(channels, {Bands[1], Bands[2]})
    OBVIOUS
  <1>2. ParseBandInfo(Whole("own").bands) = info
    BY <1>1, InfoIs, WholeParts
  <1>3. ParseBandInfo(Described) = info
    <2>1. ParseBandInfo(Described) = InfoOf(ChansOf(Described), CapasOf(Described))
      BY InfoIs
    <2>2. PICK capas, more : /\ capas = {Bands[1], Bands[2]}
                             /\ more = {Bands[1], Bands[2], NoCapabilities}
      OBVIOUS
    <2>3. more = capas \cup {NoCapabilities}
      BY <2>2
    <2>4. InfoOf(channels, more) = InfoOf(channels, capas)
      BY <2>3, SameInfo
    <2> QED BY <1>1, <2>1, <2>2, <2>4, DescribedParts
  <1>4. [l \in Lists |-> Standard(channels, l)] = [l \in Lists |-> Sorted(channels, l)]
    BY SortedRight, TwoChannels
  <1>5. [info EXCEPT !.lists = [l \in Lists |-> Sorted(channels, l)]] = info
    BY <1>1 DEF InfoOf
  <1>6. [info EXCEPT !.lists = [l \in Lists |-> Standard(channels, l)]] = info
    BY <1>4, <1>5
  <1>7. ParseBandInfo(bs) = info
    BY <1>2, <1>3
  <1> QED BY <1>2, <1>6, <1>7 DEF Expected

-----------------------------------------------------------------------------
(***************************************************************************)
(* The theorems.                                                           *)
(***************************************************************************)

\* A call that ends with a complete reply, or with a refusal.
LEMMA GetStep ==
    ASSUME WiphyInv, GetWiphyInfo
    PROVE  WiphyInv'
  <1>1. WiphyType /\ ClientInv
    BY DEF WiphyInv
  <1>2. /\ calling' = "nobody" /\ response' = <<>> /\ todo' = <<>>
        /\ UNCHANGED <<kernelVars, split>>
        /\ born' = IF calling = "constructor" THEN ok' ELSE born
        /\ scanner' = IF calling = "constructor" THEN limits' ELSE scanner
    BY DEF GetWiphyInfo, Return
  <1>3. Rejected \/ Accepted
    BY Outcome
  <1>4. WiphyType'
    <2>1. response' \in Seq(MessageType) /\ todo' \in Seq(Wiphys \X Nat)
      BY <1>2
    <2>2. ok' \in BOOLEAN
      BY <1>3 DEF Rejected, Accepted
    <2>3. born' \in BOOLEAN
      BY <1>1, <1>2, <2>2 DEF WiphyType
    <2> QED BY <1>1, <1>2, <2>1, <2>2, <2>3 DEF WiphyType, kernelVars
  <1>5. DumpInv'
    BY <1>2 DEF DumpInv
  <1>6. LimitsOwn'
    BY <1>1, <1>2, <1>3 DEF ClientInv, LimitsOwn, Limits, Rejected, Accepted
  <1>7. BandInfoFresh'
    <2> SUFFICES ASSUME ok', ~unread' PROVE BandInfoFresh'
      BY DEF BandInfoFresh
    <2>1. PICK bs \in Seq(EntryType) : bandInfo' = ParseBandInfo(bs) /\ Fresh(bs)
      BY <1>3 DEF Rejected, Accepted
    <2>2. bs = Described \/ bs = Whole("own").bands
      BY <1>2, <2>1 DEF Fresh, kernelVars
    <2>3. bandInfo' = Expected
      BY <1>1, <2>1, <2>2, FreshInfo
    <2>4. channels' = channels
      BY <1>2 DEF kernelVars
    <2>5. Whole("own")' = Whole("own")
      BY <2>4 DEF Whole, ChannelsOf
    <2>6. Expected' = Expected
      BY <2>4, <2>5 DEF Expected
    <2> QED BY <2>3, <2>6, FreshThen
  <1> QED BY <1>4, <1>5, <1>6, <1>7 DEF WiphyInv, ClientInv

\* Every step keeps the invariant.
LEMMA WiphyStep == WiphyInv /\ [Next]_vars => WiphyInv'
  <1> SUFFICES ASSUME WiphyInv, [Next]_vars PROVE WiphyInv'
    OBVIOUS
  <1>1. CASE ClientInterfaceImpl BY <1>1, ConstructorStep
  <1>2. CASE UpdateBandInfo BY <1>2, UpdateStep
  <1>3. CASE Destroy BY <1>3, DestroyStep
  <1>4. CASE GetWiphyInfo BY <1>4, GetStep
  <1>5. CASE GetWiphyInfoFails BY <1>5, FailsStep
  <1>6. CASE KernelReplies BY <1>6, RepliesStep
  <1>7. CASE KernelRefuses BY <1>7, RefusesStep
  <1>8. CASE RegChange BY <1>8, RegChangeStep
  <1>9. CASE UNCHANGED vars
    <2>1. UNCHANGED <<order, chunk, channels, unread, calling, todo, response, split,
                      bandInfo, limits, scanner, ok, born>>
      BY <1>9 DEF vars, kernelVars, clientVars
    <2>2. WiphyType'
      BY <2>1 DEF WiphyInv, WiphyType
    <2>3. DumpInv'
      <3>1. Linked(todo)' = Linked(todo)
        BY <2>1 DEF Linked, Follower, Count
      <3>2. Refused' = Refused /\ MergedOwn' = MergedOwn /\ Described' = Described
        BY <2>1 DEF Refused, MergedOwn, Described
      <3>3. ASSUME NEW j \in 0..6, Once(j) PROVE Once(j)'
        BY <2>1, <3>2, <3>3 DEF Once, HasLimits
      <3>4. Twice => Twice'
        BY <2>1, <3>2 DEF Twice, HasLimits
      <3>5. SplitDump => SplitDump'
        BY <3>3, <3>4 DEF SplitDump
      <3>6. PlainDump => PlainDump'
        BY <2>1 DEF PlainDump, Whole, ChannelsOf
      <3> QED BY <2>1, <3>1, <3>2, <3>5, <3>6 DEF WiphyInv, DumpInv
    <2>4. LimitsOwn'
      BY <2>1 DEF WiphyInv, ClientInv, LimitsOwn, Limits
    <2>5. BandInfoFresh'
      <3>1. Whole("own")' = Whole("own")
        BY <2>1 DEF Whole, ChannelsOf
      <3>2. Expected' = Expected
        BY <2>1, <3>1 DEF Expected
      <3> QED BY <2>1, <3>2, FreshIs, FreshThen DEF WiphyInv, ClientInv
    <2> QED BY <2>2, <2>3, <2>4, <2>5 DEF WiphyInv, ClientInv
  <1> QED BY <1>1, <1>2, <1>3, <1>4, <1>5, <1>6, <1>7, <1>8, <1>9 DEF Next

\* It holds in every reachable state.
LEMMA WiphyHolds == Spec => []WiphyInv
  BY InitWiphy, WiphyStep, PTL DEF Spec

\* LimitsOwn holds for every wiphy, any cut of its description into messages,
\* any interleaving with another wiphy's and any number of collected replies: what
\* GetWiphyInfo writes into scan_capabilities_ is the client's own, and a
\* constructor whose call returned true handed it to the scanner.
THEOREM LimitsAreOwn == Spec => []LimitsOwn
  <1>1. WiphyInv => LimitsOwn
    BY DEF WiphyInv, ClientInv
  <1> QED BY <1>1, WiphyHolds, PTL

\* BandInfoFresh: with every regulatory event read, an accepted band_info_ has
\* each enabled channel of the wiphy in the list of its band and the capabilities
\* of all bands, though messages were cut, mixed, repeated and overtaken by
\* regulatory changes.
THEOREM BandInfoIsFresh == Spec => []BandInfoFresh
  <1>1. WiphyInv => BandInfoFresh
    BY DEF WiphyInv, ClientInv
  <1> QED BY <1>1, WiphyHolds, PTL

\* A set with one element has no two.
LEMMA OneLimits ==
    ASSUME WiphyType,
           Cardinality({i \in DOMAIN response :
               response[i].wiphy = "own" /\ response[i].attrs.limits # <<>>}) = 1
    PROVE  ~Twice /\ \E i \in DOMAIN response : HasLimits(i)
  <1> DEFINE S == {i \in DOMAIN response :
               response[i].wiphy = "own" /\ response[i].attrs.limits # <<>>}
  <1>1. DOMAIN response = 1..Len(response) /\ Len(response) \in Nat
    BY DEF WiphyType
  <1>2. IsFiniteSet(1..Len(response))
    BY <1>1, FS_Interval
  <1>3. IsFiniteSet(S)
    <2>1. S \in SUBSET (1..Len(response))
      BY <1>1
    <2> HIDE DEF S
    <2> QED BY <1>2, <2>1, FS_Subset
  <1>4. PICK x : S = {x}
    <2> HIDE DEF S
    <2>1. Cardinality(S) = 1
      BY DEF S
    <2> QED BY <1>3, <2>1, FS_Singleton
  <1>5. \A i : i \in S <=> i \in DOMAIN response /\ HasLimits(i)
    BY DEF HasLimits
  <1> HIDE DEF S
  <1>6. x \in DOMAIN response /\ HasLimits(x)
    BY <1>4, <1>5
  <1>7. ~Twice
    BY <1>4, <1>5 DEF Twice
  <1> QED BY <1>6, <1>7

\* CompleteAccepted: GetWiphyInfo does not fail on a complete reply that was
\* neither refused nor repeated, though no message of a split dump parses alone.
THEOREM CompleteIsAccepted == Spec => CompleteAccepted
  <1>1. ASSUME WiphyInv, GetWiphyInfo, ~Refused,
               Cardinality({i \in DOMAIN response :
                   response[i].wiphy = "own" /\ response[i].attrs.limits # <<>>}) = 1
        PROVE  ok'
    <2>1. WiphyType
      BY <1>1 DEF WiphyInv
    <2>2. ~Twice /\ \E i \in DOMAIN response : HasLimits(i)
      BY <1>1, <2>1, OneLimits
    <2>3. Rejected \/ Accepted
      BY <1>1, Outcome
    <2> QED BY <1>1, <2>2, <2>3 DEF Rejected, Accepted
  <1>2. WiphyInv /\ [Next]_vars =>
           [/\ GetWiphyInfo
            /\ Cardinality({i \in DOMAIN response :
                  response[i].wiphy = "own" /\ response[i].attrs.limits # <<>>}) = 1
            /\ ~Refused
            => ok']_vars
    BY <1>1
  <1> QED BY <1>2, WiphyHolds, PTL DEF Spec, CompleteAccepted
=============================================================================
