--------------------------- MODULE TransfersProofs ---------------------------
(***************************************************************************)
(* The bytes of an upload and of a download, for uploads of any number of  *)
(* parts, any number of attempts and appends, and words of any width.      *)
(***************************************************************************)
EXTENDS Transfers, SequenceTheorems, TLAPS

-----------------------------------------------------------------------------
(***************************************************************************)
(* Prefixes and parts of sequences.                                        *)
(***************************************************************************)
LEMMA PrefixElements ==
    ASSUME NEW S, NEW s \in Seq(S), NEW t \in Seq(S)
    PROVE  IsPrefix(s, t) <=> Len(s) <= Len(t) /\ \A i \in 1 .. Len(s) : s[i] = t[i]
  <1>1. CASE Len(s) <= Len(t)
    <2>1. SubSeq(s, 1, Len(s)) = s
      BY SubSeqFull
    <2>2. /\ SubSeq(t, 1, Len(s)) \in Seq(S) /\ Len(SubSeq(t, 1, Len(s))) = Len(s)
          /\ \A i \in 1 .. Len(s) : SubSeq(t, 1, Len(s))[i] = t[i]
      <3>1. Len(s) \in Nat /\ Len(t) \in Nat /\ \A i \in 1 .. Len(s) : t[i] \in S
        BY <1>1
      <3>2. /\ SubSeq(t, 1, Len(s)) \in Seq(S)
            /\ Len(SubSeq(t, 1, Len(s))) = IF 1 <= Len(s) THEN Len(s) - 1 + 1 ELSE 0
            /\ \A i \in 1 .. Len(s) - 1 + 1 : SubSeq(t, 1, Len(s))[i] = t[1 + i - 1]
        BY <3>1, SubSeqProperties
      <3> QED BY <3>1, <3>2
    <2>3. s = SubSeq(t, 1, Len(s)) <=> \A i \in 1 .. Len(s) : s[i] = t[i]
      BY <2>2, SeqEqual
    <2> QED BY <1>1, <2>1, <2>3 DEF IsPrefix
  <1>2. CASE ~(Len(s) <= Len(t))
    BY <1>2 DEF IsPrefix
  <1> QED BY <1>1, <1>2

LEMMA PrefixTransitive ==
    ASSUME NEW S, NEW s \in Seq(S), NEW t \in Seq(S), NEW u \in Seq(S), IsPrefix(s, t), IsPrefix(t, u)
    PROVE  IsPrefix(s, u)
  <1>1. Len(s) \in Nat /\ Len(t) \in Nat /\ Len(u) \in Nat
    OBVIOUS
  <1>2. /\ Len(s) <= Len(t) /\ \A i \in 1 .. Len(s) : s[i] = t[i]
        /\ Len(t) <= Len(u) /\ \A i \in 1 .. Len(t) : t[i] = u[i]
    BY PrefixElements
  <1>3. Len(s) <= Len(u) /\ \A i \in 1 .. Len(s) : s[i] = u[i]
    BY <1>1, <1>2
  <1> QED BY <1>3, PrefixElements

\* Of two beginnings of a sequence the shorter one is a beginning of the other.
LEMMA PrefixesOfOne ==
    ASSUME NEW S, NEW s \in Seq(S), NEW t \in Seq(S), NEW u \in Seq(S),
           IsPrefix(s, u), IsPrefix(t, u), Len(s) <= Len(t)
    PROVE  /\ IsPrefix(s, t)
           /\ Len(s) = Len(t) => s = t
  <1>1. Len(s) \in Nat /\ Len(t) \in Nat /\ Len(u) \in Nat
    OBVIOUS
  <1>2. /\ \A i \in 1 .. Len(s) : s[i] = u[i]
        /\ \A i \in 1 .. Len(t) : t[i] = u[i]
    BY PrefixElements
  <1>3. \A i \in 1 .. Len(s) : s[i] = t[i]
    BY <1>1, <1>2
  <1> QED BY <1>3, PrefixElements, SeqEqual

LEMMA ConcatPrefix ==
    ASSUME NEW S, NEW s \in Seq(S), NEW t \in Seq(S)
    PROVE  s \o t \in Seq(S) /\ Len(s \o t) = Len(s) + Len(t) /\ IsPrefix(s, s \o t)
  <1>1. /\ s \o t \in Seq(S) /\ Len(s \o t) = Len(s) + Len(t)
        /\ \A i \in 1 .. Len(s) + Len(t) : (s \o t)[i] = IF i <= Len(s) THEN s[i] ELSE t[i - Len(s)]
    BY ConcatProperties
  <1>2. Len(s) \in Nat /\ Len(t) \in Nat
    OBVIOUS
  <1>3. Len(s) <= Len(s \o t) /\ \A i \in 1 .. Len(s) : s[i] = (s \o t)[i]
    BY <1>1, <1>2
  <1> QED BY <1>1, <1>3, PrefixElements

LEMMA ReverseProperties ==
    ASSUME NEW S, NEW s \in Seq(S)
    PROVE  /\ Reverse(s) \in Seq(S) /\ Len(Reverse(s)) = Len(s)
           /\ \A i \in 1 .. Len(s) : Reverse(s)[i] = s[Len(s) - i + 1]
  <1>1. Len(s) \in Nat /\ \A i \in 1 .. Len(s) : Len(s) - i + 1 \in 1 .. Len(s) /\ s[Len(s) - i + 1] \in S
    <2>1. \A i \in 1 .. Len(s) : Len(s) - i + 1 \in 1 .. Len(s)
      OBVIOUS
    <2> QED BY <2>1
  <1>2. Reverse(s) \in [1 .. Len(s) -> S]
    BY <1>1 DEF Reverse
  <1>3. Reverse(s) \in Seq(S)
    BY <1>1, <1>2, SeqDef
  <1> QED BY <1>1, <1>2, <1>3 DEF Reverse

LEMMA ConcatSuffix ==
    ASSUME NEW S, NEW s \in Seq(S), NEW t \in Seq(S)
    PROVE  IsSuffix(t, s \o t)
  <1> DEFINE u == s \o t
  <1>1. /\ u \in Seq(S) /\ Len(u) = Len(s) + Len(t)
        /\ \A i \in 1 .. Len(s) + Len(t) : u[i] = IF i <= Len(s) THEN s[i] ELSE t[i - Len(s)]
    BY ConcatProperties
  <1>2. Len(s) \in Nat /\ Len(t) \in Nat
    OBVIOUS
  <1> HIDE DEF u
  <1>3. /\ Reverse(t) \in Seq(S) /\ Len(Reverse(t)) = Len(t)
        /\ \A i \in 1 .. Len(t) : Reverse(t)[i] = t[Len(t) - i + 1]
    BY ReverseProperties
  <1>4. /\ Reverse(u) \in Seq(S) /\ Len(Reverse(u)) = Len(u)
        /\ \A i \in 1 .. Len(u) : Reverse(u)[i] = u[Len(u) - i + 1]
    BY <1>1, ReverseProperties
  <1>5. ASSUME NEW i \in 1 .. Len(t)
        PROVE  Reverse(t)[i] = Reverse(u)[i]
    <2>1. Len(u) - i + 1 \in 1 .. Len(u) /\ ~(Len(u) - i + 1 <= Len(s)) /\ i \in 1 .. Len(u)
      BY <1>1, <1>2
    <2>2. u[Len(u) - i + 1] = t[Len(u) - i + 1 - Len(s)]
      BY <1>1, <2>1
    <2>3. Len(u) - i + 1 - Len(s) = Len(t) - i + 1
      BY <1>1, <1>2
    <2> QED BY <1>3, <1>4, <2>1, <2>2, <2>3
  <1>6. Len(Reverse(t)) <= Len(Reverse(u)) /\ \A i \in 1 .. Len(Reverse(t)) : Reverse(t)[i] = Reverse(u)[i]
    BY <1>1, <1>2, <1>3, <1>4, <1>5
  <1>7. IsPrefix(Reverse(t), Reverse(u))
    BY <1>3, <1>4, <1>6, PrefixElements
  <1> QED BY <1>7 DEF IsSuffix, u

LEMMA WindowElements ==
    ASSUME NEW S, NEW s \in Seq(S), NEW m \in Nat, NEW n \in Nat, m + n <= Len(s)
    PROVE  /\ SubSeq(s, m + 1, m + n) \in Seq(S) /\ Len(SubSeq(s, m + 1, m + n)) = n
           /\ \A i \in 1 .. n : SubSeq(s, m + 1, m + n)[i] = s[m + i]
  <1>1. m + 1 \in Int /\ m + n \in Int /\ \A i \in m + 1 .. m + n : s[i] \in S
    BY LenProperties
  <1>2. /\ SubSeq(s, m + 1, m + n) \in Seq(S)
        /\ Len(SubSeq(s, m + 1, m + n)) = IF m + 1 <= m + n THEN m + n - (m + 1) + 1 ELSE 0
        /\ \A i \in 1 .. m + n - (m + 1) + 1 : SubSeq(s, m + 1, m + n)[i] = s[m + 1 + i - 1]
    BY <1>1, SubSeqProperties
  <1>3. m + n - (m + 1) + 1 = n
    OBVIOUS
  <1>4. \A i \in 1 .. n : m + 1 + i - 1 = m + i
    OBVIOUS
  <1> QED BY <1>2, <1>3, <1>4

LEMMA SameWindow ==
    ASSUME NEW S, NEW s \in Seq(S), NEW t \in Seq(S), IsPrefix(s, t),
           NEW m \in Nat, NEW n \in Nat, m + n <= Len(s)
    PROVE  SubSeq(s, m + 1, m + n) = SubSeq(t, m + 1, m + n) /\ m + n <= Len(t)
  <1>1. Len(s) \in Nat /\ Len(t) \in Nat /\ Len(s) <= Len(t) /\ \A i \in 1 .. Len(s) : s[i] = t[i]
    BY PrefixElements
  <1>2. m + n <= Len(t)
    BY <1>1
  <1>3. /\ SubSeq(s, m + 1, m + n) \in Seq(S) /\ Len(SubSeq(s, m + 1, m + n)) = n
        /\ \A i \in 1 .. n : SubSeq(s, m + 1, m + n)[i] = s[m + i]
    BY WindowElements
  <1>4. /\ SubSeq(t, m + 1, m + n) \in Seq(S) /\ Len(SubSeq(t, m + 1, m + n)) = n
        /\ \A i \in 1 .. n : SubSeq(t, m + 1, m + n)[i] = t[m + i]
    BY <1>2, WindowElements
  <1>5. \A i \in 1 .. n : m + i \in 1 .. Len(s)
    BY <1>1
  <1>6. \A i \in 1 .. n : SubSeq(s, m + 1, m + n)[i] = SubSeq(t, m + 1, m + n)[i]
    BY <1>1, <1>3, <1>4, <1>5
  <1> QED BY <1>2, <1>3, <1>4, <1>6, SeqEqual

LEMMA LastWindow ==
    ASSUME NEW S, NEW s \in Seq(S), NEW t \in Seq(S)
    PROVE  SubSeq(s \o t, Len(s) + 1, Len(s) + Len(t)) = t
  <1> DEFINE u == s \o t
             w == SubSeq(u, Len(s) + 1, Len(s) + Len(t))
  <1>1. /\ u \in Seq(S) /\ Len(u) = Len(s) + Len(t)
        /\ \A i \in 1 .. Len(s) + Len(t) : u[i] = IF i <= Len(s) THEN s[i] ELSE t[i - Len(s)]
    BY ConcatProperties
  <1>2. Len(s) \in Nat /\ Len(t) \in Nat
    OBVIOUS
  <1> HIDE DEF u
  <1>3. w \in Seq(S) /\ Len(w) = Len(t) /\ \A i \in 1 .. Len(t) : w[i] = u[Len(s) + i]
    <2>1. Len(s) + Len(t) <= Len(u)
      BY <1>1, <1>2
    <2> QED BY <1>1, <1>2, <2>1, WindowElements
  <1>4. \A i \in 1 .. Len(t) : /\ Len(s) + i \in 1 .. Len(s) + Len(t) /\ ~(Len(s) + i <= Len(s))
                               /\ Len(s) + i - Len(s) = i
    BY <1>2
  <1> HIDE DEF w
  <1>5. \A i \in 1 .. Len(t) : w[i] = t[i]
    BY <1>1, <1>3, <1>4
  <1>6. w = t
    BY <1>3, <1>5, SeqEqual
  <1> QED BY <1>6 DEF u, w

-----------------------------------------------------------------------------
(***************************************************************************)
(* The parts of an upload in a blob.                                       *)
(***************************************************************************)
Data(sizes, i) == [ j \in 1 .. sizes[i] |-> <<i, j>> ]

\* The places of the parts.
PartsAt(sizes, bytes, at, first, final) ==
    /\ \A i \in first .. final :
          /\ at[i] \in 0 .. Len(bytes)
          /\ at[i] + sizes[i] <= Len(bytes)
          /\ SubSeq(bytes, at[i] + 1, at[i] + sizes[i]) = Data(sizes, i)
    /\ \A i \in first .. final : i > first => at[i - 1] + sizes[i - 1] <= at[i]

HoldsParts(sizes, bytes, first, final) ==
    \E at \in [first .. final -> 0 .. Len(bytes)] : PartsAt(sizes, bytes, at, first, final)

LEMMA PartsHeld ==
    ASSUME NEW bytes, NEW first, NEW final
    PROVE  HasParts(bytes, first, final) <=> HoldsParts(plan, bytes, first, final)
  BY DEF HasParts, HoldsParts, PartsAt, PartData, Data

\* What comes after the parts of a blob does not disturb them.
LEMMA PartsStay ==
    ASSUME NEW S, NEW s \in Seq(S), NEW t \in Seq(S), IsPrefix(s, t),
           NEW sizes \in Seq(Nat \ {0}), NEW first \in 1 .. Len(sizes), NEW final \in 0 .. Len(sizes),
           HoldsParts(sizes, s, first, final)
    PROVE  HoldsParts(sizes, t, first, final)
  <1>1. PICK at \in [first .. final -> 0 .. Len(s)] : PartsAt(sizes, s, at, first, final)
    BY DEF HoldsParts
  <1>2. Len(s) \in Nat /\ Len(t) \in Nat /\ Len(s) <= Len(t)
    BY PrefixElements
  <1>3. at \in [first .. final -> 0 .. Len(t)]
    BY <1>1, <1>2
  <1>4. ASSUME NEW i \in first .. final
        PROVE  /\ at[i] \in 0 .. Len(t)
               /\ at[i] + sizes[i] <= Len(t)
               /\ SubSeq(t, at[i] + 1, at[i] + sizes[i]) = Data(sizes, i)
    <2>1. at[i] \in Nat /\ sizes[i] \in Nat
      BY <1>1, <1>2
    <2>2. at[i] + sizes[i] <= Len(s) /\ SubSeq(s, at[i] + 1, at[i] + sizes[i]) = Data(sizes, i)
      BY <1>1 DEF PartsAt
    <2> QED BY <1>3, <2>1, <2>2, SameWindow
  <1>5. PartsAt(sizes, t, at, first, final)
    BY <1>1, <1>4 DEF PartsAt
  <1> QED BY <1>3, <1>5 DEF HoldsParts

\* The next part goes to the end of a blob that has the parts before it.
LEMMA PartsGrow ==
    ASSUME NEW S, NEW s \in Seq(S), NEW sizes \in Seq(Nat \ {0}),
           NEW first \in 1 .. Len(sizes), NEW i \in first .. Len(sizes),
           Data(sizes, i) \in Seq(S), Len(Data(sizes, i)) = sizes[i],
           HoldsParts(sizes, s, first, i - 1)
    PROVE  HoldsParts(sizes, s \o Data(sizes, i), first, i)
  <1> DEFINE t == s \o Data(sizes, i)
  <1>1. t \in Seq(S) /\ Len(t) = Len(s) + sizes[i] /\ IsPrefix(s, t)
    BY ConcatPrefix
  <1>2. SubSeq(t, Len(s) + 1, Len(s) + sizes[i]) = Data(sizes, i)
    BY LastWindow
  <1>3. i - 1 \in 0 .. Len(sizes) /\ Len(s) \in Nat /\ Len(t) \in Nat /\ i \in Nat /\ first \in Nat
    BY <1>1
  <1> HIDE DEF t
  <1>4. \A j \in 1 .. Len(sizes) : sizes[j] \in Nat
    OBVIOUS
  <1>5. PICK old \in [first .. i - 1 -> 0 .. Len(s)] : PartsAt(sizes, s, old, first, i - 1)
    BY DEF HoldsParts
  <1> DEFINE at == [ j \in first .. i |-> IF j = i THEN Len(s) ELSE old[j] ]
  <1>6. at \in [first .. i -> 0 .. Len(t)]
    BY <1>1, <1>3, <1>4, <1>5
  <1>7. at[i] = Len(s) /\ \A j \in first .. i - 1 : at[j] = old[j] /\ j \in first .. i /\ j # i
    BY <1>3
  <1> HIDE DEF at
  <1>8. ASSUME NEW j \in first .. i
        PROVE  /\ at[j] \in 0 .. Len(t)
               /\ at[j] + sizes[j] <= Len(t)
               /\ SubSeq(t, at[j] + 1, at[j] + sizes[j]) = Data(sizes, j)
    <2>1. CASE j = i
      <3>1. i \in 1 .. Len(sizes) /\ sizes[i] \in Nat
        BY <1>3, <1>4
      <3>2. at[j] = Len(s) /\ at[j] \in 0 .. Len(t) /\ at[j] + sizes[j] <= Len(t)
        BY <1>1, <1>3, <1>7, <2>1, <3>1
      <3> QED BY <1>2, <2>1, <3>2
    <2>2. CASE j \in first .. i - 1
      <3>1. at[j] \in Nat /\ sizes[j] \in Nat
        BY <1>3, <1>4, <1>5, <1>7, <2>2
      <3>2. at[j] + sizes[j] <= Len(s) /\ SubSeq(s, at[j] + 1, at[j] + sizes[j]) = Data(sizes, j)
        BY <1>5, <1>7, <2>2 DEF PartsAt
      <3> QED BY <1>1, <1>6, <3>1, <3>2, SameWindow
    <2> QED BY <1>3, <2>1, <2>2
  <1>9. ASSUME NEW j \in first .. i, j > first
        PROVE  at[j - 1] + sizes[j - 1] <= at[j]
    <2>1. j - 1 \in first .. i - 1
      BY <1>3, <1>9
    <2>2. CASE j = i
      BY <1>5, <1>7, <2>1, <2>2 DEF PartsAt
    <2>3. CASE j \in first .. i - 1
      BY <1>5, <1>7, <1>9, <2>1, <2>3 DEF PartsAt
    <2> QED BY <1>3, <2>2, <2>3
  <1>10. PartsAt(sizes, t, at, first, i)
    BY <1>8, <1>9 DEF PartsAt
  <1> QED BY <1>6, <1>10 DEF HoldsParts, t

\* There is room for no part in any blob.
LEMMA NoPartsYet ==
    ASSUME NEW bytes, NEW sizes, NEW first \in Nat
    PROVE  HoldsParts(sizes, bytes, first, first - 1)
  <1> DEFINE none == [ j \in first .. first - 1 |-> 0 ]
  <1>1. first .. first - 1 = {}
    OBVIOUS
  <1>2. none \in [first .. first - 1 -> 0 .. Len(bytes)]
    BY <1>1
  <1>3. PartsAt(sizes, bytes, none, first, first - 1)
    BY <1>1 DEF PartsAt
  <1> QED BY <1>2, <1>3 DEF HoldsParts

-----------------------------------------------------------------------------
(***************************************************************************)
(* What an attempt writes.                                                 *)
(***************************************************************************)
LEMMA TakenData ==
    ASSUME NEW S, NEW bytes \in Seq(S)
    PROVE  /\ Taken(bytes) \in Seq(S) /\ Len(Taken(bytes)) = Smaller(Len(bytes), MaxBuf)
           /\ Len(bytes) <= MaxBuf => Taken(bytes) = bytes
  <1> DEFINE n == Smaller(Len(bytes), MaxBuf)
  <1>1. n \in Nat /\ n <= Len(bytes) /\ (Len(bytes) <= MaxBuf => n = Len(bytes))
    BY TransferAssumption DEF Smaller
  <1> HIDE DEF n
  <1>2. SubSeq(bytes, 0 + 1, 0 + n) \in Seq(S) /\ Len(SubSeq(bytes, 0 + 1, 0 + n)) = n
    BY <1>1, WindowElements
  <1>3. SubSeq(bytes, 1, n) \in Seq(S) /\ Len(SubSeq(bytes, 1, n)) = n
    BY <1>1, <1>2
  <1>4. n = Len(bytes) => SubSeq(bytes, 1, n) = bytes
    BY SubSeqFull
  <1> USE DEF n
  <1> QED BY <1>1, <1>3, <1>4 DEF Taken

LEMMA PlanFacts ==
    ASSUME TransfersTypeOK
    PROVE  /\ plan \in Seq(Nat \ {0}) /\ Len(plan) \in Nat \ {0} /\ DOMAIN plan = 1 .. Len(plan)
           /\ \A i \in 1 .. Len(plan) :
                 /\ plan[i] \in Nat \ {0} /\ plan[i] + MAX_READ_SIZE < Word
                 /\ PartData(i) = Data(plan, i)
                 /\ PartData(i) \in Seq(Byte) /\ Len(PartData(i)) = plan[i]
  <1>1. plan \in Plans /\ plan \in Seq(Nat \ {0}) /\ plan # <<>>
    BY TransferAssumption DEF TransfersTypeOK
  <1>2. Len(plan) \in Nat \ {0} /\ DOMAIN plan = 1 .. Len(plan)
    BY <1>1, EmptySeq, LenProperties
  <1>3. ASSUME NEW i \in 1 .. Len(plan)
        PROVE  /\ plan[i] \in Nat \ {0} /\ plan[i] + MAX_READ_SIZE < Word
               /\ PartData(i) = Data(plan, i)
               /\ PartData(i) \in Seq(Byte) /\ Len(PartData(i)) = plan[i]
    <2>1. plan[i] \in Nat \ {0}
      BY <1>1, ElementOfSeq
    <2>2. plan[i] + MAX_READ_SIZE < Word
      BY <1>1, <1>2, LengthAssumption
    <2>3. PartData(i) \in [1 .. plan[i] -> Byte]
      BY <1>2, <2>1 DEF PartData, Byte
    <2>4. PartData(i) \in Seq(Byte) /\ DOMAIN PartData(i) = 1 .. plan[i]
      BY <2>1, <2>3, SeqDef
    <2>5. Len(PartData(i)) = plan[i]
      BY <2>1, <2>4, LenProperties
    <2> QED BY <2>1, <2>2, <2>4, <2>5 DEF PartData, Data
  <1> QED BY <1>1, <1>2, <1>3

LEMMA AttemptFacts ==
    ASSUME TransfersTypeOK, NEW a \in pending
    PROVE  /\ a.id \in 1 .. attempts /\ a.part \in 1 .. Len(plan) /\ a.token \in 0 .. minted
           /\ Blob(a) \in 1 .. minted + 1
           /\ Blob(a) \in DOMAIN blobs => a.token # NoToken
           /\ Content(Blob(a)) \in Seq(Byte) /\ Written(a) \in Seq(Byte)
           /\ Len(Content(Blob(a))) \in Nat
           /\ IsPrefix(Content(Blob(a)), Written(a))
           /\ Written(a) = Content(Blob(a)) \o Taken(PartData(a.part))
           /\ Taken(PartData(a.part)) \in Seq(Byte)
           /\ Len(Taken(PartData(a.part))) = Smaller(plan[a.part], MaxBuf)
           /\ PartsFit => Taken(PartData(a.part)) = Data(plan, a.part)
           /\ Blob(a) \notin DOMAIN blobs => Written(a) = Taken(PartData(a.part))
  <1> DEFINE c == Content(Blob(a))
             d == Taken(PartData(a.part))
  <1>1. a.id \in 1 .. attempts /\ a.part \in DOMAIN plan /\ a.token \in 0 .. minted /\ minted \in Nat
        /\ DOMAIN blobs \subseteq 1 .. minted
    BY DEF TransfersTypeOK, Attempt
  <1>2. a.part \in 1 .. Len(plan)
    BY <1>1, PlanFacts
  <1>3. Blob(a) \in 1 .. minted + 1 /\ (Blob(a) \in DOMAIN blobs => a.token # NoToken)
    BY <1>1 DEF Blob, NoToken
  <1>4. /\ PartData(a.part) \in Seq(Byte) /\ Len(PartData(a.part)) = plan[a.part]
        /\ PartData(a.part) = Data(plan, a.part)
    BY <1>2, PlanFacts
  <1>5. /\ d \in Seq(Byte) /\ Len(d) = Smaller(plan[a.part], MaxBuf)
        /\ plan[a.part] <= MaxBuf => d = PartData(a.part)
    BY <1>4, TakenData
  <1>6. PartsFit => d = Data(plan, a.part)
    BY <1>1, <1>4, <1>5 DEF PartsFit
  <1>7. c \in Seq(Byte) /\ (Blob(a) \notin DOMAIN blobs => c = <<>>)
    BY EmptySeq DEF Content, TransfersTypeOK
  <1>8. Written(a) = c \o d
    BY DEF Written
  <1> HIDE DEF c, d
  <1>9. c \o d \in Seq(Byte) /\ IsPrefix(c, c \o d) /\ Len(c) \in Nat
    BY <1>5, <1>7, ConcatPrefix
  <1>10. c = <<>> => c \o d = d
    BY <1>5, ConcatEmptySeq
  <1> USE DEF c, d
  <1> QED BY <1>1, <1>2, <1>3, <1>5, <1>6, <1>7, <1>8, <1>9, <1>10

-----------------------------------------------------------------------------
(***************************************************************************)
(* Steps that add to the blobs and commit nothing.                         *)
(***************************************************************************)
LEMMA GrowStep ==
    ASSUME TransfersIInv, TransfersTypeOK', AttemptsOK', PartsOK',
           UNCHANGED <<plan, file, base, torn, reader>>,
           \A ulid \in DOMAIN blobs : ulid \in DOMAIN blobs' /\ IsPrefix(blobs[ulid], blobs'[ulid]),
           file # NoFile => token' # file.blob /\ \A a \in pending' : a.token # file.blob,
           outcome' = "done" => outcome = "done"
    PROVE  TransfersIInv'
  <1> USE DEF TransfersIInv
  <1>1. Byte' = Byte
    BY DEF Byte
  <1>2. file # NoFile =>
           /\ file.blob \in DOMAIN blobs /\ blobs[file.blob] \in Seq(Byte)
           /\ blobs'[file.blob] \in Seq(Byte)
           /\ IsPrefix(blobs[file.blob], blobs'[file.blob])
    BY <1>1 DEF TransfersTypeOK
  <1>3. base \in Seq(Byte) /\ reader.got \in Seq(Byte)
    BY DEF TransfersTypeOK
  <1>4. FileOK'
    <2>1. SUFFICES ASSUME file # NoFile
                   PROVE  /\ IsPrefix(base, blobs'[file.blob])
                          /\ IsKnown(file) => file.length = plan[Len(plan)]
                                               /\ Len(base) = Smaller(file.length, MaxBuf)
      BY DEF FileOK, IsKnown
    <2>2. /\ IsPrefix(base, blobs[file.blob])
          /\ IsKnown(file) => file.length = plan[Len(plan)] /\ Len(base) = Smaller(file.length, MaxBuf)
      BY <2>1 DEF FileOK
    <2> QED BY <1>2, <1>3, <2>1, <2>2, PrefixTransitive
  <1>5. ReaderOK'
    <2>1. reader.state # "idle" => IsPrefix(reader.got, blobs'[file.blob])
      BY <1>2, <1>3, PrefixTransitive DEF ReaderOK
    <2> QED BY <2>1 DEF ReaderOK, IsKnown
  <1>6. UploadIsWhole'
    BY DEF UploadIsWhole, PartsFit, HasParts, PartData
  <1> QED BY <1>4, <1>5, <1>6

\* The attempt that is over is not there any more, and the client has its reply
\* or waits for none.
LEMMA ReplyStep ==
    ASSUME TransfersIInv, NEW a \in pending, pending' = pending \ {a}, attempts' = attempts,
           \/ UNCHANGED client
           \/ a.id = attempts /\ (part' = 1 <=> token' = NoToken)
    PROVE  AttemptsOK'
  <1>1. \A x, y \in pending' : x.id = y.id => x = y
    BY DEF AttemptsOK, TransfersIInv
  <1>2. CASE UNCHANGED client
    BY <1>1, <1>2 DEF AttemptsOK, TransfersIInv, client
  <1>3. CASE a.id = attempts /\ (part' = 1 <=> token' = NoToken)
    <2>1. \A x \in pending' : x.id # attempts
      BY <1>3 DEF AttemptsOK, TransfersIInv
    <2> QED BY <1>1, <1>3, <2>1 DEF AttemptsOK
  <1> QED BY <1>2, <1>3

\* The types after an attempt.
LEMMA HandleTypes ==
    ASSUME TransfersIInv, NEW a \in pending, pending' = pending \ {a},
           UNCHANGED <<plan, attempts, reader, appends>>,
           minted' \in {minted, minted + 1},
           DOMAIN blobs' \subseteq 1 .. minted',
           \A ulid \in DOMAIN blobs' : blobs'[ulid] \in Seq(Byte),
           file' # NoFile => file'.blob \in DOMAIN blobs' /\ file'.length \in 1 .. UNKNOWN_SIZE,
           part' \in 1 .. Len(plan), token' \in 0 .. minted', outcome' \in {"sending", "done", "refused"},
           base' \in Seq(Byte), torn' \in BOOLEAN
    PROVE  TransfersTypeOK'
  <1>1. Byte' = Byte
    BY DEF Byte
  <1>2. minted' \in Nat /\ minted <= minted'
    BY DEF TransfersIInv, TransfersTypeOK
  <1>3. pending' \subseteq Attempt'
    <2>1. ASSUME NEW x \in pending
          PROVE  x \in [id : 1 .. attempts, part : DOMAIN plan, token : 0 .. minted']
      <3>1. x \in [id : 1 .. attempts, part : DOMAIN plan, token : 0 .. minted]
        BY DEF TransfersIInv, TransfersTypeOK, Attempt
      <3>2. 0 .. minted \subseteq 0 .. minted'
        BY <1>2 DEF TransfersIInv, TransfersTypeOK
      <3> QED BY <3>1, <3>2
    <2> QED BY <2>1 DEF Attempt
  <1>4. part' \in DOMAIN plan
    BY PlanFacts DEF TransfersIInv
  <1> QED BY <1>1, <1>2, <1>3, <1>4 DEF TransfersIInv, TransfersTypeOK

\* The client when it gets its reply.
LEMMA ClientTypes ==
    ASSUME TransfersIInv, NEW a \in pending, NEW nextPart, NEW nextToken, NEW result,
           Reply(a, nextPart, nextToken, result)
    PROVE  \/ UNCHANGED client
           \/ /\ a.id = attempts /\ outcome = "sending" /\ a.part = part /\ a.token = token
              /\ part' = nextPart /\ token' = nextToken /\ outcome' = result
  BY DEF Reply, AttemptsOK, TransfersIInv

\* A blob with something more in it, or a new one.
LEMMA StoredBlobs ==
    ASSUME TransfersIInv, NEW a \in pending, NEW bytes \in {Written(a), Content(Blob(a))},
           blobs' = Stored(Blob(a), bytes),
           minted' = IF a.token = NoToken THEN minted + 1 ELSE minted
    PROVE  /\ minted' \in {minted, minted + 1} /\ minted' \in Nat /\ minted <= minted'
           /\ DOMAIN blobs' = DOMAIN blobs \cup {Blob(a)} /\ Blob(a) \in 1 .. minted'
           /\ DOMAIN blobs' \subseteq 1 .. minted'
           /\ \A ulid \in DOMAIN blobs' : blobs'[ulid] \in Seq(Byte)
           /\ blobs'[Blob(a)] = bytes
           /\ \A ulid \in DOMAIN blobs : ulid \in DOMAIN blobs' /\ IsPrefix(blobs[ulid], blobs'[ulid])
  <1>1. /\ minted \in Nat /\ DOMAIN blobs \subseteq 1 .. minted
        /\ \A ulid \in DOMAIN blobs : blobs[ulid] \in Seq(Byte)
    BY DEF TransfersIInv, TransfersTypeOK
  <1>2. /\ a.token \in 0 .. minted /\ Content(Blob(a)) \in Seq(Byte) /\ Written(a) \in Seq(Byte)
        /\ IsPrefix(Content(Blob(a)), Written(a))
    BY AttemptFacts DEF TransfersIInv
  <1>3. minted' \in {minted, minted + 1} /\ minted' \in Nat /\ minted <= minted'
        /\ Blob(a) \in 1 .. minted'
    BY <1>1, <1>2 DEF Blob, NoToken
  <1>4. /\ DOMAIN blobs' = DOMAIN blobs \cup {Blob(a)} /\ blobs'[Blob(a)] = bytes
        /\ \A ulid \in DOMAIN blobs : ulid # Blob(a) => blobs'[ulid] = blobs[ulid]
    BY DEF Stored
  <1>5. DOMAIN blobs' \subseteq 1 .. minted'
    BY <1>1, <1>3, <1>4
  <1>6. bytes \in Seq(Byte)
    BY <1>2
  <1>7. \A s \in Seq(Byte) : IsPrefix(s, s)
    BY PrefixElements
  <1>8. ASSUME NEW ulid \in DOMAIN blobs
        PROVE  IsPrefix(blobs[ulid], blobs'[ulid])
    <2>1. CASE ulid = Blob(a)
      <3>1. Content(Blob(a)) = blobs[ulid]
        BY <2>1 DEF Content
      <3> QED BY <1>2, <1>4, <1>7, <2>1, <3>1
    <2>2. CASE ulid # Blob(a)
      BY <1>1, <1>4, <1>7, <2>2
    <2> QED BY <2>1, <2>2
  <1> QED BY <1>1, <1>3, <1>4, <1>5, <1>6, <1>8

\* What the attempt that the client waits for writes has the parts so far.
LEMMA WholeSoFar ==
    ASSUME TransfersIInv, NEW a \in pending, a.id = attempts, PartsFit, file = NoFile, ~torn
    PROVE  HoldsParts(plan, Written(a), 1, a.part)
  <1> DEFINE c == Content(Blob(a))
  <1>1. outcome = "sending" /\ a.part = part /\ a.token = token /\ (part = 1 <=> token = NoToken)
    BY DEF TransfersIInv, AttemptsOK
  <1>2. /\ a.part \in 1 .. Len(plan) /\ c \in Seq(Byte) /\ Written(a) = c \o Data(plan, a.part)
        /\ Blob(a) \in DOMAIN blobs => a.token # NoToken
    BY AttemptFacts DEF TransfersIInv
  <1>3. plan \in Seq(Nat \ {0}) /\ Len(plan) \in Nat \ {0}
        /\ Data(plan, a.part) \in Seq(Byte) /\ Len(Data(plan, a.part)) = plan[a.part]
    BY <1>2, PlanFacts DEF TransfersIInv
  <1>4. HoldsParts(plan, c, 1, a.part - 1)
    <2>1. CASE token = NoToken
      <3>1. HoldsParts(plan, c, 1, 1 - 1)
        BY NoPartsYet
      <3>2. a.part - 1 = 1 - 1
        BY <1>1, <2>1
      <3> QED BY <3>1, <3>2
    <2>2. CASE token # NoToken
      <3>1. token \in DOMAIN blobs /\ HasParts(blobs[token], 1, part - 1)
        BY <1>1, <2>2 DEF TransfersIInv, PartsOK
      <3>2. c = blobs[token]
        BY <1>1, <2>2, <3>1 DEF Content, Blob
      <3> QED BY <1>1, <3>1, <3>2, PartsHeld
    <2> QED BY <2>1, <2>2
  <1> HIDE DEF c
  <1>5. 1 \in 1 .. Len(plan)
    BY <1>3
  <1> QED BY <1>2, <1>3, <1>4, <1>5, PartsGrow

LEMMA StoreStep ==
    ASSUME TransfersIInv, NEW a \in pending, pending' = pending \ {a},
           UNCHANGED <<plan, attempts, reader, appends, file, base, torn>>,
           NEW bytes \in {Written(a), Content(Blob(a))},
           blobs' = Stored(Blob(a), bytes),
           minted' = IF a.token = NoToken THEN minted + 1 ELSE minted,
           \/ UNCHANGED client
           \/ /\ ~IsLast(a) /\ bytes = Written(a)
              /\ Reply(a, part + 1, Blob(a), "sending")
           \/ /\ file # NoFile
              /\ Reply(a, part, token, "refused")
    PROVE  TransfersIInv'
  <1>1. /\ minted' \in {minted, minted + 1} /\ minted' \in Nat /\ minted <= minted'
        /\ Blob(a) \in 1 .. minted'
        /\ DOMAIN blobs' \subseteq 1 .. minted' /\ DOMAIN blobs' = DOMAIN blobs \cup {Blob(a)}
        /\ \A ulid \in DOMAIN blobs' : blobs'[ulid] \in Seq(Byte)
        /\ blobs'[Blob(a)] = bytes
        /\ \A ulid \in DOMAIN blobs : ulid \in DOMAIN blobs' /\ IsPrefix(blobs[ulid], blobs'[ulid])
    BY StoredBlobs
  <1>2. \/ UNCHANGED client
        \/ /\ a.id = attempts /\ outcome = "sending" /\ a.part = part /\ a.token = token
           /\ \/ ~IsLast(a) /\ bytes = Written(a) /\ part' = part + 1 /\ token' = Blob(a) /\ outcome' = "sending"
              \/ file # NoFile /\ part' = part /\ token' = token /\ outcome' = "refused"
    BY ClientTypes
  <1>3. /\ part \in 1 .. Len(plan) /\ token \in 0 .. minted /\ minted \in Nat
        /\ outcome \in {"sending", "done", "refused"}
        /\ part = 1 <=> token = NoToken
        /\ Len(plan) \in Nat \ {0}
    BY PlanFacts DEF TransfersIInv, TransfersTypeOK, AttemptsOK
  <1>4. ~IsLast(a) /\ a.part = part => part + 1 \in 1 .. Len(plan)
    BY <1>3 DEF IsLast
  <1>5. /\ part' \in 1 .. Len(plan) /\ token' \in 0 .. minted'
        /\ outcome' \in {"sending", "done", "refused"} /\ (outcome' = "done" => outcome = "done")
        /\ part' = 1 <=> token' = NoToken
    BY <1>1, <1>2, <1>3, <1>4 DEF client, NoToken
  <1>6. TransfersTypeOK'
    <2>1. file' # NoFile => file'.blob \in DOMAIN blobs' /\ file'.length \in 1 .. UNKNOWN_SIZE
      BY <1>1 DEF TransfersIInv, TransfersTypeOK
    <2>2. base' \in Seq(Byte) /\ torn' \in BOOLEAN
      BY DEF TransfersIInv, TransfersTypeOK
    <2> QED BY <1>1, <1>5, <2>1, <2>2, HandleTypes
  <1>7. AttemptsOK'
    BY <1>2, <1>5, ReplyStep
  <1>8. PartsOK'
    <2>1. outcome' = "done" => file' # NoFile
      BY <1>5 DEF TransfersIInv, PartsOK
    <2>2. SUFFICES ASSUME outcome' = "sending", token' # NoToken, file = NoFile, ~torn
                   PROVE  /\ token' \in DOMAIN blobs'
                          /\ PartsFit => HoldsParts(plan, blobs'[token'], 1, part' - 1)
      BY <2>1 DEF PartsOK, HasParts, HoldsParts, PartsAt, PartsFit, PartData, Data
    <2>3. CASE UNCHANGED client
      <3>1. outcome = "sending" /\ token # NoToken /\ token' = token /\ part' = part
        BY <2>2, <2>3 DEF client
      <3>2. token \in DOMAIN blobs /\ (PartsFit => HasParts(blobs[token], 1, part - 1))
        BY <2>2, <3>1 DEF TransfersIInv, PartsOK
      <3>3. ASSUME PartsFit
            PROVE  HoldsParts(plan, blobs'[token], 1, part - 1)
        <4>1. HoldsParts(plan, blobs[token], 1, part - 1)
          BY <3>2, <3>3, PartsHeld
        <4>2. blobs[token] \in Seq(Byte) /\ blobs'[token] \in Seq(Byte) /\ IsPrefix(blobs[token], blobs'[token])
          BY <1>1, <3>2 DEF TransfersIInv, TransfersTypeOK
        <4>3. plan \in Seq(Nat \ {0}) /\ 1 \in 1 .. Len(plan) /\ part - 1 \in 0 .. Len(plan)
          BY <1>3, PlanFacts DEF TransfersIInv
        <4> QED BY <4>1, <4>2, <4>3, PartsStay
      <3> QED BY <1>1, <3>1, <3>2, <3>3
    <2>4. CASE ~UNCHANGED client
      <3>1. /\ a.id = attempts /\ a.part = part /\ bytes = Written(a)
            /\ part' = part + 1 /\ token' = Blob(a)
        BY <1>2, <2>2, <2>4
      <3>2. PartsFit => HoldsParts(plan, Written(a), 1, part)
        BY <2>2, <3>1, WholeSoFar
      <3>3. part' - 1 = part
        BY <1>3, <3>1
      <3> QED BY <1>1, <3>1, <3>2, <3>3
    <2> QED BY <2>3, <2>4
  <1>9. file # NoFile => token' # file.blob /\ \A x \in pending' : x.token # file.blob
    <2>1. file # NoFile => /\ file.blob # token /\ \A x \in pending : x.token # file.blob
                           /\ file.blob \in 1 .. minted
      BY DEF TransfersIInv, FileOK, TransfersTypeOK
    <2>2. file # NoFile => Blob(a) # file.blob
      BY <1>3, <2>1 DEF Blob
    <2> QED BY <1>2, <2>1, <2>2 DEF client
  <1> QED BY <1>1, <1>5, <1>6, <1>7, <1>8, <1>9, GrowStep

-----------------------------------------------------------------------------
(***************************************************************************)
(* Commits and renames.                                                    *)
(***************************************************************************)
LEMMA RenamedBlobs ==
    ASSUME TransfersIInv, NEW a \in pending, blobs' = Renamed(a, minted'), minted' = minted + 1
    PROVE  /\ minted' \in {minted, minted + 1} /\ minted' \in Nat /\ minted \in Nat
           /\ minted' \in DOMAIN blobs' /\ blobs'[minted'] = Written(a)
           /\ DOMAIN blobs' \subseteq 1 .. minted'
           /\ \A ulid \in DOMAIN blobs' : blobs'[ulid] \in Seq(Byte)
  <1>1. /\ minted \in Nat /\ DOMAIN blobs \subseteq 1 .. minted
        /\ \A ulid \in DOMAIN blobs : blobs[ulid] \in Seq(Byte)
    BY DEF TransfersIInv, TransfersTypeOK
  <1>2. Written(a) \in Seq(Byte)
    BY AttemptFacts DEF TransfersIInv
  <1>3. /\ DOMAIN blobs' = (DOMAIN blobs \ {a.token}) \cup {minted'}
        /\ \A ulid \in DOMAIN blobs' : blobs'[ulid] = IF ulid = minted' THEN Written(a) ELSE blobs[ulid]
    BY DEF Renamed
  <1> QED BY <1>1, <1>2, <1>3

\* What the last attempt writes is the whole file.
LEMMA WholeFile ==
    ASSUME TransfersIInv, NEW a \in pending, a.id = attempts, IsLast(a), PartsFit, file = NoFile
    PROVE  /\ HasParts(Written(a), IF torn THEN Len(plan) ELSE 1, Len(plan))
           /\ IsSuffix(PartData(Len(plan)), Written(a))
           /\ Len(plan) = 1 => Written(a) = PartData(1)
  <1> DEFINE c == Content(Blob(a))
             n == Len(plan)
  <1>1. a.part = n /\ a.part = part /\ a.token = token /\ (part = 1 <=> token = NoToken)
    BY DEF TransfersIInv, AttemptsOK, IsLast
  <1>2. /\ c \in Seq(Byte) /\ Written(a) = c \o Data(plan, n)
        /\ Taken(PartData(a.part)) = Data(plan, n)
        /\ Blob(a) \in DOMAIN blobs => a.token # NoToken
        /\ Blob(a) \notin DOMAIN blobs => Written(a) = Data(plan, n)
    BY <1>1, AttemptFacts DEF TransfersIInv
  <1>3. /\ plan \in Seq(Nat \ {0}) /\ n \in Nat \ {0}
        /\ PartData(n) = Data(plan, n)
        /\ Data(plan, n) \in Seq(Byte) /\ Len(Data(plan, n)) = plan[n]
    BY PlanFacts DEF TransfersIInv
  <1> HIDE DEF c
  <1>4. IsSuffix(PartData(n), Written(a))
    BY <1>2, <1>3, ConcatSuffix
  <1>5. n = 1 => Written(a) = PartData(1)
    BY <1>1, <1>2, <1>3
  <1>6. CASE ~torn
    <2>1. HoldsParts(plan, Written(a), 1, n)
      BY <1>1, <1>6, WholeSoFar
    <2> QED BY <1>4, <1>5, <1>6, <2>1, PartsHeld
  <1>7. CASE torn
    <2>1. HoldsParts(plan, c, n, n - 1)
      BY <1>3, NoPartsYet
    <2>2. n \in 1 .. Len(plan) /\ n \in n .. Len(plan)
      BY <1>3
    <2> HIDE DEF n
    <2>3. HoldsParts(plan, c \o Data(plan, n), n, n)
      BY <1>2, <1>3, <2>1, <2>2, PartsGrow
    <2>4. HasParts(Written(a), n, n)
      BY <1>2, <2>3, PartsHeld
    <2> QED BY <1>4, <1>5, <1>7, <2>4 DEF n
  <1>8. torn \in BOOLEAN
    BY DEF TransfersIInv, TransfersTypeOK
  <1> QED BY <1>6, <1>7, <1>8

LEMMA CommitStep ==
    ASSUME TransfersIInv, NEW a \in pending, pending' = pending \ {a},
           UNCHANGED <<plan, attempts, reader, appends, torn>>,
           IsLast(a), file = NoFile, minted' = minted + 1,
           minted' \in DOMAIN blobs' /\ blobs'[minted'] = Written(a),
           DOMAIN blobs' \subseteq 1 .. minted',
           \A ulid \in DOMAIN blobs' : blobs'[ulid] \in Seq(Byte),
           NEW length, file' = [blob |-> minted', length |-> length],
           \/ length = UNKNOWN_SIZE
           \/ length = plan[a.part] /\ Written(a) = Taken(PartData(a.part)),
           base' = Written(a),
           Reply(a, part, token, "done")
    PROVE  TransfersIInv'
  <1>1. /\ minted \in Nat /\ part \in 1 .. Len(plan) /\ token \in 0 .. minted
        /\ outcome \in {"sending", "refused"} /\ reader.state = "idle" /\ reader.got = <<>>
        /\ part = 1 <=> token = NoToken
    BY PlanFacts DEF TransfersIInv, TransfersTypeOK, AttemptsOK, PartsOK, ReaderOK
  <1>2. \/ UNCHANGED client
        \/ /\ a.id = attempts /\ part' = part /\ token' = token /\ outcome' = "done"
    BY ClientTypes
  <1>3. /\ a.part \in 1 .. Len(plan) /\ Written(a) \in Seq(Byte)
        /\ Len(Taken(PartData(a.part))) = Smaller(plan[a.part], MaxBuf)
    BY AttemptFacts DEF TransfersIInv
  <1>4. plan[a.part] \in Nat \ {0} /\ plan[a.part] + MAX_READ_SIZE < Word
        /\ MAX_READ_SIZE \in Nat \ {0} /\ Word \in Nat
    BY <1>3, PlanFacts, TransferAssumption DEF TransfersIInv
  <1>5. length \in 1 .. UNKNOWN_SIZE
    BY <1>4 DEF UNKNOWN_SIZE
  <1>6. file' # NoFile /\ file'.blob = minted' /\ file'.length = length
    BY <1>1 DEF NoFile
  <1>7. TransfersTypeOK'
    <2>1. torn' \in BOOLEAN /\ minted' \in {minted, minted + 1}
      BY DEF TransfersIInv, TransfersTypeOK
    <2>2. part' \in 1 .. Len(plan) /\ token' \in 0 .. minted' /\ outcome' \in {"sending", "done", "refused"}
      BY <1>1, <1>2 DEF client
    <2>3. base' \in Seq(Byte)
      BY <1>3
    <2> QED BY <1>5, <1>6, <2>1, <2>2, <2>3, HandleTypes
  <1>8. AttemptsOK'
    BY <1>1, <1>2, ReplyStep
  <1>9. FileOK'
    <2>1. token' # minted' /\ \A x \in pending' : x.token # minted'
      <3>1. token' = token
        BY <1>2 DEF client
      <3>2. \A x \in pending : x.token \in 0 .. minted
        BY AttemptFacts DEF TransfersIInv
      <3> QED BY <1>1, <3>1, <3>2
    <2>2. IsPrefix(base', blobs'[minted'])
      BY <1>3, PrefixElements
    <2>3. length # UNKNOWN_SIZE => length = plan[Len(plan)] /\ Len(base') = Smaller(length, MaxBuf)
      BY <1>3 DEF IsLast
    <2> QED BY <1>6, <2>1, <2>2, <2>3 DEF FileOK, IsKnown
  <1>10. PartsOK'
    BY <1>6 DEF PartsOK
  <1>11. ReaderOK'
    BY <1>1 DEF ReaderOK
  <1>12. UploadIsWhole'
    <2>1. SUFFICES ASSUME outcome' = "done", PartsFit
                   PROVE  /\ HasParts(Written(a), IF torn THEN Len(plan) ELSE 1, Len(plan))
                          /\ IsSuffix(PartData(Len(plan)), Written(a))
                          /\ Len(plan) = 1 => Written(a) = PartData(1)
      BY DEF UploadIsWhole, HasParts, PartsFit, PartData
    <2>2. a.id = attempts
      BY <1>1, <1>2, <2>1 DEF client
    <2> QED BY <2>1, <2>2, WholeFile
  <1> QED BY <1>7, <1>8, <1>9, <1>10, <1>11, <1>12 DEF TransfersIInv

LEMMA StopAtRenameStep ==
    ASSUME TransfersIInv, NEW a \in pending, pending' = pending \ {a},
           UNCHANGED <<plan, attempts, reader, appends>>, StopAtRename(a)
    PROVE  TransfersIInv'
  <1>1. /\ file = NoFile /\ minted' = minted + 1 /\ blobs' = Renamed(a, minted') /\ torn' = TRUE
        /\ UNCHANGED <<file, client, base>>
    BY DEF StopAtRename
  <1>2. /\ minted' \in {minted, minted + 1} /\ minted' \in Nat /\ minted \in Nat
        /\ DOMAIN blobs' \subseteq 1 .. minted'
        /\ \A ulid \in DOMAIN blobs' : blobs'[ulid] \in Seq(Byte)
    BY <1>1, RenamedBlobs
  <1>3. /\ part \in 1 .. Len(plan) /\ token \in 0 .. minted /\ base \in Seq(Byte)
        /\ outcome \in {"sending", "refused"} /\ reader.state = "idle" /\ reader.got = <<>>
    BY <1>1, PlanFacts DEF TransfersIInv, TransfersTypeOK, PartsOK, ReaderOK
  <1>4. TransfersTypeOK'
    <2>1. token' \in 0 .. minted'
      BY <1>1, <1>2, <1>3 DEF client
    <2> QED BY <1>1, <1>2, <1>3, <2>1, HandleTypes DEF client
  <1>5. AttemptsOK'
    BY <1>1, ReplyStep
  <1>6. FileOK' /\ PartsOK' /\ ReaderOK' /\ UploadIsWhole'
    BY <1>1, <1>3 DEF FileOK, PartsOK, ReaderOK, UploadIsWhole, client
  <1> QED BY <1>4, <1>5, <1>6 DEF TransfersIInv

LEMMA HandleStep ==
    ASSUME TransfersIInv, NEW a \in pending, Handle(a)
    PROVE  TransfersIInv'
  <1>1. pending' = pending \ {a} /\ UNCHANGED <<plan, attempts, reader, appends>>
    BY DEF Handle
  <1> DEFINE w == Written(a)
             c == Content(Blob(a))
  <1>2. w \in {w, c} /\ c \in {w, c}
    OBVIOUS
  <1>3. CASE HandlePart(a) \/ RefuseUpload(a)
    <2>1. /\ blobs' = Stored(Blob(a), w)
          /\ minted' = (IF a.token = NoToken THEN minted + 1 ELSE minted)
          /\ UNCHANGED <<file, base, torn>>
          /\ \/ ~IsLast(a) /\ Reply(a, part + 1, Blob(a), "sending")
             \/ file # NoFile /\ Reply(a, part, token, "refused")
      BY <1>3 DEF HandlePart, RefuseUpload
    <2> QED BY <1>1, <1>2, <2>1, StoreStep
  <1>4. CASE StopAtOpen(a) \/ StopAtWrite(a)
    <2>1. /\ minted' = (IF a.token = NoToken THEN minted + 1 ELSE minted)
          /\ UNCHANGED <<file, client, base, torn>>
          /\ blobs' = Stored(Blob(a), w) \/ blobs' = Stored(Blob(a), c)
      BY <1>4 DEF StopAtOpen, StopAtWrite
    <2>2. UNCHANGED <<plan, attempts, reader, appends, file, base, torn>> /\ UNCHANGED client
      BY <1>1, <2>1
    <2> HIDE DEF w, c
    <2>3. CASE blobs' = Stored(Blob(a), w)
      BY <1>1, <1>2, <2>1, <2>2, <2>3, StoreStep DEF w, c
    <2>4. CASE blobs' = Stored(Blob(a), c)
      BY <1>1, <1>2, <2>1, <2>2, <2>4, StoreStep DEF w, c
    <2> QED BY <2>1, <2>3, <2>4
  <1>5. CASE CommitSingle(a)
    <2>1. /\ IsLast(a) /\ a.token = NoToken /\ file = NoFile /\ minted' = minted + 1
          /\ blobs' = Stored(minted', w)
          /\ file' = [blob |-> minted', length |-> plan[a.part]] /\ base' = w
          /\ Reply(a, part, token, "done") /\ torn' = torn
      BY <1>5 DEF CommitSingle
    <2>2. Blob(a) = minted' /\ blobs' = Stored(Blob(a), w)
      BY <2>1 DEF Blob
    <2>3. /\ minted' \in DOMAIN blobs' /\ blobs'[minted'] = w
          /\ DOMAIN blobs' \subseteq 1 .. minted'
          /\ \A ulid \in DOMAIN blobs' : blobs'[ulid] \in Seq(Byte)
      BY <1>2, <2>1, <2>2, StoredBlobs
    <2>4. w = Taken(PartData(a.part))
      BY <2>1, AttemptFacts DEF TransfersIInv
    <2> HIDE DEF w
    <2> QED BY <1>1, <2>1, <2>3, <2>4, CommitStep DEF w
  <1>6. CASE CommitParts(a)
    <2>1. /\ IsLast(a) /\ file = NoFile /\ minted' = minted + 1
          /\ blobs' = Renamed(a, minted')
          /\ file' = [blob |-> minted', length |-> UNKNOWN_SIZE] /\ base' = w
          /\ Reply(a, part, token, "done") /\ torn' = torn
      BY <1>6 DEF CommitParts
    <2>2. /\ minted' \in DOMAIN blobs' /\ blobs'[minted'] = w
          /\ DOMAIN blobs' \subseteq 1 .. minted'
          /\ \A ulid \in DOMAIN blobs' : blobs'[ulid] \in Seq(Byte)
      BY <2>1, RenamedBlobs
    <2> HIDE DEF w
    <2> QED BY <1>1, <2>1, <2>2, CommitStep DEF w
  <1>7. CASE StopAtRename(a)
    BY <1>1, <1>7, StopAtRenameStep
  <1> QED BY <1>3, <1>4, <1>5, <1>6, <1>7 DEF Handle

-----------------------------------------------------------------------------
(***************************************************************************)
(* The clients.                                                            *)
(***************************************************************************)
LEMMA SendPartStep ==
    ASSUME TransfersIInv, SendPart
    PROVE  TransfersIInv'
  <1> USE DEF TransfersIInv
  <1> DEFINE new == [id |-> attempts + 1, part |-> part, token |-> token]
  <1>1. /\ outcome = "sending" /\ attempts < MaxAttempts
        /\ attempts' = attempts + 1 /\ pending' = pending \cup {new}
        /\ UNCHANGED <<plan, blobs, minted, file, client, reader, appends, base, torn>>
    BY DEF SendPart
  <1>2. attempts \in 0 .. MaxAttempts /\ MaxAttempts \in Nat /\ part \in DOMAIN plan /\ token \in 0 .. minted
    BY TransferAssumption DEF TransfersTypeOK
  <1>3. attempts' \in 0 .. MaxAttempts /\ attempts + 1 \in 1 .. attempts'
    BY <1>1, <1>2
  <1>4. TransfersTypeOK'
    <2>1. pending' \subseteq Attempt'
      <3>1. ASSUME NEW x \in pending
            PROVE  x \in [id : 1 .. attempts', part : DOMAIN plan, token : 0 .. minted]
        <4>1. x \in [id : 1 .. attempts, part : DOMAIN plan, token : 0 .. minted]
          BY DEF TransfersTypeOK, Attempt
        <4>2. 1 .. attempts \subseteq 1 .. attempts'
          BY <1>1, <1>2
        <4> QED BY <4>1, <4>2
      <3>2. new \in [id : 1 .. attempts', part : DOMAIN plan, token : 0 .. minted]
        BY <1>2, <1>3
      <3> HIDE DEF new
      <3> QED BY <1>1, <3>1, <3>2 DEF Attempt
    <2>2. Byte' = Byte
      BY <1>1 DEF Byte
    <2> QED BY <1>1, <1>3, <2>1, <2>2 DEF TransfersTypeOK, client
  <1>5. \A x \in pending : x.id \in 1 .. attempts
    BY AttemptFacts
  <1>6. AttemptsOK'
    <2>1. \A x \in pending : x.id # attempts + 1
      BY <1>2, <1>5
    <2>2. new.id = attempts + 1 /\ new.part = part /\ new.token = token
      OBVIOUS
    <2> HIDE DEF new
    <2>3. \A x, y \in pending' : x.id = y.id => x = y
      BY <1>1, <2>1, <2>2 DEF AttemptsOK
    <2>4. \A x \in pending' : x.id = attempts' =>
             outcome' = "sending" /\ x.part = part' /\ x.token = token'
      BY <1>1, <2>1, <2>2 DEF client
    <2> QED BY <1>1, <2>3, <2>4 DEF AttemptsOK, client
  <1>7. PartsOK'
    BY <1>1 DEF PartsOK, client, HasParts, PartsFit, PartData
  <1>8. \A ulid \in DOMAIN blobs : ulid \in DOMAIN blobs' /\ IsPrefix(blobs[ulid], blobs'[ulid])
    BY <1>1, PrefixElements DEF TransfersTypeOK
  <1>9. file # NoFile => token' # file.blob /\ \A x \in pending' : x.token # file.blob
    BY <1>1 DEF FileOK, client
  <1> QED BY <1>1, <1>4, <1>6, <1>7, <1>8, <1>9, GrowStep DEF client

LEMMA AppendStep ==
    ASSUME TransfersIInv, NEW n \in 1 .. MaxBuf, AppendData(n)
    PROVE  TransfersIInv'
  <1> USE DEF TransfersIInv
  <1> DEFINE d == Taken(AppendedData(n))
             b == file.blob
  <1>1. /\ file # NoFile /\ appends < MaxAppends /\ appends' = appends + 1
        /\ blobs' = [blobs EXCEPT ![b] = blobs[b] \o d]
        /\ UNCHANGED <<plan, minted, file, client, attempts, pending, reader, base, torn>>
    BY DEF AppendData
  <1>2. b \in DOMAIN blobs /\ \A ulid \in DOMAIN blobs : blobs[ulid] \in Seq(Byte)
    BY <1>1 DEF TransfersTypeOK
  <1>3. d \in Seq(Byte)
    <2>1. n \in Nat /\ Len(plan) \in Nat
      BY TransferAssumption, PlanFacts
    <2>2. AppendedData(n) \in [1 .. n -> Byte]
      BY <2>1 DEF AppendedData, Byte
    <2>3. AppendedData(n) \in Seq(Byte)
      BY <2>1, <2>2, SeqDef
    <2> QED BY <2>3, TakenData
  <1> HIDE DEF d
  <1>4. blobs[b] \o d \in Seq(Byte) /\ IsPrefix(blobs[b], blobs[b] \o d)
    BY <1>2, <1>3, ConcatPrefix
  <1>5. /\ DOMAIN blobs' = DOMAIN blobs
        /\ \A ulid \in DOMAIN blobs : blobs'[ulid] = IF ulid = b THEN blobs[b] \o d ELSE blobs[ulid]
    BY <1>1
  <1>6. \A ulid \in DOMAIN blobs : blobs'[ulid] \in Seq(Byte) /\ IsPrefix(blobs[ulid], blobs'[ulid])
    <2>1. \A ulid \in DOMAIN blobs : IsPrefix(blobs[ulid], blobs[ulid])
      BY <1>2, PrefixElements
    <2> HIDE DEF b
    <2> QED BY <1>2, <1>4, <1>5, <2>1
  <1>7. TransfersTypeOK'
    <2>1. appends' \in 0 .. MaxAppends
      BY <1>1, TransferAssumption DEF TransfersTypeOK
    <2>2. Byte' = Byte /\ Attempt' = Attempt
      BY <1>1 DEF Byte, Attempt
    <2> QED BY <1>1, <1>5, <1>6, <2>1, <2>2 DEF TransfersTypeOK, client
  <1>8. AttemptsOK' /\ PartsOK'
    BY <1>1 DEF AttemptsOK, PartsOK, client
  <1>9. token' # file.blob /\ \A x \in pending' : x.token # file.blob
    BY <1>1 DEF FileOK, client
  <1>10. outcome' = outcome
    BY <1>1 DEF client
  <1> QED BY <1>1, <1>5, <1>6, <1>7, <1>8, <1>9, <1>10, GrowStep

-----------------------------------------------------------------------------
(***************************************************************************)
(* Downloads.                                                              *)
(***************************************************************************)
\* A read goes on where the reader is, up to the end of the blob.
LEMMA NextBytes ==
    ASSUME NEW S, NEW blob \in Seq(S), NEW got \in Seq(S), IsPrefix(got, blob), NEW n \in Nat
    PROVE  LET bytes == ReadFrom(blob, Len(got), n)
           IN  /\ bytes \in Seq(S) /\ Len(bytes) = Smaller(n, Len(blob) - Len(got))
               /\ got \o bytes \in Seq(S) /\ Len(got \o bytes) = Len(got) + Len(bytes)
               /\ IsPrefix(got \o bytes, blob)
  <1> DEFINE m == Len(got)
             k == Smaller(n, Len(blob) - m)
             bytes == ReadFrom(blob, m, n)
             all == got \o bytes
  <1>1. m \in Nat /\ Len(blob) \in Nat /\ m <= Len(blob) /\ \A i \in 1 .. m : got[i] = blob[i]
    BY PrefixElements
  <1>2. k \in Nat /\ m + k <= Len(blob) /\ Smaller(m + n, Len(blob)) = m + k
    BY <1>1 DEF Smaller
  <1>3. bytes = SubSeq(blob, m + 1, m + k)
    BY <1>2 DEF ReadFrom
  <1> HIDE DEF m, k
  <1>4. bytes \in Seq(S) /\ Len(bytes) = k /\ \A i \in 1 .. k : bytes[i] = blob[m + i]
    BY <1>1, <1>2, <1>3, WindowElements
  <1> HIDE DEF bytes
  <1>5. /\ all \in Seq(S) /\ Len(all) = m + k
        /\ \A i \in 1 .. m + k : all[i] = IF i <= m THEN got[i] ELSE bytes[i - m]
    BY <1>4, ConcatProperties DEF m
  <1> HIDE DEF all
  <1>6. ASSUME NEW i \in 1 .. m + k
        PROVE  all[i] = blob[i]
    <2>1. CASE i <= m
      BY <1>1, <1>5, <2>1
    <2>2. CASE ~(i <= m)
      <3>1. i - m \in 1 .. k /\ m + (i - m) = i
        BY <1>1, <1>2, <2>2
      <3> QED BY <1>4, <1>5, <2>2, <3>1
    <2> QED BY <2>1, <2>2
  <1>7. IsPrefix(all, blob)
    BY <1>2, <1>5, <1>6, PrefixElements
  <1> QED BY <1>4, <1>5, <1>7 DEF m, k, bytes, all

\* A download is refused, or reads at most alloc bytes.
LEMMA DownloadFacts ==
    ASSUME NEW version, version.length \in 1 .. UNKNOWN_SIZE, NEW blob,
           NEW offset \in Nat, NEW length \in Nat,
           NEW r \in DownloadOutcomes(version, blob, offset, length)
    PROVE  \/ r = Refused
           \/ LET alloc == Smaller(CutLength(version, offset, length), MAX_READ_SIZE)
              IN  /\ r.ok /\ IsKnown(version) => offset <= version.length
                  /\ CutLength(version, offset, length) \in Nat /\ alloc \in Nat
                  /\ r.data = ReadFrom(blob, offset, Smaller(alloc, MaxBuf))
                  /\ r.more = (Len(r.data) = alloc)
                  /\ r.ok
  <1> DEFINE cut == CutLength(version, offset, length)
             alloc == Smaller(cut, MAX_READ_SIZE)
  <1>1. r = Refused \/ r = DownloadWindow(version, blob, offset, length)
    BY DEF DownloadOutcomes
  <1>2. CASE BeyondEnd(version, offset) \/ r = Refused
    BY <1>1, <1>2 DEF DownloadWindow
  <1>3. CASE ~BeyondEnd(version, offset) /\ r # Refused
    <2>1. Word \in Nat \ {0} /\ MAX_READ_SIZE \in Nat \ {0} /\ version.length \in Nat
      BY TransferAssumption DEF UNKNOWN_SIZE
    <2>2. IsKnown(version) => offset <= version.length
      BY <1>3, <2>1 DEF BeyondEnd
    <2>3. cut \in Nat
      BY <2>1, <2>2 DEF CutLength
    <2> HIDE DEF cut
    <2>4. alloc \in Nat
      BY <2>1, <2>3 DEF Smaller
    <2> HIDE DEF alloc
    <2>5. r = [ok |-> TRUE, data |-> ReadFrom(blob, offset, Smaller(alloc, MaxBuf)),
               more |-> Len(ReadFrom(blob, offset, Smaller(alloc, MaxBuf))) = alloc]
      BY <1>1, <1>3 DEF DownloadWindow, alloc, cut
    <2>6. /\ r.ok /\ r.data = ReadFrom(blob, offset, Smaller(alloc, MaxBuf))
          /\ r.more = (Len(r.data) = alloc)
      BY <2>5
    <2> QED BY <2>2, <2>3, <2>4, <2>6 DEF alloc, cut
  <1> QED BY <1>2, <1>3

\* A window of at most one read: it ends where the length of the version does.
LEMMA OneReadFacts ==
    ASSUME NEW version, version.length \in 1 .. UNKNOWN_SIZE,
           NEW offset \in Nat, NEW window \in Nat \ {0}, window <= OneRead,
           IsKnown(version) => offset <= version.length /\ offset + window < Word
    PROVE  LET alloc == Smaller(CutLength(version, offset, window), MAX_READ_SIZE)
           IN  /\ alloc \in Nat /\ Smaller(alloc, MaxBuf) = alloc
               /\ alloc = IF IsKnown(version) THEN Smaller(window, version.length - offset) ELSE window
  <1> DEFINE cut == CutLength(version, offset, window)
  <1>1. /\ Word \in Nat \ {0} /\ MAX_READ_SIZE \in Nat \ {0} /\ MaxBuf \in Nat \ {0}
        /\ version.length \in Nat
    BY TransferAssumption DEF UNKNOWN_SIZE
  <1>2. window <= MaxBuf /\ window <= MAX_READ_SIZE
    BY <1>1 DEF OneRead, Smaller
  <1>3. CASE IsKnown(version)
    <2>1. (offset + window) % Word = offset + window
      BY <1>1, <1>3
    <2>2. cut = Smaller(window, version.length - offset)
      BY <1>1, <1>3, <2>1 DEF CutLength, Smaller
    <2>3. cut \in Nat /\ cut <= window
      BY <1>1, <1>3, <2>2 DEF Smaller
    <2> HIDE DEF cut
    <2>4. Smaller(cut, MAX_READ_SIZE) = cut /\ Smaller(cut, MaxBuf) = cut
      BY <1>1, <1>2, <2>3 DEF Smaller
    <2> QED BY <1>3, <2>2, <2>3, <2>4 DEF cut
  <1>4. CASE ~IsKnown(version)
    <2>1. cut = window
      BY <1>4 DEF CutLength
    <2> HIDE DEF cut
    <2>2. Smaller(cut, MAX_READ_SIZE) = cut /\ Smaller(cut, MaxBuf) = cut
      BY <1>1, <1>2, <2>1 DEF Smaller
    <2> QED BY <1>4, <2>1, <2>2 DEF cut
  <1> QED BY <1>3, <1>4

LEMMA ReaderStep ==
    ASSUME TransfersIInv, ReaderOK',
           reader' \in [state : {"idle", "reading", "stopped", "failed"},
                        window : Windows \cup {0}, got : Seq(Byte)],
           UNCHANGED <<plan, blobs, minted, file, client, attempts, pending, appends, base, torn>>
    PROVE  TransfersIInv'
  <1>1. Byte' = Byte /\ Attempt' = Attempt
    BY DEF Byte, Attempt
  <1>2. TransfersTypeOK'
    BY <1>1 DEF TransfersIInv, TransfersTypeOK, client
  <1>3. AttemptsOK' /\ FileOK'
    BY DEF TransfersIInv, AttemptsOK, FileOK, client
  <1>4. PartsOK' /\ UploadIsWhole'
    BY DEF TransfersIInv, PartsOK, UploadIsWhole, HasParts, PartsFit, PartData, client
  <1> QED BY <1>2, <1>3, <1>4 DEF TransfersIInv

LEMMA StartReadingStep ==
    ASSUME TransfersIInv, NEW window \in Windows, StartReading(window)
    PROVE  TransfersIInv'
  <1> USE DEF TransfersIInv
  <1>1. /\ reader.state = "idle" /\ file # NoFile
        /\ reader' = [reader EXCEPT !.state = "reading", !.window = window]
        /\ UNCHANGED <<plan, blobs, minted, file, client, attempts, pending, appends, base, torn>>
    BY DEF StartReading
  <1>2. /\ reader' \in [state : {"idle", "reading", "stopped", "failed"},
                        window : Windows \cup {0}, got : Seq(Byte)]
        /\ reader'.state = "reading" /\ reader'.window = window /\ reader'.got = <<>>
    BY <1>1 DEF ReaderOK, TransfersTypeOK
  <1>3. file.blob \in DOMAIN blobs /\ blobs[file.blob] \in Seq(Byte) /\ file.length \in 1 .. UNKNOWN_SIZE
    BY <1>1 DEF TransfersTypeOK
  <1>4. IsPrefix(<<>>, blobs[file.blob])
    <2> DEFINE none == <<>>
    <2>1. none \in Seq(Byte) /\ Len(none) = 0 /\ Len(blobs[file.blob]) \in Nat
      BY <1>3, EmptySeq
    <2> HIDE DEF none
    <2>2. Len(none) <= Len(blobs[file.blob]) /\ \A i \in 1 .. Len(none) : none[i] = blobs[file.blob][i]
      BY <2>1
    <2>3. IsPrefix(none, blobs[file.blob])
      BY <1>3, <2>1, <2>2, PrefixElements
    <2> QED BY <2>3 DEF none
  <1>5. 0 <= file.length /\ Len(<<>>) = 0
    BY <1>3, EmptySeq
  <1>6. ReaderOK'
    BY <1>1, <1>2, <1>4, <1>5 DEF ReaderOK, IsKnown
  <1> QED BY <1>1, <1>2, <1>6, ReaderStep

LEMMA ReadWindowStep ==
    ASSUME TransfersIInv, ReadWindow
    PROVE  TransfersIInv'
  <1> USE DEF TransfersIInv
  <1> DEFINE blob == blobs[file.blob]
             got == reader.got
             window == reader.window
  <1>1. PICK r \in DownloadOutcomes(file, blob, Len(got), window) :
          reader' = [reader EXCEPT !.got = got \o r.data,
                                   !.state = IF ~r.ok THEN "failed"
                                             ELSE IF r.data = <<>> \/ ~r.more THEN "stopped"
                                             ELSE "reading"]
    BY DEF ReadWindow
  <1>2. /\ reader.state = "reading"
        /\ UNCHANGED <<plan, blobs, minted, file, client, attempts, pending, appends, base, torn>>
    BY DEF ReadWindow
  <1>3. /\ file # NoFile /\ window \in Nat \ {0} /\ window \in Windows
        /\ got \in Seq(Byte) /\ Len(got) \in Nat /\ IsPrefix(got, blob)
        /\ (window <= OneRead /\ IsKnown(file) => Len(got) <= file.length)
    <2>1. /\ file # NoFile /\ window \in Windows /\ IsPrefix(got, blob)
          /\ (window <= OneRead /\ IsKnown(file) => Len(got) <= file.length)
      BY <1>2 DEF ReaderOK
    <2>2. got \in Seq(Byte)
      BY DEF TransfersTypeOK
    <2>3. window \in Nat \ {0}
      BY <2>1, TransferAssumption
    <2> QED BY <2>1, <2>2, <2>3, LenProperties
  <1>4. /\ file.length \in 1 .. UNKNOWN_SIZE /\ blob \in Seq(Byte) /\ Len(blob) \in Nat
        /\ base \in Seq(Byte) /\ IsPrefix(base, blob)
        /\ IsKnown(file) => file.length = plan[Len(plan)] /\ Len(base) = Smaller(file.length, MaxBuf)
    BY <1>3 DEF FileOK, TransfersTypeOK
  <1>5. /\ Word \in Nat /\ MaxBuf \in Nat \ {0} /\ MAX_READ_SIZE \in Nat \ {0}
        /\ IsKnown(file) => file.length + MAX_READ_SIZE < Word
    BY <1>4, PlanFacts, TransferAssumption
  <1> DEFINE alloc == Smaller(CutLength(file, Len(got), window), MAX_READ_SIZE)
  <1>6. CASE r = Refused
    <2>1. got \o r.data = got
      BY <1>3, <1>6 DEF Refused
    <2>2. /\ reader' \in [state : {"idle", "reading", "stopped", "failed"},
                          window : Windows \cup {0}, got : Seq(Byte)]
          /\ reader'.state = "failed" /\ reader'.window = window /\ reader'.got = got
      BY <1>1, <1>6, <2>1 DEF TransfersTypeOK, Refused
    <2>3. ReaderOK'
      BY <1>2, <1>3, <2>2 DEF ReaderOK, IsKnown, OneRead
    <2> QED BY <1>2, <2>2, <2>3, ReaderStep
  <1>7. CASE r # Refused
    <2> HIDE DEF alloc, TransfersIInv
    <2>1. /\ r.ok /\ (IsKnown(file) => Len(got) <= file.length) /\ alloc \in Nat
          /\ r.data = ReadFrom(blob, Len(got), Smaller(alloc, MaxBuf))
          /\ r.more = (Len(r.data) = alloc)
      BY <1>1, <1>3, <1>4, <1>7, DownloadFacts DEF alloc
    <2> DEFINE n == Smaller(alloc, MaxBuf)
               all == got \o r.data
    <2>2. n \in Nat
      BY <1>5, <2>1 DEF Smaller
    <2> HIDE DEF n
    <2>3. /\ r.data \in Seq(Byte) /\ Len(r.data) = Smaller(n, Len(blob) - Len(got))
          /\ all \in Seq(Byte) /\ Len(all) = Len(got) + Len(r.data)
          /\ IsPrefix(all, blob)
      <3>1. n \in Nat /\ r.data = ReadFrom(blob, Len(got), n)
        BY <2>1, <2>2 DEF n
      <3> HIDE DEF blob, got
      <3> DEFINE bytes == ReadFrom(blob, Len(got), n)
      <3>2. /\ bytes \in Seq(Byte) /\ Len(bytes) = Smaller(n, Len(blob) - Len(got))
            /\ got \o bytes \in Seq(Byte) /\ Len(got \o bytes) = Len(got) + Len(bytes)
            /\ IsPrefix(got \o bytes, blob)
        BY <1>3, <1>4, <3>1, NextBytes
      <3>3. r.data = bytes
        BY <3>1
      <3> HIDE DEF bytes
      <3> QED BY <3>2, <3>3
    <2> HIDE DEF all
    <2>4. /\ reader' \in [state : {"idle", "reading", "stopped", "failed"},
                          window : Windows \cup {0}, got : Seq(Byte)]
          /\ reader'.state \in {"stopped", "reading"}
          /\ reader'.state = "stopped" => r.data = <<>> \/ ~r.more
          /\ reader'.window = window /\ reader'.got = all
      BY <1>1, <2>1, <2>3 DEF TransfersTypeOK, TransfersIInv, all
    <2>5. Len(got) <= Len(blob) /\ Len(base) <= Len(blob) /\ Len(base) \in Nat
      BY <1>3, <1>4, PrefixElements
    <2>6. ASSUME window <= OneRead
          PROVE  /\ IsKnown(file) => Len(all) <= file.length
                 /\ reader'.state = "stopped" => IsPrefix(base, all)
      <3>1. IsKnown(file) => Len(got) + window < Word
        BY <1>3, <1>4, <1>5, <2>1, <2>6 DEF OneRead, Smaller
      <3>2. n = alloc /\ alloc = IF IsKnown(file) THEN Smaller(window, file.length - Len(got)) ELSE window
        BY <1>3, <1>4, <2>1, <2>6, <3>1, OneReadFacts DEF alloc, n
      <3>3. IsKnown(file) => Len(all) <= file.length
        <4>1. file.length \in Nat
          BY <1>4, <1>5 DEF UNKNOWN_SIZE
        <4> HIDE DEF alloc, all, blob, got
        <4> QED BY <1>3, <1>4, <2>1, <2>3, <2>5, <3>2, <4>1 DEF Smaller
      <3>4. ASSUME reader'.state = "stopped"
            PROVE  Len(base) <= Len(all)
        <4>1. CASE Len(r.data) = n
          <5>1. n = 0
            <6>1. r.data = <<>>
              BY <2>1, <2>4, <3>2, <3>4, <4>1
            <6> QED BY <4>1, <6>1, EmptySeq
          <5>2. IsKnown(file) /\ file.length = Len(got)
            BY <1>3, <1>4, <2>1, <3>2, <5>1 DEF Smaller, UNKNOWN_SIZE
          <5>3. Len(base) <= file.length
            BY <1>4, <1>5, <5>2 DEF Smaller, UNKNOWN_SIZE
          <5> HIDE DEF blob, got
          <5> QED BY <1>3, <2>3, <2>5, <4>1, <5>1, <5>2, <5>3
        <4>2. CASE Len(r.data) # n
          <5>1. Len(r.data) = Len(blob) - Len(got)
            BY <2>3, <4>2 DEF Smaller
          <5>2. Len(all) = Len(blob)
            <6> HIDE DEF blob, got
            <6> QED BY <1>3, <1>4, <2>3, <5>1
          <5> QED BY <2>5, <5>2
        <4> QED BY <4>1, <4>2
      <3> QED BY <1>4, <2>3, <3>3, <3>4, PrefixesOfOne
    <2>7. ReaderOK'
      <3>1. OneRead' = OneRead /\ IsKnown(file)' = IsKnown(file) /\ reader'.state # "idle"
            /\ file' # NoFile' /\ blobs'[file'.blob] = blob /\ base' = base /\ file' = file
        BY <1>2, <1>3, <2>4 DEF OneRead, IsKnown, NoFile
      <3> HIDE DEF blob, window
      <3> QED BY <1>3, <2>3, <2>4, <2>6, <3>1 DEF ReaderOK
    <2> QED BY <1>2, <2>4, <2>7, ReaderStep
  <1> QED BY <1>6, <1>7

-----------------------------------------------------------------------------
(***************************************************************************)
(* The theorems.                                                           *)
(***************************************************************************)
LEMMA InitTransfers ==
    Init => TransfersIInv
  <1> SUFFICES ASSUME Init PROVE TransfersIInv
    OBVIOUS
  <1> DEFINE none == <<>>
  <1>1. /\ plan \in Plans /\ blobs = none /\ minted = 0 /\ file = NoFile
        /\ part = 1 /\ token = NoToken /\ outcome = "sending"
        /\ attempts = 0 /\ pending = {}
        /\ reader = [state |-> "idle", window |-> 0, got |-> none]
        /\ appends = 0 /\ base = none /\ torn = FALSE
    BY DEF Init
  <1>2. none \in Seq(Byte) /\ DOMAIN none = {}
    BY EmptySeq
  <1>3. part \in DOMAIN plan
    <2>1. plan \in Seq(Nat \ {0}) /\ plan # <<>>
      BY <1>1, TransferAssumption
    <2>2. Len(plan) \in Nat \ {0} /\ DOMAIN plan = 1 .. Len(plan)
      BY <2>1, EmptySeq, LenProperties
    <2> QED BY <1>1, <2>2
  <1> HIDE DEF none
  <1>4. TransfersTypeOK
    <2>1. 0 \in 0 .. MaxAttempts /\ 0 \in 0 .. MaxAppends
      BY TransferAssumption
    <2>2. token \in 0 .. minted
      BY <1>1 DEF NoToken
    <2> QED BY <1>1, <1>2, <1>3, <2>1, <2>2 DEF TransfersTypeOK
  <1>5. AttemptsOK /\ FileOK /\ PartsOK /\ UploadIsWhole
    BY <1>1 DEF AttemptsOK, FileOK, PartsOK, UploadIsWhole
  <1>6. ReaderOK
    BY <1>1 DEF ReaderOK, none
  <1> QED BY <1>4, <1>5, <1>6 DEF TransfersIInv

LEMMA StepTransfers ==
    TransfersIInv /\ [Next]_vars => TransfersIInv'
  <1> SUFFICES ASSUME TransfersIInv, [Next]_vars PROVE TransfersIInv'
    OBVIOUS
  <1>1. CASE SendPart
    BY <1>1, SendPartStep
  <1>2. CASE \E a \in pending : Handle(a)
    BY <1>2, HandleStep
  <1>3. CASE \E n \in 1 .. MaxBuf : AppendData(n)
    BY <1>3, AppendStep
  <1>4. CASE \E window \in Windows : StartReading(window)
    BY <1>4, StartReadingStep
  <1>5. CASE ReadWindow
    BY <1>5, ReadWindowStep
  <1>6. CASE UNCHANGED vars
    <2>1. UNCHANGED <<plan, blobs, minted, file, client, attempts, pending, appends, base, torn>>
          /\ reader' = reader
      BY <1>6 DEF vars
    <2>2. ReaderOK'
      BY <2>1 DEF TransfersIInv, ReaderOK, IsKnown, OneRead
    <2>3. reader' \in [state : {"idle", "reading", "stopped", "failed"},
                       window : Windows \cup {0}, got : Seq(Byte)]
      BY <2>1 DEF TransfersIInv, TransfersTypeOK
    <2> QED BY <2>1, <2>2, <2>3, ReaderStep
  <1> QED BY <1>1, <1>2, <1>3, <1>4, <1>5, <1>6 DEF Next

\* The invariant behind all of the following: of the attempts, the blobs, the
\* version and the reader, after any steps of the clients and the server.
THEOREM TransfersInvariance == Spec => []TransfersIInv
  BY InitTransfers, StepTransfers, PTL DEF Spec

\* Lengths, tokens and the bytes of blobs stay in their types, and the blob
\* that a version refers to is there.
THEOREM TransfersTypeCorrect == Spec => []TransfersTypeOK
  <1>1. TransfersIInv => TransfersTypeOK
    BY DEF TransfersIInv
  <1> QED BY <1>1, TransfersInvariance, PTL

\* An upload that the client knows to be done has all its parts in order,
\* whatever attempts were lost, repeated or late.
THEOREM WholeUploads == Spec => []UploadIsWhole
  <1>1. TransfersIInv => UploadIsWhole
    BY DEF TransfersIInv
  <1> QED BY <1>1, TransfersInvariance, PTL

LEMMA KeptEnd ==
    TransfersIInv => VersionKeepsItsEnd
  <1> SUFFICES ASSUME TransfersIInv, file # NoFile, IsKnown(file), PartsFit,
                      NEW offset \in 0 .. Word - 1, NEW length \in 0 .. Word - 1,
                      NEW r \in DownloadOutcomes(file, blobs[file.blob], offset, length),
                      r.ok, ~Overflows(offset, length)
               PROVE  r.data = SubSeq(base, offset + 1, Smaller(offset + Smaller(length, OneRead), Len(base)))
    BY DEF VersionKeepsItsEnd
  <1> DEFINE blob == blobs[file.blob]
             end  == file.length
             cut  == CutLength(file, offset, length)
             n    == Smaller(Smaller(length, OneRead), end - offset)
  <1>1. /\ Word \in Nat /\ MAX_READ_SIZE \in Nat \ {0} /\ MaxBuf \in Nat \ {0}
        /\ offset \in Nat /\ length \in Nat
    BY TransferAssumption
  <1>2. /\ end \in 1 .. UNKNOWN_SIZE /\ blob \in Seq(Byte) /\ base \in Seq(Byte)
        /\ IsPrefix(base, blob) /\ end = plan[Len(plan)] /\ Len(base) = Smaller(end, MaxBuf)
    BY DEF TransfersIInv, TransfersTypeOK, FileOK
  <1>3. end \in Nat /\ Len(base) = end /\ end <= Len(blob) /\ Len(blob) \in Nat
    <2>1. end <= MaxBuf
      <3>1. Len(plan) \in DOMAIN plan
        BY PlanFacts DEF TransfersIInv
      <3> QED BY <1>2, <3>1 DEF PartsFit
    <2>2. end \in Nat
      BY <1>1, <1>2 DEF UNKNOWN_SIZE
    <2>3. Len(base) <= Len(blob)
      BY <1>2, PrefixElements
    <2> QED BY <1>1, <1>2, <2>1, <2>2, <2>3, LenProperties DEF Smaller
  <1>4. /\ offset <= end
        /\ r.data = ReadFrom(blob, offset, Smaller(Smaller(cut, MAX_READ_SIZE), MaxBuf))
    <2>1. r # Refused
      BY DEF Refused
    <2> QED BY <1>1, <1>2, <2>1, DownloadFacts
  <1> HIDE DEF blob, end
  <1>5. cut = Smaller(length, end - offset)
    <2>1. (offset + length) % Word = offset + length
      BY <1>1 DEF Overflows
    <2> QED BY <1>1, <1>3, <2>1 DEF CutLength, Smaller, end
  <1>6. Smaller(Smaller(cut, MAX_READ_SIZE), MaxBuf) = n
    BY <1>1, <1>3, <1>4, <1>5 DEF OneRead, Smaller
  <1>7. n \in Nat /\ offset + n <= end
    BY <1>1, <1>3, <1>4 DEF OneRead, Smaller
  <1>8. Smaller(offset + Smaller(length, OneRead), end) = offset + n
    BY <1>1, <1>3, <1>4 DEF OneRead, Smaller
  <1> HIDE DEF n, cut
  <1>9. r.data = SubSeq(blob, offset + 1, offset + n)
    <2>1. Smaller(offset + n, Len(blob)) = offset + n
      BY <1>1, <1>3, <1>7 DEF Smaller
    <2>2. r.data = ReadFrom(blob, offset, n)
      BY <1>4, <1>6 DEF blob
    <2> QED BY <2>1, <2>2 DEF ReadFrom
  <1>10. SubSeq(base, offset + 1, offset + n) = SubSeq(blob, offset + 1, offset + n)
    <2>1. base \in Seq(Byte) /\ blob \in Seq(Byte) /\ IsPrefix(base, blob)
      BY <1>2 DEF blob
    <2>2. offset \in Nat /\ n \in Nat /\ offset + n <= Len(base)
      BY <1>1, <1>3, <1>7
    <2>3. ASSUME NEW x \in Nat, x = offset
          PROVE  SubSeq(base, x + 1, x + n) = SubSeq(blob, x + 1, x + n) /\ x + n <= Len(blob)
      <3>1. x + n <= Len(base)
        BY <2>2, <2>3
      <3> QED BY <2>1, <2>2, <3>1, SameWindow
    <2> QED BY <2>2, <2>3
  <1> QED BY <1>3, <1>8, <1>9, <1>10

\* A version with a length ends there, whatever is appended to its blob.
THEOREM VersionsKeepTheirEnd == Spec => []VersionKeepsItsEnd
  BY KeptEnd, TransfersInvariance, PTL

LEMMA ReaderHasAll ==
    TransfersIInv => ReaderGetsVersion
  <1> SUFFICES ASSUME TransfersIInv, reader.state = "stopped", reader.window <= OneRead
               PROVE  /\ IsPrefix(base, reader.got)
                      /\ IsPrefix(reader.got, blobs[file.blob])
                      /\ IsKnown(file) /\ PartsFit => reader.got = base
    BY DEF ReaderGetsVersion
  <1>1. /\ file # NoFile /\ IsPrefix(reader.got, blobs[file.blob]) /\ IsPrefix(base, reader.got)
        /\ IsKnown(file) => Len(reader.got) <= file.length
    BY DEF TransfersIInv, ReaderOK
  <1>2. /\ reader.got \in Seq(Byte) /\ base \in Seq(Byte) /\ file.length \in 1 .. UNKNOWN_SIZE
        /\ IsKnown(file) => file.length = plan[Len(plan)] /\ Len(base) = Smaller(file.length, MaxBuf)
    BY <1>1 DEF TransfersIInv, TransfersTypeOK, FileOK
  <1>3. ASSUME IsKnown(file), PartsFit
        PROVE  reader.got = base
    <2>1. file.length <= MaxBuf
      <3>1. Len(plan) \in DOMAIN plan
        BY PlanFacts DEF TransfersIInv
      <3> QED BY <1>2, <1>3, <3>1 DEF PartsFit
    <2>2. Len(base) = file.length
      BY <1>2, <1>3, <2>1 DEF Smaller
    <2>3. Len(base) <= Len(reader.got) /\ \A i \in 1 .. Len(base) : base[i] = reader.got[i]
      BY <1>1, <1>2, PrefixElements
    <2>4. Len(base) = Len(reader.got)
      <3>1. Len(base) \in Nat /\ Len(reader.got) \in Nat
        BY <1>2, LenProperties
      <3> QED BY <1>1, <1>3, <2>2, <2>3, <3>1
    <2> QED BY <1>2, <2>3, <2>4, SeqEqual
  <1> QED BY <1>1, <1>3

\* A client that downloads in windows of one read gets all of the committed
\* version and nothing before or between; of a version with a length, no more.
THEOREM ReadersGetVersions == Spec => []ReaderGetsVersion
  BY ReaderHasAll, TransfersInvariance, PTL

=============================================================================
