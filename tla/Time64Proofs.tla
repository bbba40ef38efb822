---------------------------- MODULE Time64Proofs ----------------------------
(***************************************************************************)
(* What listings show of the clock, for fields of every width.             *)
(***************************************************************************)
EXTENDS Time64, TLAPS

\* A quotient and a remainder are determined by the number they make up.
LEMMA Division ==
    ASSUME NEW n \in Nat \ {0}, NEW q \in Nat, NEW r \in 0 .. n - 1
    PROVE  (q * n + r) \div n = q /\ (q * n + r) % n = r
  <1>1. q * n + r \in Nat
    OBVIOUS
  <1> DEFINE a == q * n + r
             d == a \div n
             m == a % n
  <1>2. d \in Int /\ m \in 0 .. n - 1 /\ a = n * d + m
    BY <1>1
  <1>3. a = q * n + r
    OBVIOUS
  <1> HIDE DEF a, d, m
  <1>4. ASSUME NEW x \in Int, NEW y \in Int, x < y PROVE y * n >= x * n + n
    <2>1. PICK k \in Nat : y = x + k /\ k >= 1
      BY <1>4, y - x \in Nat
    <2>2. y * n = x * n + k * n /\ k * n >= n
      BY <2>1
    <2> QED BY <2>2
  <1>5. ~(d < q)
    BY <1>2, <1>3, <1>4
  <1>6. ~(q < d)
    BY <1>2, <1>3, <1>4
  <1>7. d = q /\ m = r
    BY <1>2, <1>3, <1>5, <1>6
  <1> QED BY <1>7 DEF a, d, m

\* The two parts of a time come back as they were put in.
LEMMA PartsComeBack ==
    ASSUME NEW secs \in 0 .. Epochs - 1, NEW ns \in 0 .. Field - 1
    PROVE  /\ FromParts(secs, ns) = secs * Field + ns
           /\ Seconds(FromParts(secs, ns)) = secs
           /\ Nanos(FromParts(secs, ns)) = ns
  <1>1. Field \in Nat \ {0} /\ Epochs \in Nat \ {0} /\ secs \in Nat
    BY FieldAssumption
  <1>2. secs * Field \in 0 .. Epochs * Field - 1
    <2>1. PICK k \in Nat : Epochs = secs + k /\ k >= 1
      BY <1>1, Epochs - secs \in Nat
    <2>2. Epochs * Field = secs * Field + k * Field /\ k * Field >= Field
      BY <1>1, <2>1
    <2> QED BY <1>1, <2>2
  <1>3. (secs * Field) % (Epochs * Field) = secs * Field
    <2>1. Epochs * Field \in Nat \ {0}
      BY <1>1
    <2> DEFINE m == secs * Field
               n == Epochs * Field
    <2> HIDE DEF m, n
    <2>2. n \in Nat \ {0} /\ m \in 0 .. n - 1 => m % n = m
      OBVIOUS
    <2> QED BY <1>2, <2>1, <2>2 DEF m, n
  <1>4. FromParts(secs, ns) = secs * Field + ns
    BY <1>3 DEF FromParts
  <1> QED BY <1>1, <1>4, Division DEF Seconds, Nanos

\* What now() puts into a time, for a reading of the clock.
LEMMA Reading ==
    ASSUME NEW reading \in Clock
    PROVE  /\ reading \div Second \in 0 .. Epochs - 1
           /\ reading % Milli \in 0 .. Milli - 1
           /\ reading % Milli \in 0 .. Field - 1
  <1>1. /\ Second \in Nat \ {0} /\ Milli \in Nat \ {0} /\ Milli <= Field /\ Field \in Nat
        /\ Epochs \in Nat
    BY FieldAssumption
  <1>2. reading \in Nat /\ reading < Epochs * Second
    BY <1>1 DEF Clock
  <1>3. reading % Milli \in 0 .. Milli - 1
    BY <1>1, <1>2
  <1>4. reading \div Second \in 0 .. Epochs - 1
    <2> DEFINE d == reading \div Second
    <2>1. d \in Nat /\ d * Second <= reading
      BY <1>1, <1>2
    <2> HIDE DEF d
    <2>2. ~(d >= Epochs)
      <3>1. SUFFICES ASSUME d >= Epochs PROVE FALSE
        OBVIOUS
      <3>2. PICK k \in Nat : d = Epochs + k
        BY <1>1, <2>1, <3>1, d - Epochs \in Nat
      <3>3. d * Second = Epochs * Second + k * Second /\ k * Second >= 0
        BY <1>1, <3>2
      <3> QED BY <1>1, <1>2, <2>1, <3>3
    <2> QED BY <1>1, <2>1, <2>2 DEF d
  <1> QED BY <1>1, <1>3, <1>4

\* What the parts of now() are for a reading.
LEMMA NowParts ==
    ASSUME NEW reading \in Clock
    PROVE  /\ Now(reading) = (reading \div Second) * Field + (reading % Milli)
           /\ Seconds(Now(reading)) = reading \div Second
           /\ Nanos(Now(reading)) = reading % Milli
  BY Reading, PartsComeBack DEF Now

\* A later reading has no fewer seconds.
LEMMA LaterSecond ==
    ASSUME NEW reading \in Nat, NEW later \in Nat, reading <= later
    PROVE  reading \div Second <= later \div Second
  <1> DEFINE d == reading \div Second
             e == later \div Second
  <1>1. Second \in Nat \ {0}
    BY FieldAssumption
  <1>2. d \in Nat /\ e \in Nat /\ d * Second <= reading /\ later < e * Second + Second
    BY <1>1
  <1> HIDE DEF d, e
  <1>3. ~(e < d)
    <2>1. SUFFICES ASSUME e < d PROVE FALSE
      OBVIOUS
    <2>2. PICK k \in Nat : d = e + k /\ k >= 1
      BY <1>2, <2>1, d - e \in Nat
    <2>3. d * Second = e * Second + k * Second /\ k * Second >= Second
      BY <1>1, <1>2, <2>2
    <2> QED BY <1>1, <1>2, <2>3
  <1> QED BY <1>2, <1>3 DEF d, e

\* A listing shows the second of the reading, and the part of the reading that
\* now() keeps, whatever the widths of the fields.
THEOREM TimesAreListed == TimesListed
  <1> SUFFICES ASSUME NEW reading \in Clock PROVE ListedSecond(reading)
    BY DEF TimesListed
  <1> DEFINE s == reading \div Second
             n == reading % Milli
  <1>1. s \in Nat /\ n \in Nat /\ Field \in Nat \ {0}
    BY Reading, FieldAssumption
  <1>2. /\ Now(reading) = s * Field + n
        /\ Seconds(Now(reading)) = s
        /\ Nanos(Now(reading)) = n
    BY NowParts
  <1> HIDE DEF s, n
  <1>3. s * Field + n = 0 <=> s = 0 /\ n = 0
    <2>1. s # 0 => s * Field >= Field
      <3>1. SUFFICES ASSUME s # 0 PROVE s * Field >= Field
        OBVIOUS
      <3>2. PICK k \in Nat : s = k + 1
        BY <1>1, <3>1, s - 1 \in Nat
      <3> QED BY <1>1, <3>2
    <2> QED BY <1>1, <2>1
  <1>4. Listed(Now(reading)) =
           IF s = 0 /\ n = 0 THEN {} ELSE {[seconds |-> s, nanos |-> n]}
    BY <1>2, <1>3 DEF Listed, Known, TIME64_UNKNOWN_TIME
  <1> QED BY <1>4 DEF ListedSecond, s, n

\* Times go backwards by less than a millisecond, and never across a second.
THEOREM TimesAreInOrder == TimesInOrder
  <1> SUFFICES ASSUME NEW reading \in Clock, NEW later \in Clock, reading <= later
               PROVE  InOrder(reading, later)
    BY DEF TimesInOrder, InOrder
  <1> DEFINE s == reading \div Second
             n == reading % Milli
             t == later \div Second
             m == later % Milli
  <1>1. /\ s \in Nat /\ t \in Nat /\ n \in 0 .. Milli - 1 /\ m \in 0 .. Milli - 1
        /\ n \in 0 .. Field - 1 /\ m \in 0 .. Field - 1 /\ Field \in Nat /\ Milli \in Nat
    BY Reading, FieldAssumption
  <1>2. /\ Now(reading) = s * Field + n /\ Now(later) = t * Field + m
        /\ Seconds(Now(reading)) = s /\ Seconds(Now(later)) = t
        /\ Nanos(Now(reading)) = n /\ Nanos(Now(later)) = m
    BY NowParts
  <1>3. s <= t
    BY LaterSecond DEF Clock
  <1> HIDE DEF s, n, t, m
  <1>4. CASE s < t
    <2>1. PICK k \in Nat : t = s + k /\ k >= 1
      BY <1>1, <1>4, t - s \in Nat
    <2>2. t * Field = s * Field + k * Field /\ k * Field >= Field
      BY <1>1, <2>1
    <2>3. Now(reading) <= Now(later)
      BY <1>1, <1>2, <2>2
    <2> QED BY <2>3 DEF InOrder
  <1>5. CASE s = t /\ n <= m
    <2>1. Now(reading) <= Now(later)
      BY <1>1, <1>2, <1>5
    <2> QED BY <2>1 DEF InOrder
  <1>6. CASE s = t /\ n > m
    <2>1. n - m \in 1 .. Milli - 1
      BY <1>1, <1>6
    <2> QED BY <1>2, <1>6, <2>1 DEF InOrder
  <1> QED BY <1>1, <1>3, <1>4, <1>5, <1>6
=============================================================================
