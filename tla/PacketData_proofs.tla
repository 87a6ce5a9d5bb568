------------------------- MODULE PacketData_proofs -------------------------
(***************************************************************************)
(* Proofs about the operators of Nl80211Packet and ScanMessages: what an   *)
(* attribute holds that was made, grown or merged, that the plans of a     *)
(* scheduled scan are within the limits, and which networks the loops of a *)
(* scheduled and of a one-shot scan collect, however many there are.       *)
(***************************************************************************)
EXTENDS ScanMessages, SequenceTheorems, WellFoundedInduction, TLAPS

-----------------------------------------------------------------------------
(***************************************************************************)
(* The plans of a scheduled scan                                           *)
(***************************************************************************)

\* The remainder of a small number.
LEMMA SmallRemainder ==
    ASSUME NEW x \in Nat, NEW m \in Nat \ {0}, x < m
    PROVE  x % m = x
  OBVIOUS

\* A factor of at least one makes a product no smaller.
LEMMA ProductGrows ==
    ASSUME NEW a \in Nat, NEW b \in Nat, b >= 1
    PROVE  a * b \in Nat /\ a <= a * b
  <1>1. PICK c \in Nat : b = c + 1
    <2>1. b - 1 \in Nat /\ b = (b - 1) + 1
      OBVIOUS
    <2> QED BY <2>1
  <1>2. a * c \in Nat /\ a * (c + 1) = a * c + a
    OBVIOUS
  <1> QED BY <1>1, <1>2

\* The quotient of a number that is at most a product.
LEMMA QuotientBound ==
    ASSUME NEW x \in Nat, NEW k \in Nat \ {0}, NEW l \in Nat, x <= l * k
    PROVE  x \div k \in Nat /\ x \div k <= l
  <1>1. x \div k \in Int /\ x % k \in 0..(k - 1) /\ x = k * (x \div k) + (x % k)
    OBVIOUS
  <1>2. PICK q \in Int : q = x \div k
    BY <1>1
  <1>3. k * q <= x /\ x < k * (q + 1)
    BY <1>1, <1>2
  <1>4. q >= 0
    <2>1. ASSUME q < 0 PROVE FALSE
      <3>1. q + 1 <= 0
        BY <2>1
      <3>2. k * (q + 1) <= 0
        BY <3>1
      <3> QED BY <1>3, <3>2
    <2> QED BY <2>1
  <1>5. q <= l
    <2>1. ASSUME q >= l + 1 PROVE FALSE
      <3>1. k * q >= k * (l + 1)
        BY <2>1
      <3>2. k * (l + 1) = l * k + k
        OBVIOUS
      <3> QED BY <1>3, <3>1, <3>2
    <2> QED BY <2>1
  <1> QED BY <1>2, <1>4, <1>5

\* GenerateIntervalSetting hands the kernel plans only within the limits of the
\* wiphy, the intervals in whole seconds those of the framework, though the
\* limit in milliseconds, a uint32_t, may have wrapped: a wrapped limit is only
\* a smaller one.
THEOREM PlansWithinLimits ==
    ASSUME NEW settings, NEW caps,
           settings.interval_ms \in Nat,
           settings.scan_interval_multiplier \in Nat \ {0},
           settings.scan_iterations \in Nat,
           caps.max_num_scan_plans \in Nat,
           caps.max_scan_plan_interval \in Nat,
           caps.max_scan_plan_iterations \in Nat,
           GenerateIntervalSetting(settings, caps).plans # <<>>
    PROVE  LET plan == GenerateIntervalSetting(settings, caps)
           IN  /\ caps.max_num_scan_plans >= Len(plan.plans) + 1
               /\ plan.plans = << <<settings.interval_ms, settings.scan_iterations>> >>
               /\ settings.scan_iterations <= caps.max_scan_plan_iterations
               /\ plan.final =
                      settings.interval_ms * settings.scan_interval_multiplier
               /\ settings.interval_ms \div MsecPerSec <= caps.max_scan_plan_interval
               /\ plan.final \div MsecPerSec <= caps.max_scan_plan_interval
  <1>1. PICK k \in Nat \ {0}, m \in Nat \ {0} : k = MsecPerSec /\ m = IntervalMod
    BY ScanAssumption
  <1>2. PICK i \in Nat, f \in Nat \ {0}, l \in Nat :
            /\ i = settings.interval_ms
            /\ f = settings.scan_interval_multiplier
            /\ l = caps.max_scan_plan_interval
    OBVIOUS
  <1>3. PICK slow \in Nat : slow = i * f /\ i <= slow
    BY ProductGrows
  <1>4. /\ caps.max_num_scan_plans >= 2
        /\ (l * k) % m >= slow
        /\ caps.max_scan_plan_iterations >= settings.scan_iterations
        /\ GenerateIntervalSetting(settings, caps) =
               [plans |-> << <<i % m, settings.scan_iterations>> >>,
                final |-> ((i % m) * f) % m]
    BY <1>1, <1>2, <1>3 DEF GenerateIntervalSetting
  <1>5. slow < m /\ slow <= l * k
    <2>1. PICK p \in Nat : p = l * k
      OBVIOUS
    <2>2. p % m < m /\ p % m <= p
      BY <1>1
    <2> QED BY <1>4, <2>1, <2>2
  <1>6. i % m = i /\ slow % m = slow
    <2>1. i < m /\ slow < m
      BY <1>3, <1>5
    <2> QED BY <2>1, SmallRemainder
  <1>7. i <= l * k
    BY <1>3, <1>5
  <1>8. i \div k <= l /\ slow \div k <= l
    BY <1>5, <1>7, QuotientBound
  <1>9. GenerateIntervalSetting(settings, caps) =
            [plans |-> << <<i, settings.scan_iterations>> >>, final |-> slow]
    BY <1>3, <1>4, <1>6
  <1>10. Len(<< <<i, settings.scan_iterations>> >>) + 1 = 2
    OBVIOUS
  <1> QED BY <1>1, <1>2, <1>3, <1>4, <1>8, <1>9, <1>10

-----------------------------------------------------------------------------
(***************************************************************************)
(* Attributes                                                              *)
(***************************************************************************)

\* The entries of two sequences one after the other.
LEMMA Joins ==
    ASSUME NEW s \in Seq(Nat), NEW t \in Seq(Nat)
    PROVE  /\ s \o t \in Seq(Nat) /\ Len(s \o t) = Len(s) + Len(t)
           /\ \A i \in 1..Len(s) : (s \o t)[i] = s[i]
           /\ \A i \in 1..Len(t) : (s \o t)[Len(s) + i] = t[i]
  <1>1. Len(s) \in Nat /\ Len(t) \in Nat
    OBVIOUS
  <1>2. /\ s \o t \in Seq(Nat) /\ Len(s \o t) = Len(s) + Len(t)
        /\ \A i \in 1..(Len(s) + Len(t)) :
              (s \o t)[i] = IF i <= Len(s) THEN s[i] ELSE t[i - Len(s)]
    BY ConcatProperties
  <1>3. \A i \in 1..Len(t) : /\ Len(s) + i \in 1..(Len(s) + Len(t))
                             /\ ~(Len(s) + i <= Len(s)) /\ Len(s) + i - Len(s) = i
    BY <1>1
  <1>4. \A i \in 1..Len(s) : i \in 1..(Len(s) + Len(t)) /\ i <= Len(s)
    BY <1>1
  <1> QED BY <1>2, <1>3, <1>4

\* The entries of a part of a sequence.
LEMMA Cuts ==
    ASSUME NEW s \in Seq(Nat), NEW a \in Nat, NEW b \in Nat,
           1 <= a, a <= b + 1, b <= Len(s)
    PROVE  /\ SubSeq(s, a, b) \in Seq(Nat) /\ Len(SubSeq(s, a, b)) = b + 1 - a
           /\ \A i \in 1..(b + 1 - a) : SubSeq(s, a, b)[i] = s[a + i - 1]
  <1>1. Len(s) \in Nat /\ \A i \in a..b : s[i] \in Nat
    OBVIOUS
  <1>2. /\ SubSeq(s, a, b) \in Seq(Nat)
        /\ Len(SubSeq(s, a, b)) = IF a <= b THEN b - a + 1 ELSE 0
        /\ \A i \in 1..(b - a + 1) : SubSeq(s, a, b)[i] = s[a + i - 1]
    <2>1. a \in Int /\ b \in Int
      OBVIOUS
    <2>2. SubSeq(s, a, b) \in Seq(Nat)
      BY <1>1, <2>1, SubSeqProperties
    <2>3. Len(SubSeq(s, a, b)) = IF a <= b THEN b - a + 1 ELSE 0
      BY <1>1, <2>1, SubSeqProperties
    <2>4. \A i \in 1..(b - a + 1) : SubSeq(s, a, b)[i] = s[a + i - 1]
      BY <1>1, <2>1, SubSeqProperties
    <2> QED BY <2>2, <2>3, <2>4
  <1>3. b - a + 1 = b + 1 - a
    OBVIOUS
  <1>4. (IF a <= b THEN b - a + 1 ELSE 0) = b + 1 - a
    OBVIOUS
  <1> QED BY <1>2, <1>3, <1>4

\* Aligned lengths.
LEMMA AlignHeader ==
    ASSUME NEW n \in Nat
    PROVE  /\ n % 2 \in Nat /\ NLA_ALIGN(n) = n + (n % 2)
           /\ NLA_ALIGN(2 + n) = 2 + n + (n % 2)
  <1>1. (2 + n) % 2 = n % 2
    OBVIOUS
  <1> QED BY <1>1 DEF NLA_ALIGN

\* Zeros are bytes.
LEMMA ZerosAreBytes ==
    ASSUME NEW n \in Nat
    PROVE  Zeros(n) \in Seq(Nat) /\ Len(Zeros(n)) = n
  <1>1. Zeros(n) \in [1..n -> Nat]
    BY DEF Zeros
  <1> QED BY <1>1

\* An attribute in a buffer of its own: its length is that of the buffer but
\* for the padding.
WellFormed(a) == a \in Seq(Nat) /\ IsValid(a) /\ a[2] \in Nat /\ a[2] >= NLA_HDRLEN

\* What BaseNL80211Attr makes of an id and a value is a valid attribute with
\* this id, and its payload is the value, if its length fits nla_len.
THEOREM AttrHoldsValue ==
    ASSUME NEW id \in Nat, NEW raw \in Seq(Nat), NLA_HDRLEN + Len(raw) < LenMod
    PROVE  /\ WellFormed(Attr(id, raw))
           /\ GetAttributeId(Attr(id, raw)) = id
           /\ Payload(Attr(id, raw)) = raw
           /\ Len(Attr(id, raw)) = NLA_HDRLEN + NLA_ALIGN(Len(raw))
  <1>1. PICK n \in Nat : n = Len(raw)
    OBVIOUS
  <1>2. PICK z \in Nat : z = n % 2
    BY AlignHeader
  <1>3. NLA_ALIGN(n) = n + z /\ NLA_ALIGN(2 + n) = 2 + n + z
    BY <1>2, AlignHeader
  <1>4. (2 + n) % LenMod = 2 + n
    <2>1. LenMod \in Nat \ {0} /\ 2 + n < LenMod /\ 2 + n \in Nat
      BY <1>1, PacketAssumption DEF NLA_HDRLEN
    <2> QED BY <2>1, SmallRemainder
  <1>5. PICK h : h = <<id, 2 + n>>
    OBVIOUS
  <1>6. h \in Seq(Nat) /\ Len(h) = 2 /\ h[1] = id /\ h[2] = 2 + n
    BY <1>5
  <1>7. PICK o : o = Zeros(n + z)
    OBVIOUS
  <1>8. o \in Seq(Nat) /\ Len(o) = n + z
    BY <1>7, ZerosAreBytes
  <1>9. PICK blank : blank = h \o o
    OBVIOUS
  <1>10. /\ blank \in Seq(Nat) /\ Len(blank) = 2 + (n + z)
         /\ blank[1] = id /\ blank[2] = 2 + n
    <2>1. /\ blank \in Seq(Nat) /\ Len(blank) = Len(h) + Len(o)
          /\ \A i \in 1..Len(h) : blank[i] = h[i]
      BY <1>6, <1>8, <1>9, Joins
    <2> QED BY <1>6, <1>8, <2>1
  <1>11. PICK s : s = SubSeq(blank, 1, 2)
    OBVIOUS
  <1>12. s \in Seq(Nat) /\ Len(s) = 2 /\ s[1] = id /\ s[2] = 2 + n
    <2>1. /\ s \in Seq(Nat) /\ Len(s) = 2 + 1 - 1
          /\ \A i \in 1..(2 + 1 - 1) : s[i] = blank[1 + i - 1]
      BY <1>10, <1>11, Cuts
    <2> QED BY <1>10, <2>1
  <1>13. PICK p : p = SubSeq(blank, 2 + n + 1, Len(blank))
    OBVIOUS
  <1>14. p \in Seq(Nat) /\ Len(p) = z
    <2>1. /\ 2 + n + 1 \in Nat /\ Len(blank) \in Nat
          /\ 1 <= 2 + n + 1 /\ 2 + n + 1 <= Len(blank) + 1 /\ Len(blank) <= Len(blank)
      BY <1>10
    <2>2. p \in Seq(Nat) /\ Len(p) = Len(blank) + 1 - (2 + n + 1)
      BY <1>10, <1>13, <2>1, Cuts
    <2> QED BY <1>10, <2>2
  <1>15. PICK t : t = s \o raw
    OBVIOUS
  <1>16. /\ t \in Seq(Nat) /\ Len(t) = 2 + n
         /\ t[1] = id /\ t[2] = 2 + n /\ \A i \in 1..n : t[2 + i] = raw[i]
    <2>1. /\ t \in Seq(Nat) /\ Len(t) = Len(s) + Len(raw)
          /\ \A i \in 1..Len(s) : t[i] = s[i]
          /\ \A i \in 1..Len(raw) : t[Len(s) + i] = raw[i]
      BY <1>12, <1>15, Joins
    <2> QED BY <1>1, <1>12, <2>1
  <1>17. PICK a : a = t \o p
    OBVIOUS
  <1>18. /\ a \in Seq(Nat) /\ Len(a) = 2 + n + z
         /\ a[1] = id /\ a[2] = 2 + n /\ \A i \in 1..n : a[2 + i] = raw[i]
    <2>1. /\ a \in Seq(Nat) /\ Len(a) = Len(t) + Len(p)
          /\ \A i \in 1..Len(t) : a[i] = t[i]
      BY <1>14, <1>16, <1>17, Joins
    <2>2. 1 \in 1..Len(t) /\ 2 \in 1..Len(t) /\ \A i \in 1..n : 2 + i \in 1..Len(t)
      BY <1>16
    <2> QED BY <1>14, <1>16, <2>1, <2>2
  <1>19. Attr(id, raw) = a
    <2>1. InitHeaderAndResize(id, Len(raw)) = blank
      BY <1>1, <1>3, <1>4, <1>5, <1>7, <1>9 DEF InitHeaderAndResize, NLA_HDRLEN
    <2> QED BY <1>1, <1>11, <1>13, <1>15, <1>17, <2>1 DEF Attr, NLA_HDRLEN
  <1>20. Payload(a) = raw
    <2>1. PICK q : q = SubSeq(a, 3, 2 + n)
      OBVIOUS
    <2>2. 3 \in Nat /\ 2 + n \in Nat /\ 1 <= 3 /\ 3 <= 2 + n + 1 /\ 2 + n <= Len(a)
      BY <1>18
    <2>3. /\ q \in Seq(Nat) /\ Len(q) = 2 + n + 1 - 3
          /\ \A i \in 1..(2 + n + 1 - 3) : q[i] = a[3 + i - 1]
      <3>1. a \in Seq(Nat)
        BY <1>18
      <3>2. /\ SubSeq(a, 3, 2 + n) \in Seq(Nat)
            /\ Len(SubSeq(a, 3, 2 + n)) = 2 + n + 1 - 3
            /\ \A i \in 1..(2 + n + 1 - 3) : SubSeq(a, 3, 2 + n)[i] = a[3 + i - 1]
        BY <2>2, <3>1, Cuts
      <3> QED BY <2>1, <3>2
    <2>4. \A i \in 1..n : i \in 1..(2 + n + 1 - 3) /\ 3 + i - 1 = 2 + i
      OBVIOUS
    <2>5. Len(q) = Len(raw) /\ \A i \in 1..Len(q) : q[i] = raw[i]
      BY <1>1, <1>18, <2>3, <2>4
    <2>6. q = raw
      BY <2>3, <2>5, SeqEqual
    <2> QED BY <1>18, <2>1, <2>6 DEF Payload, NLA_HDRLEN
  <1>21. WellFormed(a)
    BY <1>3, <1>18 DEF WellFormed, IsValid, NLA_HDRLEN
  <1> QED BY <1>1, <1>3, <1>18, <1>19, <1>20, <1>21 DEF GetAttributeId, NLA_HDRLEN

\* The payload of a well-formed attribute.
LEMMA PayloadOf ==
    ASSUME NEW a, WellFormed(a), NEW n \in Nat, a[2] = 2 + n
    PROVE  /\ a \in Seq(Nat) /\ Len(a) = 2 + n + (n % 2)
           /\ Payload(a) \in Seq(Nat) /\ Len(Payload(a)) = n
           /\ \A i \in 1..n : Payload(a)[i] = a[2 + i]
  <1>1. a \in Seq(Nat) /\ NLA_ALIGN(2 + n) = Len(a)
    BY DEF WellFormed, IsValid
  <1>2. n % 2 \in Nat /\ Len(a) = 2 + n + (n % 2)
    BY <1>1, AlignHeader
  <1>3. Payload(a) = SubSeq(a, 3, 2 + n)
    BY DEF Payload, NLA_HDRLEN
  <1>4. 3 \in Nat /\ 2 + n \in Nat /\ 1 <= 3 /\ 3 <= 2 + n + 1 /\ 2 + n <= Len(a)
    BY <1>2
  <1>5. /\ SubSeq(a, 3, 2 + n) \in Seq(Nat) /\ Len(SubSeq(a, 3, 2 + n)) = 2 + n + 1 - 3
        /\ \A i \in 1..(2 + n + 1 - 3) : SubSeq(a, 3, 2 + n)[i] = a[3 + i - 1]
    BY <1>1, <1>4, Cuts
  <1>6. /\ 2 + n + 1 - 3 = n
        /\ \A i \in 1..n : i \in 1..(2 + n + 1 - 3) /\ 3 + i - 1 = 2 + i
    OBVIOUS
  <1> QED BY <1>1, <1>2, <1>3, <1>5, <1>6

\* Merge joins the payloads of two attributes with the same id, without the
\* padding in between: what is read of the pieces of a split dump is what the
\* kernel cut.
THEOREM MergeJoinsPayloads ==
    ASSUME NEW a, NEW b, WellFormed(a), WellFormed(b),
           GetAttributeId(a) = GetAttributeId(b),
           a[2] + b[2] - NLA_HDRLEN < LenMod
    PROVE  /\ WellFormed(Merge(a, b))
           /\ GetAttributeId(Merge(a, b)) = GetAttributeId(a)
           /\ Payload(Merge(a, b)) = Payload(a) \o Payload(b)
  <1>1. PICK n \in Nat, k \in Nat : a[2] = 2 + n /\ b[2] = 2 + k
    <2>1. a[2] \in Nat /\ a[2] >= 2 /\ b[2] \in Nat /\ b[2] >= 2
      BY DEF WellFormed, NLA_HDRLEN
    <2>2. ASSUME NEW x \in Nat, x >= 2 PROVE \E y \in Nat : x = 2 + y
      <3>1. x - 2 \in Nat /\ x = 2 + (x - 2)
        BY <2>2
      <3> QED BY <3>1
    <2> QED BY <2>1, <2>2
  <1>2. /\ a \in Seq(Nat) /\ Len(a) = 2 + n + (n % 2)
        /\ Payload(a) \in Seq(Nat) /\ Len(Payload(a)) = n
        /\ \A i \in 1..n : Payload(a)[i] = a[2 + i]
    BY <1>1, PayloadOf
  <1>3. PICK q : q = Payload(b)
    OBVIOUS
  <1>4. q \in Seq(Nat) /\ Len(q) = k
    BY <1>1, <1>3, PayloadOf
  <1>5. a[2] + b[2] - NLA_HDRLEN = 2 + (n + k) /\ n + k \in Nat
    BY <1>1 DEF NLA_HDRLEN
  <1>6. (2 + (n + k)) % LenMod = 2 + (n + k)
    <2>1. LenMod \in Nat \ {0} /\ 2 + (n + k) < LenMod /\ 2 + (n + k) \in Nat
      BY <1>5, PacketAssumption
    <2> QED BY <2>1, SmallRemainder
  <1>7. PICK z \in Nat : z = (n + k) % 2 /\ NLA_ALIGN(2 + (n + k)) = 2 + (n + k) + z
    BY <1>5, AlignHeader
  <1>8. (2 + (n + k)) % 2 = z
    BY <1>5, <1>7
  <1>9. PICK s : s = SubSeq(a, 1, 2 + n)
    OBVIOUS
  <1>10. /\ s \in Seq(Nat) /\ Len(s) = 2 + n
         /\ \A i \in 1..(2 + n) : s[i] = a[i]
    <2>1. /\ 1 \in Nat /\ 2 + n \in Nat /\ 1 <= 1 /\ 1 <= 2 + n + 1 /\ 2 + n <= Len(a)
      <3>1. PICK y \in Nat : y = n % 2
        BY AlignHeader
      <3>2. Len(a) = 2 + n + y
        BY <1>2, <3>1
      <3> QED BY <3>2
    <2>2. /\ SubSeq(a, 1, 2 + n) \in Seq(Nat) /\ Len(SubSeq(a, 1, 2 + n)) = 2 + n + 1 - 1
          /\ \A i \in 1..(2 + n + 1 - 1) : SubSeq(a, 1, 2 + n)[i] = a[1 + i - 1]
      <3>1. a \in Seq(Nat)
        BY <1>2
      <3>2. PICK c \in Nat : c = 2 + n
        OBVIOUS
      <3>3. /\ SubSeq(a, 1, c) \in Seq(Nat) /\ Len(SubSeq(a, 1, c)) = c + 1 - 1
            /\ \A i \in 1..(c + 1 - 1) : SubSeq(a, 1, c)[i] = a[1 + i - 1]
        BY <2>1, <3>1, <3>2, Cuts
      <3> QED BY <3>2, <3>3
    <2>3. 2 + n + 1 - 1 = 2 + n /\ \A i \in 1..(2 + n) : 1 + i - 1 = i
      OBVIOUS
    <2> QED BY <1>9, <2>2, <2>3
  <1>11. PICK t : t = [s EXCEPT ![2] = 2 + (n + k)]
    OBVIOUS
  <1>12. /\ t \in Seq(Nat) /\ Len(t) = 2 + n
         /\ t[1] = a[1] /\ t[2] = 2 + (n + k)
         /\ \A i \in 1..n : t[2 + i] = a[2 + i]
    <2>1. 2 \in 1..Len(s) /\ 2 + (n + k) \in Nat
      BY <1>10
    <2>2. /\ t \in Seq(Nat) /\ Len(t) = Len(s)
          /\ \A j \in 1..Len(s) : t[j] = IF j = 2 THEN 2 + (n + k) ELSE s[j]
      BY <1>10, <1>11, <2>1, ExceptSeq
    <2>3. \A i \in 1..n : 2 + i \in 1..Len(s) /\ 2 + i # 2
      BY <1>10
    <2>4. 1 \in 1..Len(s)
      BY <1>10
    <2> QED BY <1>10, <2>1, <2>2, <2>3, <2>4
  <1>13. PICK u : u = t \o q
    OBVIOUS
  <1>14. /\ u \in Seq(Nat) /\ Len(u) = 2 + n + k
         /\ \A i \in 1..(2 + n) : u[i] = t[i]
         /\ \A i \in 1..k : u[2 + n + i] = q[i]
    <2>1. /\ t \o q \in Seq(Nat) /\ Len(t \o q) = Len(t) + Len(q)
          /\ \A i \in 1..Len(t) : (t \o q)[i] = t[i]
          /\ \A i \in 1..Len(q) : (t \o q)[Len(t) + i] = q[i]
      BY <1>4, <1>12, Joins
    <2> QED BY <1>4, <1>12, <1>13, <2>1
  <1>15. PICK r : r = u \o Zeros(z)
    OBVIOUS
  <1>16. /\ r \in Seq(Nat) /\ Len(r) = 2 + (n + k) + z
         /\ \A i \in 1..(2 + n + k) : r[i] = u[i]
    <2>1. Zeros(z) \in Seq(Nat) /\ Len(Zeros(z)) = z
      BY ZerosAreBytes
    <2>2. /\ u \o Zeros(z) \in Seq(Nat) /\ Len(u \o Zeros(z)) = Len(u) + Len(Zeros(z))
          /\ \A i \in 1..Len(u) : (u \o Zeros(z))[i] = u[i]
      BY <1>14, <2>1, Joins
    <2> QED BY <1>14, <1>15, <2>1, <2>2
  <1>17. Merge(a, b) = r
    <2>1. IsValid(b) /\ GetAttributeId(a) = GetAttributeId(b)
      BY DEF WellFormed
    <2>2. Merge(a, b) = ([SubSeq(a, 1, a[2]) EXCEPT ![2] = (a[2] + b[2] - NLA_HDRLEN) % LenMod]
                          \o Payload(b)) \o Zeros((a[2] + b[2] - NLA_HDRLEN) % 2)
      BY <2>1 DEF Merge
    <2> QED BY <1>1, <1>3, <1>5, <1>6, <1>8, <1>9, <1>11, <1>13, <1>15, <2>2
  <1>18. /\ r[1] = a[1] /\ r[2] = 2 + (n + k)
         /\ \A i \in 1..n : r[2 + i] = a[2 + i]
         /\ \A i \in 1..k : r[2 + n + i] = q[i]
    <2>1. 1 \in 1..(2 + n) /\ 2 \in 1..(2 + n) /\ \A i \in 1..n : 2 + i \in 1..(2 + n)
      OBVIOUS
    <2>2. /\ \A i \in 1..(2 + n) : i \in 1..(2 + n + k)
          /\ \A i \in 1..k : 2 + n + i \in 1..(2 + n + k)
      OBVIOUS
    <2>3. \A i \in 1..(2 + n) : r[i] = t[i]
      BY <1>14, <1>16, <2>2
    <2>4. \A i \in 1..k : r[2 + n + i] = q[i]
      BY <1>14, <1>16, <2>2
    <2>5. \A i \in 1..n : r[2 + i] = a[2 + i]
      BY <1>12, <2>1, <2>3
    <2>6. r[1] = a[1] /\ r[2] = 2 + (n + k)
      BY <1>12, <2>1, <2>3
    <2> QED BY <2>4, <2>5, <2>6
  <1>19. WellFormed(r)
    BY <1>7, <1>16, <1>18 DEF WellFormed, IsValid, NLA_HDRLEN
  <1>20. /\ Payload(r) \in Seq(Nat) /\ Len(Payload(r)) = n + k
         /\ \A i \in 1..(n + k) : Payload(r)[i] = r[2 + i]
    BY <1>5, <1>18, <1>19, PayloadOf
  <1>21. PICK c : c = Payload(a) \o q
    OBVIOUS
  <1>22. /\ c \in Seq(Nat) /\ Len(c) = n + k
         /\ \A i \in 1..n : c[i] = a[2 + i]
         /\ \A i \in 1..k : c[n + i] = q[i]
    <2>1. /\ Payload(a) \o q \in Seq(Nat)
          /\ Len(Payload(a) \o q) = Len(Payload(a)) + Len(q)
          /\ \A i \in 1..Len(Payload(a)) : (Payload(a) \o q)[i] = Payload(a)[i]
          /\ \A i \in 1..Len(q) : (Payload(a) \o q)[Len(Payload(a)) + i] = q[i]
      BY <1>2, <1>4, Joins
    <2> QED BY <1>2, <1>4, <1>21, <2>1
  <1>23. ASSUME NEW i \in 1..(n + k)
         PROVE  Payload(r)[i] = c[i]
    <2>1. CASE i <= n
      <3>1. i \in 1..n
        BY <2>1
      <3> QED BY <1>18, <1>20, <1>22, <3>1
    <2>2. CASE i > n
      <3>1. PICK j \in 1..k : i = n + j
        <4>1. i - n \in 1..k /\ i = n + (i - n)
          BY <2>2
        <4> QED BY <4>1
      <3>2. Payload(r)[i] = r[2 + n + j]
        <4>1. 2 + i = 2 + n + j
          BY <3>1
        <4> QED BY <1>20, <4>1
      <3>3. Payload(r)[i] = q[j]
        BY <1>18, <3>2
      <3>4. c[n + j] = q[j]
        BY <1>22
      <3> QED BY <3>1, <3>3, <3>4
    <2> QED BY <2>1, <2>2
  <1>24. Payload(r) = c
    BY <1>20, <1>22, <1>23, SeqEqual
  <1> QED BY <1>3, <1>17, <1>18, <1>19, <1>21, <1>24 DEF GetAttributeId

\* A nested attribute: all of it is used, since its sub-attributes are padded.
Nested(a) == WellFormed(a) /\ a[2] = Len(a)

\* An attribute added to a nested one: its length grows with its content, and
\* the sub-attributes it had come first, if the length fits nla_len.
THEOREM NestedHoldsAttributes ==
    ASSUME NEW nested, NEW attr, Nested(nested), WellFormed(attr),
           Len(nested) + Len(attr) < LenMod
    PROVE  /\ Nested(AddAttribute(nested, attr))
           /\ GetAttributeId(AddAttribute(nested, attr)) = GetAttributeId(nested)
           /\ Content(AddAttribute(nested, attr)) = Content(nested) \o attr
  <1>1. PICK n \in Nat : nested[2] = 2 + n /\ Len(nested) = 2 + n
    <2>1. nested[2] \in Nat /\ nested[2] >= 2 /\ nested[2] = Len(nested)
      BY DEF Nested, WellFormed, NLA_HDRLEN
    <2>2. ASSUME NEW x \in Nat, x >= 2 PROVE \E y \in Nat : x = 2 + y
      <3>1. x - 2 \in Nat /\ x = 2 + (x - 2)
        BY <2>2
      <3> QED BY <3>1
    <2> QED BY <2>1, <2>2
  <1>2. nested \in Seq(Nat) /\ n % 2 = 0
    <2>1. /\ nested \in Seq(Nat) /\ Len(nested) = 2 + n + (n % 2)
      BY <1>1, PayloadOf DEF Nested
    <2>2. n % 2 \in Nat
      BY AlignHeader
    <2> QED BY <1>1, <2>1, <2>2
  <1>3. PICK k \in Nat : k = Len(attr) /\ k % 2 = 0
    <2>1. attr \in Seq(Nat) /\ attr[2] \in Nat /\ Len(attr) = attr[2] + (attr[2] % 2)
      BY DEF WellFormed, IsValid, NLA_ALIGN
    <2>2. ASSUME NEW x \in Nat PROVE (x + (x % 2)) % 2 = 0
      OBVIOUS
    <2> QED BY <2>1, <2>2
  <1>4. attr \in Seq(Nat)
    BY DEF WellFormed
  <1>5. PICK s : s = nested \o attr
    OBVIOUS
  <1>6. /\ s \in Seq(Nat) /\ Len(s) = 2 + n + k
        /\ \A i \in 1..(2 + n) : s[i] = nested[i]
        /\ \A i \in 1..k : s[2 + n + i] = attr[i]
    <2>1. /\ nested \o attr \in Seq(Nat) /\ Len(nested \o attr) = Len(nested) + Len(attr)
          /\ \A i \in 1..Len(nested) : (nested \o attr)[i] = nested[i]
          /\ \A i \in 1..Len(attr) : (nested \o attr)[Len(nested) + i] = attr[i]
      BY <1>2, <1>4, Joins
    <2> QED BY <1>1, <1>3, <1>5, <2>1
  <1>7. (2 + n + k) % LenMod = 2 + n + k /\ 2 + n + k \in Nat
    <2>1. LenMod \in Nat \ {0} /\ 2 + n + k < LenMod /\ 2 + n + k \in Nat
      BY <1>1, <1>3, PacketAssumption
    <2> QED BY <2>1, SmallRemainder
  <1>8. PICK r : r = [s EXCEPT ![2] = 2 + n + k]
    OBVIOUS
  <1>9. AddAttribute(nested, attr) = r
    <2>1. s[2] = 2 + n
      BY <1>1, <1>6
    <2> QED BY <1>3, <1>5, <1>7, <1>8, <2>1 DEF AddAttribute
  <1>10. /\ r \in Seq(Nat) /\ Len(r) = 2 + n + k
         /\ \A j \in 1..(2 + n + k) : r[j] = IF j = 2 THEN 2 + n + k ELSE s[j]
    <2>1. 2 \in 1..Len(s)
      BY <1>6
    <2>2. /\ r \in Seq(Nat) /\ Len(r) = Len(s)
          /\ \A j \in 1..Len(s) : r[j] = IF j = 2 THEN 2 + n + k ELSE s[j]
      BY <1>6, <1>7, <1>8, <2>1, ExceptSeq
    <2> QED BY <1>6, <2>2
  <1>11. /\ r[1] = nested[1] /\ r[2] = 2 + n + k
         /\ \A i \in 1..n : r[2 + i] = nested[2 + i]
         /\ \A i \in 1..k : r[2 + n + i] = attr[i]
    <2>1. 1 \in 1..(2 + n) /\ \A i \in 1..n : 2 + i \in 1..(2 + n) /\ 2 + i # 2
      OBVIOUS
    <2>2. /\ \A i \in 1..(2 + n) : i \in 1..(2 + n + k)
          /\ \A i \in 1..k : 2 + n + i \in 1..(2 + n + k) /\ 2 + n + i # 2
      OBVIOUS
    <2> QED BY <1>6, <1>10, <2>1, <2>2
  <1>12. Nested(r)
    <2>1. (2 + n + k) % 2 = 0
      BY <1>2, <1>3
    <2>2. NLA_ALIGN(2 + n + k) = 2 + n + k
      BY <1>7, <2>1 DEF NLA_ALIGN
    <2> QED BY <1>7, <1>10, <1>11, <2>2 DEF Nested, WellFormed, IsValid, NLA_HDRLEN
  <1>13. PICK c : c = Content(nested)
    OBVIOUS
  <1>14. c \in Seq(Nat) /\ Len(c) = n /\ \A i \in 1..n : c[i] = nested[2 + i]
    <2>1. 3 \in Nat /\ 2 + n \in Nat /\ 1 <= 3 /\ 3 <= 2 + n + 1 /\ 2 + n <= Len(nested)
      BY <1>1
    <2>2. /\ SubSeq(nested, 3, 2 + n) \in Seq(Nat)
          /\ Len(SubSeq(nested, 3, 2 + n)) = 2 + n + 1 - 3
          /\ \A i \in 1..(2 + n + 1 - 3) : SubSeq(nested, 3, 2 + n)[i] = nested[3 + i - 1]
      BY <1>2, <2>1, Cuts
    <2>3. /\ 2 + n + 1 - 3 = n
          /\ \A i \in 1..n : i \in 1..(2 + n + 1 - 3) /\ 3 + i - 1 = 2 + i
      OBVIOUS
    <2>4. c = SubSeq(nested, 3, 2 + n)
      BY <1>1, <1>13 DEF Content, NLA_HDRLEN
    <2> QED BY <2>2, <2>3, <2>4
  <1>15. PICK d : d = Content(r)
    OBVIOUS
  <1>16. d \in Seq(Nat) /\ Len(d) = n + k /\ \A i \in 1..(n + k) : d[i] = r[2 + i]
    <2>1. 3 \in Nat /\ 1 <= 3 /\ 3 <= 2 + n + k + 1 /\ 2 + n + k <= Len(r)
      BY <1>10
    <2>2. /\ SubSeq(r, 3, 2 + n + k) \in Seq(Nat)
          /\ Len(SubSeq(r, 3, 2 + n + k)) = 2 + n + k + 1 - 3
          /\ \A i \in 1..(2 + n + k + 1 - 3) : SubSeq(r, 3, 2 + n + k)[i] = r[3 + i - 1]
      BY <1>7, <1>10, <2>1, Cuts
    <2>3. /\ 2 + n + k + 1 - 3 = n + k
          /\ \A i \in 1..(n + k) : i \in 1..(2 + n + k + 1 - 3) /\ 3 + i - 1 = 2 + i
      OBVIOUS
    <2>4. d = SubSeq(r, 3, 2 + n + k)
      BY <1>10, <1>15 DEF Content, NLA_HDRLEN
    <2> QED BY <2>2, <2>3, <2>4
  <1>17. PICK e : e = c \o attr
    OBVIOUS
  <1>18. /\ e \in Seq(Nat) /\ Len(e) = n + k
         /\ \A i \in 1..n : e[i] = nested[2 + i]
         /\ \A i \in 1..k : e[n + i] = attr[i]
    <2>1. /\ c \o attr \in Seq(Nat) /\ Len(c \o attr) = Len(c) + Len(attr)
          /\ \A i \in 1..Len(c) : (c \o attr)[i] = c[i]
          /\ \A i \in 1..Len(attr) : (c \o attr)[Len(c) + i] = attr[i]
      BY <1>4, <1>14, Joins
    <2> QED BY <1>3, <1>14, <1>17, <2>1
  <1>19. ASSUME NEW i \in 1..(n + k)
         PROVE  d[i] = e[i]
    <2>1. CASE i <= n
      <3>1. i \in 1..n
        BY <2>1
      <3> QED BY <1>11, <1>16, <1>18, <3>1
    <2>2. CASE i > n
      <3>1. PICK j \in 1..k : i = n + j
        <4>1. i - n \in 1..k /\ i = n + (i - n)
          BY <2>2
        <4> QED BY <4>1
      <3>2. d[i] = r[2 + n + j]
        <4>1. 2 + i = 2 + n + j
          BY <3>1
        <4> QED BY <1>16, <4>1
      <3>3. d[i] = attr[j]
        BY <1>11, <3>2
      <3>4. e[n + j] = attr[j]
        BY <1>18
      <3> QED BY <3>1, <3>3, <3>4
    <2> QED BY <2>1, <2>2
  <1>20. d = e
    BY <1>16, <1>18, <1>19, SeqEqual
  <1> QED BY <1>9, <1>11, <1>12, <1>13, <1>15, <1>17, <1>20 DEF GetAttributeId

-----------------------------------------------------------------------------
(***************************************************************************)
(* The networks of a scheduled scan                                        *)
(***************************************************************************)

\* What the loop of ParsePnoSettings has collected keeps within the limits of
\* the wiphy and looks only where the wiphy can.
WithinLimits(acc, caps, bands) ==
    /\ acc.scan \in Seq(Seq(Nat)) /\ acc.match \in Seq(Seq(Nat))
    /\ Len(acc.scan) <= 1 \/ Len(acc.scan) <= caps.max_num_sched_scan_ssids
    /\ Len(acc.match) <= caps.max_match_sets
    /\ acc.freqs \subseteq AllFreqs(bands)

\* Appending keeps what there is.
LEMMA AppendKeeps ==
    ASSUME NEW S, NEW s \in Seq(S), NEW e \in S
    PROVE  /\ Append(s, e) \in Seq(S) /\ Len(Append(s, e)) = Len(s) + 1
           /\ ToSet(Append(s, e)) = ToSet(s) \cup {e}
  <1>1. /\ Append(s, e) \in Seq(S) /\ Len(Append(s, e)) = Len(s) + 1
        /\ Len(s) \in Nat /\ DOMAIN s = 1..Len(s) /\ DOMAIN Append(s, e) = 1..(Len(s) + 1)
        /\ \A i \in 1..Len(s) : Append(s, e)[i] = s[i]
        /\ Append(s, e)[Len(s) + 1] = e
    OBVIOUS
  <1>2. \A i \in 1..(Len(s) + 1) : i \in 1..Len(s) \/ i = Len(s) + 1
    BY <1>1
  <1>3. (\A i \in 1..Len(s) : i \in 1..(Len(s) + 1)) /\ Len(s) + 1 \in 1..(Len(s) + 1)
    BY <1>1
  <1> QED BY <1>1, <1>2, <1>3 DEF ToSet

\* One turn of the loop of ParsePnoSettings, for any network: the limits of the
\* wiphy are kept, nothing that was collected is lost, and if the turn adds the
\* network to those to match, then a hidden one is also probed for and all its
\* usable frequencies are scanned.
LEMMA PnoTurnLooksWhereItMatches ==
    ASSUME NEW acc, NEW n, NEW caps, NEW bands,
           acc = [scan |-> acc.scan, match |-> acc.match, freqs |-> acc.freqs,
                  unknown |-> acc.unknown],
           WithinLimits(acc, caps, bands),
           n.ssid \in Seq(Nat), n.is_hidden \in BOOLEAN,
           caps.max_num_sched_scan_ssids \in Nat, caps.max_match_sets \in Nat
    PROVE  LET next == AddPnoNetwork(acc, n, caps, bands)
           IN  /\ WithinLimits(next, caps, bands)
               /\ ToSet(acc.scan) \subseteq ToSet(next.scan)
               /\ ToSet(acc.match) \subseteq ToSet(next.match)
               /\ acc.freqs \subseteq next.freqs
               /\ next.match # acc.match =>
                     /\ next.match = Append(acc.match, n.ssid)
                     /\ n.is_hidden => n.ssid \in ToSet(next.scan)
                     /\ ToSet(n.frequencies) \cap AllFreqs(bands) \subseteq next.freqs
  <1>1. PICK next : next = AddPnoNetwork(acc, n, caps, bands)
    OBVIOUS
  <1>2. PICK full \in BOOLEAN :
            full = (n.is_hidden /\ Len(acc.scan) + 1 > caps.max_num_sched_scan_ssids)
    OBVIOUS
  <1>3. PICK probed : probed = IF n.is_hidden THEN Append(acc.scan, n.ssid) ELSE acc.scan
    OBVIOUS
  <1>4. next = IF full THEN acc
               ELSE IF Len(acc.match) + 1 > caps.max_match_sets
               THEN [acc EXCEPT !.scan = probed]
               ELSE [scan |-> probed,
                     match |-> Append(acc.match, n.ssid),
                     freqs |-> acc.freqs \cup (ToSet(n.frequencies) \cap AllFreqs(bands)),
                     unknown |-> acc.unknown + (IF n.frequencies = <<>> THEN 1 ELSE 0)]
    BY <1>1, <1>2, <1>3 DEF AddPnoNetwork
  <1>5. /\ acc.scan \in Seq(Seq(Nat)) /\ acc.match \in Seq(Seq(Nat))
        /\ Len(acc.scan) \in Nat /\ Len(acc.match) \in Nat
    BY DEF WithinLimits
  <1>6. ~full => /\ probed \in Seq(Seq(Nat))
                 /\ Len(probed) <= 1 \/ Len(probed) <= caps.max_num_sched_scan_ssids
                 /\ ToSet(acc.scan) \subseteq ToSet(probed)
                 /\ n.is_hidden => n.ssid \in ToSet(probed)
    <2>1. CASE n.is_hidden
      <3>1. probed = Append(acc.scan, n.ssid)
        BY <1>3, <2>1
      <3>2. /\ Append(acc.scan, n.ssid) \in Seq(Seq(Nat))
            /\ Len(Append(acc.scan, n.ssid)) = Len(acc.scan) + 1
            /\ ToSet(Append(acc.scan, n.ssid)) = ToSet(acc.scan) \cup {n.ssid}
        BY <1>5, AppendKeeps
      <3>3. ~full => Len(acc.scan) + 1 <= caps.max_num_sched_scan_ssids
        <4>1. ~full => ~(Len(acc.scan) + 1 > caps.max_num_sched_scan_ssids)
          BY <1>2, <2>1, Zenon
        <4>2. ASSUME NEW x \in Nat, NEW y \in Nat, ~(x + 1 > y) PROVE x + 1 <= y
          BY <4>2
        <4> QED BY <1>5, <4>1, <4>2
      <3>4. ToSet(acc.scan) \subseteq ToSet(probed) /\ n.ssid \in ToSet(probed)
        BY <3>1, <3>2
      <3>5. probed \in Seq(Seq(Nat)) /\ Len(probed) = Len(acc.scan) + 1
        BY <3>1, <3>2
      <3> QED BY <3>3, <3>4, <3>5
    <2>2. CASE ~n.is_hidden
      BY <1>3, <2>2 DEF WithinLimits
    <2> QED BY <2>1, <2>2
  <1>7. CASE full
    BY <1>1, <1>4, <1>7
  <1>8. CASE ~full /\ Len(acc.match) + 1 > caps.max_match_sets
    <2>1. next = [scan |-> probed, match |-> acc.match, freqs |-> acc.freqs,
                  unknown |-> acc.unknown]
      BY <1>4, <1>8
    <2>2. next.scan = probed /\ next.match = acc.match /\ next.freqs = acc.freqs
      BY <2>1
    <2> QED BY <1>1, <1>6, <1>8, <2>2 DEF WithinLimits
  <1>9. CASE ~full /\ ~(Len(acc.match) + 1 > caps.max_match_sets)
    <2>1. /\ next.scan = probed /\ next.match = Append(acc.match, n.ssid)
          /\ next.freqs = acc.freqs \cup (ToSet(n.frequencies) \cap AllFreqs(bands))
      BY <1>4, <1>9
    <2>2. /\ Append(acc.match, n.ssid) \in Seq(Seq(Nat))
          /\ Len(Append(acc.match, n.ssid)) = Len(acc.match) + 1
          /\ ToSet(Append(acc.match, n.ssid)) = ToSet(acc.match) \cup {n.ssid}
      BY <1>5, AppendKeeps
    <2>3. WithinLimits(next, caps, bands)
      BY <1>5, <1>6, <1>9, <2>1, <2>2 DEF WithinLimits
    <2> QED BY <1>1, <1>6, <1>9, <2>1, <2>2, <2>3
  <1> QED BY <1>7, <1>8, <1>9

\* The loop starts within the limits: with the wild card alone.
LEMMA PnoStartsWithinLimits ==
    ASSUME NEW caps, NEW bands, caps.max_match_sets \in Nat
    PROVE  WithinLimits([scan |-> << <<>> >>, match |-> <<>>, freqs |-> {}, unknown |-> 0],
                        caps, bands)
  <1>1. << <<>> >> \in Seq(Seq(Nat)) /\ <<>> \in Seq(Seq(Nat))
    OBVIOUS
  <1> QED BY <1>1 DEF WithinLimits

-----------------------------------------------------------------------------
(***************************************************************************)
(* Folds.  FoldLeft is a recursive function of the sets of places, which   *)
(* exists because of induction over the places.  Induction is used on sets *)
(* of numbers, of which the least one outside is looked at.                *)
(***************************************************************************)

\* Induction over the naturals, for a set.
LEMMA SetInduction ==
    ASSUME NEW T, T \subseteq Nat, 0 \in T, \A n \in T : n + 1 \in T
    PROVE  \A n \in Nat : n \in T
  <1> SUFFICES ASSUME Nat \ T # {} PROVE FALSE
    OBVIOUS
  <1>1. PICK x \in Nat \ T : \A y \in Nat \ T : ~ (<<y, x>> \in OpToRel(<, Nat))
    BY NatLessThanWellFounded, WFMin, Nat \ T \subseteq Nat
  <1>2. \A y \in Nat \ T : ~ (y < x)
    BY <1>1 DEF OpToRel
  <1>3. x # 0
    OBVIOUS
  <1>4. x - 1 \in Nat /\ x - 1 < x
    BY <1>3
  <1>5. x - 1 \in T
    BY <1>2, <1>4
  <1> QED BY <1>5

\* The greatest of the places up to n + 1.
LEMMA LastPlace ==
    ASSUME NEW n \in Nat, NEW s \in SUBSET (1..(n + 1)), n + 1 \in s
    PROVE  Max(s) = n + 1
  <1>1. \A y \in s : n + 1 >= y
    OBVIOUS
  <1>2. \A x \in s : (\A y \in s : x >= y) => x = n + 1
    OBVIOUS
  <1> QED BY <1>1, <1>2 DEF Max

\* The recursive function of a fold of seq with F, up to place n.
Folds(f, F, base, seq, n) ==
    \A s \in SUBSET (1..n) :
        /\ f[s] = IF s = {} THEN base ELSE F[<<f[s \ {Max(s)}], seq[Max(s)]>>]
        /\ s # {} => Max(s) \in 1..n

\* There is one.
LEMMA FoldExists ==
    ASSUME NEW A, NEW B, NEW F \in [B \X A -> B], NEW base \in B,
           NEW seq \in Seq(A)
    PROVE  \E f \in [SUBSET (1..Len(seq)) -> B] : Folds(f, F, base, seq, Len(seq))
  <1> DEFINE Good(n) == \E f \in [SUBSET (1..n) -> B] : Folds(f, F, base, seq, n)
  <1> DEFINE T == {n \in Nat : n <= Len(seq) => Good(n)}
  <1> HIDE DEF Good
  <1>1. 0 \in T
    <2> DEFINE f == [s \in SUBSET (1..0) |-> base]
    <2>1. \A s \in SUBSET (1..0) : s = {}
      OBVIOUS
    <2>2. Folds(f, F, base, seq, 0)
      BY <2>1 DEF Folds
    <2>3. f \in [SUBSET (1..0) -> B]
      OBVIOUS
    <2> HIDE DEF f
    <2> QED BY <2>2, <2>3 DEF Good
  <1>2. ASSUME NEW n \in T PROVE n + 1 \in T
    <2>0. n \in Nat /\ n + 1 \in Nat
      OBVIOUS
    <2> SUFFICES ASSUME n + 1 <= Len(seq) PROVE Good(n + 1)
      BY <2>0
    <2>1. PICK g \in [SUBSET (1..n) -> B] : Folds(g, F, base, seq, n)
      <3>1. Good(n)
        BY <2>0
      <3> QED BY <3>1 DEF Good
    <2> DEFINE f == [s \in SUBSET (1..(n + 1)) |->
                        IF n + 1 \in s THEN F[<<g[s \ {n + 1}], seq[n + 1]>>]
                        ELSE g[s]]
    <2>2. ASSUME NEW s \in SUBSET (1..(n + 1))
          PROVE  /\ f[s] \in B
                 /\ s # {} => Max(s) \in 1..(n + 1)
                 /\ f[s] = IF s = {} THEN base
                           ELSE F[<<f[s \ {Max(s)}], seq[Max(s)]>>]
      <3>1. CASE n + 1 \in s
        <4>1. Max(s) = n + 1
          BY <3>1, LastPlace
        <4>2. s \ {n + 1} \in SUBSET (1..(n + 1)) /\ n + 1 \notin s \ {n + 1}
          OBVIOUS
        <4>3. f[s \ {n + 1}] = g[s \ {n + 1}]
          BY <4>2
        <4>4. f[s] = F[<<g[s \ {n + 1}], seq[n + 1]>>]
          BY <3>1
        <4>5. s \ {n + 1} \in SUBSET (1..n) /\ seq[n + 1] \in A
          OBVIOUS
        <4>6. g[s \ {n + 1}] \in B
          BY <4>5
        <4> HIDE DEF f
        <4>7. f[s] \in B
          BY <4>4, <4>5, <4>6
        <4>8. Max(s) \in 1..(n + 1)
          BY <4>1
        <4> QED BY <3>1, <4>1, <4>3, <4>4, <4>7, <4>8
      <3>2. CASE n + 1 \notin s
        <4>1. s \in SUBSET (1..n)
          BY <3>2
        <4>2. f[s] = g[s] /\ g[s] \in B
          BY <3>2, <4>1
        <4>3. CASE s = {}
          BY <2>1, <4>1, <4>2, <4>3 DEF Folds
        <4>4. CASE s # {}
          <5>1. s \ {Max(s)} \in SUBSET (1..(n + 1)) /\ n + 1 \notin s \ {Max(s)}
            BY <3>2
          <5>2. f[s \ {Max(s)}] = g[s \ {Max(s)}]
            BY <5>1
          <5>3. /\ g[s] = F[<<g[s \ {Max(s)}], seq[Max(s)]>>]
                /\ Max(s) \in 1..n
            BY <2>1, <4>1, <4>4 DEF Folds
          <5>4. Max(s) \in 1..(n + 1)
            BY <5>3
          <5> HIDE DEF f
          <5> QED BY <4>2, <4>4, <5>2, <5>3, <5>4
        <4> QED BY <4>3, <4>4
      <3> QED BY <3>1, <3>2
    <2>3. Folds(f, F, base, seq, n + 1) /\ f \in [SUBSET (1..(n + 1)) -> B]
      BY <2>2 DEF Folds
    <2> HIDE DEF f
    <2> QED BY <2>3 DEF Good
  <1>3. \A n \in Nat : n \in T
    <2> HIDE DEF T
    <2>1. T \subseteq Nat
      BY DEF T
    <2>2. \A n \in T : n + 1 \in T
      BY <1>2
    <2> QED BY <1>1, <2>1, <2>2, SetInduction
  <1>4. Len(seq) \in Nat
    OBVIOUS
  <1>5. Good(Len(seq))
    BY <1>3, <1>4
  <1> QED BY <1>5 DEF Good

-----------------------------------------------------------------------------
(***************************************************************************)
(* The whole loop over the networks of a scheduled scan                    *)
(***************************************************************************)

NetworkType == [ssid : Seq(Nat), is_hidden : BOOLEAN, frequencies : Seq(Nat)]

CollectedType(bands) ==
    [scan : Seq(Seq(Nat)), match : Seq(Seq(Nat)),
     freqs : SUBSET AllFreqs(bands), unknown : Nat]

NothingCollected ==
    [scan |-> << <<>> >>, match |-> <<>>, freqs |-> {}, unknown |-> 0]

\* The network is matched, probed for if it is hidden, and looked for wherever
\* the wiphy can.
Sought(n, acc, bands) ==
    /\ n.ssid \in ToSet(acc.match)
    /\ n.is_hidden => n.ssid \in ToSet(acc.scan)
    /\ ToSet(n.frequencies) \cap AllFreqs(bands) \subseteq acc.freqs

\* There is no room for the network.
NoRoom(n, acc, caps) ==
    \/ Len(acc.match) = caps.max_match_sets
    \/ n.is_hidden /\ Len(acc.scan) >= caps.max_num_sched_scan_ssids

\* What the loop has made of the first k networks.
Collected(acc, networks, k, caps, bands) ==
    /\ acc \in CollectedType(bands)
    /\ WithinLimits(acc, caps, bands)
    /\ \A ssid \in ToSet(acc.match) :
          \E i \in 1..k : networks[i].ssid = ssid /\ Sought(networks[i], acc, bands)
    /\ \A i \in 1..k : Sought(networks[i], acc, bands) \/ NoRoom(networks[i], acc, caps)

\* What a turn gives.
TurnGives(next, acc, n, caps, bands) ==
    /\ next \in CollectedType(bands)
    /\ Len(next.scan) >= Len(acc.scan)
    /\ ToSet(acc.scan) \subseteq ToSet(next.scan)
    /\ acc.freqs \subseteq next.freqs
    /\ \/ /\ next.match = acc.match
          /\ \/ Len(acc.match) >= caps.max_match_sets
             \/ n.is_hidden /\ Len(next.scan) >= caps.max_num_sched_scan_ssids
       \/ /\ next.match = Append(acc.match, n.ssid)
          /\ Len(acc.match) < caps.max_match_sets
          /\ n.is_hidden => n.ssid \in ToSet(next.scan)
          /\ ToSet(n.frequencies) \cap AllFreqs(bands) \subseteq next.freqs

LEMMA PnoTurnCases ==
    ASSUME NEW caps, NEW bands,
           caps.max_num_sched_scan_ssids \in Nat, caps.max_match_sets \in Nat,
           NEW acc \in CollectedType(bands), NEW n \in NetworkType,
           NEW next, next = AddPnoNetwork(acc, n, caps, bands)
    PROVE  TurnGives(next, acc, n, caps, bands)
  <1>0. /\ acc.scan \in Seq(Seq(Nat)) /\ acc.match \in Seq(Seq(Nat))
        /\ acc.freqs \subseteq AllFreqs(bands) /\ acc.unknown \in Nat
        /\ n.ssid \in Seq(Nat) /\ n.is_hidden \in BOOLEAN
        /\ Len(acc.scan) \in Nat /\ Len(acc.match) \in Nat
        /\ acc = [scan |-> acc.scan, match |-> acc.match, freqs |-> acc.freqs,
                  unknown |-> acc.unknown]
    BY DEF CollectedType, NetworkType
  <1>1. PICK full \in BOOLEAN :
            full <=> (n.is_hidden /\ Len(acc.scan) + 1 > caps.max_num_sched_scan_ssids)
    OBVIOUS
  <1>2. PICK probed : probed = IF n.is_hidden THEN Append(acc.scan, n.ssid) ELSE acc.scan
    OBVIOUS
  <1>3. PICK one : one = IF n.frequencies = <<>> THEN 1 ELSE 0
    OBVIOUS
  <1>4. PICK more : more = ToSet(n.frequencies) \cap AllFreqs(bands)
    OBVIOUS
  <1>5. next = IF full THEN acc
               ELSE IF Len(acc.match) + 1 > caps.max_match_sets
               THEN [acc EXCEPT !.scan = probed]
               ELSE [scan |-> probed, match |-> Append(acc.match, n.ssid),
                     freqs |-> acc.freqs \cup more, unknown |-> acc.unknown + one]
    BY <1>1, <1>2, <1>3, <1>4 DEF AddPnoNetwork
  <1>6. /\ probed \in Seq(Seq(Nat)) /\ Len(probed) >= Len(acc.scan)
        /\ ToSet(acc.scan) \subseteq ToSet(probed)
        /\ n.is_hidden => n.ssid \in ToSet(probed)
    <2>1. CASE n.is_hidden
      <3>1. /\ Append(acc.scan, n.ssid) \in Seq(Seq(Nat))
            /\ Len(Append(acc.scan, n.ssid)) = Len(acc.scan) + 1
            /\ ToSet(Append(acc.scan, n.ssid)) = ToSet(acc.scan) \cup {n.ssid}
        BY <1>0, AppendKeeps
      <3>2. probed = Append(acc.scan, n.ssid)
        BY <1>2, <2>1
      <3>3. Len(Append(acc.scan, n.ssid)) >= Len(acc.scan)
        BY <1>0, <3>1
      <3> QED BY <3>1, <3>2, <3>3
    <2>2. CASE ~n.is_hidden
      BY <1>0, <1>2, <2>2
    <2> QED BY <1>0, <2>1, <2>2
  <1>7. CASE full
    <2>1. next = acc
      BY <1>5, <1>7
    <2>2. n.is_hidden /\ Len(next.scan) >= caps.max_num_sched_scan_ssids
      BY <1>0, <1>1, <1>7, <2>1
    <2>3. Len(next.scan) >= Len(acc.scan)
      BY <1>0, <2>1
    <2> QED BY <2>1, <2>2, <2>3 DEF TurnGives
  <1>8. CASE ~full /\ Len(acc.match) + 1 > caps.max_match_sets
    <2>1. next = [scan |-> probed, match |-> acc.match, freqs |-> acc.freqs,
                  unknown |-> acc.unknown]
      BY <1>0, <1>5, <1>8
    <2>2. next.scan = probed /\ next.match = acc.match /\ next.freqs = acc.freqs
      BY <2>1
    <2>3. next \in CollectedType(bands)
      BY <1>0, <1>6, <2>1 DEF CollectedType
    <2>4. Len(acc.match) >= caps.max_match_sets
      BY <1>0, <1>8
    <2> QED BY <1>6, <2>2, <2>3, <2>4 DEF TurnGives
  <1>9. CASE ~full /\ ~(Len(acc.match) + 1 > caps.max_match_sets)
    <2>1. next = [scan |-> probed, match |-> Append(acc.match, n.ssid),
                  freqs |-> acc.freqs \cup more, unknown |-> acc.unknown + one]
      BY <1>5, <1>9
    <2>2. /\ next.scan = probed /\ next.match = Append(acc.match, n.ssid)
          /\ next.freqs = acc.freqs \cup more
      BY <2>1
    <2>3. Append(acc.match, n.ssid) \in Seq(Seq(Nat)) /\ acc.unknown + one \in Nat
      BY <1>0, <1>3, AppendKeeps
    <2>4. next \in CollectedType(bands)
      <3>1. acc.freqs \cup more \in SUBSET AllFreqs(bands)
        BY <1>0, <1>4
      <3> QED BY <1>6, <2>1, <2>3, <3>1 DEF CollectedType
    <2>5. Len(acc.match) < caps.max_match_sets
      BY <1>0, <1>9
    <2> QED BY <1>4, <1>6, <2>2, <2>4, <2>5 DEF TurnGives
  <1> QED BY <1>1, <1>7, <1>8, <1>9

\* A turn adds its network to what has been collected.
LEMMA PnoTurnCollects ==
    ASSUME NEW caps, NEW bands,
           caps.max_num_sched_scan_ssids \in Nat, caps.max_match_sets \in Nat,
           NEW networks \in Seq(NetworkType), NEW k \in Nat, k + 1 <= Len(networks),
           NEW acc, Collected(acc, networks, k, caps, bands),
           NEW next, next = AddPnoNetwork(acc, networks[k + 1], caps, bands)
    PROVE  Collected(next, networks, k + 1, caps, bands)
  <1>1. PICK n \in NetworkType : n = networks[k + 1]
    <2>1. k + 1 \in 1..Len(networks)
      OBVIOUS
    <2> QED BY <2>1
  <1>2. acc \in CollectedType(bands) /\ WithinLimits(acc, caps, bands)
    BY DEF Collected
  <1>3. /\ acc.scan \in Seq(Seq(Nat)) /\ acc.match \in Seq(Seq(Nat))
        /\ Len(acc.scan) \in Nat /\ Len(acc.match) \in Nat
        /\ n.ssid \in Seq(Nat) /\ n.is_hidden \in BOOLEAN
        /\ acc = [scan |-> acc.scan, match |-> acc.match, freqs |-> acc.freqs,
                  unknown |-> acc.unknown]
    <2>1. n.ssid \in Seq(Nat) /\ n.is_hidden \in BOOLEAN
      BY DEF NetworkType
    <2>2. /\ acc.scan \in Seq(Seq(Nat)) /\ acc.match \in Seq(Seq(Nat))
          /\ acc = [scan |-> acc.scan, match |-> acc.match, freqs |-> acc.freqs,
                    unknown |-> acc.unknown]
      BY <1>2 DEF CollectedType
    <2>3. Len(acc.scan) \in Nat /\ Len(acc.match) \in Nat
      BY <2>2
    <2> QED BY <2>1, <2>2, <2>3
  <1>4. /\ next \in CollectedType(bands)
        /\ Len(next.scan) >= Len(acc.scan)
        /\ ToSet(acc.scan) \subseteq ToSet(next.scan)
        /\ acc.freqs \subseteq next.freqs
        /\ \/ /\ next.match = acc.match
              /\ \/ Len(acc.match) >= caps.max_match_sets
                 \/ n.is_hidden /\ Len(next.scan) >= caps.max_num_sched_scan_ssids
           \/ /\ next.match = Append(acc.match, n.ssid)
              /\ Len(acc.match) < caps.max_match_sets
              /\ n.is_hidden => n.ssid \in ToSet(next.scan)
              /\ ToSet(n.frequencies) \cap AllFreqs(bands) \subseteq next.freqs
    <2>1. TurnGives(next, acc, n, caps, bands)
      BY <1>1, <1>2, PnoTurnCases
    <2> QED BY <2>1 DEF TurnGives
  <1>5. WithinLimits(next, caps, bands)
    <2>1. next = AddPnoNetwork(acc, n, caps, bands)
      BY <1>1
    <2> QED BY <1>2, <1>3, <2>1, PnoTurnLooksWhereItMatches
  <1>6. Len(acc.match) <= caps.max_match_sets
    BY <1>2 DEF WithinLimits
  <1>7. next.scan \in Seq(Seq(Nat)) /\ Len(next.scan) \in Nat
    BY <1>4 DEF CollectedType
  <1>8. ToSet(acc.match) \subseteq ToSet(next.match)
    <2>1. ToSet(Append(acc.match, n.ssid)) = ToSet(acc.match) \cup {n.ssid}
      BY <1>3, AppendKeeps
    <2>2. next.match \in {acc.match, Append(acc.match, n.ssid)}
      BY <1>4
    <2> QED BY <2>1, <2>2
  <1>9. ASSUME NEW i \in 1..k, Sought(networks[i], acc, bands)
        PROVE  Sought(networks[i], next, bands)
    BY <1>4, <1>8, <1>9 DEF Sought
  <1>10. ASSUME NEW i \in 1..k, NoRoom(networks[i], acc, caps)
         PROVE  NoRoom(networks[i], next, caps)
    <2>1. CASE Len(acc.match) = caps.max_match_sets
      <3>1. ~(Len(acc.match) < caps.max_match_sets)
        BY <1>3, <2>1
      <3> QED BY <1>4, <2>1, <3>1 DEF NoRoom
    <2>2. CASE networks[i].is_hidden /\ Len(acc.scan) >= caps.max_num_sched_scan_ssids
      <3>1. Len(next.scan) >= caps.max_num_sched_scan_ssids
        BY <1>3, <1>4, <1>7, <2>2
      <3> QED BY <2>2, <3>1 DEF NoRoom
    <2> QED BY <1>10, <2>1, <2>2 DEF NoRoom
  <1>11. \A i \in 1..(k + 1) : i \in 1..k \/ i = k + 1
    OBVIOUS
  <1>12. (\A i \in 1..k : i \in 1..(k + 1)) /\ k + 1 \in 1..(k + 1)
    OBVIOUS
  <1>13. (next.match = Append(acc.match, n.ssid) /\ Len(acc.match) < caps.max_match_sets)
            => Sought(n, next, bands) /\ ToSet(next.match) = ToSet(acc.match) \cup {n.ssid}
    <2> SUFFICES ASSUME next.match = Append(acc.match, n.ssid),
                        Len(acc.match) < caps.max_match_sets
                 PROVE  Sought(n, next, bands) /\ ToSet(next.match) = ToSet(acc.match) \cup {n.ssid}
      OBVIOUS
    <2>1. /\ ToSet(next.match) = ToSet(acc.match) \cup {n.ssid}
          /\ Len(next.match) = Len(acc.match) + 1
      BY <1>3, AppendKeeps
    <2>2. next.match # acc.match
      BY <1>3, <2>1
    <2>3. /\ n.is_hidden => n.ssid \in ToSet(next.scan)
          /\ ToSet(n.frequencies) \cap AllFreqs(bands) \subseteq next.freqs
      BY <1>4, <2>2
    <2> QED BY <2>1, <2>3 DEF Sought
  <1>14. \/ next.match = acc.match
         \/ next.match = Append(acc.match, n.ssid) /\ Len(acc.match) < caps.max_match_sets
    BY <1>4
  <1>15. ASSUME NEW ssid \in ToSet(next.match)
         PROVE  \E i \in 1..(k + 1) :
                   networks[i].ssid = ssid /\ Sought(networks[i], next, bands)
    <2>1. CASE ssid \in ToSet(acc.match)
      <3>1. PICK i \in 1..k : networks[i].ssid = ssid /\ Sought(networks[i], acc, bands)
        BY <2>1 DEF Collected
      <3> QED BY <1>9, <1>12, <3>1
    <2>2. CASE ssid \notin ToSet(acc.match)
      <3>1. ssid = n.ssid /\ Sought(n, next, bands)
        BY <1>13, <1>14, <1>15, <2>2
      <3> QED BY <1>1, <1>12, <3>1
    <2> QED BY <2>1, <2>2
  <1>16. Sought(n, next, bands) \/ NoRoom(n, next, caps)
    <2>1. CASE next.match = Append(acc.match, n.ssid) /\ Len(acc.match) < caps.max_match_sets
      BY <1>13, <2>1
    <2>2. CASE next.match = acc.match /\ Len(acc.match) >= caps.max_match_sets
      <3>1. Len(acc.match) = caps.max_match_sets
        BY <1>3, <1>6, <2>2
      <3> QED BY <2>2, <3>1 DEF NoRoom
    <2>3. CASE n.is_hidden /\ Len(next.scan) >= caps.max_num_sched_scan_ssids
      BY <2>3 DEF NoRoom
    <2> QED BY <1>4, <2>1, <2>2, <2>3
  <1>17. ASSUME NEW i \in 1..(k + 1)
         PROVE  Sought(networks[i], next, bands) \/ NoRoom(networks[i], next, caps)
    <2>1. CASE i \in 1..k
      <3>1. Sought(networks[i], acc, bands) \/ NoRoom(networks[i], acc, caps)
        BY <2>1 DEF Collected
      <3> QED BY <1>9, <1>10, <2>1, <3>1
    <2>2. CASE i = k + 1
      BY <1>1, <1>16, <2>2
    <2> QED BY <1>11, <2>1, <2>2
  <1> QED BY <1>4, <1>5, <1>15, <1>17 DEF Collected

\* Nothing has been collected of no networks.
LEMMA PnoLoopStarts ==
    ASSUME NEW caps, NEW bands, caps.max_match_sets \in Nat, NEW networks
    PROVE  Collected(NothingCollected, networks, 0, caps, bands)
  <1>1. << <<>> >> \in Seq(Seq(Nat)) /\ <<>> \in Seq(Seq(Nat))
    OBVIOUS
  <1>2. NothingCollected \in CollectedType(bands)
    BY <1>1 DEF NothingCollected, CollectedType
  <1>3. WithinLimits(NothingCollected, caps, bands)
    BY PnoStartsWithinLimits DEF NothingCollected
  <1>4. ToSet(NothingCollected.match) = {} /\ 1..0 = {}
    BY DEF NothingCollected, ToSet
  <1> QED BY <1>2, <1>3, <1>4 DEF Collected

\* The loop as a fold: its result is reached turn by turn.
LEMMA PnoLoopFolds ==
    ASSUME NEW caps, NEW bands,
           caps.max_num_sched_scan_ssids \in Nat, caps.max_match_sets \in Nat,
           NEW networks \in Seq(NetworkType)
    PROVE  \E h : /\ h[{}] = NothingCollected
                  /\ \A k \in 1..Len(networks) :
                        h[1..k] = AddPnoNetwork(h[1..(k - 1)], networks[k], caps, bands)
                  /\ AddPnoNetworks(networks, caps, bands) = h[1..Len(networks)]
  <1> DEFINE n == Len(networks)
             B == CollectedType(bands)
             F == [z \in B \X NetworkType |-> AddPnoNetwork(z[1], z[2], caps, bands)]
             Step(f) == [s \in SUBSET (1..n) |->
                            IF s = {} THEN NothingCollected
                            ELSE AddPnoNetwork(f[s \ {Max(s)}], networks[Max(s)], caps, bands)]
  <1>1. F \in [B \X NetworkType -> B] /\ NothingCollected \in B
    <2>1. ASSUME NEW acc \in B, NEW net \in NetworkType
          PROVE  AddPnoNetwork(acc, net, caps, bands) \in B
      <3>1. TurnGives(AddPnoNetwork(acc, net, caps, bands), acc, net, caps, bands)
        BY PnoTurnCases
      <3> QED BY <3>1 DEF TurnGives
    <2>2. NothingCollected \in B
      BY PnoLoopStarts DEF Collected
    <2> QED BY <2>1, <2>2
  <1>2. PICK f \in [SUBSET (1..n) -> B] : Folds(f, F, NothingCollected, networks, n)
    <2> HIDE DEF F, B
    <2> QED BY <1>1, FoldExists
  <1>3. f = Step(f)
    <2>1. ASSUME NEW s \in SUBSET (1..n) PROVE f[s] = Step(f)[s]
      <3>1. CASE s = {}
        BY <1>2, <3>1 DEF Folds
      <3>2. CASE s # {}
        <4>1. f[s] = F[<<f[s \ {Max(s)}], networks[Max(s)]>>] /\ Max(s) \in 1..n
          <5> HIDE DEF F, B
          <5> QED BY <1>2, <3>2 DEF Folds
        <4>2. s \ {Max(s)} \in SUBSET (1..n)
          OBVIOUS
        <4>3. f[s \ {Max(s)}] \in B /\ networks[Max(s)] \in NetworkType
          <5> HIDE DEF F, B
          <5> QED BY <4>1, <4>2
        <4> QED BY <3>2, <4>1, <4>3
      <3> QED BY <3>1, <3>2
    <2> QED BY <2>1
  <1>4. PICK h : h = Step(h) /\ AddPnoNetworks(networks, caps, bands) = h[1..n]
    <2> DEFINE h == CHOOSE h : h = Step(h)
    <2>1. h = Step(h)
      BY <1>3
    <2>2. DOMAIN networks = 1..n
      OBVIOUS
    <2>3. AddPnoNetworks(networks, caps, bands) = h[1..n]
      BY <2>2 DEF AddPnoNetworks, NothingCollected, FoldLeft, MapThenFoldSet
    <2> HIDE DEF h
    <2> QED BY <2>1, <2>3
  <1>5. h[{}] = NothingCollected
    BY <1>4
  <1>6. ASSUME NEW k \in 1..n
        PROVE  h[1..k] = AddPnoNetwork(h[1..(k - 1)], networks[k], caps, bands)
    <2>1. k - 1 \in Nat /\ (k - 1) + 1 = k
      OBVIOUS
    <2>2. 1..k \in SUBSET (1..n) /\ k \in 1..k
      OBVIOUS
    <2>3. Max(1..k) = k
      BY <2>1, <2>2, LastPlace, 1..k \in SUBSET (1..((k - 1) + 1))
    <2>4. (1..k) \ {k} = 1..(k - 1)
      OBVIOUS
    <2>5. h[1..k] = Step(h)[1..k]
      BY <1>4
    <2>6. h[1..k] = AddPnoNetwork(h[(1..k) \ {Max(1..k)}], networks[Max(1..k)], caps, bands)
      <3>1. 1..k # {}
        BY <2>2
      <3> QED BY <2>2, <2>5, <3>1
    <2> QED BY <2>3, <2>4, <2>6
  <1> QED BY <1>4, <1>5, <1>6

\* ParsePnoSettings' whole loop, for any number of networks and any limits of
\* the wiphy: the limits are kept; every network name to match is that of a
\* network listed that is probed for if it is hidden and whose usable
\* frequencies are all scanned; and a network is left out only if there are
\* already as many to match as the wiphy can, or it is hidden and there are
\* already as many to probe for.
THEOREM PnoLoopLooksWhereItMatches ==
    ASSUME NEW caps, NEW bands,
           caps.max_num_sched_scan_ssids \in Nat, caps.max_match_sets \in Nat,
           NEW networks \in Seq(NetworkType)
    PROVE  LET acc == AddPnoNetworks(networks, caps, bands)
           IN  /\ WithinLimits(acc, caps, bands)
               /\ \A ssid \in ToSet(acc.match) :
                     \E i \in 1..Len(networks) :
                        networks[i].ssid = ssid /\ Sought(networks[i], acc, bands)
               /\ \A i \in 1..Len(networks) :
                     Sought(networks[i], acc, bands) \/ NoRoom(networks[i], acc, caps)
  <1>1. PICK h : /\ h[{}] = NothingCollected
                 /\ \A k \in 1..Len(networks) :
                       h[1..k] = AddPnoNetwork(h[1..(k - 1)], networks[k], caps, bands)
                 /\ AddPnoNetworks(networks, caps, bands) = h[1..Len(networks)]
    BY PnoLoopFolds
  <1> DEFINE T == {k \in Nat : k <= Len(networks) =>
                                  Collected(h[1..k], networks, k, caps, bands)}
  <1>2. 0 \in T
    <2>1. 1..0 = {}
      OBVIOUS
    <2>2. Collected(h[1..0], networks, 0, caps, bands)
      BY <1>1, <2>1, PnoLoopStarts
    <2> QED BY <2>2
  <1>3. ASSUME NEW k \in T PROVE k + 1 \in T
    <2> SUFFICES ASSUME k + 1 <= Len(networks)
                 PROVE  Collected(h[1..(k + 1)], networks, k + 1, caps, bands)
      OBVIOUS
    <2>1. k \in Nat /\ k + 1 \in 1..Len(networks) /\ (k + 1) - 1 = k /\ k <= Len(networks)
      OBVIOUS
    <2>2. Collected(h[1..k], networks, k, caps, bands)
      BY <2>1
    <2>3. h[1..(k + 1)] = AddPnoNetwork(h[1..k], networks[k + 1], caps, bands)
      BY <1>1, <2>1
    <2> HIDE DEF T
    <2> QED BY <2>1, <2>2, <2>3, PnoTurnCollects
  <1>4. \A k \in Nat : k \in T
    <2> HIDE DEF T
    <2>1. T \subseteq Nat
      BY DEF T
    <2>2. \A k \in T : k + 1 \in T
      BY <1>3
    <2> QED BY <1>2, <2>1, <2>2, SetInduction
  <1>5. Len(networks) \in Nat /\ Len(networks) <= Len(networks)
    OBVIOUS
  <1>6. Collected(h[1..Len(networks)], networks, Len(networks), caps, bands)
    BY <1>4, <1>5
  <1> QED BY <1>1, <1>6 DEF Collected

-----------------------------------------------------------------------------
(***************************************************************************)
(* The hidden networks of a one-shot scan                                  *)
(***************************************************************************)

HiddenNetworkType == [ssid : Seq(Nat)]

AddHidden(ssids, n, limit) ==
    IF Len(ssids) + 1 > limit \/ Len(n.ssid) > SsidLimit
    THEN ssids ELSE Append(ssids, n.ssid)

\* ssids is the wild card and, in the order given by p, those of the first k
\* networks that are not too long, up to the limit.
TakenFirst(ssids, p, networks, k, limit) ==
    /\ Len(ssids) >= 1 /\ ssids[1] = <<>>
    /\ Len(ssids) = 1 \/ Len(ssids) <= limit
    /\ p \in [2..Len(ssids) -> 1..k]
    /\ \A i, j \in 2..Len(ssids) : i < j => p[i] < p[j]
    /\ \A j \in 2..Len(ssids) :
          ssids[j] = networks[p[j]].ssid /\ Len(networks[p[j]].ssid) <= SsidLimit
    /\ \A i \in 1..k : Len(networks[i].ssid) <= SsidLimit =>
          \/ \E j \in 2..Len(ssids) : p[j] = i
          \/ Len(ssids) >= limit /\ \A j \in 2..Len(ssids) : p[j] < i

TakenFrom(ssids, networks, k, limit) ==
    /\ ssids \in Seq(Seq(Nat))
    /\ \E p : TakenFirst(ssids, p, networks, k, limit)

LEMMA HiddenStart ==
    ASSUME NEW limit \in Nat, NEW networks
    PROVE  TakenFrom(<< <<>> >>, networks, 0, limit)
  <1> DEFINE s == << <<>> >>
             p == [j \in 2..1 |-> 0]
  <1>1. s \in Seq(Seq(Nat)) /\ Len(s) = 1 /\ s[1] = <<>>
    OBVIOUS
  <1>2. 2..1 = {} /\ 1..0 = {}
    OBVIOUS
  <1>3. p \in [2..1 -> 1..0]
    BY <1>2
  <1> HIDE DEF s, p
  <1>4. TakenFirst(s, p, networks, 0, limit)
    BY <1>1, <1>2, <1>3 DEF TakenFirst
  <1>5. TakenFrom(s, networks, 0, limit)
    BY <1>1, <1>4 DEF TakenFrom
  <1> QED BY <1>5 DEF s

\* A turn takes its network, or leaves it out for a reason.
LEMMA HiddenTurn ==
    ASSUME NEW limit \in Nat, NEW networks \in Seq(HiddenNetworkType),
           NEW k \in Nat, k + 1 <= Len(networks),
           NEW ssids, TakenFrom(ssids, networks, k, limit),
           NEW next, next = AddHidden(ssids, networks[k + 1], limit)
    PROVE  TakenFrom(next, networks, k + 1, limit)
  <1>1. PICK p : TakenFirst(ssids, p, networks, k, limit)
    BY DEF TakenFrom
  <1>2. PICK x \in Seq(Nat) : x = networks[k + 1].ssid
    <2>1. k + 1 \in 1..Len(networks)
      OBVIOUS
    <2>2. networks[k + 1] \in HiddenNetworkType
      BY <2>1
    <2>3. networks[k + 1].ssid \in Seq(Nat)
      BY <2>2 DEF HiddenNetworkType
    <2> QED BY <2>3
  <1>3. PICK m \in Nat : m = Len(ssids)
    BY DEF TakenFrom
  <1>4. /\ ssids \in Seq(Seq(Nat)) /\ m >= 1 /\ ssids[1] = <<>>
        /\ m = 1 \/ m <= limit
        /\ p \in [2..m -> 1..k]
        /\ \A i, j \in 2..m : i < j => p[i] < p[j]
        /\ \A j \in 2..m : ssids[j] = networks[p[j]].ssid /\ Len(networks[p[j]].ssid) <= SsidLimit
        /\ \A i \in 1..k : Len(networks[i].ssid) <= SsidLimit =>
              \/ \E j \in 2..m : p[j] = i
              \/ m >= limit /\ \A j \in 2..m : p[j] < i
    BY <1>1, <1>3 DEF TakenFrom, TakenFirst
  <1>5. next = IF m + 1 > limit \/ Len(x) > SsidLimit THEN ssids ELSE Append(ssids, x)
    BY <1>2, <1>3 DEF AddHidden
  <1>6. SsidLimit \in Nat /\ Len(x) \in Nat
    BY ScanAssumption
  <1>7. /\ \A i \in 1..(k + 1) : i \in 1..k \/ i = k + 1
        /\ \A i \in 1..k : i \in 1..(k + 1) /\ i < k + 1
        /\ k + 1 \in 1..(k + 1)
    OBVIOUS
  <1>8. CASE m + 1 > limit \/ Len(x) > SsidLimit
    <2>1. next = ssids /\ Len(next) = m
      BY <1>3, <1>5, <1>8
    <2>2. p \in [2..m -> 1..(k + 1)]
      BY <1>4, <1>7
    <2>3. Len(x) <= SsidLimit => m >= limit /\ \A j \in 2..m : p[j] < k + 1
      <3>1. Len(x) <= SsidLimit => m >= limit
        BY <1>6, <1>8
      <3>2. \A j \in 2..m : p[j] < k + 1
        BY <1>4, <1>7
      <3> QED BY <3>1, <3>2
    <2>4. ASSUME NEW i \in 1..(k + 1), Len(networks[i].ssid) <= SsidLimit
          PROVE  \/ \E j \in 2..m : p[j] = i
                 \/ m >= limit /\ \A j \in 2..m : p[j] < i
      BY <1>2, <1>4, <1>7, <2>3, <2>4
    <2>5. TakenFirst(next, p, networks, k + 1, limit)
      BY <1>4, <2>1, <2>2, <2>4 DEF TakenFirst
    <2> QED BY <1>4, <2>1, <2>5 DEF TakenFrom
  <1>9. CASE ~(m + 1 > limit) /\ ~(Len(x) > SsidLimit)
    <2>1. next = Append(ssids, x)
      BY <1>5, <1>9
    <2>2. /\ next \in Seq(Seq(Nat)) /\ Len(next) = m + 1
          /\ \A j \in 1..m : next[j] = ssids[j]
          /\ next[m + 1] = x
      BY <1>3, <1>4, <2>1
    <2>3. m + 1 <= limit /\ ~(m >= limit) /\ Len(x) <= SsidLimit
      BY <1>6, <1>9
    <2> DEFINE q == [j \in 2..(m + 1) |-> IF j = m + 1 THEN k + 1 ELSE p[j]]
    <2>4. /\ \A j \in 2..(m + 1) : j \in 2..m \/ j = m + 1
          /\ \A j \in 2..m : j \in 2..(m + 1) /\ j # m + 1 /\ j < m + 1 /\ j \in 1..m
          /\ m + 1 \in 2..(m + 1) /\ 1 \in 1..m
      <3>1. m >= 1
        BY <1>4
      <3>2. \A j \in 2..(m + 1) : j \in 2..m \/ j = m + 1
        OBVIOUS
      <3>3. \A j \in 2..m : j \in 2..(m + 1) /\ j # m + 1 /\ j < m + 1 /\ j \in 1..m
        OBVIOUS
      <3>4. m + 1 \in 2..(m + 1) /\ 1 \in 1..m
        BY <3>1
      <3> QED BY <3>2, <3>3, <3>4
    <2>5. (\A j \in 2..m : q[j] = p[j]) /\ q[m + 1] = k + 1
      BY <2>4
    <2>6. q \in [2..(m + 1) -> 1..(k + 1)]
      <3>1. ASSUME NEW j \in 2..(m + 1)
            PROVE  (IF j = m + 1 THEN k + 1 ELSE p[j]) \in 1..(k + 1)
        <4>1. CASE j = m + 1
          BY <1>7, <4>1
        <4>2. CASE j \in 2..m
          <5>1. p[j] \in 1..k /\ j # m + 1
            BY <1>4, <2>4, <4>2
          <5> QED BY <1>7, <5>1
        <4> QED BY <2>4, <4>1, <4>2
      <3> QED BY <3>1
    <2> HIDE DEF q
    <2>7. ASSUME NEW i \in 2..(m + 1), NEW j \in 2..(m + 1), i < j
          PROVE  q[i] < q[j]
      <3>1. i \in 2..m
        BY <2>7
      <3>2. CASE j \in 2..m
        BY <1>4, <2>5, <2>7, <3>1, <3>2
      <3>3. CASE j = m + 1
        <4>1. p[i] \in 1..k
          BY <1>4, <3>1
        <4> QED BY <1>7, <2>5, <3>1, <3>3, <4>1
      <3> QED BY <2>4, <3>2, <3>3
    <2>8. ASSUME NEW j \in 2..(m + 1)
          PROVE  next[j] = networks[q[j]].ssid /\ Len(networks[q[j]].ssid) <= SsidLimit
      <3>1. CASE j \in 2..m
        <4>1. next[j] = ssids[j] /\ q[j] = p[j]
          BY <2>2, <2>4, <2>5, <3>1
        <4> QED BY <1>4, <3>1, <4>1
      <3>2. CASE j = m + 1
        BY <1>2, <2>2, <2>3, <2>5, <3>2
      <3> QED BY <2>4, <3>1, <3>2
    <2>9. ASSUME NEW i \in 1..(k + 1), Len(networks[i].ssid) <= SsidLimit
          PROVE  \E j \in 2..(m + 1) : q[j] = i
      <3>1. CASE i = k + 1
        BY <2>4, <2>5, <3>1
      <3>2. CASE i \in 1..k
        <4>1. PICK j \in 2..m : p[j] = i
          BY <1>4, <2>3, <2>9, <3>2
        <4> QED BY <2>4, <2>5, <4>1
      <3> QED BY <1>7, <3>1, <3>2
    <2>10. next[1] = <<>> /\ m + 1 >= 1
      <3>1. next[1] = ssids[1]
        BY <2>2, <2>4
      <3>2. m + 1 >= 1
        OBVIOUS
      <3> QED BY <1>4, <3>1, <3>2
    <2>11. TakenFirst(next, q, networks, k + 1, limit)
      BY <2>2, <2>3, <2>6, <2>7, <2>8, <2>9, <2>10 DEF TakenFirst
    <2> QED BY <2>2, <2>11 DEF TakenFrom
  <1> QED BY <1>8, <1>9

\* The loop as a fold: its result is reached turn by turn.
LEMMA HiddenFolds ==
    ASSUME NEW limit \in Nat, NEW settings,
           settings.hidden_networks \in Seq(HiddenNetworkType)
    PROVE  \E h : /\ h[{}] = << <<>> >>
                  /\ \A k \in 1..Len(settings.hidden_networks) :
                        h[1..k] = AddHidden(h[1..(k - 1)], settings.hidden_networks[k], limit)
                  /\ ScanSsids(settings, limit) = h[1..Len(settings.hidden_networks)]
  <1>0. PICK networks \in Seq(HiddenNetworkType) : networks = settings.hidden_networks
    OBVIOUS
  <1> DEFINE n == Len(networks)
             B == Seq(Seq(Nat))
             F == [z \in B \X HiddenNetworkType |-> AddHidden(z[1], z[2], limit)]
             Step(f) == [s \in SUBSET (1..n) |->
                            IF s = {} THEN << <<>> >>
                            ELSE AddHidden(f[s \ {Max(s)}], networks[Max(s)], limit)]
  <1>1. F \in [B \X HiddenNetworkType -> B] /\ << <<>> >> \in B
    <2>1. ASSUME NEW ssids \in B, NEW net \in HiddenNetworkType
          PROVE  AddHidden(ssids, net, limit) \in B
      <3>1. net.ssid \in Seq(Nat)
        BY DEF HiddenNetworkType
      <3>2. Append(ssids, net.ssid) \in B
        BY <3>1, AppendKeeps
      <3> QED BY <3>2 DEF AddHidden
    <2>2. << <<>> >> \in B
      OBVIOUS
    <2> QED BY <2>1, <2>2
  <1>2. PICK f \in [SUBSET (1..n) -> B] : Folds(f, F, << <<>> >>, networks, n)
    <2> HIDE DEF F, B
    <2> QED BY <1>1, FoldExists
  <1>3. f = Step(f)
    <2>1. ASSUME NEW s \in SUBSET (1..n) PROVE f[s] = Step(f)[s]
      <3>1. CASE s = {}
        BY <1>2, <3>1 DEF Folds
      <3>2. CASE s # {}
        <4>1. f[s] = F[<<f[s \ {Max(s)}], networks[Max(s)]>>] /\ Max(s) \in 1..n
          <5> HIDE DEF F, B
          <5> QED BY <1>2, <3>2 DEF Folds
        <4>2. s \ {Max(s)} \in SUBSET (1..n)
          OBVIOUS
        <4>3. f[s \ {Max(s)}] \in B /\ networks[Max(s)] \in HiddenNetworkType
          <5> HIDE DEF F, B
          <5> QED BY <4>1, <4>2
        <4> QED BY <3>2, <4>1, <4>3
      <3> QED BY <3>1, <3>2
    <2> QED BY <2>1
  <1>4. PICK h : h = Step(h) /\ ScanSsids(settings, limit) = h[1..n]
    <2> DEFINE h == CHOOSE h : h = Step(h)
    <2>1. h = Step(h)
      BY <1>3
    <2>2. DOMAIN networks = 1..n
      OBVIOUS
    <2>3. ScanSsids(settings, limit) = h[1..n]
      BY <1>0, <2>2 DEF ScanSsids, AddHidden, FoldLeft, MapThenFoldSet
    <2> HIDE DEF h
    <2> QED BY <2>1, <2>3
  <1>5. h[{}] = << <<>> >>
    BY <1>4
  <1>6. ASSUME NEW k \in 1..n
        PROVE  h[1..k] = AddHidden(h[1..(k - 1)], networks[k], limit)
    <2>1. k - 1 \in Nat /\ (k - 1) + 1 = k
      OBVIOUS
    <2>2. 1..k \in SUBSET (1..n) /\ k \in 1..k
      OBVIOUS
    <2>3. Max(1..k) = k
      BY <2>1, <2>2, LastPlace, 1..k \in SUBSET (1..((k - 1) + 1))
    <2>4. (1..k) \ {k} = 1..(k - 1)
      OBVIOUS
    <2>5. h[1..k] = Step(h)[1..k]
      BY <1>4
    <2>6. h[1..k] = AddHidden(h[(1..k) \ {Max(1..k)}], networks[Max(1..k)], limit)
      <3>1. 1..k # {}
        BY <2>2
      <3> QED BY <2>2, <2>5, <3>1
    <2> QED BY <2>3, <2>4, <2>6
  <1> HIDE DEF Step
  <1> QED BY <1>0, <1>4, <1>5, <1>6

\* The network names of a one-shot scan, for any hidden networks and any limit
\* of the wiphy: the wild card, and then, in the framework's order and each
\* once, the first hidden networks that are not too long; there are never more
\* than the wiphy takes (but for the wild card), and a network that is not too
\* long is left out only if the list is full and holds only earlier ones.
THEOREM ScanSsidsTakeTheFirst ==
    ASSUME NEW limit \in Nat, NEW settings,
           settings.hidden_networks \in Seq(HiddenNetworkType)
    PROVE  TakenFrom(ScanSsids(settings, limit), settings.hidden_networks,
                     Len(settings.hidden_networks), limit)
  <1>0. PICK networks \in Seq(HiddenNetworkType) : networks = settings.hidden_networks
    OBVIOUS
  <1>1. PICK h : /\ h[{}] = << <<>> >>
                 /\ \A k \in 1..Len(networks) :
                       h[1..k] = AddHidden(h[1..(k - 1)], networks[k], limit)
                 /\ ScanSsids(settings, limit) = h[1..Len(networks)]
    BY <1>0, HiddenFolds
  <1> DEFINE T == {k \in Nat : k <= Len(networks) =>
                                  TakenFrom(h[1..k], networks, k, limit)}
  <1>2. 0 \in T
    <2>1. 1..0 = {}
      OBVIOUS
    <2>2. TakenFrom(h[1..0], networks, 0, limit)
      BY <1>1, <2>1, HiddenStart
    <2> QED BY <2>2
  <1>3. ASSUME NEW k \in T PROVE k + 1 \in T
    <2> SUFFICES ASSUME k + 1 <= Len(networks)
                 PROVE  TakenFrom(h[1..(k + 1)], networks, k + 1, limit)
      OBVIOUS
    <2>1. k \in Nat /\ k + 1 \in 1..Len(networks) /\ (k + 1) - 1 = k /\ k <= Len(networks)
      OBVIOUS
    <2>2. TakenFrom(h[1..k], networks, k, limit)
      BY <2>1
    <2>3. h[1..(k + 1)] = AddHidden(h[1..k], networks[k + 1], limit)
      BY <1>1, <2>1
    <2> HIDE DEF T
    <2> QED BY <2>1, <2>2, <2>3, HiddenTurn
  <1>4. \A k \in Nat : k \in T
    <2> HIDE DEF T
    <2>1. T \subseteq Nat
      BY DEF T
    <2>2. \A k \in T : k + 1 \in T
      BY <1>3
    <2> QED BY <1>2, <2>1, <2>2, SetInduction
  <1>5. Len(networks) \in Nat /\ Len(networks) <= Len(networks)
    OBVIOUS
  <1>6. TakenFrom(h[1..Len(networks)], networks, Len(networks), limit)
    BY <1>4, <1>5
  <1> QED BY <1>0, <1>1, <1>6

=============================================================================
