--------------------------- MODULE ToolRepairProofs ---------------------------
(***************************************************************************)
(* Proofs about ToolRepair, for conversations and blocks of any size and   *)
(* any number of faults: every list the hook forwards meets the strict     *)
(* contract, answers every call truly, loses nothing the client sent, and  *)
(* is a fixed point of the repair.                                         *)
(***************************************************************************)
EXTENDS ToolRepair, Induction, SequenceTheorems

(* A list of messages as the hook finds it.                                 *)
WellFormed(list) ==
    /\ list \in Seq(Message)
    /\ \A i \in DOMAIN list :
           /\ Len(list[i].tool_calls) <= MaxBlock
           /\ list[i].role = "tool" => list[i].tool_calls = <<>>
-----------------------------------------------------------------------------
(* Slots.                                                                   *)

LEMMA MessageParts ==
  ASSUME NEW list, WellFormed(list), NEW i \in DOMAIN list
  PROVE  /\ list[i] \in Message /\ i \in 1 .. Len(list) /\ i \in Nat /\ Len(list) \in Nat
         /\ list[i].tool_calls \in Seq(Call) /\ Len(list[i].tool_calls) \in Nat
         /\ DOMAIN list[i].tool_calls = 1 .. Len(list[i].tool_calls)
         /\ Len(list[i].tool_calls) <= MaxBlock
         /\ \A p \in DOMAIN list[i].tool_calls : list[i].tool_calls[p] \in Call
         /\ list[i].id \in Nat /\ list[i].no \in Nat
<1>1. list \in Seq(Message)
  BY DEF WellFormed
<1>2. list[i] \in Message /\ i \in 1 .. Len(list) /\ Len(list) \in Nat
  BY <1>1, LenProperties
<1>3. list[i].tool_calls \in Seq(Call) /\ list[i].id \in Nat /\ list[i].no \in Nat
  BY <1>2 DEF Message
<1>4. /\ Len(list[i].tool_calls) \in Nat
      /\ DOMAIN list[i].tool_calls = 1 .. Len(list[i].tool_calls)
      /\ \A p \in 1 .. Len(list[i].tool_calls) : list[i].tool_calls[p] \in Call
  BY <1>3, LenProperties
<1> QED BY <1>2, <1>3, <1>4 DEF WellFormed

LEMMA CallSlotsAre ==
  ASSUME NEW list, WellFormed(list)
  PROVE  /\ \A i \in DOMAIN list : \A p \in DOMAIN list[i].tool_calls :
                <<i, p>> \in CallSlots(list)
         /\ \A s \in CallSlots(list) :
                /\ s = <<s[1], s[2]>>
                /\ s[1] \in DOMAIN list
                /\ s[2] \in DOMAIN list[s[1]].tool_calls
<1>1. ASSUME NEW i \in DOMAIN list, NEW p \in DOMAIN list[i].tool_calls
      PROVE  <<i, p>> \in CallSlots(list)
  <2>1. p \in 1 .. MaxBlock
    BY MessageParts, RepairAssumption
  <2> QED BY <2>1 DEF CallSlots
<1>2. ASSUME NEW s \in CallSlots(list)
      PROVE  /\ s = <<s[1], s[2]>>
             /\ s[1] \in DOMAIN list
             /\ s[2] \in DOMAIN list[s[1]].tool_calls
  BY DEF CallSlots
<1> QED BY <1>1, <1>2

LEMMA ResultSlotsAre ==
  ASSUME NEW list, WellFormed(list)
  PROVE  /\ \A i \in DOMAIN list : list[i].role = "tool" => <<Len(list) + i, 0>> \in ResultSlots(list)
         /\ \A s \in ResultSlots(list) :
                \E i \in DOMAIN list : list[i].role = "tool" /\ s = <<Len(list) + i, 0>>
  BY DEF ResultSlots

LEMMA PairsAre ==
  ASSUME NEW list
  PROVE  /\ \A pair \in Pairs(list) :
                /\ pair = <<pair[1], pair[2]>>
                /\ pair[1] \in CallSlots(list)
                /\ pair[2] \in ResultSlots(list)
                /\ Match(list, CallSlots(list), ResultSlots(list), pair[1], pair[2])
         /\ \A c \in CallSlots(list), r \in ResultSlots(list) :
                Match(list, CallSlots(list), ResultSlots(list), c, r) => <<c, r>> \in Pairs(list)
  BY DEF Pairs
-----------------------------------------------------------------------------
(* Flattening.                                                              *)

IsFlattening(f, seqs, n) ==
    f = [i \in 1..n |-> IF i = 1 THEN seqs[i] ELSE f[i-1] \o seqs[i]]

LEMMA FlatteningExists ==
  ASSUME NEW seqs, Len(seqs) \in Nat
  PROVE  \E f : IsFlattening(f, seqs, Len(seqs))
<1> DEFINE N == {n \in Nat : \E f : IsFlattening(f, seqs, n)}
<1>1. 0 \in N
  <2>1. IsFlattening([i \in 1..0 |-> 0], seqs, 0)
    BY DEF IsFlattening
  <2> QED BY <2>1
<1>2. ASSUME NEW n \in Nat, n \in N PROVE n + 1 \in N
  <2>1. PICK g : IsFlattening(g, seqs, n)
    BY <1>2
  <2> DEFINE h == [i \in 1..(n + 1) |-> IF i = 1 THEN seqs[i] ELSE g[i-1] \o seqs[i]]
  <2>2. ASSUME NEW i \in 1..(n + 1), i # 1 PROVE h[i - 1] = g[i - 1]
    <3>1. i - 1 \in 1..n /\ i - 1 \in 1..(n + 1)
      BY <2>2
    <3> QED BY <2>1, <3>1 DEF IsFlattening
  <2>3. IsFlattening(h, seqs, n + 1)
    BY <2>2 DEF IsFlattening
  <2> HIDE DEF h
  <2> QED BY <2>3
<1> HIDE DEF N
<1>3. Len(seqs) \in N
  BY <1>1, <1>2, NumberInduction
<1> QED BY <1>3 DEF N

(* The i-th part of flat, a concatenation of seqs, starts behind off[i].    *)
IsLayout(off, seqs, flat) ==
    /\ off \in [1..(Len(seqs) + 1) -> Nat]
    /\ off[1] = 0 /\ off[Len(seqs) + 1] = Len(flat)
    /\ \A i \in DOMAIN seqs : off[i + 1] = off[i] + Len(seqs[i])
    /\ \A i \in DOMAIN seqs : \A q \in DOMAIN seqs[i] :
           off[i] + q \in DOMAIN flat /\ flat[off[i] + q] = seqs[i][q]
    /\ \A k \in DOMAIN flat : \E i \in DOMAIN seqs : \E q \in DOMAIN seqs[i] : k = off[i] + q
    /\ \A i \in DOMAIN seqs, j \in DOMAIN seqs : i < j => off[i] + Len(seqs[i]) <= off[j]

LEMMA LayoutExists ==
  ASSUME NEW S, NEW seqs \in Seq(Seq(S))
  PROVE  /\ FlattenSeq(seqs) \in Seq(S)
         /\ \E off : IsLayout(off, seqs, FlattenSeq(seqs))
<1> DEFINE len == Len(seqs)
           f == CHOOSE f : IsFlattening(f, seqs, len)
           off == [i \in 1..(len + 1) |-> IF i = 1 THEN 0 ELSE Len(f[i-1])]
           flat == FlattenSeq(seqs)
<1>1. /\ len \in Nat /\ DOMAIN seqs = 1..len
      /\ \A i \in 1..len : /\ seqs[i] \in Seq(S) /\ Len(seqs[i]) \in Nat
                            /\ DOMAIN seqs[i] = 1..Len(seqs[i])
  <2>1. len \in Nat /\ DOMAIN seqs = 1..len /\ \A i \in 1..len : seqs[i] \in Seq(S)
    BY LenProperties
  <2> QED BY <2>1, LenProperties
<1>2. IsFlattening(f, seqs, len)
  BY <1>1, FlatteningExists
<1>3. flat = IF len = 0 THEN seqs ELSE f[len]
  BY DEF FlattenSeq, IsFlattening
<1> HIDE DEF f, len, flat
<1> DEFINE Laid(n) ==
               /\ f[n] \in Seq(S)
               /\ off[n + 1] \in Nat /\ off[n + 1] = Len(f[n])
               /\ off[n + 1] = off[n] + Len(seqs[n])
               /\ \A i \in 1..n : \A q \in 1..Len(seqs[i]) :
                      off[i] + q \in 1..Len(f[n]) /\ f[n][off[i] + q] = seqs[i][q]
               /\ \A k \in 1..Len(f[n]) : \E i \in 1..n : \E q \in 1..Len(seqs[i]) : k = off[i] + q
               /\ \A i \in 1..n : off[i] \in Nat /\ off[i] + Len(seqs[i]) <= off[n + 1]
           N == {n \in Nat : n # 0 /\ n <= len => Laid(n)}
<1> HIDE DEF Laid
<1>4. 0 \in N
  OBVIOUS
<1>5. ASSUME NEW n \in Nat, n \in N, n + 1 <= len PROVE Laid(n + 1)
  <2>0. n + 1 \in 1..len /\ seqs[n + 1] \in Seq(S) /\ Len(seqs[n + 1]) \in Nat
    BY <1>1, <1>5
  <2>1. f[n + 1] = IF n = 0 THEN seqs[1] ELSE f[n] \o seqs[n + 1]
    <3>1. n + 1 = 1 <=> n = 0
      OBVIOUS
    <3>2. (n + 1) - 1 = n
      OBVIOUS
    <3> QED BY <1>2, <2>0, <3>1, <3>2 DEF IsFlattening
  <2>2. (n + 1) + 1 \in 1..(len + 1) /\ n + 1 \in 1..(len + 1)
    BY <1>1, <2>0
  <2>3. off[(n + 1) + 1] = Len(f[n + 1])
    BY <2>2
  <2>4. CASE n = 0
    <3>1. f[1] = seqs[1] /\ off[1] = 0 /\ off[2] = Len(seqs[1]) /\ 1..1 = {1}
      BY <2>1, <2>2, <2>3, <2>4
    <3> HIDE DEF off
    <3> QED BY <2>0, <2>4, <3>1 DEF Laid
  <2>5. CASE n # 0
    <3> DEFINE a == Len(f[n])
               b == Len(seqs[n + 1])
    <3>1. Laid(n)
      BY <1>1, <1>5, <2>5
    <3>2. a \in Nat /\ off[n + 1] = a /\ b \in Nat
      BY <2>0, <3>1 DEF Laid
    <3>3. f[n] \in Seq(S) /\ f[n + 1] = f[n] \o seqs[n + 1]
      BY <2>1, <2>5, <3>1 DEF Laid
    <3>4. /\ f[n + 1] \in Seq(S) /\ Len(f[n + 1]) = a + b
          /\ \A k \in 1 .. a + b :
                 f[n + 1][k] = IF k <= a THEN f[n][k] ELSE seqs[n + 1][k - a]
      <4>1. seqs[n + 1] \in Seq(S) /\ f[n] \in Seq(S)
        BY <2>0, <3>3
      <4>2. /\ f[n] \o seqs[n + 1] \in Seq(S) /\ Len(f[n] \o seqs[n + 1]) = a + b
            /\ \A k \in 1 .. a + b :
                   (f[n] \o seqs[n + 1])[k] = IF k <= a THEN f[n][k] ELSE seqs[n + 1][k - a]
        BY <4>1, ConcatProperties
      <4> QED BY <3>3, <4>2
    <3> HIDE DEF a, b, off
    <3>5. /\ off[(n + 1) + 1] \in Nat /\ off[(n + 1) + 1] = off[n + 1] + b
          /\ off[(n + 1) + 1] = a + b
      BY <2>3, <3>2, <3>4
    <3>6. ASSUME NEW i \in 1..(n + 1), NEW q \in 1..Len(seqs[i])
          PROVE  off[i] + q \in 1..(a + b) /\ f[n + 1][off[i] + q] = seqs[i][q]
      <4>1. CASE i \in 1..n
        <5>1. off[i] + q \in 1..a /\ f[n][off[i] + q] = seqs[i][q]
          BY <3>1, <4>1 DEF a, Laid
        <5> DEFINE k == off[i] + q
        <5> HIDE DEF k
        <5>2. k \in 1..a
          BY <5>1 DEF k
        <5>3. k \in 1..(a + b) /\ k <= a
          BY <3>2, <5>2
        <5>4. f[n + 1][k] = f[n][k]
          BY <3>4, <5>3
        <5> QED BY <5>1, <5>3, <5>4 DEF k
      <4>2. CASE i = n + 1
        <5>1. q \in 1..b
          BY <4>2 DEF b
        <5>2. a + q \in 1..(a + b) /\ ~(a + q <= a) /\ (a + q) - a = q
          BY <3>2, <5>1
        <5>3. f[n + 1][a + q] = seqs[n + 1][q]
          BY <3>4, <5>2
        <5> QED BY <3>2, <4>2, <5>2, <5>3
      <4> QED BY <4>1, <4>2
    <3>7. ASSUME NEW k \in 1..(a + b)
          PROVE  \E i \in 1..(n + 1) : \E q \in 1..Len(seqs[i]) : k = off[i] + q
      <4>1. CASE k <= a
        <5>1. k \in 1..a
          BY <3>2, <4>1
        <5>2. PICK i \in 1..n : \E q \in 1..Len(seqs[i]) : k = off[i] + q
          BY <3>1, <5>1 DEF a, Laid
        <5> QED BY <5>2
      <4>2. CASE k > a
        <5>1. k - a \in 1..b /\ k = off[n + 1] + (k - a)
          BY <3>2, <4>2
        <5> QED BY <5>1 DEF b
      <4> QED BY <3>2, <4>1, <4>2
    <3>8. ASSUME NEW i \in 1..(n + 1)
          PROVE  off[i] \in Nat /\ off[i] + Len(seqs[i]) <= a + b
      <4>1. CASE i \in 1..n
        <5>1. i \in 1..len
          BY <1>1, <1>5
        <5>2. off[i] \in Nat /\ off[i] + Len(seqs[i]) <= a /\ Len(seqs[i]) \in Nat
          BY <1>1, <3>1, <3>2, <4>1, <5>1 DEF Laid
        <5> QED BY <3>2, <5>2
      <4>2. CASE i = n + 1
        BY <3>2, <4>2 DEF b
      <4> QED BY <4>1, <4>2
    <3> QED BY <2>3, <3>4, <3>5, <3>6, <3>7, <3>8 DEF b, Laid
  <2> QED BY <2>4, <2>5
<1>6. Nat \subseteq N
  <2>1. ASSUME NEW n \in Nat, n \in N PROVE n + 1 \in N
    <3>1. n + 1 <= len => Laid(n + 1)
      BY <1>5, <2>1
    <3> QED BY <3>1
  <2> HIDE DEF N
  <2> QED BY <1>4, <2>1, NumberInduction
<1>7. \A n \in 1..len : Laid(n)
  BY <1>1, <1>6
<1>8. CASE len = 0
  <2>1. flat = seqs /\ seqs = <<>> /\ flat = <<>>
    BY <1>3, <1>8, EmptySeq DEF len
  <2>2. flat \in Seq(S) /\ DOMAIN flat = {} /\ Len(flat) = 0
    BY <2>1, EmptySeq
  <2>3. IsLayout(off, seqs, flat)
    BY <1>1, <1>8, <2>2 DEF IsLayout, len
  <2> QED BY <2>2, <2>3 DEF flat
<1>9. CASE len # 0
  <2>0. len \in 1..len
    BY <1>1, <1>9
  <2>1. flat = f[len] /\ len \in 1..len /\ Laid(len)
    <3>1. Laid(len)
      BY <1>7, <2>0
    <3> QED BY <1>3, <1>9, <2>0, <3>1
  <2>2. flat \in Seq(S) /\ DOMAIN flat = 1..Len(flat) /\ Len(flat) \in Nat
    BY <2>1, LenProperties DEF Laid
  <2>3. off[1] = 0 /\ DOMAIN off = 1..(len + 1)
    BY <1>1
  <2> HIDE DEF off
  <2>4. \A i \in 1..len : off[i] \in Nat /\ off[i + 1] \in Nat /\ off[i + 1] = off[i] + Len(seqs[i])
    BY <1>7 DEF Laid
  <2>5. off \in [1..(len + 1) -> Nat]
    <3>1. \A i \in 1..(len + 1) : off[i] \in Nat
      <4> TAKE i \in 1..(len + 1)
      <4>1. i \in 1..len \/ i = len + 1
        BY <1>1
      <4> QED BY <2>1, <2>4, <4>1
    <3>2. off = [i \in 1..(len + 1) |-> off[i]]
      BY DEF off
    <3> QED BY <3>1, <3>2
  <2>6. ASSUME NEW i \in 1..len, NEW j \in 1..len, i < j
        PROVE  off[i] + Len(seqs[i]) <= off[j]
    <3>1. j - 1 \in 1..len /\ i \in 1..(j - 1) /\ (j - 1) + 1 = j
      BY <1>1, <2>6
    <3>2. Laid(j - 1)
      BY <1>7, <3>1
    <3>3. \A h \in 1..(j - 1) : off[h] + Len(seqs[h]) <= off[(j - 1) + 1]
      BY <3>2 DEF Laid
    <3> QED BY <3>1, <3>3
  <2>7. /\ off[len + 1] = Len(flat)
        /\ \A i \in 1..len : \A q \in 1..Len(seqs[i]) :
               off[i] + q \in 1..Len(flat) /\ flat[off[i] + q] = seqs[i][q]
        /\ \A k \in 1..Len(flat) : \E i \in 1..len : \E q \in 1..Len(seqs[i]) : k = off[i] + q
    BY <2>1 DEF Laid
  <2>8. IsLayout(off, seqs, flat)
    <3>1. DOMAIN seqs = 1..len /\ \A i \in 1..len : DOMAIN seqs[i] = 1..Len(seqs[i])
      BY <1>1
    <3>2. off \in [1..(Len(seqs) + 1) -> Nat] /\ off[1] = 0 /\ off[Len(seqs) + 1] = Len(flat)
      BY <2>3, <2>5, <2>7 DEF len
    <3>3. \A i \in DOMAIN seqs : off[i + 1] = off[i] + Len(seqs[i])
      BY <2>4, <3>1
    <3>4. \A i \in DOMAIN seqs : \A q \in DOMAIN seqs[i] :
              off[i] + q \in DOMAIN flat /\ flat[off[i] + q] = seqs[i][q]
      BY <2>2, <2>7, <3>1, Zenon
    <3>6. ASSUME NEW k \in DOMAIN flat
          PROVE  \E i \in DOMAIN seqs : \E q \in DOMAIN seqs[i] : k = off[i] + q
      <4>1. PICK i \in 1..len : \E q \in 1..Len(seqs[i]) : k = off[i] + q
        BY <2>2, <2>7
      <4>2. i \in DOMAIN seqs /\ DOMAIN seqs[i] = 1..Len(seqs[i])
        BY <3>1
      <4> QED BY <4>1, <4>2
    <3>5. \A i \in DOMAIN seqs, j \in DOMAIN seqs : i < j => off[i] + Len(seqs[i]) <= off[j]
      BY <2>6, <3>1
    <3> QED BY <3>2, <3>3, <3>4, <3>5, <3>6 DEF IsLayout
  <2> QED BY <2>2, <2>8 DEF flat
<1> QED BY <1>8, <1>9

(* A position is in one part only.                                          *)
LEMMA LayoutIsUnique ==
  ASSUME NEW S, NEW seqs \in Seq(Seq(S)), NEW off, NEW flat, IsLayout(off, seqs, flat),
         NEW i \in DOMAIN seqs, NEW j \in DOMAIN seqs,
         NEW p \in DOMAIN seqs[i], NEW q \in DOMAIN seqs[j]
  PROVE  /\ off[i] \in Nat /\ p \in Nat /\ p >= 1
         /\ i < j => off[i] + p < off[j] + q
         /\ i = j /\ p < q => off[i] + p < off[j] + q
         /\ off[i] + p = off[j] + q => i = j /\ p = q
<1>1. /\ i \in Nat /\ j \in Nat /\ off[i] \in Nat /\ off[j] \in Nat
      /\ Len(seqs[i]) \in Nat /\ Len(seqs[j]) \in Nat
      /\ p \in 1..Len(seqs[i]) /\ q \in 1..Len(seqs[j])
  <2>1. Len(seqs) \in Nat /\ DOMAIN seqs = 1..Len(seqs) /\ seqs[i] \in Seq(S) /\ seqs[j] \in Seq(S)
    BY LenProperties
  <2>2. /\ Len(seqs[i]) \in Nat /\ Len(seqs[j]) \in Nat
        /\ DOMAIN seqs[i] = 1..Len(seqs[i]) /\ DOMAIN seqs[j] = 1..Len(seqs[j])
    BY <2>1, LenProperties
  <2>3. i \in 1..(Len(seqs) + 1) /\ j \in 1..(Len(seqs) + 1) /\ i \in Nat /\ j \in Nat
    BY <2>1
  <2>4. off \in [1..(Len(seqs) + 1) -> Nat]
    BY DEF IsLayout
  <2>5. off[i] \in Nat /\ off[j] \in Nat
    BY <2>3, <2>4
  <2> QED BY <2>2, <2>3, <2>5
<1>2. /\ i < j => off[i] + Len(seqs[i]) <= off[j]
      /\ j < i => off[j] + Len(seqs[j]) <= off[i]
  BY DEF IsLayout
<1> DEFINE a == off[i]
           b == off[j]
           m == Len(seqs[i])
           n == Len(seqs[j])
<1>3. /\ a \in Nat /\ b \in Nat /\ m \in Nat /\ n \in Nat /\ p \in 1..m /\ q \in 1..n
      /\ (i < j => a + m <= b) /\ (j < i => b + n <= a)
      /\ (i = j => a = b /\ m = n)
  BY <1>1, <1>2
<1> HIDE DEF a, b, m, n
<1>4. /\ i < j => a + p < b + q
      /\ j < i => b + q < a + p
      /\ i = j /\ p < q => a + p < b + q
      /\ i = j /\ a + p = b + q => p = q
  <2>1. a + m <= b => a + p < b + q
    BY <1>3
  <2>2. b + n <= a => b + q < a + p
    BY <1>3
  <2>3. a = b => (p < q => a + p < b + q) /\ (a + p = b + q => p = q)
    BY <1>3
  <2> QED BY <1>3, <2>1, <2>2, <2>3
<1>5. a + p = b + q => i = j /\ p = q
  <2>1. i < j \/ j < i \/ i = j
    BY <1>1
  <2>2. (a + p < b + q => a + p # b + q) /\ (b + q < a + p => a + p # b + q)
    BY <1>3
  <2> QED BY <1>4, <2>1, <2>2
<1> QED BY <1>3, <1>4, <1>5 DEF a, b
-----------------------------------------------------------------------------
(* Ranks and names.                                                         *)

LEMMA SlotsType ==
  ASSUME NEW list, WellFormed(list)
  PROVE  /\ IsFiniteSet(CallSlots(list)) /\ IsFiniteSet(ResultSlots(list))
         /\ CallSlots(list) \subseteq Nat \X Nat /\ ResultSlots(list) \subseteq Nat \X Nat
         /\ CallSlots(list) \cap ResultSlots(list) = {}
         /\ \A s \in CallSlots(list) \cup ResultSlots(list) : Orig(list, s) \in Nat
<1>1. Len(list) \in Nat /\ DOMAIN list = 1..Len(list)
  BY LenProperties DEF WellFormed
<1>2. IsFiniteSet(CallSlots(list)) /\ CallSlots(list) \subseteq Nat \X Nat
  <2>1. IsFiniteSet((DOMAIN list) \X (1..MaxBlock))
    <3>1. IsFiniteSet(DOMAIN list) /\ IsFiniteSet(1..MaxBlock)
      BY <1>1, FS_Interval, RepairAssumption
    <3> QED BY <3>1, FS_Product
  <2>2. CallSlots(list) \subseteq (DOMAIN list) \X (1..MaxBlock)
    BY DEF CallSlots
  <2>3. IsFiniteSet(CallSlots(list))
    BY <2>1, <2>2, FS_Subset
  <2> QED BY <1>1, <2>2, <2>3, RepairAssumption
<1>3. IsFiniteSet(ResultSlots(list)) /\ ResultSlots(list) \subseteq Nat \X Nat
  <2>1. IsFiniteSet((1 .. 2 * Len(list)) \X {0})
    <3> DEFINE m == 2 * Len(list)
    <3>1. m \in Int
      BY <1>1
    <3> HIDE DEF m
    <3>2. IsFiniteSet(1..m)
      BY <3>1, FS_Interval
    <3>3. IsFiniteSet({0})
      BY FS_Singleton
    <3>4. IsFiniteSet((1..m) \X {0})
      BY <3>2, <3>3, FS_Product
    <3> QED BY <3>4 DEF m
  <2>2. ResultSlots(list) \subseteq (1 .. 2 * Len(list)) \X {0}
    <3> SUFFICES ASSUME NEW s \in ResultSlots(list)
                 PROVE  s \in (1 .. 2 * Len(list)) \X {0}
      OBVIOUS
    <3>1. PICK i \in DOMAIN list : s = <<Len(list) + i, 0>>
      BY ResultSlotsAre
    <3>2. Len(list) + i \in 1 .. 2 * Len(list)
      BY <1>1
    <3> QED BY <3>1, <3>2
  <2>3. IsFiniteSet(ResultSlots(list))
    BY <2>1, <2>2, FS_Subset
  <2>4. (1 .. 2 * Len(list)) \X {0} \subseteq Nat \X Nat
    BY <1>1
  <2> QED BY <2>2, <2>3, <2>4
<1>4. ASSUME NEW s \in CallSlots(list) PROVE s \notin ResultSlots(list) /\ Orig(list, s) \in Nat
  <2>1. s[1] \in DOMAIN list /\ s[2] \in DOMAIN list[s[1]].tool_calls
    BY CallSlotsAre
  <2>2. list[s[1]].tool_calls[s[2]] \in Call
    BY <2>1, MessageParts
  <2>3. ASSUME NEW i \in DOMAIN list PROVE s[1] # Len(list) + i
    BY <1>1, <2>1
  <2> QED BY <2>2, <2>3, ResultSlotsAre DEF Orig, CallAt, Call
<1>5. ASSUME NEW s \in ResultSlots(list) PROVE Orig(list, s) \in Nat
  <2>1. PICK i \in DOMAIN list : s = <<Len(list) + i, 0>>
    BY ResultSlotsAre
  <2>2. s[1] - Len(list) = i /\ list[i].id \in Nat
    BY <1>1, <2>1, MessageParts
  <2> QED BY <1>4, <2>2 DEF Orig, ResultAt
<1> QED BY <1>2, <1>3, <1>4, <1>5

LEMMA BeforeIsOrder ==
  ASSUME NEW s \in Nat \X Nat, NEW t \in Nat \X Nat
  PROVE  /\ ~Before(s, s)
         /\ s = t \/ Before(s, t) \/ Before(t, s)
         /\ Before(s, t) => ~Before(t, s)
         /\ \A u \in Nat \X Nat : Before(u, s) /\ Before(s, t) => Before(u, t)
<1>1. s = <<s[1], s[2]>> /\ t = <<t[1], t[2]>> /\ s[1] \in Nat /\ s[2] \in Nat
      /\ t[1] \in Nat /\ t[2] \in Nat
  OBVIOUS
<1>2. ASSUME NEW u \in Nat \X Nat, Before(u, s), Before(s, t) PROVE Before(u, t)
  <2>1. u[1] \in Nat /\ u[2] \in Nat
    OBVIOUS
  <2> QED BY <1>1, <1>2, <2>1 DEF Before
<1>3. s = t \/ Before(s, t) \/ Before(t, s)
  <2>1. s[1] < t[1] \/ t[1] < s[1] \/ s[1] = t[1]
    BY <1>1
  <2>2. s[2] < t[2] \/ t[2] < s[2] \/ s[2] = t[2]
    BY <1>1
  <2> QED BY <1>1, <2>1, <2>2 DEF Before
<1>4. ~Before(s, s) /\ (Before(s, t) => ~Before(t, s))
  BY <1>1 DEF Before
<1> QED BY <1>2, <1>3, <1>4

(* Of two slots the later one has more slots before it.                     *)
LEMMA CountsGrow ==
  ASSUME NEW slots, IsFiniteSet(slots), slots \subseteq Nat \X Nat,
         NEW s \in slots, NEW t \in slots
  PROVE  /\ Cardinality({u \in slots : Before(u, s)}) \in Nat
         /\ Before(s, t) => Cardinality({u \in slots : Before(u, s)})
                               < Cardinality({u \in slots : Before(u, t)})
         /\ s # t => Cardinality({u \in slots : Before(u, s)})
                       # Cardinality({u \in slots : Before(u, t)})
<1> DEFINE C(x) == {u \in slots : Before(u, x)}
<1>1. ASSUME NEW x \in slots PROVE IsFiniteSet(C(x)) /\ Cardinality(C(x)) \in Nat
  <2>1. IsFiniteSet(C(x))
    BY FS_Subset
  <2> QED BY <2>1, FS_CardinalityType
<1>2. ASSUME NEW x \in slots, NEW y \in slots, Before(x, y)
      PROVE  Cardinality(C(x)) < Cardinality(C(y))
  <2>1. x \in C(y) /\ x \notin C(x) /\ C(x) \subseteq C(y)
    BY <1>2, BeforeIsOrder
  <2>2. /\ Cardinality(C(x)) <= Cardinality(C(y))
        /\ Cardinality(C(x)) = Cardinality(C(y)) => C(x) = C(y)
    BY <1>1, <2>1, FS_Subset
  <2> QED BY <1>1, <2>1, <2>2
<1>3. s # t => Before(s, t) \/ Before(t, s)
  BY BeforeIsOrder
<1> HIDE DEF C
<1>4. /\ Cardinality(C(s)) \in Nat /\ Cardinality(C(t)) \in Nat
      /\ Before(s, t) => Cardinality(C(s)) < Cardinality(C(t))
      /\ Before(t, s) => Cardinality(C(t)) < Cardinality(C(s))
  BY <1>1, <1>2
<1>5. s # t => Cardinality(C(s)) # Cardinality(C(t))
  BY <1>3, <1>4
<1> QED BY <1>4, <1>5 DEF C

(* Slots of one sort and id have different ranks.                           *)
LEMMA RanksDiffer ==
  ASSUME NEW list, NEW slots, IsFiniteSet(slots), slots \subseteq Nat \X Nat,
         NEW s \in slots
  PROVE  /\ Rank(list, slots, s) \in Nat
         /\ \A t \in slots :
                Orig(list, s) = Orig(list, t) =>
                    /\ s # t => Rank(list, slots, s) # Rank(list, slots, t)
                    /\ Before(s, t) => Rank(list, slots, s) < Rank(list, slots, t)
<1> DEFINE same == {u \in slots : Orig(list, u) = Orig(list, s)}
<1>1. IsFiniteSet(same) /\ same \subseteq Nat \X Nat /\ s \in same
  BY FS_Subset
<1>2. ASSUME NEW t \in slots, Orig(list, s) = Orig(list, t)
      PROVE  t \in same /\ Rank(list, slots, t) = Cardinality({u \in same : Before(u, t)})
  <2>1. {u \in slots : Before(u, t) /\ Orig(list, u) = Orig(list, t)}
            = {u \in same : Before(u, t)}
    BY <1>2
  <2> QED BY <1>2, <2>1 DEF Rank
<1> HIDE DEF same
<1>3. Rank(list, slots, s) \in Nat
  BY <1>1, <1>2, CountsGrow
<1>4. ASSUME NEW t \in slots, Orig(list, s) = Orig(list, t)
      PROVE  /\ s # t => Rank(list, slots, s) # Rank(list, slots, t)
             /\ Before(s, t) => Rank(list, slots, s) < Rank(list, slots, t)
  <2>1. t \in same /\ Rank(list, slots, t) = Cardinality({u \in same : Before(u, t)})
        /\ Rank(list, slots, s) = Cardinality({u \in same : Before(u, s)})
    BY <1>2, <1>4
  <2> QED BY <1>1, <1>4, <2>1, CountsGrow
<1> QED BY <1>3, <1>4

LEMMA FreshIsFresh ==
  ASSUME NEW used, IsFiniteSet(used), NEW n \in Nat \ {0}
  PROVE  /\ Fresh(used, n) \in Nat \ {0} /\ Fresh(used, n) \notin used
         /\ Cardinality((1 .. Fresh(used, n)) \ used) = n
<1> DEFINE C(i) == Cardinality((1..i) \ used)
           u == Cardinality(used)
           S == {i \in Nat : C(i) >= n}
<1>1. u \in Nat
  BY FS_CardinalityType
<1>2. ASSUME NEW i \in Nat
      PROVE  IsFiniteSet((1..i) \ used) /\ C(i) \in Nat /\ C(i) >= i - u
  <2>1. IsFiniteSet(1..i) /\ Cardinality(1..i) = i
    BY FS_Interval
  <2>2. /\ IsFiniteSet((1..i) \ used)
        /\ C(i) = Cardinality(1..i) - Cardinality((1..i) \cap used)
    BY <2>1, FS_Difference
  <2>3. Cardinality((1..i) \cap used) <= u /\ Cardinality((1..i) \cap used) \in Nat
    <3>1. (1..i) \cap used \subseteq used
      OBVIOUS
    <3>2. IsFiniteSet((1..i) \cap used) /\ Cardinality((1..i) \cap used) <= u
      BY <3>1, FS_Subset
    <3> QED BY <3>2, FS_CardinalityType
  <2>4. C(i) \in Nat
    BY <2>2, FS_CardinalityType
  <2> HIDE DEF C, u
  <2> QED BY <1>1, <2>1, <2>2, <2>3, <2>4
<1>3. n + u \in S
  <2>1. n + u \in Nat
    BY <1>1
  <2>2. C(n + u) \in Nat /\ C(n + u) >= (n + u) - u
    BY <1>2, <2>1
  <2> HIDE DEF C, u
  <2> QED BY <1>1, <2>1, <2>2
<1>4. PICK i \in S : \A m \in S : i <= m
  BY <1>3, LeastNatural
<1>5. C(0) = 0
  <2>1. (1..0) \ used = {}
    OBVIOUS
  <2> QED BY <2>1, FS_EmptySet
<1>6. i \in Nat /\ C(i) >= n /\ i <= n + u
  BY <1>3, <1>4
<1>7. i # 0
  BY <1>5, <1>6
<1>8. i - 1 \in Nat /\ i - 1 \notin S
  BY <1>4, <1>6, <1>7
<1>9. C(i - 1) \in Nat /\ ~(C(i - 1) >= n)
  BY <1>2, <1>8
<1>10. C(i) = IF i \in used THEN C(i - 1) ELSE C(i - 1) + 1
  <2>1. 1..i = (1..(i - 1)) \cup {i}
    BY <1>6, <1>7
  <2>2. CASE i \in used
    <3>1. (1..i) \ used = (1..(i - 1)) \ used
      BY <2>1, <2>2
    <3> QED BY <2>2, <3>1
  <2>3. CASE i \notin used
    <3>1. (1..i) \ used = ((1..(i - 1)) \ used) \cup {i} /\ i \notin (1..(i - 1)) \ used
      BY <2>1, <2>3, <1>6
    <3>2. IsFiniteSet((1..(i - 1)) \ used)
      BY <1>2, <1>8
    <3> QED BY <2>3, <3>1, <3>2, FS_AddElement
  <2> QED BY <2>2, <2>3
<1> HIDE DEF C, S
<1>11. i \notin used /\ C(i) = n
  BY <1>6, <1>9, <1>10
<1>12. i \in 1..(n + u)
  BY <1>1, <1>6, <1>7
<1>13. Fresh(used, n) = CHOOSE j \in 1..(n + u) : j \notin used /\ C(j) = n
  BY DEF Fresh, C
<1>14. Fresh(used, n) \in 1..(n + u) /\ Fresh(used, n) \notin used /\ C(Fresh(used, n)) = n
  BY <1>11, <1>12, <1>13
<1> QED BY <1>1, <1>14 DEF C

LEMMA OrphansAre ==
  ASSUME NEW list, NEW pairs
  PROVE  Orphans(list, pairs) \subseteq ResultSlots(list)
  BY DEF Orphans

(* The ids of a repaired list are real, and no two slots share one.         *)
LEMMA NamesAreOwn ==
  ASSUME NEW list, WellFormed(list), NEW pairs
  PROVE  LET name == Names(list, pairs)
         IN  /\ DOMAIN name = CallSlots(list) \cup Orphans(list, pairs)
             /\ \A s \in DOMAIN name : name[s] \in Nat \ {NoId}
             /\ \A s, t \in DOMAIN name : name[s] = name[t] => s = t
<1> DEFINE calling == CallSlots(list)
           orphans == Orphans(list, pairs)
           slots == calling \cup orphans
           renamed == RenamedCalls(list) \cup RenamedOrphans(list, orphans)
           used == Used(list)
           turn(s) == 1 + Cardinality({t \in renamed : Before(t, s)})
           name == Names(list, pairs)
<1>1. /\ IsFiniteSet(calling) /\ IsFiniteSet(orphans) /\ IsFiniteSet(slots)
      /\ slots \subseteq Nat \X Nat
      /\ calling \cap orphans = {}
      /\ calling \subseteq Nat \X Nat /\ orphans \subseteq Nat \X Nat
      /\ \A s \in slots : Orig(list, s) \in Nat /\ Orig(list, s) \in used
  <2>1. orphans \subseteq ResultSlots(list)
    BY OrphansAre
  <2>2. IsFiniteSet(calling) /\ IsFiniteSet(orphans)
    BY <2>1, SlotsType, FS_Subset
  <2>3. IsFiniteSet(slots)
    BY <2>2, FS_Union
  <2>4. \A s \in slots : Orig(list, s) \in used
    BY <2>1 DEF Used
  <2> QED BY <2>1, <2>2, <2>3, <2>4, SlotsType
<1>2. IsFiniteSet(used)
  <2> DEFINE all == calling \cup ResultSlots(list)
             f == [s \in all |-> Orig(list, s)]
  <2>1. IsFiniteSet(all)
    BY SlotsType, FS_Union
  <2>2. f \in Surjection(all, used)
    BY DEF Surjection, Used
  <2> QED BY <2>1, <2>2, FS_Surjection
<1>3. renamed \subseteq slots /\ IsFiniteSet(renamed) /\ renamed \subseteq Nat \X Nat
  <2>1. renamed \subseteq slots
    BY DEF RenamedCalls, RenamedOrphans
  <2> QED BY <1>1, <2>1, FS_Subset
<1>4. name = [s \in slots |-> IF s \in renamed THEN Fresh(used, turn(s)) ELSE Orig(list, s)]
  BY DEF Names
<1>5. ASSUME NEW s \in renamed
      PROVE  /\ turn(s) \in Nat \ {0}
             /\ \A t \in renamed : turn(s) = turn(t) => s = t
  <2> DEFINE C(x) == Cardinality({u \in renamed : Before(u, x)})
  <2> HIDE DEF renamed
  <2>1. \A x \in renamed : C(x) \in Nat /\ (s # x => C(s) # C(x))
    BY <1>3, <1>5, CountsGrow
  <2>2. \A x \in renamed : turn(x) = 1 + C(x)
    OBVIOUS
  <2> HIDE DEF C, turn
  <2> QED BY <1>5, <2>1, <2>2
<1>6. \A s \in slots \ renamed : Orig(list, s) # NoId
  BY DEF RenamedCalls, RenamedOrphans
<1>7. ASSUME NEW s \in slots \ renamed, NEW t \in slots \ renamed, Orig(list, s) = Orig(list, t)
      PROVE  s = t
  <2>1. CASE s \in calling /\ t \in calling
    <3>1. Rank(list, calling, s) = 0 /\ Rank(list, calling, t) = 0
      <4>1. \A x \in calling \ renamed : ~(Rank(list, calling, x) > 0)
        BY DEF RenamedCalls
      <4>2. \A x \in calling : Rank(list, calling, x) \in Nat
        BY <1>1, RanksDiffer
      <4> HIDE DEF renamed, slots
      <4>3. s \in calling \ renamed /\ t \in calling \ renamed
        BY <2>1
      <4> QED BY <4>1, <4>2, <4>3
    <3> QED BY <1>1, <1>7, <2>1, <3>1, RanksDiffer
  <2>2. CASE s \in orphans /\ t \in orphans
    <3>1. Rank(list, orphans, s) = 0 /\ Rank(list, orphans, t) = 0
      <4>1. \A x \in orphans \ renamed : ~(Rank(list, orphans, x) > 0)
        BY DEF RenamedOrphans
      <4>2. \A x \in orphans : Rank(list, orphans, x) \in Nat
        BY <1>1, RanksDiffer
      <4> HIDE DEF renamed, slots
      <4>3. s \in orphans \ renamed /\ t \in orphans \ renamed
        BY <2>2
      <4> QED BY <4>1, <4>2, <4>3
    <3> QED BY <1>1, <1>7, <2>2, <3>1, RanksDiffer
  <2>3. \A c \in calling, r \in orphans \ renamed : Orig(list, c) # Orig(list, r)
    BY DEF RenamedOrphans
  <2> QED BY <1>7, <2>1, <2>2, <2>3
<1>8. \A s \in renamed : /\ Fresh(used, turn(s)) \in Nat \ {0}
                         /\ Fresh(used, turn(s)) \notin used
                         /\ Cardinality((1 .. Fresh(used, turn(s))) \ used) = turn(s)
  <2> HIDE DEF renamed, used, turn
  <2> QED BY <1>2, <1>5, FreshIsFresh
<1> HIDE DEF renamed, used, turn, slots, name
<1>9. DOMAIN name = slots /\ \A s \in slots : name[s] \in Nat \ {NoId}
  BY <1>1, <1>4, <1>6, <1>8 DEF NoId
<1>10. ASSUME NEW s \in slots, NEW t \in slots, name[s] = name[t] PROVE s = t
  <2>1. CASE s \in renamed /\ t \in renamed
    <3>1. Fresh(used, turn(s)) = Fresh(used, turn(t))
      BY <1>4, <1>10, <2>1
    <3>2. turn(s) = turn(t)
      BY <1>8, <2>1, <3>1
    <3> QED BY <1>5, <2>1, <3>2
  <2>2. CASE s \notin renamed /\ t \notin renamed
    BY <1>4, <1>7, <1>10, <2>2
  <2>3. CASE s \in renamed /\ t \notin renamed
    BY <1>1, <1>4, <1>8, <1>10, <2>3
  <2>4. CASE s \notin renamed /\ t \in renamed
    BY <1>1, <1>4, <1>8, <1>10, <2>4
  <2> QED BY <2>1, <2>2, <2>3, <2>4
<1> QED BY <1>9, <1>10 DEF slots, name
-----------------------------------------------------------------------------
(* What is emitted in the place of each message.                            *)

NamesOf(list) == Names(list, Pairs(list))
Emission(list, i) == Emitted(list, Pairs(list), NamesOf(list), i)
AnswerOf(list, c) == AnswerTo(list, Pairs(list), NamesOf(list), c)
ToolSlot(list, i) == <<Len(list) + i, 0>>

LEMMA NamesType ==
  ASSUME NEW list, WellFormed(list)
  PROVE  /\ DOMAIN NamesOf(list) = CallSlots(list) \cup Orphans(list, Pairs(list))
         /\ \A s \in DOMAIN NamesOf(list) : NamesOf(list)[s] \in Nat \ {NoId}
         /\ \A s, t \in DOMAIN NamesOf(list) : NamesOf(list)[s] = NamesOf(list)[t] => s = t
  BY NamesAreOwn DEF NamesOf

LEMMA ResultAtIs ==
  ASSUME NEW list, WellFormed(list), NEW r \in ResultSlots(list)
  PROVE  \E i \in DOMAIN list :
             /\ r = ToolSlot(list, i) /\ ResultAt(list, r) = list[i]
             /\ list[i] \in Message /\ list[i].role = "tool" /\ list[i].tool_calls = <<>>
<1>1. PICK i \in DOMAIN list : list[i].role = "tool" /\ r = <<Len(list) + i, 0>>
  BY ResultSlotsAre
<1>2. r[1] - Len(list) = i /\ list[i] \in Message
  BY <1>1, MessageParts
<1> QED BY <1>1, <1>2 DEF ResultAt, ToolSlot, WellFormed

LEMMA AnswerIsResult ==
  ASSUME NEW list, WellFormed(list), NEW c \in CallSlots(list)
  PROVE  /\ AnswerOf(list, c) \in Message
         /\ AnswerOf(list, c).role = "tool" /\ AnswerOf(list, c).tool_calls = <<>>
         /\ AnswerOf(list, c).id = NamesOf(list)[c]
<1> DEFINE id == NamesOf(list)[c]
           pairs == Pairs(list)
<1>1. id \in Nat
  BY NamesType
<1>2. CASE c \in Unanswered(list, pairs)
  <2>1. AnswerOf(list, c) = [role |-> "tool", tool_calls |-> <<>>, id |-> id, no |-> 0]
    BY <1>2 DEF AnswerOf, AnswerTo, Result, Text, Fabricated
  <2> HIDE DEF id
  <2>2. <<>> \in Seq(Call)
    BY EmptySeq
  <2> QED BY <1>1, <2>1, <2>2 DEF Message, id
<1>3. CASE c \notin Unanswered(list, pairs)
  <2>1. \E pair \in pairs : pair[1] = c
    BY <1>3 DEF Unanswered
  <2> DEFINE r == (CHOOSE pair \in pairs : pair[1] = c)[2]
  <2>2. r \in ResultSlots(list)
    BY <2>1, PairsAre
  <2>3. AnswerOf(list, c) = [ResultAt(list, r) EXCEPT !.id = id]
    BY <1>3 DEF AnswerOf, AnswerTo
  <2> HIDE DEF r, id
  <2>4. /\ ResultAt(list, r) \in Message /\ ResultAt(list, r).role = "tool"
        /\ ResultAt(list, r).tool_calls = <<>>
    BY <2>2, ResultAtIs
  <2> QED BY <1>1, <2>3, <2>4 DEF Message, id
<1> QED BY <1>2, <1>3

LEMMA ToolSlotIsOrphan ==
  ASSUME NEW list, WellFormed(list), NEW i \in DOMAIN list
  PROVE  /\ ToolSlot(list, i) \in DOMAIN NamesOf(list)
                <=> ToolSlot(list, i) \in Orphans(list, Pairs(list))
         /\ ToolSlot(list, i) \in Orphans(list, Pairs(list)) => list[i].role = "tool"
         /\ list[i].role # "tool" => ToolSlot(list, i) \notin DOMAIN NamesOf(list)
<1>1. Len(list) \in Nat /\ i \in 1..Len(list) /\ DOMAIN list = 1..Len(list)
  BY MessageParts, LenProperties DEF WellFormed
<1>2. ToolSlot(list, i) \notin CallSlots(list)
  <2>1. ToolSlot(list, i)[1] = Len(list) + i
    BY DEF ToolSlot
  <2>2. Len(list) + i \notin DOMAIN list
    BY <1>1
  <2> QED BY <2>1, <2>2, CallSlotsAre
<1>3. ASSUME ToolSlot(list, i) \in ResultSlots(list) PROVE list[i].role = "tool"
  <2>1. PICK j \in DOMAIN list : list[j].role = "tool" /\ ToolSlot(list, i) = <<Len(list) + j, 0>>
    BY <1>3, ResultSlotsAre
  <2>2. Len(list) + i = Len(list) + j
    BY <2>1 DEF ToolSlot
  <2>3. i = j
    BY <1>1, <2>2
  <2> QED BY <2>1, <2>3
<1> QED BY <1>2, <1>3, NamesType, OrphansAre

LEMMA EmitsText ==
  ASSUME NEW list, WellFormed(list), NEW i \in DOMAIN list,
         list[i].role # "tool", list[i].tool_calls = <<>>
  PROVE  Emission(list, i) = <<list[i]>>
  BY ToolSlotIsOrphan DEF Emission, Emitted, ToolSlot

LEMMA EmitsNothing ==
  ASSUME NEW list, WellFormed(list), NEW i \in DOMAIN list,
         list[i].role = "tool", ToolSlot(list, i) \notin Orphans(list, Pairs(list))
  PROVE  Emission(list, i) = <<>>
  BY ToolSlotIsOrphan DEF Emission, Emitted, ToolSlot

LEMMA EmitsStub ==
  ASSUME NEW list, WellFormed(list), NEW i \in DOMAIN list,
         ToolSlot(list, i) \in Orphans(list, Pairs(list))
  PROVE  LET e == Emission(list, i)
             id == NamesOf(list)[ToolSlot(list, i)]
         IN  /\ id \in Nat
             /\ e = <<Block(<<[id |-> id, no |-> Fabricated]>>), [list[i] EXCEPT !.id = id]>>
             /\ e \in Seq(Message)
             /\ e[1].role = "assistant" /\ e[2].role = "tool" /\ e[2].tool_calls = <<>>
             /\ e[2].id = id /\ e[2].no = list[i].no
             /\ e[1].tool_calls = <<[id |-> id, no |-> Fabricated]>>
<1> DEFINE id == NamesOf(list)[ToolSlot(list, i)]
           stub == Block(<<[id |-> id, no |-> Fabricated]>>)
           kept == [list[i] EXCEPT !.id = id]
<1>1. id \in Nat /\ list[i] \in Message /\ list[i].role = "tool" /\ list[i].tool_calls = <<>>
  BY NamesType, ToolSlotIsOrphan, MessageParts DEF WellFormed
<1>2. Emission(list, i) = <<stub, kept>>
  BY ToolSlotIsOrphan DEF Emission, Emitted, ToolSlot, StubAt
<1>3. stub = [role |-> "assistant", tool_calls |-> <<[id |-> id, no |-> 0]>>, id |-> 0, no |-> 0]
  BY DEF Block, Text, Fabricated, NoId
<1> HIDE DEF id, stub
<1>4. stub \in Message
  <2>1. [id |-> id, no |-> 0] \in Call
    BY <1>1 DEF Call
  <2> DEFINE block == <<[id |-> id, no |-> 0]>>
  <2>2. block \in Seq(Call)
    BY <2>1
  <2> HIDE DEF block
  <2>3. stub = [role |-> "assistant", tool_calls |-> block, id |-> 0, no |-> 0]
    BY <1>3 DEF block
  <2> QED BY <2>2, <2>3 DEF Message
<1>5. kept \in Message /\ kept.role = "tool" /\ kept.tool_calls = <<>> /\ kept.id = id
      /\ kept.no = list[i].no
  BY <1>1 DEF Message
<1>6. stub.role = "assistant" /\ stub.tool_calls = <<[id |-> id, no |-> Fabricated]>>
  BY <1>3 DEF Fabricated
<1> HIDE DEF kept
<1>7. <<stub, kept>> \in Seq(Message)
  BY <1>4, <1>5
<1> DEFINE e == Emission(list, i)
<1> HIDE DEF e
<1>8. e = <<stub, kept>>
  BY <1>2 DEF e
<1>9. /\ e \in Seq(Message)
      /\ e[1].role = "assistant" /\ e[2].role = "tool" /\ e[2].tool_calls = <<>>
      /\ e[2].id = id /\ e[2].no = list[i].no
      /\ e[1].tool_calls = <<[id |-> id, no |-> Fabricated]>>
  BY <1>5, <1>6, <1>7, <1>8
<1> QED BY <1>1, <1>8, <1>9 DEF id, stub, kept, e

LEMMA EmitsBlock ==
  ASSUME NEW list, WellFormed(list), NEW i \in DOMAIN list,
         list[i].role # "tool", list[i].tool_calls # <<>>
  PROVE  LET e == Emission(list, i)
             n == Len(list[i].tool_calls)
         IN  /\ n \in Nat \ {0} /\ n <= MaxBlock
             /\ e \in Seq(Message) /\ Len(e) = 1 + n
             /\ e[1] = Block(e[1].tool_calls)
             /\ e[1].role = "assistant" /\ e[1].tool_calls \in Seq(Call) /\ Len(e[1].tool_calls) = n
             /\ \A p \in 1..n :
                    /\ <<i, p>> \in CallSlots(list)
                    /\ e[1].tool_calls[p] = [id |-> NamesOf(list)[<<i, p>>],
                                              no |-> list[i].tool_calls[p].no]
                    /\ e[1 + p] = AnswerOf(list, <<i, p>>)
<1> DEFINE n == Len(list[i].tool_calls)
           named == [p \in 1..n |-> [list[i].tool_calls[p] EXCEPT !.id = NamesOf(list)[<<i, p>>]]]
           answers == [p \in 1..n |-> AnswerOf(list, <<i, p>>)]
           e == Emission(list, i)
<1>1. /\ n \in Nat \ {0} /\ n <= MaxBlock
      /\ DOMAIN list[i].tool_calls = 1..n
      /\ \A p \in 1..n : list[i].tool_calls[p] \in Call
  BY MessageParts, EmptySeq
<1>2. e = <<Block(named)>> \o answers
  BY ToolSlotIsOrphan DEF Emission, Emitted, ToolSlot, BlockAt, AnswerOf
<1>3. \A p \in 1..n : <<i, p>> \in CallSlots(list) /\ NamesOf(list)[<<i, p>>] \in Nat
  BY <1>1, CallSlotsAre, NamesType
<1>4. \A p \in 1..n : /\ named[p] = [id |-> NamesOf(list)[<<i, p>>],
                                       no |-> list[i].tool_calls[p].no]
                       /\ named[p] \in Call
  BY <1>1, <1>3 DEF Call
<1>5. \A p \in 1..n : answers[p] \in Message /\ answers[p] = AnswerOf(list, <<i, p>>)
  BY <1>3, AnswerIsResult
<1>6. named \in Seq(Call) /\ Len(named) = n /\ answers \in Seq(Message) /\ Len(answers) = n
  <2>1. named \in [1..n -> Call] /\ answers \in [1..n -> Message]
    BY <1>4, <1>5
  <2> HIDE DEF named, answers, n
  <2> QED BY <1>1, <2>1
<1> HIDE DEF named, answers, e, n
<1>7. Block(named) = [role |-> "assistant", tool_calls |-> named, id |-> 0, no |-> 0]
  BY DEF Block, Text, NoId, Fabricated
<1>8. Block(named) \in Message /\ Block(named).tool_calls = named /\ Block(named).role = "assistant"
  BY <1>6, <1>7 DEF Message
<1>9. <<Block(named)>> \in Seq(Message) /\ Len(<<Block(named)>>) = 1
      /\ <<Block(named)>>[1] = Block(named)
  BY <1>8
<1>10. /\ e \in Seq(Message) /\ Len(e) = 1 + n
       /\ \A k \in 1 .. 1 + n : e[k] = IF k <= 1 THEN <<Block(named)>>[k] ELSE answers[k - 1]
  BY <1>2, <1>6, <1>9, ConcatProperties
<1>11. e[1] = Block(named)
  BY <1>1, <1>9, <1>10
<1>12. ASSUME NEW p \in 1..n PROVE e[1 + p] = answers[p]
  <2>1. 1 + p \in 1 .. 1 + n /\ ~(1 + p <= 1) /\ (1 + p) - 1 = p
    BY <1>1
  <2> QED BY <1>10, <2>1
<1>13. e[1].tool_calls = named
  BY <1>8, <1>11
<1>14. \A p \in 1..n :
           /\ e[1].tool_calls[p] = [id |-> NamesOf(list)[<<i, p>>], no |-> list[i].tool_calls[p].no]
           /\ e[1 + p] = AnswerOf(list, <<i, p>>)
  BY <1>4, <1>5, <1>12, <1>13
<1> QED BY <1>1, <1>3, <1>6, <1>8, <1>10, <1>11, <1>13, <1>14 DEF e, n

LEMMA BlockAnswers ==
  ASSUME NEW list, WellFormed(list), NEW i \in DOMAIN list,
         list[i].role # "tool", list[i].tool_calls # <<>>
  PROVE  \A p \in 1 .. Len(list[i].tool_calls) : Emission(list, i)[1 + p] = AnswerOf(list, <<i, p>>)
  BY EmitsBlock

LEMMA BlockCalls ==
  ASSUME NEW list, WellFormed(list), NEW i \in DOMAIN list,
         list[i].role # "tool", list[i].tool_calls # <<>>
  PROVE  \A p \in 1 .. Len(list[i].tool_calls) :
             /\ Emission(list, i)[1].tool_calls[p].id = NamesOf(list)[<<i, p>>]
             /\ Emission(list, i)[1].tool_calls[p].no = list[i].tool_calls[p].no
<1> SUFFICES ASSUME NEW p \in 1 .. Len(list[i].tool_calls)
             PROVE  /\ Emission(list, i)[1].tool_calls[p].id = NamesOf(list)[<<i, p>>]
                    /\ Emission(list, i)[1].tool_calls[p].no = list[i].tool_calls[p].no
  OBVIOUS
<1>1. Emission(list, i)[1].tool_calls[p]
          = [id |-> NamesOf(list)[<<i, p>>], no |-> list[i].tool_calls[p].no]
  BY EmitsBlock
<1> QED BY <1>1

(* Whatever its message was, an emission is empty, or a text or block       *)
(* followed by one answer for each call, under the names of the calls.      *)
IdSlot(list, i, p) == IF list[i].role = "tool" THEN ToolSlot(list, i) ELSE <<i, p>>

LEMMA EmissionIsGroup ==
  ASSUME NEW list, WellFormed(list), NEW i \in DOMAIN list
  PROVE  LET e == Emission(list, i)
             n == Len(e[1].tool_calls)
         IN  /\ e \in Seq(Message)
             /\ e # <<>> =>
                    /\ e[1].role # "tool" /\ n \in Nat /\ n <= MaxBlock /\ Len(e) = 1 + n
                    /\ \A p \in 1..n :
                           /\ IdSlot(list, i, p) \in DOMAIN NamesOf(list)
                           /\ list[i].role = "tool" => p = 1
                           /\ e[1].tool_calls[p].id = NamesOf(list)[IdSlot(list, i, p)]
                           /\ e[1 + p].role = "tool" /\ e[1 + p].tool_calls = <<>>
                           /\ e[1 + p].id = NamesOf(list)[IdSlot(list, i, p)]
<1> DEFINE e == Emission(list, i)
           n == Len(e[1].tool_calls)
           name == NamesOf(list)
           slot(p) == IdSlot(list, i, p)
<1> HIDE DEF e, name
<1>1. CASE list[i].role # "tool" /\ list[i].tool_calls = <<>>
  <2>1. e = <<list[i]>> /\ list[i] \in Message
    BY <1>1, EmitsText, MessageParts DEF e
  <2>2. e \in Seq(Message) /\ Len(e) = 1 /\ e[1] = list[i]
    BY <2>1
  <2>3. n = 0
    BY <1>1, <2>2, EmptySeq
  <2> QED BY <1>1, <2>2, <2>3, RepairAssumption DEF e, name
<1>2. CASE list[i].role = "tool" /\ ToolSlot(list, i) \notin Orphans(list, Pairs(list))
  <2>1. e = <<>>
    BY <1>2, EmitsNothing DEF e
  <2>2. e \in Seq(Message)
    BY <2>1, EmptySeq
  <2> QED BY <2>1, <2>2 DEF e
<1>3. CASE ToolSlot(list, i) \in Orphans(list, Pairs(list))
  <2>1. list[i].role = "tool" /\ ToolSlot(list, i) \in DOMAIN name
    BY <1>3, ToolSlotIsOrphan DEF name
  <2> DEFINE id == name[ToolSlot(list, i)]
             stub == Block(<<[id |-> id, no |-> Fabricated]>>)
             kept == [list[i] EXCEPT !.id = id]
             one == <<[id |-> id, no |-> Fabricated]>>
  <2>2. /\ e = <<stub, kept>> /\ e \in Seq(Message)
        /\ e[1].role = "assistant" /\ e[2].role = "tool" /\ e[2].tool_calls = <<>>
        /\ e[2].id = id /\ e[1].tool_calls = one
    BY <1>3, EmitsStub DEF e, name
  <2> HIDE DEF stub, kept, id
  <2>3. Len(e) = 2
    BY <2>2
  <2>4. Len(one) = 1 /\ one[1].id = id
    OBVIOUS
  <2> HIDE DEF one
  <2>5. n = 1
    BY <2>2, <2>4
  <2>6. \A p \in 1..n : p = 1 /\ slot(p) = ToolSlot(list, i)
    BY <2>1, <2>5 DEF IdSlot
  <2> HIDE DEF slot
  <2>7. e[1].tool_calls[1].id = id
    BY <2>2, <2>4
  <2>8. n \in Nat /\ n <= MaxBlock /\ Len(e) = 1 + n
    BY <2>3, <2>5, RepairAssumption
  <2>9. \A p \in 1..n :
            /\ slot(p) \in DOMAIN name /\ p = 1
            /\ e[1].tool_calls[p].id = name[slot(p)]
            /\ e[1 + p].role = "tool" /\ e[1 + p].tool_calls = <<>>
            /\ e[1 + p].id = name[slot(p)]
    BY <2>1, <2>2, <2>6, <2>7 DEF id
  <2> HIDE DEF n
  <2> QED BY <2>2, <2>8, <2>9 DEF e, n, name, slot
<1>4. CASE list[i].role # "tool" /\ list[i].tool_calls # <<>>
  <2>1. /\ e \in Seq(Message) /\ e[1].role = "assistant"
        /\ n \in Nat /\ n <= MaxBlock /\ Len(e) = 1 + n
        /\ \A p \in 1..n :
               /\ <<i, p>> \in CallSlots(list)
               /\ e[1].tool_calls[p].id = name[<<i, p>>]
               /\ e[1 + p] = AnswerOf(list, <<i, p>>)
    <3>1. /\ e \in Seq(Message) /\ e[1].role = "assistant"
          /\ Len(list[i].tool_calls) \in Nat /\ Len(list[i].tool_calls) <= MaxBlock
          /\ n = Len(list[i].tool_calls) /\ Len(e) = 1 + n
      BY <1>4, EmitsBlock DEF e
    <3>2. ASSUME NEW p \in 1..n
          PROVE  /\ <<i, p>> \in CallSlots(list)
                 /\ e[1].tool_calls[p].id = name[<<i, p>>]
                 /\ e[1 + p] = AnswerOf(list, <<i, p>>)
      <4>1. p \in 1..Len(list[i].tool_calls)
        BY <3>1
      <4>2. /\ <<i, p>> \in CallSlots(list)
            /\ e[1].tool_calls[p] = [id |-> name[<<i, p>>], no |-> list[i].tool_calls[p].no]
            /\ e[1 + p] = AnswerOf(list, <<i, p>>)
        BY <1>4, <4>1, EmitsBlock DEF e, name
      <4> QED BY <4>2
    <3> QED BY <3>1, <3>2
  <2>2. \A p \in 1..n : slot(p) = <<i, p>>
    BY <1>4 DEF IdSlot
  <2> HIDE DEF slot, n
  <2>3. ASSUME NEW p \in 1..n
        PROVE  /\ slot(p) \in DOMAIN name
               /\ e[1].tool_calls[p].id = name[slot(p)]
               /\ e[1 + p].role = "tool" /\ e[1 + p].tool_calls = <<>>
               /\ e[1 + p].id = name[slot(p)]
    <3>1. <<i, p>> \in CallSlots(list) /\ slot(p) = <<i, p>>
          /\ e[1].tool_calls[p].id = name[<<i, p>>] /\ e[1 + p] = AnswerOf(list, <<i, p>>)
      BY <2>1, <2>2
    <3>2. slot(p) \in DOMAIN name
      <4>1. DOMAIN name = CallSlots(list) \cup Orphans(list, Pairs(list))
        BY NamesType DEF name
      <4> QED BY <3>1, <4>1
    <3>3. /\ e[1 + p].role = "tool" /\ e[1 + p].tool_calls = <<>>
          /\ e[1 + p].id = name[<<i, p>>]
      BY <3>1, AnswerIsResult DEF name
    <3> QED BY <3>1, <3>2, <3>3
  <2> QED BY <1>4, <2>1, <2>3 DEF e, n, name, slot
<1> QED BY <1>1, <1>2, <1>3, <1>4
-----------------------------------------------------------------------------
(* The repaired list.                                                       *)

Parts(list) == [i \in DOMAIN list |-> Emission(list, i)]

LEMMA RepairedIsLaidOut ==
  ASSUME NEW list, WellFormed(list)
  PROVE  /\ Parts(list) \in Seq(Seq(Message)) /\ DOMAIN Parts(list) = DOMAIN list
         /\ Len(Parts(list)) = Len(list)
         /\ \A i \in DOMAIN list : /\ Parts(list)[i] = Emission(list, i)
                                   /\ DOMAIN Parts(list)[i] = 1 .. Len(Emission(list, i))
         /\ Repaired(list) \in Seq(Message)
         /\ DOMAIN Repaired(list) = 1 .. Len(Repaired(list)) /\ Len(Repaired(list)) \in Nat
         /\ \E off : IsLayout(off, Parts(list), Repaired(list))
<1>1. Len(list) \in Nat /\ DOMAIN list = 1..Len(list)
  BY LenProperties DEF WellFormed
<1>2. \A i \in DOMAIN list : Emission(list, i) \in Seq(Message)
  BY EmissionIsGroup
<1>3. Parts(list) \in [1..Len(list) -> Seq(Message)]
  BY <1>1, <1>2 DEF Parts
<1>4. Parts(list) \in Seq(Seq(Message)) /\ Len(Parts(list)) = Len(list)
  BY <1>1, <1>3
<1>5. Repaired(list) = FlattenSeq(Parts(list))
  BY DEF Repaired, Parts, Emission, NamesOf
<1>6. Repaired(list) \in Seq(Message) /\ \E off : IsLayout(off, Parts(list), Repaired(list))
  BY <1>4, <1>5, LayoutExists
<1>7. \A i \in DOMAIN list : /\ Parts(list)[i] = Emission(list, i)
                            /\ DOMAIN Parts(list)[i] = 1 .. Len(Emission(list, i))
  BY <1>2, LenProperties DEF Parts
<1>8. DOMAIN Repaired(list) = 1 .. Len(Repaired(list)) /\ Len(Repaired(list)) \in Nat
  BY <1>6, LenProperties
<1> QED BY <1>1, <1>3, <1>4, <1>6, <1>7, <1>8

LEMMA PlacesDiffer ==
  ASSUME NEW list, WellFormed(list), NEW off, IsLayout(off, Parts(list), Repaired(list)),
         NEW i \in DOMAIN list, NEW j \in DOMAIN list,
         NEW p \in 1 .. Len(Emission(list, i)), NEW q \in 1 .. Len(Emission(list, j))
  PROVE  /\ i < j => off[i] + p < off[j] + q
         /\ off[i] + p = off[j] + q => i = j /\ p = q
<1> DEFINE P == Parts(list)
           a == off[i]
           b == off[j]
           m == Len(Emission(list, i))
           n == Len(Emission(list, j))
<1>1. /\ i \in DOMAIN P /\ j \in DOMAIN P /\ Len(P[i]) = m /\ Len(P[j]) = n
      /\ DOMAIN P = 1..Len(P) /\ Len(P) \in Nat
  BY RepairedIsLaidOut, LenProperties DEF WellFormed
<1>2. m \in Nat /\ n \in Nat
  <2>1. Emission(list, i) \in Seq(Message) /\ Emission(list, j) \in Seq(Message)
    BY EmissionIsGroup
  <2> QED BY <2>1, LenProperties
<1>3. off \in [1..(Len(P) + 1) -> Nat] /\ (i < j => a + m <= b) /\ (j < i => b + n <= a)
  BY <1>1 DEF IsLayout
<1> HIDE DEF P
<1>4. a \in Nat /\ b \in Nat /\ i \in Nat /\ j \in Nat
  <2>1. i \in 1..(Len(P) + 1) /\ j \in 1..(Len(P) + 1) /\ i \in Nat /\ j \in Nat
    BY <1>1
  <2> QED BY <1>3, <2>1
<1>5. p \in 1..m /\ q \in 1..n
  OBVIOUS
<1>6. i = j => a = b
  OBVIOUS
<1> HIDE DEF a, b, m, n
<1>7. /\ i < j => a + p < b + q
      /\ a + p = b + q => i = j /\ p = q
  BY <1>2, <1>3, <1>4, <1>5, <1>6
<1> QED BY <1>7 DEF a, b

(* A position of the repaired list is the head of a group or an answer.     *)
LEMMA RepairedPositions ==
  ASSUME NEW list, WellFormed(list), NEW off, IsLayout(off, Parts(list), Repaired(list)),
         NEW k \in DOMAIN Repaired(list)
  PROVE  \E i \in DOMAIN list : LET e == Emission(list, i) IN
             /\ e # <<>> /\ off[i] \in Nat
             /\ \/ k = off[i] + 1 /\ Repaired(list)[k] = e[1]
                \/ \E p \in 1 .. Len(e[1].tool_calls) :
                       k = off[i] + (1 + p) /\ Repaired(list)[k] = e[1 + p]
<1> DEFINE F == Repaired(list)
<1>1. PICK i \in DOMAIN list : \E q \in 1 .. Len(Emission(list, i)) : k = off[i] + q
  <2>1. PICK i \in DOMAIN Parts(list) : \E q \in DOMAIN Parts(list)[i] : k = off[i] + q
    BY DEF IsLayout
  <2>2. i \in DOMAIN list /\ DOMAIN Parts(list)[i] = 1 .. Len(Emission(list, i))
    BY <2>1, RepairedIsLaidOut
  <2> QED BY <2>1, <2>2
<1> DEFINE e == Emission(list, i)
           n == Len(e[1].tool_calls)
<1>2. PICK q \in 1..Len(e) : k = off[i] + q
  BY <1>1
<1>3. Parts(list)[i] = e /\ i \in DOMAIN Parts(list) /\ q \in DOMAIN Parts(list)[i]
  BY RepairedIsLaidOut
<1>4. F[k] = e[q]
  BY <1>2, <1>3 DEF IsLayout
<1>5. off[i] \in Nat
  BY <1>3, RepairedIsLaidOut, LayoutIsUnique
<1>6. e # <<>>
  <2>1. Len(e) # 0
    BY <1>2
  <2> QED BY <2>1, EmptySeq
<1>7. n \in Nat /\ Len(e) = 1 + n
  BY <1>6, EmissionIsGroup
<1> HIDE DEF e, n, F
<1>8. q = 1 \/ (q - 1 \in 1..n /\ q = 1 + (q - 1))
  BY <1>7
<1>9. CASE q = 1
  BY <1>2, <1>4, <1>5, <1>6, <1>9 DEF e, F
<1>10. CASE q - 1 \in 1..n /\ q = 1 + (q - 1)
  <2> DEFINE p == q - 1
  <2>1. p \in 1..n /\ q = 1 + p
    BY <1>10
  <2> HIDE DEF p
  <2>2. k = off[i] + (1 + p) /\ F[k] = e[1 + p]
    BY <1>2, <1>4, <2>1
  <2> QED BY <1>5, <1>6, <2>1, <2>2 DEF e, n, F
<1> QED BY <1>8, <1>9, <1>10

LEMMA RepairedGroups ==
  ASSUME NEW list, WellFormed(list), NEW off, IsLayout(off, Parts(list), Repaired(list)),
         NEW i \in DOMAIN list, Emission(list, i) # <<>>
  PROVE  LET e == Emission(list, i)
             F == Repaired(list)
         IN  /\ off[i] \in Nat
             /\ off[i] + 1 \in DOMAIN F /\ F[off[i] + 1] = e[1]
             /\ \A p \in 1 .. Len(e[1].tool_calls) :
                    off[i] + (1 + p) \in DOMAIN F /\ F[off[i] + (1 + p)] = e[1 + p]
<1> DEFINE e == Emission(list, i)
           n == Len(e[1].tool_calls)
           F == Repaired(list)
<1>1. n \in Nat /\ Len(e) = 1 + n
  BY EmissionIsGroup
<1>2. Parts(list)[i] = e /\ i \in DOMAIN Parts(list) /\ DOMAIN Parts(list)[i] = 1..Len(e)
  BY RepairedIsLaidOut
<1>3. \A q \in 1..Len(e) : off[i] + q \in DOMAIN F /\ F[off[i] + q] = e[q]
  BY <1>2 DEF IsLayout
<1> HIDE DEF e, n, F
<1>4. 1 \in 1..Len(e) /\ \A p \in 1..n : 1 + p \in 1..Len(e)
  BY <1>1
<1>5. off[i] \in Nat
  BY <1>2, <1>4, RepairedIsLaidOut, LayoutIsUnique
<1>6. off[i] + 1 \in DOMAIN F /\ F[off[i] + 1] = e[1]
  BY <1>3, <1>4
<1>7. ASSUME NEW p \in 1..n
      PROVE  off[i] + (1 + p) \in DOMAIN F /\ F[off[i] + (1 + p)] = e[1 + p]
  <2>1. 1 + p \in 1..Len(e)
    BY <1>4
  <2> QED BY <1>3, <2>1
<1> QED BY <1>5, <1>6, <1>7 DEF e, n, F

LEMMA RepairedCalls ==
  ASSUME NEW list, WellFormed(list), NEW off, IsLayout(off, Parts(list), Repaired(list)),
         NEW k \in DOMAIN Repaired(list), NEW p \in DOMAIN Repaired(list)[k].tool_calls
  PROVE  \E i \in DOMAIN list : LET e == Emission(list, i) IN
             /\ e # <<>> /\ off[i] \in Nat /\ k = off[i] + 1
             /\ p \in 1 .. Len(e[1].tool_calls) /\ p \in Nat
             /\ Repaired(list)[k] = e[1]
             /\ k + p \in DOMAIN Repaired(list) /\ Repaired(list)[k + p] = e[1 + p]
<1> DEFINE F == Repaired(list)
<1>1. PICK i \in DOMAIN list : LET e == Emission(list, i) IN
          /\ e # <<>> /\ off[i] \in Nat
          /\ \/ k = off[i] + 1 /\ F[k] = e[1]
             \/ \E q \in 1 .. Len(e[1].tool_calls) :
                    k = off[i] + (1 + q) /\ F[k] = e[1 + q]
  BY RepairedPositions
<1> DEFINE e == Emission(list, i)
           n == Len(e[1].tool_calls)
<1>2. e # <<>> /\ n \in Nat /\ \A q \in 1..n : e[1 + q].tool_calls = <<>>
  BY <1>1, EmissionIsGroup
<1>3. F[k].tool_calls # <<>>
  OBVIOUS
<1>4. k = off[i] + 1 /\ F[k] = e[1]
  BY <1>1, <1>2, <1>3
<1>5. p \in 1..n
  <2>1. F[k] \in Message
    BY RepairedIsLaidOut, LenProperties
  <2>2. F[k].tool_calls \in Seq(Call)
    BY <2>1 DEF Message
  <2>3. DOMAIN F[k].tool_calls = 1..Len(F[k].tool_calls)
    BY <2>2, LenProperties
  <2> QED BY <1>4, <2>3
<1>6. off[i] \in Nat /\ off[i] + (1 + p) \in DOMAIN F /\ F[off[i] + (1 + p)] = e[1 + p]
  BY <1>2, <1>5, RepairedGroups
<1>7. off[i] + (1 + p) = k + p /\ p \in Nat
  <2> HIDE DEF n, F
  <2> QED BY <1>2, <1>4, <1>5, <1>6
<1> QED BY <1>2, <1>4, <1>5, <1>6, <1>7

LEMMA RepairedResults ==
  ASSUME NEW list, WellFormed(list), NEW off, IsLayout(off, Parts(list), Repaired(list)),
         NEW k \in DOMAIN Repaired(list), Repaired(list)[k].role = "tool"
  PROVE  \E i \in DOMAIN list : LET e == Emission(list, i) IN
             \E p \in 1 .. Len(e[1].tool_calls) :
                 /\ e # <<>> /\ off[i] \in Nat /\ k = off[i] + (1 + p)
                 /\ Repaired(list)[k] = e[1 + p]
                 /\ off[i] + 1 \in DOMAIN Repaired(list)
                 /\ Repaired(list)[off[i] + 1] = e[1]
                 /\ p \in DOMAIN e[1].tool_calls
<1> DEFINE F == Repaired(list)
<1>1. PICK i \in DOMAIN list : LET e == Emission(list, i) IN
          /\ e # <<>> /\ off[i] \in Nat
          /\ \/ k = off[i] + 1 /\ F[k] = e[1]
             \/ \E q \in 1 .. Len(e[1].tool_calls) :
                    k = off[i] + (1 + q) /\ F[k] = e[1 + q]
  BY RepairedPositions
<1> DEFINE e == Emission(list, i)
           n == Len(e[1].tool_calls)
<1>2. e # <<>> /\ e[1].role # "tool"
  BY <1>1, EmissionIsGroup
<1>3. PICK p \in 1..n : k = off[i] + (1 + p) /\ F[k] = e[1 + p]
  BY <1>1, <1>2
<1>4. off[i] + 1 \in DOMAIN F /\ F[off[i] + 1] = e[1] /\ off[i] \in Nat
  BY <1>2, RepairedGroups
<1>5. p \in DOMAIN e[1].tool_calls
  <2>1. F[off[i] + 1] \in Message
    <3>1. F \in Seq(Message)
      BY RepairedIsLaidOut
    <3> HIDE DEF F, e
    <3> QED BY <1>4, <3>1, LenProperties
  <2>2. e[1].tool_calls \in Seq(Call)
    BY <1>4, <2>1 DEF Message
  <2>3. DOMAIN e[1].tool_calls = 1..n
    BY <2>2, LenProperties
  <2> QED BY <1>3, <2>3
<1> QED BY <1>2, <1>3, <1>4, <1>5

LEMMA RepairedIsWellFormed ==
  ASSUME NEW list, WellFormed(list)
  PROVE  WellFormed(Repaired(list))
<1> DEFINE F == Repaired(list)
<1>1. PICK off : IsLayout(off, Parts(list), F)
  BY RepairedIsLaidOut
<1>2. ASSUME NEW k \in DOMAIN F
      PROVE  Len(F[k].tool_calls) <= MaxBlock /\ (F[k].role = "tool" => F[k].tool_calls = <<>>)
  <2>1. PICK i \in DOMAIN list : LET e == Emission(list, i) IN
            /\ e # <<>>
            /\ \/ F[k] = e[1]
               \/ \E q \in 1 .. Len(e[1].tool_calls) : F[k] = e[1 + q]
    BY <1>1, RepairedPositions
  <2> DEFINE e == Emission(list, i)
             n == Len(e[1].tool_calls)
  <2>2. /\ n <= MaxBlock /\ e[1].role # "tool"
        /\ \A q \in 1..n : e[1 + q].tool_calls = <<>>
    BY <2>1, EmissionIsGroup
  <2>3. CASE F[k] = e[1]
    BY <2>2, <2>3
  <2>4. CASE \E q \in 1..n : F[k] = e[1 + q]
    <3>1. F[k].tool_calls = <<>>
      BY <2>2, <2>4
    <3> QED BY <3>1, EmptySeq, RepairAssumption
  <2> QED BY <2>1, <2>3, <2>4
<1> QED BY <1>2, RepairedIsLaidOut DEF WellFormed

LEMMA IdSlotsDiffer ==
  ASSUME NEW list, WellFormed(list), NEW i \in DOMAIN list, NEW j \in DOMAIN list,
         NEW p, NEW q, IdSlot(list, i, p) = IdSlot(list, j, q),
         list[i].role = "tool" => p = 1, list[j].role = "tool" => q = 1
  PROVE  i = j /\ p = q
<1>1. Len(list) \in Nat /\ i \in 1..Len(list) /\ j \in 1..Len(list)
  BY MessageParts
<1>2. CASE list[i].role = "tool" /\ list[j].role = "tool"
  <2>1. Len(list) + i = Len(list) + j
    BY <1>2 DEF IdSlot, ToolSlot
  <2> QED BY <1>1, <1>2, <2>1
<1>3. CASE list[i].role = "tool" /\ list[j].role # "tool"
  <2>1. Len(list) + i = j
    BY <1>3 DEF IdSlot, ToolSlot
  <2> QED BY <1>1, <2>1
<1>4. CASE list[i].role # "tool" /\ list[j].role = "tool"
  <2>1. i = Len(list) + j
    BY <1>4 DEF IdSlot, ToolSlot
  <2> QED BY <1>1, <2>1
<1>5. CASE list[i].role # "tool" /\ list[j].role # "tool"
  BY <1>5 DEF IdSlot
<1> QED BY <1>2, <1>3, <1>4, <1>5

LEMMA RepairedIsStrict ==
  ASSUME NEW list, WellFormed(list)
  PROVE  Strict(Repaired(list))
<1> DEFINE F == Repaired(list)
           name == NamesOf(list)
           tools == {k \in DOMAIN F : F[k].role = "tool"}
<1>1. PICK off : IsLayout(off, Parts(list), F)
  BY RepairedIsLaidOut
<1>2. ASSUME NEW k \in DOMAIN F, NEW p \in DOMAIN F[k].tool_calls
      PROVE  /\ k + p \in DOMAIN F /\ F[k + p].role = "tool"
             /\ F[k + p].id = IdOfCall(F, k, p)
             /\ \E i \in DOMAIN list :
                    /\ off[i] \in Nat /\ k = off[i] + 1 /\ p \in Nat
                    /\ 1 + p \in 1 .. Len(Emission(list, i))
                    /\ IdSlot(list, i, p) \in DOMAIN name
                    /\ list[i].role = "tool" => p = 1
                    /\ IdOfCall(F, k, p) = name[IdSlot(list, i, p)]
  <2>1. PICK i \in DOMAIN list : LET e == Emission(list, i) IN
            /\ e # <<>> /\ off[i] \in Nat /\ k = off[i] + 1
            /\ p \in 1 .. Len(e[1].tool_calls) /\ p \in Nat
            /\ F[k] = e[1]
            /\ k + p \in DOMAIN F /\ F[k + p] = e[1 + p]
    BY <1>1, RepairedCalls
  <2> DEFINE e == Emission(list, i)
             n == Len(e[1].tool_calls)
  <2>2. n \in Nat /\ Len(e) = 1 + n
    BY <2>1, EmissionIsGroup
  <2>3. /\ IdSlot(list, i, p) \in DOMAIN name
        /\ list[i].role = "tool" => p = 1
        /\ e[1].tool_calls[p].id = name[IdSlot(list, i, p)]
        /\ e[1 + p].role = "tool" /\ e[1 + p].id = name[IdSlot(list, i, p)]
    BY <2>1, EmissionIsGroup
  <2>4. 1 + p \in 1..Len(e)
    <3>1. p \in 1..n
      BY <2>1
    <3> HIDE DEF e, n
    <3> QED BY <2>2, <3>1
  <2> QED BY <2>1, <2>3, <2>4 DEF IdOfCall
<1>3. ASSUME NEW k \in DOMAIN F, NEW p \in DOMAIN F[k].tool_calls,
             NEW j \in DOMAIN F, NEW q \in DOMAIN F[j].tool_calls,
             IdOfCall(F, j, q) = IdOfCall(F, k, p)
      PROVE  <<j, q>> = <<k, p>>
  <2>1. PICK a \in DOMAIN list :
            /\ k = off[a] + 1 /\ IdSlot(list, a, p) \in DOMAIN name
            /\ list[a].role = "tool" => p = 1
            /\ IdOfCall(F, k, p) = name[IdSlot(list, a, p)]
    BY <1>2
  <2>2. PICK b \in DOMAIN list :
            /\ j = off[b] + 1 /\ IdSlot(list, b, q) \in DOMAIN name
            /\ list[b].role = "tool" => q = 1
            /\ IdOfCall(F, j, q) = name[IdSlot(list, b, q)]
    BY <1>2
  <2>3. IdSlot(list, a, p) = IdSlot(list, b, q)
    BY <1>3, <2>1, <2>2, NamesType
  <2>4. a = b /\ p = q
    BY <2>1, <2>2, <2>3, IdSlotsDiffer
  <2> QED BY <2>1, <2>2, <2>4
<1>4. ASSUME NEW k \in DOMAIN F, NEW p \in DOMAIN F[k].tool_calls
      PROVE  IdOfCall(F, k, p) # NoId
  <2>1. PICK i \in DOMAIN list : /\ IdSlot(list, i, p) \in DOMAIN name
                                 /\ IdOfCall(F, k, p) = name[IdSlot(list, i, p)]
    BY <1>2
  <2>2. \A s \in DOMAIN name : name[s] \in Nat \ {NoId}
    BY NamesType
  <2> HIDE DEF F, name
  <2> QED BY <2>1, <2>2
<1>5. Cardinality(tools) = Cardinality(CallSlots(F))
  <2> DEFINE f == [s \in CallSlots(F) |-> s[1] + s[2]]
  <2>1. WellFormed(F)
    BY RepairedIsWellFormed
  <2>2. \A s \in CallSlots(F) : /\ s = <<s[1], s[2]>> /\ s[1] \in DOMAIN F
                               /\ s[2] \in DOMAIN F[s[1]].tool_calls
    BY <2>1, CallSlotsAre
  <2>3. f \in [CallSlots(F) -> tools]
    <3> HIDE DEF F
    <3> QED BY <1>2, <2>2
  <2>4. ASSUME NEW s \in CallSlots(F), NEW t \in CallSlots(F), f[s] = f[t] PROVE s = t
    <3>1. PICK a \in DOMAIN list :
              /\ off[a] \in Nat /\ s[1] = off[a] + 1 /\ s[2] \in Nat
              /\ 1 + s[2] \in 1 .. Len(Emission(list, a))
      BY <1>2, <2>2
    <3>2. PICK b \in DOMAIN list :
              /\ off[b] \in Nat /\ t[1] = off[b] + 1 /\ t[2] \in Nat
              /\ 1 + t[2] \in 1 .. Len(Emission(list, b))
      BY <1>2, <2>2
    <3>3. off[a] + (1 + s[2]) = off[b] + (1 + t[2])
      <4>1. s[1] + s[2] = t[1] + t[2]
        BY <2>4
      <4> DEFINE x == off[a]
                 y == off[b]
                 m == s[2]
                 n == t[2]
      <4>2. x \in Nat /\ y \in Nat /\ m \in Nat /\ n \in Nat /\ (x + 1) + m = (y + 1) + n
        BY <3>1, <3>2, <4>1
      <4> HIDE DEF x, y, m, n
      <4>3. x + (1 + m) = y + (1 + n)
        BY <4>2
      <4> QED BY <4>3 DEF x, y, m, n
    <3> DEFINE p == 1 + s[2]
               q == 1 + t[2]
    <3>4. p \in 1 .. Len(Emission(list, a)) /\ q \in 1 .. Len(Emission(list, b))
          /\ off[a] + p = off[b] + q
      BY <3>1, <3>2, <3>3
    <3> HIDE DEF p, q
    <3>5. a = b /\ p = q
      BY <1>1, <3>4, PlacesDiffer
    <3>6. s[1] = t[1] /\ s[2] = t[2]
      BY <3>1, <3>2, <3>5 DEF p, q
    <3> QED BY <2>2, <3>6
  <2>5. ASSUME NEW k \in tools PROVE \E s \in CallSlots(F) : f[s] = k
    <3>1. PICK i \in DOMAIN list : LET e == Emission(list, i) IN
              \E p \in 1 .. Len(e[1].tool_calls) :
                  /\ e # <<>> /\ off[i] \in Nat /\ k = off[i] + (1 + p)
                  /\ off[i] + 1 \in DOMAIN F /\ F[off[i] + 1] = e[1]
                  /\ p \in DOMAIN e[1].tool_calls
      BY <1>1, RepairedResults
    <3> DEFINE e == Emission(list, i)
    <3>2. PICK p \in 1 .. Len(e[1].tool_calls) :
              /\ e # <<>> /\ off[i] \in Nat /\ k = off[i] + (1 + p)
              /\ off[i] + 1 \in DOMAIN F /\ F[off[i] + 1] = e[1]
              /\ p \in DOMAIN e[1].tool_calls
      BY <3>1
    <3>3. Len(e[1].tool_calls) \in Nat
      BY <3>2, EmissionIsGroup
    <3>4. <<off[i] + 1, p>> \in CallSlots(F)
      BY <2>1, <3>2, CallSlotsAre
    <3>5. f[<<off[i] + 1, p>>] = k
      <4> DEFINE c == <<off[i] + 1, p>>
                 x == off[i]
      <4>1. f[c] = c[1] + c[2]
        BY <3>4
      <4>2. c[1] = x + 1 /\ c[2] = p /\ k = x + (1 + p) /\ x \in Nat /\ p \in Nat
        BY <3>2, <3>3
      <4> HIDE DEF c, x
      <4>3. c[1] + c[2] = k
        BY <4>2
      <4> QED BY <4>1, <4>3 DEF c
    <3> QED BY <3>4, <3>5
  <2>6. f \in Bijection(CallSlots(F), tools)
    BY <2>3, <2>4, <2>5 DEF Bijection, Injection, Surjection, IsInjective
  <2> HIDE DEF f, tools, F
  <2>7. ExistsBijection(CallSlots(F), tools)
    BY <2>6 DEF ExistsBijection
  <2> QED BY <2>1, <2>7, SlotsType, FS_Bijection
<1> QED BY <1>2, <1>3, <1>4, <1>5 DEF Strict
-----------------------------------------------------------------------------
(* The client's conversation.                                               *)

(* Every result and every call carries the id of its serial, no call is     *)
(* declared twice, and only assistant blocks hold calls.                    *)
Sound(list, ids) ==
    /\ WellFormed(list)
    /\ \A i \in DOMAIN list :
           /\ list[i].role = "tool" => list[i].no \in DOMAIN ids /\ list[i].id = ids[list[i].no]
           /\ list[i].tool_calls # <<>> => list[i] = Block(list[i].tool_calls)
           /\ \A p \in DOMAIN list[i].tool_calls :
                  /\ list[i].tool_calls[p].no \in DOMAIN ids
                  /\ list[i].tool_calls[p].id = ids[list[i].tool_calls[p].no]
    /\ \A i, j \in DOMAIN list :
           \A p \in DOMAIN list[i].tool_calls, q \in DOMAIN list[j].tool_calls :
               list[i].tool_calls[p].no = list[j].tool_calls[q].no => i = j /\ p = q

RepairInv ==
    /\ calls \in Seq(Nat)
    /\ Sound(messages, calls)
    /\ forwarded = <<>> \/ forwarded = Repaired(messages)

(* Moving messages, dropping them or repeating results keeps a list sound.  *)
LEMMA RearrangedIsSound ==
  ASSUME NEW ids, NEW list, Sound(list, ids), NEW new \in Seq(Message),
         NEW h \in [DOMAIN new -> DOMAIN list],
         \A i \in DOMAIN new : new[i] = list[h[i]],
         \A i, j \in DOMAIN new : h[i] = h[j] /\ new[i].tool_calls # <<>> => i = j
  PROVE  Sound(new, ids)
<1>1. WellFormed(new)
  BY DEF Sound, WellFormed
<1>2. ASSUME NEW i \in DOMAIN new
      PROVE  /\ new[i].role = "tool" => new[i].no \in DOMAIN ids /\ new[i].id = ids[new[i].no]
             /\ new[i].tool_calls # <<>> => new[i] = Block(new[i].tool_calls)
             /\ \A p \in DOMAIN new[i].tool_calls :
                    /\ new[i].tool_calls[p].no \in DOMAIN ids
                    /\ new[i].tool_calls[p].id = ids[new[i].tool_calls[p].no]
  <2>1. h[i] \in DOMAIN list /\ new[i] = list[h[i]]
    OBVIOUS
  <2> QED BY <2>1 DEF Sound
<1>3. ASSUME NEW i \in DOMAIN new, NEW j \in DOMAIN new,
             NEW p \in DOMAIN new[i].tool_calls, NEW q \in DOMAIN new[j].tool_calls,
             new[i].tool_calls[p].no = new[j].tool_calls[q].no
      PROVE  i = j /\ p = q
  <2>1. /\ h[i] \in DOMAIN list /\ new[i] = list[h[i]]
        /\ h[j] \in DOMAIN list /\ new[j] = list[h[j]]
    OBVIOUS
  <2>2. h[i] = h[j] /\ p = q
    BY <1>3, <2>1 DEF Sound
  <2>3. new[i].tool_calls # <<>>
    OBVIOUS
  <2> QED BY <2>2, <2>3
<1> QED BY <1>1, <1>2, <1>3 DEF Sound

(* So does a message appended to it, if it is sound itself.                 *)
LEMMA AppendedIsSound ==
  ASSUME NEW ids \in Seq(Nat), NEW more \in Seq(Nat), NEW list, Sound(list, ids), NEW m \in Message,
         Len(m.tool_calls) <= MaxBlock,
         m.role = "tool" => /\ m.tool_calls = <<>>
                            /\ m.no \in DOMAIN ids /\ m.id = ids[m.no],
         m.tool_calls # <<>> => m = Block(m.tool_calls),
         \A p \in DOMAIN m.tool_calls :
             /\ m.tool_calls[p].no = Len(ids) + p
             /\ p \in DOMAIN more /\ m.tool_calls[p].id = more[p]
  PROVE  Sound(Append(list, m), ids \o more)
<1> DEFINE new == Append(list, m)
           all == ids \o more
           last == Len(list) + 1
<1>1. list \in Seq(Message) /\ Len(list) \in Nat /\ DOMAIN list = 1..Len(list)
  BY LenProperties DEF Sound, WellFormed
<1>2. /\ new \in Seq(Message) /\ DOMAIN new = (DOMAIN list) \cup {last} /\ last \notin DOMAIN list
      /\ new[last] = m /\ \A i \in DOMAIN list : new[i] = list[i]
  <2>1. new \in Seq(Message) /\ Len(new) = last /\ new[last] = m
        /\ \A i \in 1..Len(list) : new[i] = list[i]
    BY <1>1, AppendProperties
  <2>2. DOMAIN new = 1..last
    BY <2>1, LenProperties
  <2>3. 1..last = (1..Len(list)) \cup {last} /\ last \notin 1..Len(list)
    BY <1>1
  <2> QED BY <1>1, <2>1, <2>2, <2>3
<1>3. /\ Len(ids) \in Nat /\ Len(more) \in Nat
      /\ DOMAIN ids = 1..Len(ids) /\ DOMAIN more = 1..Len(more)
  BY LenProperties
<1>4. /\ DOMAIN all = 1 .. Len(ids) + Len(more)
      /\ \A n \in DOMAIN ids : n \in DOMAIN all /\ all[n] = ids[n]
      /\ \A p \in DOMAIN more : Len(ids) + p \in DOMAIN all /\ all[Len(ids) + p] = more[p]
  <2>1. /\ all \in Seq(Nat) /\ Len(all) = Len(ids) + Len(more)
        /\ \A n \in 1 .. Len(ids) + Len(more) :
               all[n] = IF n <= Len(ids) THEN ids[n] ELSE more[n - Len(ids)]
    BY ConcatProperties
  <2>2. DOMAIN all = 1 .. Len(ids) + Len(more)
    BY <2>1, LenProperties
  <2> DEFINE a == Len(ids)
             b == Len(more)
  <2> HIDE DEF all, a, b
  <2>3. a \in Nat /\ b \in Nat /\ DOMAIN ids = 1..a /\ DOMAIN more = 1..b /\ DOMAIN all = 1..(a + b)
        /\ \A n \in 1..(a + b) : all[n] = IF n <= a THEN ids[n] ELSE more[n - a]
    BY <1>3, <2>1, <2>2 DEF a, b
  <2>4. ASSUME NEW n \in DOMAIN ids PROVE n \in DOMAIN all /\ all[n] = ids[n]
    BY <2>3
  <2>5. ASSUME NEW p \in DOMAIN more PROVE a + p \in DOMAIN all /\ all[a + p] = more[p]
    <3>1. a + p \in 1..(a + b) /\ ~(a + p <= a) /\ (a + p) - a = p
      BY <2>3
    <3> QED BY <2>3, <3>1
  <2> QED BY <2>2, <2>4, <2>5 DEF a
<1> HIDE DEF new, all, last
<1>5. WellFormed(new)
  BY <1>2 DEF Sound, WellFormed
<1>6. ASSUME NEW i \in DOMAIN new
      PROVE  /\ new[i].role = "tool" => new[i].no \in DOMAIN all /\ new[i].id = all[new[i].no]
             /\ new[i].tool_calls # <<>> => new[i] = Block(new[i].tool_calls)
             /\ \A p \in DOMAIN new[i].tool_calls :
                    /\ new[i].tool_calls[p].no \in DOMAIN all
                    /\ new[i].tool_calls[p].id = all[new[i].tool_calls[p].no]
  <2>1. CASE i \in DOMAIN list
    <3>1. new[i] = list[i]
      BY <1>2, <2>1
    <3> QED BY <1>4, <2>1, <3>1 DEF Sound
  <2>2. CASE i = last
    <3>1. new[i] = m
      BY <1>2, <2>2
    <3> QED BY <1>4, <3>1
  <2> QED BY <1>2, <2>1, <2>2
<1>7. ASSUME NEW i \in DOMAIN new, NEW j \in DOMAIN new,
             NEW p \in DOMAIN new[i].tool_calls, NEW q \in DOMAIN new[j].tool_calls,
             new[i].tool_calls[p].no = new[j].tool_calls[q].no
      PROVE  i = j /\ p = q
  <2>0. \A k \in DOMAIN list : \A r \in DOMAIN list[k].tool_calls :
            list[k].tool_calls[r].no \in 1..Len(ids)
    BY <1>3 DEF Sound
  <2>1. CASE i \in DOMAIN list /\ j \in DOMAIN list
    BY <1>2, <1>7, <2>1 DEF Sound
  <2>2. \A r \in DOMAIN m.tool_calls :
            m.tool_calls[r].no = Len(ids) + r /\ r \in Nat /\ r # 0
    BY <1>3
  <2>3. CASE i = last /\ j = last
    <3>1. Len(ids) + p = Len(ids) + q /\ p \in Nat /\ q \in Nat
      BY <1>2, <1>7, <2>2, <2>3
    <3> QED BY <1>3, <2>3, <3>1
  <2>4. CASE i = last /\ j \in DOMAIN list
    <3>1. Len(ids) + p \in 1..Len(ids) /\ p \in Nat /\ p # 0
      BY <1>2, <1>7, <2>0, <2>2, <2>4
    <3> QED BY <1>3, <3>1
  <2>5. CASE i \in DOMAIN list /\ j = last
    <3>1. Len(ids) + q \in 1..Len(ids) /\ q \in Nat /\ q # 0
      BY <1>2, <1>7, <2>0, <2>2, <2>5
    <3> QED BY <1>3, <3>1
  <2> QED BY <1>2, <2>1, <2>3, <2>4, <2>5
<1> QED BY <1>5, <1>6, <1>7 DEF Sound, new, all

LEMMA RemoveAtIsSound ==
  ASSUME NEW ids, NEW list, Sound(list, ids), NEW i \in DOMAIN list
  PROVE  Sound(RemoveAt(list, i), ids)
<1> DEFINE n == Len(list)
           left == SubSeq(list, 1, i - 1)
           right == SubSeq(list, i + 1, n)
           new == left \o right
           h == [k \in 1..(n - 1) |-> IF k < i THEN k ELSE k + 1]
<1>1. list \in Seq(Message) /\ n \in Nat /\ DOMAIN list = 1..n /\ i \in 1..n
      /\ \A k \in 1..n : list[k] \in Message
  BY LenProperties DEF Sound, WellFormed
<1> HIDE DEF n
<1>2. /\ left \in Seq(Message) /\ Len(left) = i - 1
      /\ \A k \in 1..(i - 1) : left[k] = list[k]
  <2>1. 1 \in Int /\ i - 1 \in Int /\ \A k \in 1..(i - 1) : list[k] \in Message
    BY <1>1
  <2>2. /\ left \in Seq(Message) /\ Len(left) = IF 1 <= i - 1 THEN (i - 1) - 1 + 1 ELSE 0
        /\ \A k \in 1 .. (i - 1) - 1 + 1 : left[k] = list[1 + k - 1]
    BY <2>1, SubSeqProperties
  <2> HIDE DEF left
  <2>3. Len(left) = i - 1
    BY <1>1, <2>2
  <2>4. ASSUME NEW k \in 1..(i - 1) PROVE left[k] = list[k]
    <3>1. k \in 1 .. (i - 1) - 1 + 1 /\ 1 + k - 1 = k
      BY <1>1
    <3> QED BY <2>2, <3>1
  <2> QED BY <2>2, <2>3, <2>4
<1>3. /\ right \in Seq(Message) /\ Len(right) = n - i
      /\ \A k \in 1..(n - i) : right[k] = list[i + k]
  <2>1. i + 1 \in Int /\ n \in Int /\ \A k \in (i + 1)..n : list[k] \in Message
    BY <1>1
  <2>2. /\ right \in Seq(Message) /\ Len(right) = IF i + 1 <= n THEN n - (i + 1) + 1 ELSE 0
        /\ \A k \in 1 .. n - (i + 1) + 1 : right[k] = list[(i + 1) + k - 1]
    BY <2>1, SubSeqProperties
  <2> HIDE DEF right
  <2>3. Len(right) = n - i
    BY <1>1, <2>2
  <2>4. ASSUME NEW k \in 1..(n - i) PROVE right[k] = list[i + k]
    <3>1. k \in 1 .. n - (i + 1) + 1 /\ (i + 1) + k - 1 = i + k
      BY <1>1
    <3> QED BY <2>2, <3>1
  <2> QED BY <2>2, <2>3, <2>4
<1>4. RemoveAt(list, i) = new
  BY DEF RemoveAt, n
<1> HIDE DEF left, right
<1>5. /\ new \in Seq(Message) /\ Len(new) = Len(left) + Len(right)
      /\ \A k \in 1 .. Len(left) + Len(right) :
             new[k] = IF k <= Len(left) THEN left[k] ELSE right[k - Len(left)]
  BY <1>2, <1>3, ConcatProperties
<1> HIDE DEF new
<1>6. DOMAIN new = 1..(n - 1)
  <2>1. DOMAIN new = 1..Len(new)
    BY <1>5, LenProperties
  <2>2. Len(new) = n - 1
    BY <1>1, <1>2, <1>3, <1>5
  <2> QED BY <2>1, <2>2
<1>7. h \in [DOMAIN new -> DOMAIN list]
  BY <1>1, <1>6
<1>8. ASSUME NEW k \in DOMAIN new PROVE new[k] = list[h[k]]
  <2>0. k \in 1..(n - 1) /\ Len(left) + Len(right) = n - 1
    BY <1>1, <1>2, <1>3, <1>6
  <2>1. CASE k < i
    <3>1. k \in 1..(i - 1)
      BY <1>1, <2>0, <2>1
    <3>2. new[k] = left[k]
      BY <1>1, <1>2, <1>5, <2>0, <3>1
    <3> QED BY <1>2, <2>0, <2>1, <3>1, <3>2
  <2>2. CASE ~(k < i)
    <3>1. k - (i - 1) \in 1..(n - i) /\ i + (k - (i - 1)) = k + 1 /\ ~(k <= i - 1)
      BY <1>1, <2>0, <2>2
    <3>2. new[k] = right[k - (i - 1)]
      BY <1>2, <1>5, <2>0, <3>1
    <3>3. new[k] = list[k + 1]
      BY <1>3, <3>1, <3>2
    <3> QED BY <2>0, <2>2, <3>3
  <2> QED BY <2>1, <2>2
<1>9. \A j, k \in DOMAIN new : h[j] = h[k] => j = k
  <2> SUFFICES ASSUME NEW j \in DOMAIN new, NEW k \in DOMAIN new, h[j] = h[k] PROVE j = k
    OBVIOUS
  <2>1. j \in 1..(n - 1) /\ k \in 1..(n - 1)
    BY <1>6
  <2>2. j \in Nat /\ k \in Nat /\ i \in Nat
    BY <1>1, <2>1
  <2>3. (IF j < i THEN j ELSE j + 1) = (IF k < i THEN k ELSE k + 1)
    BY <2>1
  <2> HIDE DEF new, h
  <2> QED BY <2>2, <2>3
<1> HIDE DEF h, new
<1>10. Sound(new, ids)
  <2>1. \A j, k \in DOMAIN new : h[j] = h[k] /\ new[j].tool_calls # <<>> => j = k
    BY <1>9
  <2>2. \A k \in DOMAIN new : new[k] = list[h[k]]
    BY <1>8
  <2> QED BY <1>5, <1>7, <2>1, <2>2, RearrangedIsSound, ZenonT(40)
<1> QED BY <1>4, <1>10

LEMMA ReorderIsSound ==
  ASSUME NEW ids, NEW list, Sound(list, ids), NEW i \in DOMAIN list, i + 1 \in DOMAIN list
  PROVE  Sound([list EXCEPT ![i] = list[i + 1], ![i + 1] = list[i]], ids)
<1> DEFINE new == [list EXCEPT ![i] = list[i + 1], ![i + 1] = list[i]]
           h == [k \in DOMAIN list |-> IF k = i THEN i + 1 ELSE IF k = i + 1 THEN i ELSE k]
<1>1. list \in Seq(Message) /\ Len(list) \in Nat /\ DOMAIN list = 1..Len(list) /\ i + 1 # i
  BY LenProperties DEF Sound, WellFormed
<1>2. /\ DOMAIN new = DOMAIN list /\ new = [k \in DOMAIN list |-> list[h[k]]]
      /\ h \in [DOMAIN new -> DOMAIN list]
  BY <1>1
<1>3. new \in Seq(Message)
  <2>1. \A k \in 1..Len(list) : list[k] \in Message
    BY <1>1
  <2>2. new \in [1..Len(list) -> Message]
    <3> HIDE DEF new
    <3> QED BY <1>1, <1>2, <2>1
  <2> HIDE DEF new
  <2> QED BY <1>1, <2>2
<1>4. \A j, k \in DOMAIN list : h[j] = h[k] => j = k
  BY <1>1
<1> HIDE DEF new, h
<1>5. \A k \in DOMAIN new : new[k] = list[h[k]]
  BY <1>2
<1>6. Sound(new, ids)
  BY <1>2, <1>3, <1>4, <1>5, RearrangedIsSound
<1> QED BY <1>6 DEF new

LEMMA RepeatIsSound ==
  ASSUME NEW ids, NEW list, Sound(list, ids), NEW i \in DOMAIN list, list[i].role = "tool"
  PROVE  Sound(InsertAt(list, i, list[i]), ids)
<1> DEFINE n == Len(list)
           left == SubSeq(list, 1, i - 1)
           right == SubSeq(list, i, n)
           most == left \o <<list[i]>>
           new == most \o right
           h == [k \in 1..(n + 1) |-> IF k <= i THEN k ELSE k - 1]
<1>1. list \in Seq(Message) /\ n \in Nat /\ DOMAIN list = 1..n /\ i \in 1..n
      /\ \A k \in 1..n : list[k] \in Message
  BY LenProperties DEF Sound, WellFormed
<1> HIDE DEF n
<1>2. /\ left \in Seq(Message) /\ Len(left) = i - 1
      /\ \A k \in 1..(i - 1) : left[k] = list[k]
  <2>1. 1 \in Int /\ i - 1 \in Int /\ \A k \in 1..(i - 1) : list[k] \in Message
    BY <1>1
  <2>2. /\ left \in Seq(Message) /\ Len(left) = IF 1 <= i - 1 THEN (i - 1) - 1 + 1 ELSE 0
        /\ \A k \in 1 .. (i - 1) - 1 + 1 : left[k] = list[1 + k - 1]
    BY <2>1, SubSeqProperties
  <2> HIDE DEF left
  <2>3. Len(left) = i - 1
    BY <1>1, <2>2
  <2>4. ASSUME NEW k \in 1..(i - 1) PROVE left[k] = list[k]
    <3>1. k \in 1 .. (i - 1) - 1 + 1 /\ 1 + k - 1 = k
      BY <1>1
    <3> QED BY <2>2, <3>1
  <2> QED BY <2>2, <2>3, <2>4
<1>3. /\ right \in Seq(Message) /\ Len(right) = n - i + 1
      /\ \A k \in 1..(n - i + 1) : right[k] = list[i + k - 1]
  <2>1. i \in Int /\ n \in Int /\ \A k \in i..n : list[k] \in Message
    BY <1>1
  <2>2. /\ right \in Seq(Message) /\ Len(right) = IF i <= n THEN n - i + 1 ELSE 0
        /\ \A k \in 1 .. n - i + 1 : right[k] = list[i + k - 1]
    BY <2>1, SubSeqProperties
  <2> HIDE DEF right
  <2> QED BY <1>1, <2>2
<1>4. InsertAt(list, i, list[i]) = new
  BY DEF InsertAt, n
<1> HIDE DEF left, right
<1>5. /\ most \in Seq(Message) /\ Len(most) = i
      /\ \A k \in 1..i : most[k] = list[k]
  <2> DEFINE one == <<list[i]>>
  <2>1. one \in Seq(Message) /\ Len(one) = 1 /\ one[1] = list[i]
    BY <1>1
  <2> HIDE DEF one
  <2>2. /\ left \o one \in Seq(Message) /\ Len(left \o one) = Len(left) + Len(one)
        /\ \A k \in 1 .. Len(left) + Len(one) :
               (left \o one)[k] = IF k <= Len(left) THEN left[k] ELSE one[k - Len(left)]
    BY <1>2, <2>1, ConcatProperties
  <2>3. most = left \o one
    BY DEF one
  <2> HIDE DEF most
  <2>4. Len(left) + Len(one) = i /\ most \in Seq(Message) /\ Len(most) = i
    BY <1>1, <1>2, <2>1, <2>2, <2>3
  <2>5. ASSUME NEW k \in 1..i PROVE most[k] = list[k]
    <3>1. most[k] = IF k <= i - 1 THEN left[k] ELSE one[k - (i - 1)]
      BY <1>2, <2>2, <2>3, <2>4
    <3>2. CASE k <= i - 1
      <4>1. k \in 1..(i - 1)
        BY <1>1, <3>2
      <4> QED BY <1>2, <3>1, <3>2, <4>1
    <3>3. CASE ~(k <= i - 1)
      <4>1. k = i /\ k - (i - 1) = 1
        BY <1>1, <3>3
      <4> QED BY <2>1, <3>1, <3>3, <4>1
    <3> QED BY <3>2, <3>3
  <2> QED BY <2>4, <2>5
<1> HIDE DEF most
<1>6. /\ new \in Seq(Message) /\ Len(new) = Len(most) + Len(right)
      /\ \A k \in 1 .. Len(most) + Len(right) :
             new[k] = IF k <= Len(most) THEN most[k] ELSE right[k - Len(most)]
  BY <1>3, <1>5, ConcatProperties
<1> HIDE DEF new
<1>7. DOMAIN new = 1..(n + 1)
  <2>1. DOMAIN new = 1..Len(new)
    BY <1>6, LenProperties
  <2>2. Len(new) = n + 1
    BY <1>1, <1>3, <1>5, <1>6
  <2> QED BY <2>1, <2>2
<1>8. h \in [DOMAIN new -> DOMAIN list]
  BY <1>1, <1>7
<1>9. ASSUME NEW k \in DOMAIN new PROVE new[k] = list[h[k]]
  <2>0. k \in 1..(n + 1) /\ Len(most) + Len(right) = n + 1
    BY <1>1, <1>3, <1>5, <1>7
  <2>1. CASE k <= i
    <3>1. k \in 1..i
      BY <2>0, <2>1
    <3>2. new[k] = most[k]
      BY <1>5, <1>6, <2>0, <2>1
    <3> QED BY <1>5, <2>0, <2>1, <3>1, <3>2
  <2>2. CASE ~(k <= i)
    <3>1. k - i \in 1..(n - i + 1) /\ i + (k - i) - 1 = k - 1
      BY <1>1, <2>0, <2>2
    <3>2. new[k] = right[k - i]
      BY <1>5, <1>6, <2>0, <2>2
    <3>3. new[k] = list[k - 1]
      BY <1>3, <3>1, <3>2
    <3> QED BY <2>0, <2>2, <3>3
  <2> QED BY <2>1, <2>2
<1>10. ASSUME NEW j \in DOMAIN new, NEW k \in DOMAIN new, h[j] = h[k], new[j].tool_calls # <<>>
       PROVE  j = k
  <2>1. h[j] # i
    <3> SUFFICES ASSUME h[j] = i PROVE FALSE
      OBVIOUS
    <3>1. new[j] = list[i]
      BY <1>9
    <3>2. list[i].tool_calls = <<>>
      BY DEF Sound, WellFormed
    <3> QED BY <1>10, <3>1, <3>2
  <2> QED BY <1>1, <1>7, <1>10, <2>1
<1> HIDE DEF h
<1>11. /\ \A k \in DOMAIN new : new[k] = list[h[k]]
       /\ \A j, k \in DOMAIN new : h[j] = h[k] /\ new[j].tool_calls # <<>> => j = k
       /\ new \in Seq(Message) /\ h \in [DOMAIN new -> DOMAIN list]
  BY <1>6, <1>8, <1>9, <1>10
<1>12. Sound(new, ids)
  BY <1>11, RearrangedIsSound
<1> QED BY <1>4, <1>12

LEMMA RepairInit == Init => RepairInv
<1> SUFFICES ASSUME Init PROVE RepairInv
  OBVIOUS
<1>1. calls \in Seq(Nat) /\ messages \in Seq(Message) /\ DOMAIN messages = {} /\ forwarded = <<>>
  BY EmptySeq DEF Init
<1>2. WellFormed(messages)
  BY <1>1 DEF WellFormed
<1> QED BY <1>1, <1>2 DEF RepairInv, Sound

LEMMA SpeakKeeps == ASSUME RepairInv, Speak PROVE RepairInv'
<1>1. calls \in Seq(Nat) /\ Sound(messages, calls)
  BY DEF RepairInv
<1> DEFINE m == Text("user")
<1>2. m = [role |-> "user", tool_calls |-> <<>>, id |-> 0, no |-> 0]
  BY DEF Text, NoId, Fabricated
<1>3. <<>> \in Seq(Call) /\ <<>> \in Seq(Nat) /\ Len(<<>>) = 0 /\ DOMAIN <<>> = {}
  BY EmptySeq
<1> HIDE DEF m
<1>4. m \in Message /\ m.tool_calls = <<>> /\ m.role # "tool"
  BY <1>2, <1>3 DEF Message
<1>5. Sound(Append(messages, m), calls \o <<>>)
  <2>1. Len(m.tool_calls) <= MaxBlock /\ \A p \in DOMAIN m.tool_calls : FALSE
    BY <1>3, <1>4, RepairAssumption
  <2> QED BY <1>1, <1>3, <1>4, <2>1, AppendedIsSound
<1>6. calls \o <<>> = calls
  BY <1>1, ConcatEmptySeq
<1>7. messages' = Append(messages, m) /\ calls' = calls /\ forwarded' = <<>>
  BY DEF Speak, m
<1> QED BY <1>1, <1>5, <1>6, <1>7 DEF RepairInv

LEMMA ResultIs ==
  ASSUME NEW id \in Nat, NEW no \in Nat
  PROVE  /\ Result(id, no) \in Message
         /\ Result(id, no).role = "tool" /\ Result(id, no).tool_calls = <<>>
         /\ Result(id, no).id = id /\ Result(id, no).no = no
<1>1. Text("tool") \in Message
  BY DEF Text, Message, Call, NoId, Fabricated
<1>2. Result(id, no) \in Message
  BY <1>1 DEF Result, Message
<1> QED BY <1>2 DEF Result, Text

LEMMA AnswerKeeps == ASSUME RepairInv, NEW n \in DOMAIN calls, Answer(n) PROVE RepairInv'
<1>1. calls \in Seq(Nat) /\ Sound(messages, calls)
  BY DEF RepairInv
<1> DEFINE m == Result(calls[n], n)
<1> HIDE DEF m
<1>3. <<>> \in Seq(Call) /\ <<>> \in Seq(Nat) /\ Len(<<>>) = 0 /\ DOMAIN <<>> = {}
  BY EmptySeq
<1>4. n \in Nat /\ calls[n] \in Nat
  BY <1>1, LenProperties
<1>5. m \in Message /\ m.tool_calls = <<>> /\ m.no = n /\ m.id = calls[n]
  BY <1>4, ResultIs DEF m
<1>6. Sound(Append(messages, m), calls \o <<>>)
  <2>1. Len(m.tool_calls) <= MaxBlock /\ \A p \in DOMAIN m.tool_calls : FALSE
    BY <1>3, <1>5, RepairAssumption
  <2> QED BY <1>1, <1>3, <1>5, <2>1, AppendedIsSound
<1>7. calls \o <<>> = calls
  BY <1>1, ConcatEmptySeq
<1>8. messages' = Append(messages, m) /\ calls' = calls /\ forwarded' = <<>>
  BY DEF Answer, m
<1> QED BY <1>1, <1>6, <1>7, <1>8 DEF RepairInv

LEMMA DeclareKeeps ==
  ASSUME RepairInv, NEW n \in 1..MaxBlock, NEW all \in [1..MaxBlock -> ClientIds \cup {NoId}],
         Declare(SubSeq(all, 1, n))
  PROVE  RepairInv'
<1>1. calls \in Seq(Nat) /\ Sound(messages, calls) /\ Len(calls) \in Nat
  BY LenProperties DEF RepairInv
<1> DEFINE ids == SubSeq(all, 1, n)
           block == [p \in DOMAIN ids |-> [id |-> ids[p], no |-> Len(calls) + p]]
           m == Block(block)
<1>2. ids \in Seq(Nat) /\ Len(ids) = n /\ DOMAIN ids = 1..n
  <2>1. 1 \in Int /\ n \in Int /\ \A k \in 1..n : all[k] \in Nat
    <3>1. n \in Int /\ \A k \in 1..n : k \in 1..MaxBlock
      BY RepairAssumption
    <3>2. ClientIds \cup {NoId} \subseteq Nat
      BY RepairAssumption DEF NoId
    <3> QED BY <3>1, <3>2
  <2>2. ids \in Seq(Nat) /\ Len(ids) = IF 1 <= n THEN n - 1 + 1 ELSE 0
    BY <2>1, SubSeqProperties
  <2> HIDE DEF ids
  <2>3. Len(ids) = n
    BY <2>2, RepairAssumption
  <2> QED BY <2>2, <2>3, LenProperties
<1> HIDE DEF ids
<1>3. block \in Seq(Call) /\ Len(block) = n /\ DOMAIN block = 1..n
  <2>1. \A p \in 1..n : ids[p] \in Nat /\ Len(calls) + p \in Nat
    BY <1>1, <1>2
  <2>2. block \in [1..n -> Call]
    BY <1>2, <2>1 DEF Call
  <2> HIDE DEF block
  <2>3. n \in Nat
    BY RepairAssumption
  <2> QED BY <2>2, <2>3
<1>4. \A p \in 1..n : block[p].no = Len(calls) + p /\ block[p].id = ids[p]
  BY <1>2
<1> HIDE DEF block
<1>5. m = [role |-> "assistant", tool_calls |-> block, id |-> 0, no |-> 0]
  BY DEF Block, Text, NoId, Fabricated
<1>6. m \in Message /\ m.tool_calls = block /\ m.role # "tool" /\ m = Block(m.tool_calls)
  BY <1>3, <1>5 DEF Message
<1> HIDE DEF m
<1>7. n <= MaxBlock
  BY RepairAssumption
<1>8. Sound(Append(messages, m), calls \o ids)
  BY <1>1, <1>2, <1>3, <1>4, <1>6, <1>7, AppendedIsSound
<1>9. messages' = Append(messages, m) /\ calls' = calls \o ids /\ forwarded' = <<>>
  BY DEF Declare, m, block, ids
<1>10. calls \o ids \in Seq(Nat)
  BY <1>1, <1>2, ConcatProperties
<1> QED BY <1>8, <1>9, <1>10 DEF RepairInv

LEMMA RepairNext == ASSUME RepairInv, [Next]_vars PROVE RepairInv'
<1>1. CASE Speak
  BY <1>1, SpeakKeeps
<1>2. ASSUME NEW n \in 1..MaxBlock, NEW ids \in [1..MaxBlock -> ClientIds \cup {NoId}],
             Declare(SubSeq(ids, 1, n))
      PROVE  RepairInv'
  BY <1>2, DeclareKeeps
<1>3. ASSUME NEW n \in DOMAIN calls, Answer(n) PROVE RepairInv'
  BY <1>3, AnswerKeeps
<1>4. ASSUME NEW i \in DOMAIN messages, Compact(i) PROVE RepairInv'
  BY <1>4, RemoveAtIsSound DEF RepairInv, Compact, Faulty
<1>5. ASSUME NEW i \in DOMAIN messages, Reorder(i) PROVE RepairInv'
  BY <1>5, ReorderIsSound DEF RepairInv, Reorder, Faulty
<1>6. ASSUME NEW i \in DOMAIN messages, Repeat(i) PROVE RepairInv'
  BY <1>6, RepeatIsSound DEF RepairInv, Repeat, Faulty
<1>7. CASE PreCall
  BY <1>7 DEF RepairInv, PreCall, clientVars
<1>8. CASE UNCHANGED vars
  BY <1>8 DEF RepairInv, vars, clientVars
<1> QED BY <1>1, <1>2, <1>3, <1>4, <1>5, <1>6, <1>7, <1>8 DEF Next

LEMMA RepairInvariant == Spec => []RepairInv
<1>1. RepairInv /\ [Next]_vars => RepairInv'
  BY RepairNext
<1> QED BY RepairInit, <1>1, PTL DEF Spec

LEMMA EmptyIsWellFormed == WellFormed(<<>>) /\ Strict(<<>>)
<1>1. <<>> \in Seq(Message) /\ DOMAIN <<>> = {}
  BY EmptySeq
<1>2. WellFormed(<<>>)
  BY <1>1 DEF WellFormed
<1>3. CallSlots(<<>>) = {}
  BY <1>1, <1>2, CallSlotsAre
<1>4. {i \in DOMAIN <<>> : <<>>[i].role = "tool"} = {}
  BY <1>1
<1> QED BY <1>1, <1>2, <1>3, <1>4 DEF Strict

(* However the client mangled its history, what the hook forwards meets the *)
(* strict contract of the upstream validators.                              *)
THEOREM ForwardsStrictLists == Spec => []StrictContract
<1>1. RepairInv => StrictContract
  BY RepairedIsStrict, EmptyIsWellFormed DEF RepairInv, Sound, StrictContract
<1> QED BY <1>1, RepairInvariant, PTL
-----------------------------------------------------------------------------
(* Who answers whom.                                                        *)

LEMMA PairsMatch ==
  ASSUME NEW list, WellFormed(list), NEW x \in Pairs(list), NEW y \in Pairs(list)
  PROVE  x[1] = y[1] <=> x[2] = y[2]
<1> DEFINE calling == CallSlots(list)
           answering == ResultSlots(list)
<1>1. /\ x[1] \in calling /\ y[1] \in calling /\ x[2] \in answering /\ y[2] \in answering
      /\ Orig(list, x[1]) = Orig(list, x[2]) /\ Orig(list, y[1]) = Orig(list, y[2])
      /\ Rank(list, calling, x[1]) = Rank(list, answering, x[2])
      /\ Rank(list, calling, y[1]) = Rank(list, answering, y[2])
  BY PairsAre DEF Match
<1>2. /\ IsFiniteSet(calling) /\ calling \subseteq Nat \X Nat
      /\ IsFiniteSet(answering) /\ answering \subseteq Nat \X Nat
  BY SlotsType
<1> HIDE DEF calling, answering
<1>3. ASSUME x[1] = y[1] PROVE x[2] = y[2]
  BY <1>1, <1>2, <1>3, RanksDiffer
<1>4. ASSUME x[2] = y[2] PROVE x[1] = y[1]
  BY <1>1, <1>2, <1>4, RanksDiffer
<1> QED BY <1>3, <1>4

LEMMA AnswerOfUnanswered ==
  ASSUME NEW list, WellFormed(list), NEW c \in CallSlots(list), c \in Unanswered(list, Pairs(list))
  PROVE  AnswerOf(list, c).no = Fabricated
<1>1. AnswerOf(list, c) = Result(NamesOf(list)[c], Fabricated)
  BY DEF AnswerOf, AnswerTo
<1>2. NamesOf(list)[c] \in Nat
  BY NamesType
<1> QED BY <1>1, <1>2, ResultIs DEF Fabricated

LEMMA AnswerOfAnswered ==
  ASSUME NEW list, WellFormed(list), NEW c \in CallSlots(list), c \notin Unanswered(list, Pairs(list))
  PROVE  \E j \in DOMAIN list :
             /\ list[j].role = "tool" /\ <<c, ToolSlot(list, j)>> \in Pairs(list)
             /\ AnswerOf(list, c) = [list[j] EXCEPT !.id = NamesOf(list)[c]]
             /\ AnswerOf(list, c).no = list[j].no
             /\ Orig(list, c) = list[j].id
<1> DEFINE pair == CHOOSE pair \in Pairs(list) : pair[1] = c
<1>1. pair \in Pairs(list) /\ pair[1] = c
  BY DEF Unanswered
<1>2. AnswerOf(list, c) = [ResultAt(list, pair[2]) EXCEPT !.id = NamesOf(list)[c]]
  BY DEF AnswerOf, AnswerTo
<1> HIDE DEF pair
<1>3. pair[2] \in ResultSlots(list) /\ <<c, pair[2]>> \in Pairs(list)
  BY <1>1, PairsAre
<1>4. PICK j \in DOMAIN list :
          /\ pair[2] = ToolSlot(list, j) /\ ResultAt(list, pair[2]) = list[j]
          /\ list[j] \in Message /\ list[j].role = "tool"
  BY <1>3, ResultAtIs
<1>5. AnswerOf(list, c).no = list[j].no
  BY <1>2, <1>4 DEF Message
<1>6. Orig(list, c) = list[j].id
  <2>1. Orig(list, c) = Orig(list, pair[2])
    BY <1>1, PairsAre DEF Match
  <2>2. pair[2] \notin CallSlots(list)
    BY <1>3, SlotsType
  <2> QED BY <1>4, <2>1, <2>2 DEF Orig
<1> QED BY <1>2, <1>3, <1>4, <1>5, <1>6

LEMMA OrigOfCall ==
  ASSUME NEW list, WellFormed(list), NEW c \in CallSlots(list)
  PROVE  Orig(list, c) = list[c[1]].tool_calls[c[2]].id
  BY DEF Orig, CallAt

LEMMA OrigOfResult ==
  ASSUME NEW list, WellFormed(list), NEW j \in DOMAIN list, list[j].role = "tool"
  PROVE  /\ ToolSlot(list, j) \in ResultSlots(list) /\ ToolSlot(list, j) \notin CallSlots(list)
         /\ Orig(list, ToolSlot(list, j)) = list[j].id
<1>1. ToolSlot(list, j) \in ResultSlots(list)
  BY ResultSlotsAre DEF ToolSlot
<1>2. ToolSlot(list, j) \notin CallSlots(list)
  BY <1>1, SlotsType
<1>3. ToolSlot(list, j)[1] - Len(list) = j
  <2>1. Len(list) \in Nat /\ j \in Nat
    BY MessageParts
  <2>2. ToolSlot(list, j)[1] = Len(list) + j
    BY DEF ToolSlot
  <2> QED BY <2>1, <2>2
<1> QED BY <1>1, <1>2, <1>3 DEF Orig, ResultAt

LEMMA ToolSlotsDiffer ==
  ASSUME NEW list, WellFormed(list), NEW i \in DOMAIN list, NEW j \in DOMAIN list,
         ToolSlot(list, i) = ToolSlot(list, j)
  PROVE  i = j
<1>1. Len(list) \in Nat /\ i \in Nat /\ j \in Nat
  BY MessageParts
<1>2. Len(list) + i = Len(list) + j
  BY DEF ToolSlot
<1> QED BY <1>1, <1>2

(* The first slot of an id has rank 0.                                      *)
LEMMA FirstOfId ==
  ASSUME NEW list, NEW slots, IsFiniteSet(slots), slots \subseteq Nat \X Nat, NEW s \in slots
  PROVE  \E t \in slots : Orig(list, t) = Orig(list, s) /\ Rank(list, slots, t) = 0
<1> DEFINE same == {t \in slots : Orig(list, t) = Orig(list, s)}
           ranks == {Rank(list, slots, t) : t \in same}
<1>1. ranks \subseteq Nat /\ ranks # {}
  BY RanksDiffer
<1>2. PICK n \in ranks : \A m \in ranks : n <= m
  BY <1>1, LeastNatural
<1>3. PICK t \in same : Rank(list, slots, t) = n
  BY <1>2
<1>4. ASSUME n # 0 PROVE FALSE
  <2> DEFINE earlier == {u \in slots : Before(u, t) /\ Orig(list, u) = Orig(list, t)}
  <2>1. Cardinality(earlier) # 0
    BY <1>3, <1>4 DEF Rank
  <2>2. earlier # {}
    BY <2>1, FS_EmptySet
  <2>3. PICK u \in slots : Before(u, t) /\ Orig(list, u) = Orig(list, t)
    BY <2>2
  <2>4. Rank(list, slots, u) < Rank(list, slots, t) /\ Rank(list, slots, u) \in Nat
    BY <2>3, RanksDiffer
  <2>5. Rank(list, slots, u) \in ranks
    BY <1>3, <2>3
  <2>6. n <= Rank(list, slots, u) /\ n \in Nat
    BY <1>1, <1>2, <2>5
  <2> QED BY <1>3, <2>4, <2>6
<1> QED BY <1>3, <1>4

(* When every call has an id of its own, it gets its result if the list     *)
(* holds one, and a placeholder if it does not.                             *)
LEMMA AnswersMatch ==
  ASSUME NEW list, NEW ids, Sound(list, ids),
         \A n, m \in DOMAIN ids : ids[n] # NoId /\ (ids[n] = ids[m] => n = m),
         NEW c \in CallSlots(list)
  PROVE  LET n == list[c[1]].tool_calls[c[2]].no
         IN  AnswerOf(list, c).no =
                 IF \E j \in DOMAIN list : list[j].role = "tool" /\ list[j].no = n
                 THEN n ELSE Fabricated
<1> DEFINE n == list[c[1]].tool_calls[c[2]].no
           calling == CallSlots(list)
           answering == ResultSlots(list)
<1>0. WellFormed(list)
  BY DEF Sound
<1>1. \A s \in calling : /\ s = <<s[1], s[2]>> /\ s[1] \in DOMAIN list
                        /\ s[2] \in DOMAIN list[s[1]].tool_calls
                        /\ list[s[1]].tool_calls[s[2]].no \in DOMAIN ids
                        /\ Orig(list, s) = ids[list[s[1]].tool_calls[s[2]].no]
  BY <1>0, CallSlotsAre, OrigOfCall DEF Sound
<1>2. n \in DOMAIN ids /\ Orig(list, c) = ids[n] /\ Orig(list, c) # NoId
  BY <1>1
<1>3. ASSUME NEW s \in calling, Orig(list, s) = Orig(list, c) PROVE s = c
  <2>1. list[s[1]].tool_calls[s[2]].no = n
    BY <1>1, <1>2, <1>3
  <2>2. s[1] = c[1] /\ s[2] = c[2]
    BY <1>1, <2>1 DEF Sound
  <2> QED BY <1>1, <2>2
<1>4. Rank(list, calling, c) = 0
  <2>1. PICK t \in calling : Orig(list, t) = Orig(list, c) /\ Rank(list, calling, t) = 0
    BY <1>0, SlotsType, FirstOfId
  <2> QED BY <1>3, <2>1
<1>5. CASE c \notin Unanswered(list, Pairs(list))
  <2>1. PICK j \in DOMAIN list :
            /\ list[j].role = "tool" /\ AnswerOf(list, c).no = list[j].no
            /\ Orig(list, c) = list[j].id
    BY <1>0, <1>5, AnswerOfAnswered
  <2>2. list[j].no \in DOMAIN ids /\ list[j].id = ids[list[j].no]
    BY <2>1 DEF Sound
  <2>3. list[j].no = n
    BY <1>2, <2>1, <2>2
  <2> QED BY <2>1, <2>3
<1>6. CASE c \in Unanswered(list, Pairs(list))
  <2>1. ASSUME NEW j \in DOMAIN list, list[j].role = "tool", list[j].no = n PROVE FALSE
    <3>1. /\ ToolSlot(list, j) \in answering
          /\ Orig(list, ToolSlot(list, j)) = Orig(list, c)
      BY <1>0, <1>2, <2>1, OrigOfResult DEF Sound
    <3>2. PICK r \in answering : Orig(list, r) = Orig(list, c) /\ Rank(list, answering, r) = 0
      BY <1>0, <3>1, SlotsType, FirstOfId
    <3>3. <<c, r>> \in Pairs(list)
      BY <1>2, <1>4, <3>2, PairsAre DEF Match
    <3> QED BY <1>6, <3>3 DEF Unanswered
  <2>2. AnswerOf(list, c).no = Fabricated
    BY <1>0, <1>6, AnswerOfUnanswered
  <2> QED BY <2>1, <2>2
<1> QED BY <1>5, <1>6

LEMMA ResultsForPositive ==
  ASSUME NEW list, WellFormed(list), NEW n
  PROVE  /\ ResultsFor(list, n) \in Nat
         /\ ResultsFor(list, n) > 0 <=> \E j \in DOMAIN list : list[j].role = "tool" /\ list[j].no = n
<1> DEFINE S == {i \in DOMAIN list : list[i].role = "tool" /\ list[i].no = n}
<1>1. IsFiniteSet(DOMAIN list)
  <2>1. DOMAIN list = 1..Len(list) /\ Len(list) \in Nat
    BY LenProperties DEF WellFormed
  <2> QED BY <2>1, FS_Interval
<1>2. IsFiniteSet(S)
  BY <1>1, FS_Subset
<1>3. ResultsFor(list, n) = Cardinality(S)
  BY DEF ResultsFor
<1>4. Cardinality(S) \in Nat /\ (Cardinality(S) = 0 <=> S = {})
  BY <1>2, FS_CardinalityType, FS_EmptySet
<1>5. S # {} <=> \E j \in DOMAIN list : list[j].role = "tool" /\ list[j].no = n
  OBVIOUS
<1> HIDE DEF S
<1> QED BY <1>3, <1>4, <1>5

(* While the client gives every call its own id, no call is answered with   *)
(* another call's result, and none that has a result with a placeholder.    *)
THEOREM AnswersAlwaysTrue == Spec => []AnswersAreTrue
<1>1. ASSUME RepairInv, OwnIds,
             NEW k \in DOMAIN forwarded, NEW p \in DOMAIN forwarded[k].tool_calls,
             forwarded[k].tool_calls[p].no # Fabricated
      PROVE  forwarded[k + p].no =
                 IF ResultsFor(messages, forwarded[k].tool_calls[p].no) > 0
                 THEN forwarded[k].tool_calls[p].no ELSE Fabricated
  <2>1. WellFormed(messages) /\ Sound(messages, calls)
    BY <1>1 DEF RepairInv, Sound
  <2>2. forwarded = Repaired(messages)
    <3>1. DOMAIN <<>> = {}
      BY EmptySeq
    <3> QED BY <1>1, <3>1 DEF RepairInv
  <2>3. PICK off : IsLayout(off, Parts(messages), forwarded)
    BY <2>1, <2>2, RepairedIsLaidOut
  <2>4. PICK i \in DOMAIN messages : LET e == Emission(messages, i) IN
            /\ e # <<>> /\ p \in 1 .. Len(e[1].tool_calls)
            /\ forwarded[k] = e[1] /\ forwarded[k + p] = e[1 + p]
    BY <2>1, <2>2, <2>3, RepairedCalls
  <2> DEFINE e == Emission(messages, i)
             n == forwarded[k].tool_calls[p].no
  <2>5. messages[i].role # "tool" /\ messages[i].tool_calls # <<>>
    <3>1. CASE ToolSlot(messages, i) \in Orphans(messages, Pairs(messages))
      <4> DEFINE call == [id |-> NamesOf(messages)[ToolSlot(messages, i)], no |-> Fabricated]
      <4>1. e[1].tool_calls = <<call>>
        BY <2>1, <3>1, EmitsStub
      <4>2. call.no = Fabricated
        OBVIOUS
      <4> HIDE DEF call, e
      <4>3. Len(<<call>>) = 1 /\ <<call>>[1] = call
        OBVIOUS
      <4>4. p = 1 /\ e[1].tool_calls[p] = call
        BY <2>4, <4>1, <4>3 DEF e
      <4> QED BY <1>1, <2>4, <4>2, <4>4 DEF e
    <3>2. CASE messages[i].role = "tool" /\ ToolSlot(messages, i) \notin Orphans(messages, Pairs(messages))
      BY <2>1, <2>4, <3>2, EmitsNothing
    <3>3. CASE messages[i].role # "tool" /\ messages[i].tool_calls = <<>>
      <4>1. e = <<messages[i]>>
        BY <2>1, <3>3, EmitsText
      <4>2. Len(e[1].tool_calls) = 0
        BY <3>3, <4>1, EmptySeq
      <4> QED BY <2>4, <4>2
    <3> QED BY <3>1, <3>2, <3>3
  <2>6. /\ <<i, p>> \in CallSlots(messages)
        /\ e[1].tool_calls[p] = [id |-> NamesOf(messages)[<<i, p>>],
                                  no |-> messages[i].tool_calls[p].no]
        /\ e[1 + p] = AnswerOf(messages, <<i, p>>)
    <3>1. p \in 1 .. Len(messages[i].tool_calls)
      BY <2>1, <2>4, <2>5, EmitsBlock
    <3> QED BY <2>1, <2>5, <3>1, EmitsBlock
  <2>7. n = messages[i].tool_calls[p].no /\ forwarded[k + p] = AnswerOf(messages, <<i, p>>)
    BY <2>4, <2>6
  <2> HIDE DEF n, e
  <2>8. AnswerOf(messages, <<i, p>>).no =
            IF \E j \in DOMAIN messages : messages[j].role = "tool" /\ messages[j].no = n
            THEN n ELSE Fabricated
    <3> DEFINE c == <<i, p>>
    <3>1. c[1] = i /\ c[2] = p
      OBVIOUS
    <3>2. \A x, y \in DOMAIN calls : calls[x] # NoId /\ (calls[x] = calls[y] => x = y)
      BY <1>1 DEF OwnIds
    <3> HIDE DEF c
    <3>3. c \in CallSlots(messages) /\ messages[c[1]].tool_calls[c[2]].no = n
      BY <2>6, <2>7, <3>1 DEF c
    <3>4. AnswerOf(messages, c).no =
              IF \E j \in DOMAIN messages : messages[j].role = "tool" /\ messages[j].no = n
              THEN n ELSE Fabricated
      BY <2>1, <3>2, <3>3, AnswersMatch
    <3> QED BY <3>4 DEF c
  <2>9. forwarded[k + p].no = IF ResultsFor(messages, n) > 0 THEN n ELSE Fabricated
    BY <2>1, <2>7, <2>8, ResultsForPositive
  <2> QED BY <2>9 DEF n
<1>2. RepairInv => AnswersAreTrue
  BY <1>1 DEF AnswersAreTrue
<1> QED BY <1>2, RepairInvariant, PTL
-----------------------------------------------------------------------------
(* Nothing is lost.                                                         *)

(* The result at j ends up as the p-th answer of what is emitted for i.     *)
Lands(list, j, i, p) ==
    \/ ToolSlot(list, j) \in Orphans(list, Pairs(list)) /\ i = j /\ p = 1
    \/ <<<<i, p>>, ToolSlot(list, j)>> \in Pairs(list)

LEMMA StubCalls ==
  ASSUME NEW list, WellFormed(list), NEW i \in DOMAIN list,
         ToolSlot(list, i) \in Orphans(list, Pairs(list))
  PROVE  LET e == Emission(list, i)
         IN  /\ e # <<>> /\ list[i].role = "tool"
             /\ Len(e[1].tool_calls) = 1 /\ e[1].tool_calls[1].no = Fabricated
             /\ e[1].tool_calls # <<>>
             /\ e[2].no = list[i].no
<1> DEFINE e == Emission(list, i)
           id == NamesOf(list)[ToolSlot(list, i)]
           call == [id |-> id, no |-> Fabricated]
           stub == Block(<<call>>)
           kept == [list[i] EXCEPT !.id = id]
<1>1. /\ e = <<stub, kept>> /\ e[1].tool_calls = <<call>> /\ e[2].no = list[i].no
      /\ list[i].role = "tool"
  BY EmitsStub, ToolSlotIsOrphan
<1>2. call.no = Fabricated
  OBVIOUS
<1> HIDE DEF call, stub, kept
<1>3. Len(<<call>>) = 1 /\ <<call>>[1] = call /\ <<call>> # <<>> /\ <<stub, kept>> # <<>>
  OBVIOUS
<1> HIDE DEF e
<1>4. /\ e # <<>> /\ Len(e[1].tool_calls) = 1 /\ e[1].tool_calls[1].no = Fabricated
      /\ e[1].tool_calls # <<>>
  BY <1>1, <1>2, <1>3
<1> QED BY <1>1, <1>4 DEF e

LEMMA LandsSomewhere ==
  ASSUME NEW list, WellFormed(list), NEW j \in DOMAIN list, list[j].role = "tool"
  PROVE  \E i \in DOMAIN list : \E p \in 1 .. Len(Emission(list, i)[1].tool_calls) :
             /\ Lands(list, j, i, p) /\ Emission(list, i) # <<>>
             /\ Emission(list, i)[1 + p].no = list[j].no
<1>1. CASE ToolSlot(list, j) \in Orphans(list, Pairs(list))
  <2>1. /\ Emission(list, j) # <<>> /\ Len(Emission(list, j)[1].tool_calls) = 1
        /\ Emission(list, j)[2].no = list[j].no
    BY <1>1, StubCalls
  <2>2. Lands(list, j, j, 1)
    BY <1>1 DEF Lands
  <2>3. 1 \in 1 .. Len(Emission(list, j)[1].tool_calls) /\ 1 + 1 = 2
    BY <2>1
  <2> QED BY <2>1, <2>2, <2>3
<1>2. CASE ToolSlot(list, j) \notin Orphans(list, Pairs(list))
  <2>1. ToolSlot(list, j) \in ResultSlots(list)
    BY OrigOfResult
  <2>2. PICK pair \in Pairs(list) : pair[2] = ToolSlot(list, j)
    BY <1>2, <2>1 DEF Orphans
  <2> DEFINE c == pair[1]
             i == c[1]
             p == c[2]
  <2>3. /\ c \in CallSlots(list) /\ c = <<i, p>> /\ i \in DOMAIN list
        /\ p \in DOMAIN list[i].tool_calls /\ <<c, ToolSlot(list, j)>> \in Pairs(list)
    BY <2>2, PairsAre, CallSlotsAre
  <2>4. list[i].role # "tool" /\ list[i].tool_calls # <<>> /\ p \in 1..Len(list[i].tool_calls)
    <3>1. DOMAIN list[i].tool_calls = 1..Len(list[i].tool_calls)
      BY <2>3, MessageParts
    <3>2. list[i].tool_calls # <<>>
      BY <2>3
    <3> QED BY <2>3, <3>1, <3>2 DEF WellFormed
  <2>5. c \notin Unanswered(list, Pairs(list))
    BY <2>2 DEF Unanswered
  <2> HIDE DEF c, i, p
  <2>6. PICK k \in DOMAIN list : /\ <<c, ToolSlot(list, k)>> \in Pairs(list)
                                /\ AnswerOf(list, c).no = list[k].no
    BY <2>3, <2>5, AnswerOfAnswered
  <2>7. k = j
    <3> DEFINE x == <<c, ToolSlot(list, k)>>
               y == <<c, ToolSlot(list, j)>>
    <3>1. x \in Pairs(list) /\ y \in Pairs(list) /\ x[1] = y[1]
      BY <2>3, <2>6
    <3>2. x[2] = y[2]
      BY <3>1, PairsMatch
    <3> QED BY <3>2, ToolSlotsDiffer
  <2>8. /\ Emission(list, i) \in Seq(Message)
        /\ Len(Emission(list, i)) = 1 + Len(list[i].tool_calls)
        /\ Len(list[i].tool_calls) \in Nat
        /\ Len(Emission(list, i)[1].tool_calls) = Len(list[i].tool_calls)
    BY <2>3, <2>4, EmitsBlock
  <2>9. Emission(list, i)[1 + p] = AnswerOf(list, <<i, p>>)
    <3>1. \A q \in 1..Len(list[i].tool_calls) : Emission(list, i)[1 + q] = AnswerOf(list, <<i, q>>)
      <4>1. i \in DOMAIN list /\ list[i].role # "tool" /\ list[i].tool_calls # <<>>
        BY <2>3, <2>4
      <4> QED BY <4>1, BlockAnswers
    <3> QED BY <2>4, <3>1
  <2>10. Emission(list, i) # <<>>
    <3>1. Len(Emission(list, i)) # 0
      BY <2>8
    <3> QED BY <3>1, EmptySeq
  <2>11. Lands(list, j, i, p)
    BY <2>3 DEF Lands
  <2> QED BY <2>3, <2>4, <2>6, <2>7, <2>8, <2>9, <2>10, <2>11
<1> QED BY <1>1, <1>2

LEMMA LandedFromSomewhere ==
  ASSUME NEW list, WellFormed(list), NEW i \in DOMAIN list, Emission(list, i) # <<>>,
         NEW p \in 1 .. Len(Emission(list, i)[1].tool_calls),
         Emission(list, i)[1 + p].no # Fabricated
  PROVE  \E j \in DOMAIN list :
             /\ list[j].role = "tool" /\ Lands(list, j, i, p)
             /\ list[j].no = Emission(list, i)[1 + p].no
<1>1. CASE ToolSlot(list, i) \in Orphans(list, Pairs(list))
  <2>1. /\ list[i].role = "tool" /\ Len(Emission(list, i)[1].tool_calls) = 1
        /\ Emission(list, i)[2].no = list[i].no
    BY <1>1, StubCalls
  <2>2. p = 1 /\ 1 + p = 2
    BY <2>1
  <2> QED BY <1>1, <2>1, <2>2 DEF Lands
<1>2. CASE list[i].role = "tool" /\ ToolSlot(list, i) \notin Orphans(list, Pairs(list))
  BY <1>2, EmitsNothing
<1>3. CASE list[i].role # "tool" /\ list[i].tool_calls = <<>>
  <2>1. Emission(list, i)[1] = list[i]
    BY <1>3, EmitsText
  <2>2. Len(Emission(list, i)[1].tool_calls) = 0
    BY <1>3, <2>1, EmptySeq
  <2> QED BY <2>2
<1>4. CASE list[i].role # "tool" /\ list[i].tool_calls # <<>>
  <2>1. p \in 1..Len(list[i].tool_calls)
    BY <1>4, EmitsBlock
  <2>2. <<i, p>> \in CallSlots(list) /\ Emission(list, i)[1 + p] = AnswerOf(list, <<i, p>>)
    BY <1>4, <2>1, EmitsBlock
  <2> DEFINE c == <<i, p>>
  <2> HIDE DEF c
  <2>3. c \in CallSlots(list) /\ AnswerOf(list, c).no # Fabricated
    BY <2>2 DEF c
  <2>4. c \notin Unanswered(list, Pairs(list))
    BY <2>3, AnswerOfUnanswered
  <2>5. PICK j \in DOMAIN list :
            /\ list[j].role = "tool" /\ <<c, ToolSlot(list, j)>> \in Pairs(list)
            /\ AnswerOf(list, c).no = list[j].no
    BY <2>3, <2>4, AnswerOfAnswered
  <2> QED BY <2>2, <2>5 DEF Lands, c
<1> QED BY <1>1, <1>2, <1>3, <1>4

LEMMA LandsOnce ==
  ASSUME NEW list, WellFormed(list), NEW i \in DOMAIN list, NEW p, NEW j \in DOMAIN list,
         Lands(list, j, i, p)
  PROVE  /\ \A h \in DOMAIN list : \A q : Lands(list, j, h, q) => h = i /\ q = p
         /\ \A k \in DOMAIN list : Lands(list, k, i, p) => k = j
<1>1. \A k \in DOMAIN list : \A h, q :
          <<<<h, q>>, ToolSlot(list, k)>> \in Pairs(list) =>
              /\ ToolSlot(list, k) \notin Orphans(list, Pairs(list))
              /\ h \in DOMAIN list => list[h].role # "tool"
  <2> SUFFICES ASSUME NEW k \in DOMAIN list, NEW h, NEW q,
                      <<<<h, q>>, ToolSlot(list, k)>> \in Pairs(list)
               PROVE  /\ ToolSlot(list, k) \notin Orphans(list, Pairs(list))
                      /\ h \in DOMAIN list => list[h].role # "tool"
    OBVIOUS
  <2>1. ToolSlot(list, k) \notin Orphans(list, Pairs(list))
    BY DEF Orphans
  <2>2. <<h, q>> \in CallSlots(list)
    BY PairsAre
  <2>3. <<h, q>>[1] = h /\ <<h, q>>[2] = q
    OBVIOUS
  <2>4. q \in DOMAIN list[h].tool_calls
    BY <2>2, <2>3, CallSlotsAre
  <2>5. list[h].tool_calls # <<>>
    BY <2>4
  <2> QED BY <2>1, <2>5 DEF WellFormed
<1>2. ASSUME NEW h \in DOMAIN list, NEW q, Lands(list, j, h, q) PROVE h = i /\ q = p
  <2>1. CASE ToolSlot(list, j) \in Orphans(list, Pairs(list))
    BY <1>1, <1>2, <2>1 DEF Lands
  <2>2. CASE ToolSlot(list, j) \notin Orphans(list, Pairs(list))
    <3> DEFINE x == <<<<i, p>>, ToolSlot(list, j)>>
               y == <<<<h, q>>, ToolSlot(list, j)>>
    <3>1. x \in Pairs(list) /\ y \in Pairs(list) /\ x[2] = y[2]
      BY <1>2, <2>2 DEF Lands
    <3>2. x[1] = y[1]
      BY <3>1, PairsMatch
    <3> QED BY <3>2
  <2> QED BY <2>1, <2>2
<1>3. ASSUME NEW k \in DOMAIN list, Lands(list, k, i, p) PROVE k = j
  <2>1. CASE list[i].role = "tool"
    BY <1>1, <1>3, <2>1 DEF Lands
  <2>2. CASE list[i].role # "tool"
    <3> DEFINE x == <<<<i, p>>, ToolSlot(list, j)>>
               y == <<<<i, p>>, ToolSlot(list, k)>>
    <3>1. x \in Pairs(list) /\ y \in Pairs(list) /\ x[1] = y[1]
      BY <1>3, <2>2, ToolSlotIsOrphan DEF Lands
    <3>2. ToolSlot(list, j) = ToolSlot(list, k)
      BY <3>1, PairsMatch
    <3> QED BY <3>2, ToolSlotsDiffer
  <2> QED BY <2>1, <2>2
<1> QED BY <1>2, <1>3

LEMMA DomainIsFinite ==
  ASSUME NEW list, WellFormed(list)
  PROVE  IsFiniteSet(DOMAIN list) /\ DOMAIN list \subseteq Nat
<1>1. DOMAIN list = 1..Len(list) /\ Len(list) \in Nat
  BY LenProperties DEF WellFormed
<1> QED BY <1>1, FS_Interval

(* Every result of the client is forwarded once.                            *)
LEMMA ResultsKept ==
  ASSUME NEW list, WellFormed(list), NEW n, n # Fabricated
  PROVE  ResultsFor(Repaired(list), n) = ResultsFor(list, n)
<1> DEFINE F == Repaired(list)
           sent == {j \in DOMAIN list : list[j].role = "tool" /\ list[j].no = n}
           kept == {k \in DOMAIN F : F[k].role = "tool" /\ F[k].no = n}
           Spots(i) == 1 .. Len(Emission(list, i)[1].tool_calls)
<1>1. PICK off : IsLayout(off, Parts(list), F)
  BY RepairedIsLaidOut
<1> DEFINE At(j, k) == \E i \in DOMAIN list : \E p \in Spots(i) :
                           /\ Emission(list, i) # <<>> /\ Lands(list, j, i, p)
                           /\ k = off[i] + (1 + p)
           f == [j \in sent |-> CHOOSE k \in kept : At(j, k)]
<1>2. ASSUME NEW i \in DOMAIN list, Emission(list, i) # <<>>, NEW p \in Spots(i)
      PROVE  /\ off[i] + (1 + p) \in DOMAIN F /\ F[off[i] + (1 + p)] = Emission(list, i)[1 + p]
             /\ F[off[i] + (1 + p)].role = "tool"
             /\ i \in DOMAIN Parts(list) /\ 1 + p \in DOMAIN Parts(list)[i]
  <2>1. off[i] + (1 + p) \in DOMAIN F /\ F[off[i] + (1 + p)] = Emission(list, i)[1 + p]
    BY <1>1, <1>2, RepairedGroups
  <2>2. Emission(list, i)[1 + p].role = "tool"
    BY <1>2, EmissionIsGroup
  <2>3. /\ Len(Emission(list, i)) = 1 + Len(Emission(list, i)[1].tool_calls)
        /\ Len(Emission(list, i)[1].tool_calls) \in Nat
    BY <1>2, EmissionIsGroup
  <2>4. 1 + p \in 1..Len(Emission(list, i))
    BY <2>3
  <2>5. i \in DOMAIN Parts(list) /\ DOMAIN Parts(list)[i] = 1..Len(Emission(list, i))
    BY RepairedIsLaidOut
  <2> QED BY <2>1, <2>2, <2>4, <2>5
<1>3. ASSUME NEW j \in sent PROVE \E k \in kept : At(j, k)
  <2>1. PICK i \in DOMAIN list : \E p \in Spots(i) :
            /\ Lands(list, j, i, p) /\ Emission(list, i) # <<>>
            /\ Emission(list, i)[1 + p].no = list[j].no
    BY LandsSomewhere
  <2>2. PICK p \in Spots(i) : /\ Lands(list, j, i, p) /\ Emission(list, i) # <<>>
                             /\ Emission(list, i)[1 + p].no = list[j].no
    BY <2>1
  <2>3. off[i] + (1 + p) \in kept
    BY <1>2, <2>2
  <2> QED BY <2>2, <2>3
<1>4. f \in [sent -> kept] /\ \A j \in sent : f[j] \in kept /\ At(j, f[j])
  <2> HIDE DEF At, sent, kept
  <2> QED BY <1>3
<1> HIDE DEF f
<1>5. ASSUME NEW j \in sent, NEW h \in sent, f[j] = f[h] PROVE j = h
  <2>a. PICK i \in DOMAIN list : \E p \in Spots(i) :
            /\ Emission(list, i) # <<>> /\ Lands(list, j, i, p) /\ f[j] = off[i] + (1 + p)
    BY <1>4
  <2>1. PICK p \in Spots(i) :
            /\ Emission(list, i) # <<>> /\ Lands(list, j, i, p) /\ f[j] = off[i] + (1 + p)
    BY <2>a
  <2>b. PICK g \in DOMAIN list : \E q \in Spots(g) :
            /\ Emission(list, g) # <<>> /\ Lands(list, h, g, q) /\ f[h] = off[g] + (1 + q)
    BY <1>4
  <2>2. PICK q \in Spots(g) :
            /\ Emission(list, g) # <<>> /\ Lands(list, h, g, q) /\ f[h] = off[g] + (1 + q)
    BY <2>b
  <2>3. /\ i \in DOMAIN Parts(list) /\ 1 + p \in DOMAIN Parts(list)[i]
        /\ g \in DOMAIN Parts(list) /\ 1 + q \in DOMAIN Parts(list)[g]
    BY <1>2, <2>1, <2>2
  <2>4. off[i] + (1 + p) = off[g] + (1 + q)
    BY <1>5, <2>1, <2>2
  <2>5. i = g /\ 1 + p = 1 + q
    <3>1. Parts(list) \in Seq(Seq(Message))
      BY RepairedIsLaidOut
    <3> HIDE DEF F, Spots
    <3> QED BY <1>1, <2>3, <2>4, <3>1, LayoutIsUnique
  <2>6. p \in Nat /\ q \in Nat
    <3>1. p \in Int /\ q \in Int /\ p >= 1 /\ q >= 1
      <4>1. /\ Len(Emission(list, i)[1].tool_calls) \in Nat
            /\ Len(Emission(list, g)[1].tool_calls) \in Nat
        BY <2>1, <2>2, EmissionIsGroup
      <4> QED BY <4>1
    <3> QED BY <3>1
  <2>7. p = q
    BY <2>5, <2>6
  <2> QED BY <2>1, <2>2, <2>5, <2>7, LandsOnce
<1>6. ASSUME NEW k \in kept PROVE \E j \in sent : f[j] = k
  <2>1. PICK i \in DOMAIN list : \E p \in Spots(i) :
            /\ Emission(list, i) # <<>> /\ k = off[i] + (1 + p) /\ F[k] = Emission(list, i)[1 + p]
    BY <1>1, RepairedResults
  <2>2. PICK p \in Spots(i) :
            /\ Emission(list, i) # <<>> /\ k = off[i] + (1 + p) /\ F[k] = Emission(list, i)[1 + p]
    BY <2>1
  <2>3. PICK j \in DOMAIN list : /\ list[j].role = "tool" /\ Lands(list, j, i, p)
                                /\ list[j].no = Emission(list, i)[1 + p].no
    BY <2>2, LandedFromSomewhere
  <2>4. j \in sent
    BY <2>2, <2>3
  <2>a. PICK g \in DOMAIN list : \E q \in Spots(g) : Lands(list, j, g, q) /\ f[j] = off[g] + (1 + q)
    BY <1>4, <2>4
  <2>5. PICK q \in Spots(g) : Lands(list, j, g, q) /\ f[j] = off[g] + (1 + q)
    BY <2>a
  <2>6. g = i /\ q = p
    BY <2>3, <2>5, LandsOnce
  <2> QED BY <2>2, <2>4, <2>5, <2>6
<1>8. f \in Bijection(sent, kept)
  <2> HIDE DEF sent, kept
  <2> QED BY <1>4, <1>5, <1>6 DEF Bijection, Injection, Surjection, IsInjective
<1>9. IsFiniteSet(sent)
  BY DomainIsFinite, FS_Subset
<1>10. Cardinality(kept) = Cardinality(sent)
  <2> HIDE DEF sent, kept
  <2>1. ExistsBijection(sent, kept)
    BY <1>8 DEF ExistsBijection
  <2> QED BY <1>9, <2>1, FS_Bijection
<1> QED BY <1>10 DEF ResultsFor

(* What the client said is emitted with its words, and only that.           *)
LEMMA RealIsEmitted ==
  ASSUME NEW list, NEW ids \in Seq(Nat), Sound(list, ids), NEW i \in DOMAIN list
  PROVE  /\ i \in RealAt(list) =>
                /\ Emission(list, i) # <<>>
                /\ Emission(list, i)[1].role = list[i].role
                /\ DOMAIN Emission(list, i)[1].tool_calls = DOMAIN list[i].tool_calls
                /\ \A p \in DOMAIN list[i].tool_calls :
                       Emission(list, i)[1].tool_calls[p].no = list[i].tool_calls[p].no
                /\ Emission(list, i)[1].tool_calls # <<>> =>
                       Emission(list, i)[1].tool_calls[1].no # Fabricated
         /\ Emission(list, i) # <<>> /\ i \notin RealAt(list) =>
                /\ Emission(list, i)[1].tool_calls # <<>>
                /\ Emission(list, i)[1].tool_calls[1].no = Fabricated
<1> DEFINE e == Emission(list, i)
<1>0. WellFormed(list)
  BY DEF Sound
<1>1. CASE list[i].role # "tool" /\ list[i].tool_calls = <<>>
  <2>1. e = <<list[i]>> /\ i \in RealAt(list)
    BY <1>0, <1>1, EmitsText DEF RealAt
  <2> DEFINE m == list[i]
  <2> HIDE DEF m, e
  <2>2. e # <<>> /\ e[1] = m
    BY <2>1 DEF m
  <2> QED BY <1>1, <2>1, <2>2 DEF m, e
<1>2. CASE list[i].role # "tool" /\ list[i].tool_calls # <<>>
  <2> DEFINE n == Len(list[i].tool_calls)
  <2>1. /\ n \in Nat \ {0} /\ e \in Seq(Message) /\ Len(e) = 1 + n
        /\ e[1].role = "assistant" /\ e[1].tool_calls \in Seq(Call) /\ Len(e[1].tool_calls) = n
    BY <1>0, <1>2, EmitsBlock
  <2>2. \A p \in 1..n : e[1].tool_calls[p].no = list[i].tool_calls[p].no
    <3> HIDE DEF e
    <3> SUFFICES ASSUME NEW p \in 1..n
                 PROVE  Emission(list, i)[1].tool_calls[p].no = list[i].tool_calls[p].no
      BY DEF e
    <3>1. WellFormed(list) /\ i \in DOMAIN list /\ list[i].role # "tool" /\ list[i].tool_calls # <<>>
      BY <1>0, <1>2
    <3>2. p \in 1 .. Len(list[i].tool_calls)
      OBVIOUS
    <3> HIDE DEF n
    <3>3. \A q \in 1 .. Len(list[i].tool_calls) :
              /\ Emission(list, i)[1].tool_calls[q].id = NamesOf(list)[<<i, q>>]
              /\ Emission(list, i)[1].tool_calls[q].no = list[i].tool_calls[q].no
      BY <3>1, BlockCalls
    <3> QED BY <3>2, <3>3
  <2>3. DOMAIN list[i].tool_calls = 1..n
    BY <1>0, MessageParts
  <2>4. DOMAIN e[1].tool_calls = 1..n
    BY <2>1, LenProperties
  <2>5. list[i].role = "assistant"
    <3>1. list[i] = Block(list[i].tool_calls)
      BY <1>2 DEF Sound
    <3> DEFINE block == list[i].tool_calls
    <3> HIDE DEF block
    <3>2. Block(block).role = "assistant"
      BY DEF Block, Text
    <3> QED BY <3>1, <3>2 DEF block
  <2>6. 1 \in 1..n
    BY <2>1
  <2>7. list[i].tool_calls[1].no # Fabricated
    <3>1. list[i].tool_calls[1].no \in DOMAIN ids
      BY <2>3, <2>6 DEF Sound
    <3>2. 0 \notin DOMAIN ids
      BY LenProperties
    <3> QED BY <3>1, <3>2 DEF Fabricated
  <2>8. e # <<>>
    <3>1. Len(e) # 0
      BY <2>1
    <3> QED BY <3>1, EmptySeq
  <2>9. i \in RealAt(list)
    BY <1>2, <2>7 DEF RealAt
  <2> HIDE DEF n, e
  <2>10. e[1].tool_calls[1].no # Fabricated
    BY <2>2, <2>6, <2>7
  <2> QED BY <2>1, <2>2, <2>3, <2>4, <2>5, <2>8, <2>9, <2>10 DEF e
<1>3. CASE ToolSlot(list, i) \in Orphans(list, Pairs(list))
  BY <1>0, <1>3, StubCalls DEF RealAt
<1>4. CASE list[i].role = "tool" /\ ToolSlot(list, i) \notin Orphans(list, Pairs(list))
  BY <1>0, <1>4, EmitsNothing DEF RealAt
<1> QED BY <1>1, <1>2, <1>3, <1>4

Saying(list, i) ==
    <<list[i].role, [p \in DOMAIN list[i].tool_calls |-> list[i].tool_calls[p].no]>>
TurnOf(list, i) == Cardinality({j \in RealAt(list) : j < i})

LEMMA SpokenKept ==
  ASSUME NEW list, NEW ids \in Seq(Nat), Sound(list, ids)
  PROVE  Spoken(Repaired(list)) = Spoken(list)
<1> DEFINE F == Repaired(list)
<1>0. WellFormed(list)
  BY DEF Sound
<1>1. PICK off : IsLayout(off, Parts(list), F)
  BY <1>0, RepairedIsLaidOut
<1> DEFINE head(i) == off[i] + 1
<1>2. ASSUME NEW i \in RealAt(list)
      PROVE  /\ i \in DOMAIN list /\ Emission(list, i) # <<>>
             /\ head(i) \in RealAt(F) /\ head(i) \in Nat
             /\ Saying(F, head(i)) = Saying(list, i)
             /\ 1 \in 1 .. Len(Emission(list, i))
  <2>1. i \in DOMAIN list /\ list[i].role # "tool"
    BY DEF RealAt
  <2>2. /\ Emission(list, i) # <<>>
        /\ Emission(list, i)[1].role = list[i].role
        /\ DOMAIN Emission(list, i)[1].tool_calls = DOMAIN list[i].tool_calls
        /\ \A p \in DOMAIN list[i].tool_calls :
               Emission(list, i)[1].tool_calls[p].no = list[i].tool_calls[p].no
        /\ Emission(list, i)[1].tool_calls # <<>> =>
               Emission(list, i)[1].tool_calls[1].no # Fabricated
    BY <2>1, RealIsEmitted
  <2>3. off[i] \in Nat /\ head(i) \in DOMAIN F /\ F[head(i)] = Emission(list, i)[1]
    BY <1>0, <1>1, <2>1, <2>2, RepairedGroups
  <2>4. head(i) \in Nat
    BY <2>3
  <2>5. 1 \in 1 .. Len(Emission(list, i))
    <3>1. /\ Len(Emission(list, i)) = 1 + Len(Emission(list, i)[1].tool_calls)
          /\ Len(Emission(list, i)[1].tool_calls) \in Nat
      BY <1>0, <2>1, <2>2, EmissionIsGroup
    <3> QED BY <3>1
  <2> HIDE DEF F, head
  <2>6. head(i) \in RealAt(F)
    BY <2>1, <2>2, <2>3 DEF RealAt
  <2>7. Saying(F, head(i)) = Saying(list, i)
    BY <2>2, <2>3 DEF Saying
  <2> QED BY <2>1, <2>2, <2>4, <2>5, <2>6, <2>7
<1>3. ASSUME NEW k \in RealAt(F) PROVE \E i \in RealAt(list) : k = head(i)
  <2>1. k \in DOMAIN F /\ F[k].role # "tool"
        /\ (F[k].tool_calls # <<>> => F[k].tool_calls[1].no # Fabricated)
    BY DEF RealAt
  <2>2. PICK i \in DOMAIN list : LET e == Emission(list, i) IN
             /\ e # <<>> /\ off[i] \in Nat
             /\ \/ k = off[i] + 1 /\ F[k] = e[1]
                \/ \E p \in 1 .. Len(e[1].tool_calls) :
                       k = off[i] + (1 + p) /\ F[k] = e[1 + p]
    BY <1>0, <1>1, <2>1, RepairedPositions
  <2>3. k = off[i] + 1 /\ F[k] = Emission(list, i)[1]
    BY <1>0, <2>1, <2>2, EmissionIsGroup
  <2>4. i \in RealAt(list)
    BY <2>1, <2>2, <2>3, RealIsEmitted
  <2> QED BY <2>3, <2>4
<1>4. ASSUME NEW i \in RealAt(list), NEW j \in RealAt(list)
      PROVE  /\ i < j <=> head(i) < head(j)
             /\ head(i) = head(j) => i = j
  <2>2. /\ 1 \in 1 .. Len(Emission(list, i)) /\ 1 \in 1 .. Len(Emission(list, j))
        /\ head(i) \in Nat /\ head(j) \in Nat
        /\ i \in DOMAIN list /\ j \in DOMAIN list
    BY <1>2
  <2>3. /\ i < j => off[i] + 1 < off[j] + 1
        /\ off[i] + 1 = off[j] + 1 => i = j
    BY <1>0, <1>1, <2>2, PlacesDiffer
  <2>5. j < i => off[j] + 1 < off[i] + 1
    BY <1>0, <1>1, <2>2, PlacesDiffer
  <2>4. i \in Nat /\ j \in Nat
    BY <1>0, <2>2, DomainIsFinite
  <2> QED BY <2>2, <2>3, <2>4, <2>5
<1> HIDE DEF head, F
<1>5. ASSUME NEW i \in RealAt(list) PROVE TurnOf(F, head(i)) = TurnOf(list, i)
  <2> DEFINE A == {j \in RealAt(list) : j < i}
             B == {k \in RealAt(F) : k < head(i)}
             f == [j \in A |-> head(j)]
  <2>1. f \in [A -> B]
    BY <1>2, <1>4
  <2>2. \A j, k \in A : f[j] = f[k] => j = k
    BY <1>4
  <2>3. ASSUME NEW k \in B PROVE \E j \in A : f[j] = k
    <3>1. PICK j \in RealAt(list) : k = head(j)
      BY <1>3
    <3>2. j \in A
      BY <1>4, <3>1
    <3> QED BY <3>1, <3>2
  <2>4. IsFiniteSet(A)
    <3>1. A \subseteq DOMAIN list
      BY DEF RealAt
    <3> QED BY <1>0, <3>1, DomainIsFinite, FS_Subset
  <2> HIDE DEF A, B, f
  <2>5. f \in Bijection(A, B)
    BY <2>1, <2>2, <2>3 DEF Bijection, Injection, Surjection, IsInjective
  <2>6. Cardinality(A) = Cardinality(B)
    BY <2>4, <2>5, FS_Bijection DEF ExistsBijection
  <2> QED BY <2>6 DEF A, B, TurnOf
<1> DEFINE Word(list0, i) == <<TurnOf(list0, i), Saying(list0, i)[1], Saying(list0, i)[2]>>
<1>6. /\ Spoken(list) = {Word(list, i) : i \in RealAt(list)}
      /\ Spoken(F) = {Word(F, i) : i \in RealAt(F)}
  BY DEF Spoken, TurnOf, Saying
<1>7. \A i \in RealAt(list) : Word(F, head(i)) = Word(list, i) /\ head(i) \in RealAt(F)
  BY <1>2, <1>5
<1> HIDE DEF Word
<1>8. {Word(F, k) : k \in RealAt(F)} = {Word(list, i) : i \in RealAt(list)}
  BY <1>3, <1>7
<1> QED BY <1>6, <1>8 DEF F

(* The hook drops, doubles and reorders nothing the client sent.            *)
THEOREM NothingEverLost == Spec => []NothingLost
<1>1. ASSUME RepairInv, forwarded # <<>>
      PROVE  /\ Spoken(forwarded) = Spoken(messages)
             /\ \A n \in DOMAIN calls : ResultsFor(forwarded, n) = ResultsFor(messages, n)
  <2>1. /\ forwarded = Repaired(messages) /\ calls \in Seq(Nat)
        /\ Sound(messages, calls) /\ WellFormed(messages)
    BY <1>1 DEF RepairInv, Sound
  <2>2. \A n \in DOMAIN calls : n # Fabricated
    BY <2>1, LenProperties DEF Fabricated
  <2>3. Spoken(forwarded) = Spoken(messages)
    BY <2>1, SpokenKept
  <2>4. \A n \in DOMAIN calls : ResultsFor(forwarded, n) = ResultsFor(messages, n)
    BY <2>1, <2>2, ResultsKept
  <2> QED BY <2>3, <2>4
<1>2. RepairInv => NothingLost
  BY <1>1 DEF NothingLost
<1> QED BY <1>2, RepairInvariant, PTL
-----------------------------------------------------------------------------
(* A strict list is a fixed point of the repair.                            *)

(* A strict list of messages, whose calls are held by assistant blocks.     *)
StrictList(list) ==
    /\ WellFormed(list) /\ Strict(list)
    /\ \A i \in DOMAIN list : list[i].tool_calls # <<>> => list[i] = Block(list[i].tool_calls)

LEMMA StrictAnswers ==
  ASSUME NEW list, StrictList(list), NEW i \in DOMAIN list, NEW p \in DOMAIN list[i].tool_calls
  PROVE  /\ i \in Nat /\ p \in Nat /\ p >= 1 /\ p <= Len(list[i].tool_calls)
         /\ Len(list[i].tool_calls) \in Nat
         /\ i + p \in DOMAIN list /\ list[i + p].role = "tool"
         /\ list[i + p].id = list[i].tool_calls[p].id /\ list[i].tool_calls[p].id # NoId
         /\ \A j \in DOMAIN list : \A q \in DOMAIN list[j].tool_calls :
                list[j].tool_calls[q].id = list[i].tool_calls[p].id => j = i /\ q = p
         /\ \A j \in DOMAIN list : \A q \in DOMAIN list[j].tool_calls :
                i + p = j + q => j = i /\ q = p
<1>1. WellFormed(list)
  BY DEF StrictList
<1>2. /\ i \in Nat /\ p \in Nat /\ p >= 1 /\ p <= Len(list[i].tool_calls)
      /\ Len(list[i].tool_calls) \in Nat
  <2>1. i \in Nat /\ Len(list[i].tool_calls) \in Nat /\ p \in 1..Len(list[i].tool_calls)
    BY <1>1, MessageParts
  <2> QED BY <2>1
<1>3. \A h \in DOMAIN list : \A r \in DOMAIN list[h].tool_calls :
          /\ h + r \in DOMAIN list /\ list[h + r].role = "tool"
          /\ list[h + r].id = list[h].tool_calls[r].id /\ list[h].tool_calls[r].id # NoId
          /\ \A j \in DOMAIN list : \A q \in DOMAIN list[j].tool_calls :
                 list[j].tool_calls[q].id = list[h].tool_calls[r].id => <<j, q>> = <<h, r>>
  BY DEF StrictList, Strict, IdOfCall
<1>4. ASSUME NEW j \in DOMAIN list, NEW q \in DOMAIN list[j].tool_calls,
             list[j].tool_calls[q].id = list[i].tool_calls[p].id
      PROVE  j = i /\ q = p
  <2>1. <<j, q>> = <<i, p>>
    BY <1>3, <1>4
  <2> QED BY <2>1
<1>5. ASSUME NEW j \in DOMAIN list, NEW q \in DOMAIN list[j].tool_calls, i + p = j + q
      PROVE  j = i /\ q = p
  <2>1. list[i + p].id = list[i].tool_calls[p].id /\ list[j + q].id = list[j].tool_calls[q].id
    BY <1>3
  <2> QED BY <1>4, <1>5, <2>1
<1> QED BY <1>2, <1>3, <1>4, <1>5

(* Every result stands among the answers of a block.                        *)
LEMMA StrictResults ==
  ASSUME NEW list, StrictList(list), NEW k \in DOMAIN list, list[k].role = "tool"
  PROVE  \E i \in DOMAIN list : \E p \in DOMAIN list[i].tool_calls : k = i + p
<1> DEFINE slots == CallSlots(list)
           tools == {i \in DOMAIN list : list[i].role = "tool"}
           f == [s \in slots |-> s[1] + s[2]]
<1>1. WellFormed(list)
  BY DEF StrictList
<1>2. \A s \in slots : /\ s = <<s[1], s[2]>> /\ s[1] \in DOMAIN list
                      /\ s[2] \in DOMAIN list[s[1]].tool_calls
  BY <1>1, CallSlotsAre
<1>3. f \in [slots -> tools]
  BY <1>2, StrictAnswers
<1>4. ASSUME NEW s \in slots, NEW t \in slots, f[s] = f[t] PROVE s = t
  <2>1. s[1] + s[2] = t[1] + t[2]
    BY <1>4
  <2>2. s[1] = t[1] /\ s[2] = t[2]
    BY <1>2, <2>1, StrictAnswers
  <2> QED BY <1>2, <2>2
<1>5. IsFiniteSet(tools)
  BY <1>1, DomainIsFinite, FS_Subset
<1>6. Cardinality(slots) = Cardinality(tools)
  BY DEF StrictList, Strict
<1>7. k \in tools
  OBVIOUS
<1> HIDE DEF tools
<1>8. f \in Injection(slots, tools)
  <2> HIDE DEF slots, f
  <2> QED BY <1>3, <1>4 DEF Injection, IsInjective
<1>9. f \in Surjection(slots, tools)
  <2> HIDE DEF slots, f
  <2> QED BY <1>5, <1>6, <1>8, FS_Injection
<1>10. PICK s \in slots : f[s] = k
  <2> HIDE DEF slots, f
  <2> QED BY <1>7, <1>9 DEF Surjection
<1> QED BY <1>2, <1>10

LEMMA StrictPairs ==
  ASSUME NEW list, StrictList(list)
  PROVE  /\ Unanswered(list, Pairs(list)) = {} /\ Orphans(list, Pairs(list)) = {}
         /\ \A i \in DOMAIN list : \A p \in DOMAIN list[i].tool_calls :
                /\ NamesOf(list)[<<i, p>>] = list[i].tool_calls[p].id
                /\ <<<<i, p>>, ToolSlot(list, i + p)>> \in Pairs(list)
<1> DEFINE calling == CallSlots(list)
           answering == ResultSlots(list)
<1>1. WellFormed(list)
  BY DEF StrictList
<1>2. /\ IsFiniteSet(calling) /\ calling \subseteq Nat \X Nat
      /\ IsFiniteSet(answering) /\ answering \subseteq Nat \X Nat
  BY <1>1, SlotsType
<1>3. \A s \in calling : /\ s = <<s[1], s[2]>> /\ s[1] \in DOMAIN list
                        /\ s[2] \in DOMAIN list[s[1]].tool_calls
                        /\ Orig(list, s) = list[s[1]].tool_calls[s[2]].id
  BY <1>1, CallSlotsAre, OrigOfCall
<1>4. ASSUME NEW s \in calling PROVE Rank(list, calling, s) = 0 /\ Orig(list, s) # NoId
  <2>1. PICK t \in calling : Orig(list, t) = Orig(list, s) /\ Rank(list, calling, t) = 0
    BY <1>2, FirstOfId
  <2>2. t[1] = s[1] /\ t[2] = s[2]
    <3>1. list[t[1]].tool_calls[t[2]].id = list[s[1]].tool_calls[s[2]].id
      BY <1>3, <2>1
    <3>2. /\ s[1] \in DOMAIN list /\ s[2] \in DOMAIN list[s[1]].tool_calls
          /\ t[1] \in DOMAIN list /\ t[2] \in DOMAIN list[t[1]].tool_calls
      BY <1>3, <2>1
    <3> DEFINE i == s[1]
               p == s[2]
               j == t[1]
               q == t[2]
    <3> HIDE DEF calling, i, p, j, q
    <3>3. i \in DOMAIN list /\ p \in DOMAIN list[i].tool_calls
      BY <3>2 DEF i, p
    <3>4. \A h \in DOMAIN list : \A g \in DOMAIN list[h].tool_calls :
              list[h].tool_calls[g].id = list[i].tool_calls[p].id => h = i /\ g = p
      BY <3>3, StrictAnswers
    <3>5. /\ j \in DOMAIN list /\ q \in DOMAIN list[j].tool_calls
          /\ list[j].tool_calls[q].id = list[i].tool_calls[p].id
      BY <3>1, <3>2 DEF i, p, j, q
    <3>6. j = i /\ q = p
      BY <3>4, <3>5
    <3> QED BY <3>6 DEF i, p, j, q
  <2>3. t = s
    BY <1>3, <2>2
  <2> QED BY <1>3, <2>1, <2>3, StrictAnswers
<1>5. ASSUME NEW r \in answering
      PROVE  /\ Rank(list, answering, r) = 0
             /\ \E i \in DOMAIN list : \E p \in DOMAIN list[i].tool_calls :
                    r = ToolSlot(list, i + p) /\ Orig(list, r) = list[i].tool_calls[p].id
  <2>1. \A x \in answering : \E i \in DOMAIN list : \E p \in DOMAIN list[i].tool_calls :
            x = ToolSlot(list, i + p) /\ Orig(list, x) = list[i].tool_calls[p].id
    <3> SUFFICES ASSUME NEW x \in answering
                 PROVE  \E i \in DOMAIN list : \E p \in DOMAIN list[i].tool_calls :
                            x = ToolSlot(list, i + p) /\ Orig(list, x) = list[i].tool_calls[p].id
      OBVIOUS
    <3>1. PICK k \in DOMAIN list : x = ToolSlot(list, k) /\ list[k].role = "tool"
      BY <1>1, ResultAtIs
    <3>2. Orig(list, x) = list[k].id
      BY <1>1, <3>1, OrigOfResult
    <3>3. PICK i \in DOMAIN list : \E p \in DOMAIN list[i].tool_calls : k = i + p
      BY <3>1, StrictResults
    <3>4. PICK p \in DOMAIN list[i].tool_calls : k = i + p
      BY <3>3
    <3>5. list[k].id = list[i].tool_calls[p].id
      BY <3>4, StrictAnswers
    <3> QED BY <3>1, <3>2, <3>4, <3>5
  <2>2. PICK t \in answering : Orig(list, t) = Orig(list, r) /\ Rank(list, answering, t) = 0
    BY <1>2, FirstOfId
  <2>3. PICK i \in DOMAIN list : \E p \in DOMAIN list[i].tool_calls :
            r = ToolSlot(list, i + p) /\ Orig(list, r) = list[i].tool_calls[p].id
    BY <2>1
  <2>4. PICK p \in DOMAIN list[i].tool_calls :
            r = ToolSlot(list, i + p) /\ Orig(list, r) = list[i].tool_calls[p].id
    BY <2>3
  <2>5. PICK j \in DOMAIN list : \E q \in DOMAIN list[j].tool_calls :
            t = ToolSlot(list, j + q) /\ Orig(list, t) = list[j].tool_calls[q].id
    BY <2>1
  <2>6. PICK q \in DOMAIN list[j].tool_calls :
            t = ToolSlot(list, j + q) /\ Orig(list, t) = list[j].tool_calls[q].id
    BY <2>5
  <2>7. i = j /\ p = q
    BY <2>2, <2>4, <2>6, StrictAnswers
  <2> QED BY <2>1, <2>2, <2>4, <2>6, <2>7
<1>6. ASSUME NEW i \in DOMAIN list, NEW p \in DOMAIN list[i].tool_calls
      PROVE  <<<<i, p>>, ToolSlot(list, i + p)>> \in Pairs(list)
  <2> DEFINE c == <<i, p>>
             r == ToolSlot(list, i + p)
  <2>1. c \in calling /\ Orig(list, c) = list[i].tool_calls[p].id
    <3>1. c \in calling /\ c[1] = i /\ c[2] = p
      BY <1>1, CallSlotsAre
    <3> HIDE DEF c, calling
    <3> QED BY <1>3, <3>1
  <2>2. i + p \in DOMAIN list /\ list[i + p].role = "tool"
        /\ list[i + p].id = list[i].tool_calls[p].id
    BY StrictAnswers
  <2>3. r \in answering /\ Orig(list, r) = list[i].tool_calls[p].id
    BY <1>1, <2>2, OrigOfResult
  <2> HIDE DEF c, r
  <2>4. Match(list, calling, answering, c, r)
    BY <1>4, <1>5, <2>1, <2>3 DEF Match
  <2>5. <<c, r>> \in Pairs(list)
    BY <2>1, <2>3, <2>4, PairsAre
  <2> QED BY <2>5 DEF c, r
<1>7. Unanswered(list, Pairs(list)) = {}
  <2> SUFFICES ASSUME NEW s \in calling PROVE \E pair \in Pairs(list) : pair[1] = s
    BY DEF Unanswered
  <2>1. <<<<s[1], s[2]>>, ToolSlot(list, s[1] + s[2])>> \in Pairs(list)
    BY <1>3, <1>6
  <2> QED BY <1>3, <2>1
<1>8. Orphans(list, Pairs(list)) = {}
  <2> SUFFICES ASSUME NEW r \in answering PROVE \E pair \in Pairs(list) : pair[2] = r
    BY DEF Orphans
  <2>1. PICK i \in DOMAIN list : \E p \in DOMAIN list[i].tool_calls : r = ToolSlot(list, i + p)
    BY <1>5
  <2>2. PICK p \in DOMAIN list[i].tool_calls : r = ToolSlot(list, i + p)
    BY <2>1
  <2>3. <<<<i, p>>, ToolSlot(list, i + p)>> \in Pairs(list)
    BY <1>6
  <2> QED BY <2>2, <2>3
<1>9. ASSUME NEW s \in calling PROVE NamesOf(list)[s] = Orig(list, s)
  <2>1. RenamedCalls(list) = {}
    BY <1>4 DEF RenamedCalls
  <2>2. RenamedOrphans(list, {}) = {}
    BY DEF RenamedOrphans
  <2> QED BY <1>8, <2>1, <2>2 DEF NamesOf, Names
<1>10. ASSUME NEW i \in DOMAIN list, NEW p \in DOMAIN list[i].tool_calls
       PROVE  NamesOf(list)[<<i, p>>] = list[i].tool_calls[p].id
  <2> DEFINE c == <<i, p>>
  <2>1. c \in calling /\ c[1] = i /\ c[2] = p
    BY <1>1, CallSlotsAre
  <2> HIDE DEF c, calling
  <2>2. NamesOf(list)[c] = list[i].tool_calls[p].id
    BY <1>3, <1>9, <2>1
  <2> QED BY <2>2 DEF c
<1> QED BY <1>6, <1>7, <1>8, <1>10

LEMMA StrictEmission ==
  ASSUME NEW list, StrictList(list), NEW i \in DOMAIN list
  PROVE  LET e == Emission(list, i)
             n == Len(list[i].tool_calls)
         IN  /\ n \in Nat /\ DOMAIN list[i].tool_calls = 1..n
             /\ list[i].role = "tool" => e = <<>> /\ Len(e) = 0
             /\ list[i].role # "tool" =>
                    /\ e # <<>> /\ Len(e) = 1 + n
                    /\ e[1] = list[i]
                    /\ \A p \in 1..n : e[1 + p] = list[i + p]
<1> DEFINE e == Emission(list, i)
           n == Len(list[i].tool_calls)
<1>0. WellFormed(list)
  BY DEF StrictList
<1>1. /\ n \in Nat /\ DOMAIN list[i].tool_calls = 1..n /\ list[i] \in Message
      /\ list[i].tool_calls \in Seq(Call)
  BY <1>0, MessageParts
<1>2. CASE list[i].role = "tool"
  <2>1. e = <<>>
    BY <1>0, <1>2, StrictPairs, EmitsNothing
  <2> HIDE DEF e
  <2>2. Len(e) = 0
    BY <2>1
  <2> QED BY <1>1, <1>2, <2>1, <2>2 DEF e
<1>3. CASE list[i].role # "tool" /\ list[i].tool_calls = <<>>
  <2>1. e = <<list[i]>>
    BY <1>0, <1>3, EmitsText
  <2> HIDE DEF e
  <2>2. n = 0
    BY <1>3
  <2>3. e # <<>> /\ Len(e) = 1 /\ e[1] = list[i]
    BY <2>1
  <2> QED BY <1>1, <1>3, <2>2, <2>3 DEF e
<1>4. CASE list[i].role # "tool" /\ list[i].tool_calls # <<>>
  <2>1. /\ e \in Seq(Message) /\ Len(e) = 1 + n
        /\ e[1] = Block(e[1].tool_calls)
        /\ e[1].tool_calls \in Seq(Call) /\ Len(e[1].tool_calls) = n
    BY <1>0, <1>4, EmitsBlock
  <2>2. ASSUME NEW p \in 1..n
        PROVE  /\ e[1].tool_calls[p] = list[i].tool_calls[p]
               /\ e[1 + p] = list[i + p]
    <3>1. p \in DOMAIN list[i].tool_calls
      BY <1>1
    <3>2. /\ NamesOf(list)[<<i, p>>] = list[i].tool_calls[p].id
          /\ <<<<i, p>>, ToolSlot(list, i + p)>> \in Pairs(list)
          /\ Unanswered(list, Pairs(list)) = {}
      BY <3>1, StrictPairs
    <3>3. /\ <<i, p>> \in CallSlots(list)
          /\ e[1].tool_calls[p] = [id |-> list[i].tool_calls[p].id,
                                    no |-> list[i].tool_calls[p].no]
          /\ e[1 + p] = AnswerOf(list, <<i, p>>)
      <4>1. /\ <<i, p>> \in CallSlots(list)
            /\ e[1].tool_calls[p] = [id |-> NamesOf(list)[<<i, p>>],
                                      no |-> list[i].tool_calls[p].no]
            /\ e[1 + p] = AnswerOf(list, <<i, p>>)
        BY <1>0, <1>4, EmitsBlock
      <4> QED BY <3>2, <4>1
    <3>4. e[1].tool_calls[p] = list[i].tool_calls[p]
      <4>1. list[i].tool_calls[p] \in Call
        BY <1>0, <3>1, MessageParts
      <4> QED BY <3>3, <4>1 DEF Call
    <3> DEFINE c == <<i, p>>
    <3>5. PICK j \in DOMAIN list :
              /\ <<c, ToolSlot(list, j)>> \in Pairs(list)
              /\ AnswerOf(list, c) = [list[j] EXCEPT !.id = NamesOf(list)[c]]
      <4>1. c \in CallSlots(list) /\ c \notin Unanswered(list, Pairs(list))
        BY <3>2, <3>3
      <4> HIDE DEF c
      <4> QED BY <1>0, <4>1, AnswerOfAnswered
    <3>6. /\ i + p \in DOMAIN list
          /\ list[i + p].id = list[i].tool_calls[p].id
      BY <3>1, StrictAnswers
    <3>7. j = i + p
      <4>1. ToolSlot(list, j) = ToolSlot(list, i + p)
        <5> DEFINE x == <<c, ToolSlot(list, j)>>
                   y == <<c, ToolSlot(list, i + p)>>
        <5>1. x \in Pairs(list) /\ y \in Pairs(list) /\ x[1] = y[1]
          BY <3>2, <3>5
        <5>2. x[2] = y[2]
          <6> HIDE DEF x, y
          <6> QED BY <1>0, <5>1, PairsMatch
        <5> QED BY <5>2
      <4> QED BY <1>0, <3>6, <4>1, ToolSlotsDiffer
    <3>8. AnswerOf(list, c) = list[i + p]
      <4> DEFINE r == list[i + p]
      <4>1. r \in Message /\ AnswerOf(list, c) = [r EXCEPT !.id = r.id]
        BY <1>0, <3>2, <3>5, <3>6, <3>7, MessageParts
      <4> HIDE DEF r
      <4>2. [r EXCEPT !.id = r.id] = r
        BY <4>1 DEF Message
      <4> QED BY <4>1, <4>2 DEF r
    <3> QED BY <3>3, <3>4, <3>8
  <2>3. e[1].tool_calls = list[i].tool_calls
    <3> DEFINE new == e[1].tool_calls
               old == list[i].tool_calls
    <3>1. /\ new \in Seq(Call) /\ old \in Seq(Call) /\ Len(new) = Len(old)
          /\ \A p \in 1..Len(old) : new[p] = old[p]
      BY <1>1, <2>1, <2>2
    <3> HIDE DEF new, old
    <3>2. new = old
      BY <3>1, SeqEqual
    <3> QED BY <3>2 DEF new, old
  <2>4. e[1] = list[i]
    BY <1>4, <2>1, <2>3 DEF StrictList
  <2> HIDE DEF e
  <2>5. e # <<>>
    BY <1>1, <2>1
  <2> QED BY <1>1, <1>4, <2>1, <2>2, <2>4, <2>5 DEF e
<1> QED BY <1>2, <1>3, <1>4

(* Where the emission of the k-th message of a strict list starts: a result *)
(* comes after its block and all the answers of it.                         *)
StartsRight(list, off, k) ==
    /\ \A i \in DOMAIN list : \A p \in DOMAIN list[i].tool_calls :
           k = i + p => off[k] = i + Len(list[i].tool_calls)
    /\ (\A i \in DOMAIN list : \A p \in DOMAIN list[i].tool_calls : k # i + p) =>
           off[k] = k - 1

LEMMA StartsRightNext ==
  ASSUME NEW list, StrictList(list), NEW k \in DOMAIN list, NEW off,
         off[k + 1] = off[k] + Len(Emission(list, k)), StartsRight(list, off, k)
  PROVE  StartsRight(list, off, k + 1)
<1> DEFINE n == Len(list[k].tool_calls)
           a == off[k]
           b == off[k + 1]
           l == Len(Emission(list, k))
<1>0. WellFormed(list) /\ b = a + l
  BY DEF StrictList
<1>1. /\ k \in Nat /\ n \in Nat /\ DOMAIN list[k].tool_calls = 1..n
      /\ list[k].role = "tool" => l = 0
      /\ list[k].role # "tool" => l = 1 + n
  BY <1>0, MessageParts, StrictEmission
<1>2. ASSUME list[k].role # "tool" PROVE a = k - 1
  BY <1>2, StrictAnswers DEF StartsRight
<1>3. ASSUME NEW i \in DOMAIN list, NEW p \in DOMAIN list[i].tool_calls, k = i + p
      PROVE  list[k].role = "tool" /\ a = i + Len(list[i].tool_calls)
  BY <1>3, StrictAnswers DEF StartsRight
<1> HIDE DEF a, b, l
<1>4. ASSUME NEW i \in DOMAIN list, NEW p \in DOMAIN list[i].tool_calls, k + 1 = i + p
      PROVE  b = i + Len(list[i].tool_calls)
  <2> DEFINE m == Len(list[i].tool_calls)
  <2>1. i \in Nat /\ p \in Nat /\ p >= 1 /\ p <= m /\ m \in Nat /\ DOMAIN list[i].tool_calls = 1..m
    BY <1>0, StrictAnswers, MessageParts
  <2>2. CASE p = 1
    <3>1. i = k
      BY <1>1, <1>4, <2>1, <2>2
    <3>2. list[k].role # "tool"
      <4>1. list[k].tool_calls # <<>>
        BY <3>1
      <4> QED BY <1>0, <4>1 DEF WellFormed
    <3>3. a = k - 1 /\ l = 1 + n
      BY <1>1, <1>2, <3>2
    <3>4. m = n
      BY <3>1
    <3> HIDE DEF m, n
    <3>5. b = i + m
      BY <1>0, <1>1, <3>1, <3>3, <3>4
    <3> QED BY <3>5 DEF m
  <2>3. CASE p # 1
    <3>1. p - 1 \in DOMAIN list[i].tool_calls /\ k = i + (p - 1)
      BY <1>1, <1>4, <2>1, <2>3
    <3>2. list[k].role = "tool" /\ a = i + m
      BY <1>3, <3>1
    <3>3. l = 0
      BY <1>1, <3>2
    <3> HIDE DEF m
    <3> QED BY <1>0, <2>1, <3>2, <3>3 DEF m
  <2> QED BY <2>2, <2>3
<1>5. ASSUME \A i \in DOMAIN list : \A p \in DOMAIN list[i].tool_calls : k + 1 # i + p
      PROVE  b = (k + 1) - 1
  <2>1. CASE list[k].role # "tool"
    <3>1. n = 0
      <4>1. 1 \notin DOMAIN list[k].tool_calls
        BY <1>5
      <4> QED BY <1>1, <4>1
    <3>2. a = k - 1 /\ l = 1
      BY <1>1, <1>2, <2>1, <3>1
    <3> QED BY <1>0, <1>1, <3>2
  <2>2. CASE list[k].role = "tool"
    <3>1. PICK i \in DOMAIN list : \E p \in DOMAIN list[i].tool_calls : k = i + p
      BY <2>2, StrictResults
    <3>2. PICK p \in DOMAIN list[i].tool_calls : k = i + p
      BY <3>1
    <3> DEFINE m == Len(list[i].tool_calls)
    <3>3. i \in Nat /\ p \in Nat /\ p >= 1 /\ p <= m /\ m \in Nat /\ DOMAIN list[i].tool_calls = 1..m
      BY <1>0, StrictAnswers, MessageParts
    <3>4. a = i + m /\ l = 0
      BY <1>1, <1>3, <2>2, <3>2
    <3>5. p = m
      <4>1. p + 1 \notin 1..m
        <5> SUFFICES ASSUME p + 1 \in 1..m PROVE FALSE
          OBVIOUS
        <5>1. k + 1 # i + (p + 1)
          BY <1>5, <3>3
        <5> QED BY <3>2, <3>3, <5>1
      <4> HIDE DEF m
      <4> QED BY <3>3, <4>1
    <3> HIDE DEF m
    <3> QED BY <1>0, <1>1, <3>2, <3>3, <3>4, <3>5
  <2> QED BY <2>1, <2>2
<1> QED BY <1>4, <1>5 DEF StartsRight, b

LEMMA StrictListIsKept ==
  ASSUME NEW list, StrictList(list)
  PROVE  Repaired(list) = list
<1> DEFINE F == Repaired(list)
           len == Len(list)
<1>0. WellFormed(list) /\ list \in Seq(Message) /\ DOMAIN list = 1..len /\ len \in Nat
  BY LenProperties DEF StrictList, WellFormed
<1>1. PICK off : IsLayout(off, Parts(list), F)
  BY <1>0, RepairedIsLaidOut
<1>2. /\ off[1] = 0 /\ off[len + 1] = Len(F)
      /\ \A k \in 1..len : off[k + 1] = off[k] + Len(Emission(list, k))
  <2>1. /\ Len(Parts(list)) = len /\ DOMAIN Parts(list) = 1..len
        /\ \A k \in 1..len : Parts(list)[k] = Emission(list, k)
    BY <1>0, RepairedIsLaidOut
  <2>2. /\ off[1] = 0 /\ off[Len(Parts(list)) + 1] = Len(F)
        /\ \A k \in DOMAIN Parts(list) : off[k + 1] = off[k] + Len(Parts(list)[k])
    BY <1>1 DEF IsLayout
  <2> QED BY <2>1, <2>2
<1> DEFINE Right == {n \in Nat : n <= len => StartsRight(list, off, n + 1)}
<1>3. 0 \in Right
  <2>1. ASSUME NEW i \in DOMAIN list, NEW p \in DOMAIN list[i].tool_calls PROVE 1 # i + p
    <3>1. i \in 1..len /\ p \in Nat /\ p >= 1
      BY <1>0, StrictAnswers
    <3> QED BY <3>1
  <2>2. StartsRight(list, off, 1)
    BY <1>2, <2>1 DEF StartsRight
  <2> QED BY <2>2
<1>4. ASSUME NEW n \in Nat, n \in Right PROVE n + 1 \in Right
  <2> SUFFICES ASSUME n + 1 <= len PROVE StartsRight(list, off, (n + 1) + 1)
    BY <1>4
  <2> DEFINE k == n + 1
  <2>1. k \in 1..len /\ StartsRight(list, off, k)
    BY <1>0, <1>4
  <2>2. k \in DOMAIN list /\ off[k + 1] = off[k] + Len(Emission(list, k))
    BY <1>0, <1>2, <2>1
  <2> HIDE DEF k
  <2>3. StartsRight(list, off, k + 1)
    BY <2>1, <2>2, StartsRightNext
  <2> QED BY <2>3 DEF k
<1>5. ASSUME NEW k \in 1..(len + 1) PROVE StartsRight(list, off, k)
  <2>1. Nat \subseteq Right
    <3> HIDE DEF Right
    <3> QED BY <1>3, <1>4, NumberInduction
  <2>2. k - 1 \in Nat /\ k - 1 <= len /\ (k - 1) + 1 = k
    BY <1>0
  <2>3. StartsRight(list, off, (k - 1) + 1)
    BY <2>1, <2>2
  <2> QED BY <2>2, <2>3
<1> HIDE DEF F, Right
<1>6. Len(F) = len
  <2>1. ASSUME NEW i \in DOMAIN list, NEW p \in DOMAIN list[i].tool_calls PROVE len + 1 # i + p
    <3>1. i + p \in 1..len
      BY <1>0, StrictAnswers
    <3> QED BY <1>0, <3>1
  <2>2. StartsRight(list, off, len + 1)
    BY <1>0, <1>5
  <2>3. off[len + 1] = (len + 1) - 1
    BY <2>1, <2>2 DEF StartsRight
  <2> QED BY <1>0, <1>2, <2>3
<1>7. ASSUME NEW i \in DOMAIN list, list[i].role # "tool"
      PROVE  /\ F[i] = list[i]
             /\ \A p \in DOMAIN list[i].tool_calls : F[i + p] = list[i + p]
  <2> DEFINE n == Len(list[i].tool_calls)
  <2>1. /\ n \in Nat /\ DOMAIN list[i].tool_calls = 1..n
        /\ Emission(list, i) # <<>> /\ Emission(list, i)[1] = list[i]
        /\ \A p \in 1..n : Emission(list, i)[1 + p] = list[i + p]
    BY <1>7, StrictEmission
  <2>2. off[i] = i - 1
    <3>1. \A j \in DOMAIN list : \A p \in DOMAIN list[j].tool_calls : i # j + p
      BY <1>7, StrictAnswers
    <3>2. StartsRight(list, off, i)
      BY <1>0, <1>5
    <3> QED BY <3>1, <3>2 DEF StartsRight
  <2>3. /\ F[off[i] + 1] = list[i]
        /\ \A p \in 1..n : F[off[i] + (1 + p)] = list[i + p]
    <3> DEFINE e == Emission(list, i)
    <3>1. /\ F[off[i] + 1] = e[1]
          /\ \A p \in 1 .. Len(e[1].tool_calls) : F[off[i] + (1 + p)] = e[1 + p]
      BY <1>0, <1>1, <2>1, RepairedGroups DEF F
    <3>2. e[1] = list[i] /\ \A p \in 1..n : e[1 + p] = list[i + p]
      BY <2>1
    <3> HIDE DEF e
    <3> QED BY <3>1, <3>2
  <2> HIDE DEF n
  <2>4. i \in Nat
    BY <1>0
  <2>5. F[i] = list[i]
    <3>1. off[i] + 1 = i
      BY <2>2, <2>4
    <3> QED BY <2>3, <3>1
  <2>6. ASSUME NEW p \in 1..n PROVE F[i + p] = list[i + p]
    <3>1. off[i] + (1 + p) = i + p
      BY <2>1, <2>2, <2>4
    <3> QED BY <2>3, <3>1
  <2> QED BY <2>1, <2>5, <2>6
<1>8. ASSUME NEW k \in 1..len PROVE F[k] = list[k]
  <2>1. CASE list[k].role # "tool"
    BY <1>0, <1>7, <2>1
  <2>2. CASE list[k].role = "tool"
    <3>1. PICK i \in DOMAIN list : \E p \in DOMAIN list[i].tool_calls : k = i + p
      BY <1>0, <2>2, StrictResults
    <3>2. PICK p \in DOMAIN list[i].tool_calls : k = i + p
      BY <3>1
    <3>3. list[i].role # "tool"
      <4>1. list[i].tool_calls # <<>>
        BY <3>2
      <4> QED BY <1>0, <4>1 DEF WellFormed
    <3> QED BY <1>7, <3>2, <3>3
  <2> QED BY <2>1, <2>2
<1>9. F \in Seq(Message)
  BY <1>0, RepairedIsLaidOut DEF F
<1>10. F = list
  BY <1>0, <1>6, <1>8, <1>9, SeqEqual
<1> QED BY <1>10 DEF F

(* Whatever it repairs, what the hook makes of it is such a list.           *)
LEMMA RepairedIsStrictList ==
  ASSUME NEW list, WellFormed(list)
  PROVE  StrictList(Repaired(list))
<1> DEFINE F == Repaired(list)
<1>1. PICK off : IsLayout(off, Parts(list), F)
  BY RepairedIsLaidOut
<1>2. ASSUME NEW k \in DOMAIN F, F[k].tool_calls # <<>> PROVE F[k] = Block(F[k].tool_calls)
  <2>1. PICK i \in DOMAIN list : LET e == Emission(list, i) IN
            /\ e # <<>>
            /\ \/ F[k] = e[1]
               \/ \E q \in 1 .. Len(e[1].tool_calls) : F[k] = e[1 + q]
    BY <1>1, RepairedPositions
  <2> DEFINE e == Emission(list, i)
             n == Len(e[1].tool_calls)
  <2>2. \A q \in 1..n : e[1 + q].tool_calls = <<>>
    BY <2>1, EmissionIsGroup
  <2>3. F[k] = e[1]
    BY <1>2, <2>1, <2>2
  <2>4. CASE list[i].role # "tool" /\ list[i].tool_calls = <<>>
    <3>1. e = <<list[i]>>
      BY <2>4, EmitsText
    <3> HIDE DEF e
    <3>2. e[1] = list[i]
      BY <3>1
    <3> QED BY <1>2, <2>3, <2>4, <3>2
  <2>5. CASE list[i].role # "tool" /\ list[i].tool_calls # <<>>
    BY <2>3, <2>5, EmitsBlock
  <2>6. CASE list[i].role = "tool"
    <3>1. ToolSlot(list, i) \in Orphans(list, Pairs(list))
      BY <2>1, <2>6, EmitsNothing
    <3> DEFINE id == NamesOf(list)[ToolSlot(list, i)]
               one == <<[id |-> id, no |-> Fabricated]>>
               kept == [list[i] EXCEPT !.id = id]
    <3>2. e = <<Block(one), kept>> /\ e[1].tool_calls = one
      BY <3>1, EmitsStub
    <3> HIDE DEF e, one, kept
    <3>3. e[1] = Block(one)
      BY <3>2
    <3> QED BY <2>3, <3>2, <3>3
  <2> QED BY <2>4, <2>5, <2>6
<1> QED BY <1>2, RepairedIsWellFormed, RepairedIsStrict DEF StrictList

(* A client that keeps the repaired transcript is not repaired again: what  *)
(* the hook forwards is a fixed point of repair_messages.                   *)
THEOREM RepairIsIdempotent == Spec => []RepairedOnce
<1>1. StrictList(<<>>)
  <2>1. DOMAIN <<>> = {}
    OBVIOUS
  <2> QED BY <2>1, EmptyIsWellFormed DEF StrictList
<1>2. RepairInv => StrictList(forwarded)
  BY <1>1, RepairedIsStrictList DEF RepairInv, Sound
<1>3. RepairInv => RepairedOnce
  BY <1>2, StrictListIsKept DEF RepairedOnce
<1> QED BY <1>3, RepairInvariant, PTL
=============================================================================
