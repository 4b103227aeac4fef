---------------------------- MODULE CallStackLemmas ----------------------------
(* Lemmas about stacks of call frames kept as sequences with the innermost    *)
(* frame first. A push or a return renumbers such a sequence, so invariants   *)
(* that relate several frames count them from the bottom: a frame keeps its   *)
(* number for as long as its call lasts. Also what erase does to a vector.    *)
EXTENDS Sequences, Integers, SequenceTheorems, TLAPS

FromBottom(s, d) == s[Len(s) + 1 - d]

\* The innermost frame of a stack in use is the one with the highest number.
LEMMA TopFrame ==
    ASSUME NEW S, NEW s \in Seq(S), s # <<>>
    PROVE  /\ Len(s) \in Nat
           /\ Len(s) >= 1
           /\ Head(s) = FromBottom(s, Len(s))
           /\ Head(s) = s[1]
           /\ Head(s) \in S
BY EmptySeq, LenProperties, HeadTailProperties DEF FromBottom

\* Every numbered frame is a frame, and every frame has a number.
LEMMA NumberedFrames ==
    ASSUME NEW S, NEW s \in Seq(S)
    PROVE  /\ Len(s) \in Nat
           /\ DOMAIN s = 1..Len(s)
           /\ \A d \in 1..Len(s) : FromBottom(s, d) \in S
           /\ \A n \in DOMAIN s : /\ Len(s) + 1 - n \in 1..Len(s)
                                  /\ s[n] = FromBottom(s, Len(s) + 1 - n)
<1>1. Len(s) \in Nat /\ DOMAIN s = 1..Len(s) /\ s \in [1..Len(s) -> S]
  BY LenProperties
<1>2. \A d \in 1..Len(s) : FromBottom(s, d) \in S
  BY <1>1 DEF FromBottom
<1>3. \A n \in DOMAIN s : Len(s) + 1 - n \in 1..Len(s) /\ s[n] = FromBottom(s, Len(s) + 1 - n)
  BY <1>1 DEF FromBottom
<1> QED BY <1>1, <1>2, <1>3

\* A call adds one frame and leaves the others alone.
LEMMA PushFrame ==
    ASSUME NEW S, NEW s \in Seq(S), NEW f \in S
    PROVE  /\ (<<f>> \o s) \in Seq(S)
           /\ (<<f>> \o s) # <<>>
           /\ Len(s) \in Nat
           /\ Len(<<f>> \o s) = Len(s) + 1
           /\ Head(<<f>> \o s) = f
           /\ FromBottom(<<f>> \o s, Len(s) + 1) = f
           /\ \A d \in 1..Len(s) : FromBottom(<<f>> \o s, d) = FromBottom(s, d)
<1> DEFINE u == <<f>> \o s
<1>1. /\ <<f>> \in Seq(S)
      /\ Len(<<f>>) = 1
      /\ <<f>>[1] = f
      /\ Len(s) \in Nat
  BY LenProperties
<1>2. /\ u \in Seq(S)
      /\ Len(u) = 1 + Len(s)
      /\ \A i \in 1..1 + Len(s) : u[i] = IF i <= 1 THEN <<f>>[i] ELSE s[i - 1]
  BY <1>1, ConcatProperties
<1> HIDE DEF u
<1>3. u # <<>>
  BY <1>1, <1>2, EmptySeq
<1>4. Head(u) = u[1] /\ u[1] = f
  BY <1>1, <1>2, <1>3
<1>5. \A d \in 1..Len(s) : u[Len(u) + 1 - d] = s[Len(s) + 1 - d]
  <2> TAKE d \in 1..Len(s)
  <2>1. Len(u) + 1 - d \in 1..1 + Len(s) /\ ~(Len(u) + 1 - d <= 1)
    BY <1>1, <1>2
  <2>2. u[Len(u) + 1 - d] = s[(Len(u) + 1 - d) - 1]
    BY <2>1, <1>2
  <2> QED BY <2>2, <1>1, <1>2
<1>6. Len(u) + 1 - (Len(s) + 1) = 1
  BY <1>1, <1>2
<1> QED BY <1>1, <1>2, <1>3, <1>4, <1>5, <1>6 DEF u, FromBottom

\* A return removes the innermost frame and leaves the others alone.
LEMMA PopFrame ==
    ASSUME NEW S, NEW s \in Seq(S), s # <<>>
    PROVE  /\ Tail(s) \in Seq(S)
           /\ Len(Tail(s)) = Len(s) - 1
           /\ Len(Tail(s)) \in Nat
           /\ \A d \in 1..Len(Tail(s)) : FromBottom(Tail(s), d) = FromBottom(s, d)
<1>1. /\ Tail(s) \in Seq(S)
      /\ Len(Tail(s)) = Len(s) - 1
      /\ \A i \in 1..Len(Tail(s)) : Tail(s)[i] = s[i + 1]
  BY HeadTailProperties
<1>2. Len(s) \in Nat /\ Len(Tail(s)) \in Nat
  BY <1>1, LenProperties
<1>3. \A d \in 1..Len(Tail(s)) : FromBottom(Tail(s), d) = FromBottom(s, d)
  <2> TAKE d \in 1..Len(Tail(s))
  <2>1. Len(Tail(s)) + 1 - d \in 1..Len(Tail(s))
    BY <1>2
  <2>2. Tail(s)[Len(Tail(s)) + 1 - d] = s[Len(Tail(s)) + 1 - d + 1]
    BY <2>1, <1>1
  <2> QED BY <2>2, <1>1, <1>2 DEF FromBottom
<1> QED BY <1>1, <1>2, <1>3

\* A call that goes on changes its own frame only.
LEMMA ReplaceFrame ==
    ASSUME NEW S, NEW s \in Seq(S), s # <<>>, NEW f \in S
    PROVE  /\ (<<f>> \o Tail(s)) \in Seq(S)
           /\ (<<f>> \o Tail(s)) # <<>>
           /\ Len(s) \in Nat
           /\ Len(s) >= 1
           /\ Len(<<f>> \o Tail(s)) = Len(s)
           /\ Head(<<f>> \o Tail(s)) = f
           /\ FromBottom(<<f>> \o Tail(s), Len(s)) = f
           /\ \A d \in 1..Len(s) : d # Len(s) => FromBottom(<<f>> \o Tail(s), d) = FromBottom(s, d)
<1> DEFINE r == Tail(s)
           u == <<f>> \o r
<1>1. /\ Len(s) \in Nat
      /\ Len(s) >= 1
      /\ Len(r) = Len(s) - 1
      /\ r \in Seq(S)
      /\ \A d \in 1..Len(r) : FromBottom(r, d) = FromBottom(s, d)
  BY TopFrame, PopFrame
<1> HIDE DEF r
<1>2. /\ u \in Seq(S)
      /\ u # <<>>
      /\ Len(u) = Len(r) + 1
      /\ Head(u) = f
      /\ FromBottom(u, Len(r) + 1) = f
      /\ \A d \in 1..Len(r) : FromBottom(u, d) = FromBottom(r, d)
  BY <1>1, PushFrame
<1> HIDE DEF u
<1>3. /\ Len(u) = Len(s)
      /\ FromBottom(u, Len(s)) = f
      /\ \A d \in 1..Len(s) : d # Len(s) => FromBottom(u, d) = FromBottom(s, d)
  BY <1>1, <1>2
<1> QED BY <1>1, <1>2, <1>3 DEF u, r

\* A call that goes on and makes a further call: its own frame changes, the new
\* one comes on top.
LEMMA ReplaceAndPushFrame ==
    ASSUME NEW S, NEW s \in Seq(S), s # <<>>, NEW f \in S, NEW g \in S
    PROVE  /\ (<<g, f>> \o Tail(s)) \in Seq(S)
           /\ (<<g, f>> \o Tail(s)) # <<>>
           /\ Len(s) \in Nat
           /\ Len(s) >= 1
           /\ Len(<<g, f>> \o Tail(s)) = Len(s) + 1
           /\ Head(<<g, f>> \o Tail(s)) = g
           /\ FromBottom(<<g, f>> \o Tail(s), Len(s) + 1) = g
           /\ FromBottom(<<g, f>> \o Tail(s), Len(s)) = f
           /\ \A d \in 1..Len(s) : d # Len(s) => FromBottom(<<g, f>> \o Tail(s), d) = FromBottom(s, d)
<1> DEFINE v == <<f>> \o Tail(s)
           u == <<g, f>> \o Tail(s)
<1>1. /\ v \in Seq(S)
      /\ Len(s) \in Nat
      /\ Len(s) >= 1
      /\ Len(v) = Len(s)
      /\ FromBottom(v, Len(s)) = f
      /\ \A d \in 1..Len(s) : d # Len(s) => FromBottom(v, d) = FromBottom(s, d)
  BY ReplaceFrame
<1>2. u = <<g>> \o v
  <2>1. <<g>> \in Seq(S) /\ <<f>> \in Seq(S) /\ Tail(s) \in Seq(S)
    BY PopFrame
  <2>2. <<g, f>> = <<g>> \o <<f>>
    OBVIOUS
  <2>3. (<<g>> \o <<f>>) \o Tail(s) = <<g>> \o (<<f>> \o Tail(s))
    BY <2>1, ConcatAssociative
  <2> QED BY <2>2, <2>3
<1> HIDE DEF u, v
<1>3. /\ u \in Seq(S)
      /\ u # <<>>
      /\ Len(u) = Len(v) + 1
      /\ Head(u) = g
      /\ FromBottom(u, Len(v) + 1) = g
      /\ \A d \in 1..Len(v) : FromBottom(u, d) = FromBottom(v, d)
  BY <1>1, <1>2, PushFrame
<1>4. /\ Len(u) = Len(s) + 1
      /\ FromBottom(u, Len(s) + 1) = g
      /\ FromBottom(u, Len(s)) = f
      /\ \A d \in 1..Len(s) : d # Len(s) => FromBottom(u, d) = FromBottom(s, d)
  BY <1>1, <1>3
<1> QED BY <1>1, <1>3, <1>4 DEF u

-----------------------------------------------------------------------------
(* A vector's erase.                                                          *)

\* erase closes the gap and keeps the order of the others.
LEMMA ErasedAt ==
    ASSUME NEW S, NEW q \in Seq(S), NEW k \in 1..Len(q)
    PROVE  /\ SubSeq(q, 1, k - 1) \o SubSeq(q, k + 1, Len(q)) \in Seq(S)
           /\ Len(SubSeq(q, 1, k - 1) \o SubSeq(q, k + 1, Len(q))) = Len(q) - 1
           /\ DOMAIN (SubSeq(q, 1, k - 1) \o SubSeq(q, k + 1, Len(q))) = 1..(Len(q) - 1)
           /\ \A i \in 1..(Len(q) - 1) :
                 (SubSeq(q, 1, k - 1) \o SubSeq(q, k + 1, Len(q)))[i]
                    = IF i < k THEN q[i] ELSE q[i + 1]
<1> DEFINE a == SubSeq(q, 1, k - 1)
           b == SubSeq(q, k + 1, Len(q))
<1>1. Len(q) \in Nat /\ q \in [1..Len(q) -> S] /\ k \in Nat
  BY LenProperties
<1>2. /\ a \in Seq(S)
      /\ Len(a) = k - 1
      /\ \A i \in 1..(k - 1) : a[i] = q[i]
  <2>1. \A i \in 1..(k - 1) : q[i] \in S
    BY <1>1
  <2>2. 1 \in Int /\ k - 1 \in Int
    BY <1>1
  <2> HIDE DEF a
  <2>3. /\ a \in Seq(S)
        /\ Len(a) = IF 1 <= k - 1 THEN (k - 1) - 1 + 1 ELSE 0
        /\ \A i \in 1..((k - 1) - 1 + 1) : a[i] = q[1 + i - 1]
    BY <2>1, <2>2, SubSeqProperties DEF a
  <2> QED BY <2>3, <1>1
<1>3. /\ b \in Seq(S)
      /\ Len(b) = Len(q) - k
      /\ \A i \in 1..(Len(q) - k) : b[i] = q[k + i]
  <2>1. \A i \in (k + 1)..Len(q) : q[i] \in S
    BY <1>1
  <2>2. Len(q) \in Int /\ k + 1 \in Int
    BY <1>1
  <2> HIDE DEF b
  <2>3. /\ b \in Seq(S)
        /\ Len(b) = IF k + 1 <= Len(q) THEN Len(q) - (k + 1) + 1 ELSE 0
        /\ \A i \in 1..(Len(q) - (k + 1) + 1) : b[i] = q[k + 1 + i - 1]
    BY <2>1, <2>2, SubSeqProperties DEF b
  <2>4. Len(b) = Len(q) - k
    <3>1. Len(q) \in Int /\ k \in Int /\ k <= Len(q)
      BY <1>1
    <3>2. Len(b) = IF k + 1 <= Len(q) THEN Len(q) - (k + 1) + 1 ELSE 0
      BY <2>3
    <3> QED BY <3>1, <3>2
  <2>5. ASSUME NEW i \in 1..(Len(q) - k)
        PROVE  b[i] = q[k + i]
    <3>1. i \in 1..(Len(q) - (k + 1) + 1) /\ k + 1 + i - 1 = k + i
      BY <1>1
    <3> QED BY <3>1, <2>3
  <2> QED BY <2>3, <2>4, <2>5
<1> HIDE DEF a, b
<1>4. /\ a \o b \in Seq(S)
      /\ Len(a \o b) = Len(a) + Len(b)
      /\ \A i \in 1..(Len(a) + Len(b)) : (a \o b)[i] =
            IF i <= Len(a) THEN a[i] ELSE b[i - Len(a)]
  BY <1>2, <1>3, ConcatProperties
<1>5. Len(a \o b) = Len(q) - 1
  BY <1>1, <1>2, <1>3, <1>4
<1>6. ASSUME NEW i \in 1..(Len(q) - 1)
      PROVE  (a \o b)[i] = IF i < k THEN q[i] ELSE q[i + 1]
  <2>1. (a \o b)[i] = IF i <= k - 1 THEN a[i] ELSE b[i - (k - 1)]
    BY <1>1, <1>2, <1>3, <1>4
  <2>2. CASE i < k
    BY <2>1, <2>2, <1>1, <1>2
  <2>3. CASE ~(i < k)
    <3>1. PICK j \in 1..(Len(q) - k) : j = i - (k - 1) /\ k + j = i + 1
      BY <2>3, <1>1
    <3>2. ~(i <= k - 1)
      BY <2>3, <1>1
    <3>3. (a \o b)[i] = b[j]
      BY <2>1, <3>1, <3>2
    <3>4. b[j] = q[i + 1]
      BY <1>3, <3>1
    <3> QED BY <2>3, <3>3, <3>4
  <2> QED BY <2>2, <2>3
<1>7. SubSeq(q, 1, k - 1) \o SubSeq(q, k + 1, Len(q)) = a \o b
  BY DEF a, b
<1>8. DOMAIN (a \o b) = 1..(Len(q) - 1)
  BY <1>4, <1>5, LenProperties
<1> QED BY <1>4, <1>5, <1>6, <1>7, <1>8
===============================================================================
