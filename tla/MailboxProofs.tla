--------------------------- MODULE MailboxProofs ---------------------------
(***************************************************************************)
(* Proofs about Mailbox for every ring size, depth and set of frames.      *)
(***************************************************************************)
EXTENDS Mailbox, TLAPS

(* The part of the type invariant that is about the ring.                  *)
RingOK ==
  /\ lengths \in Seq(1 .. B) /\ Len(lengths) <= N
  /\ bytes \in [0 .. B - 1 -> Byte]
  /\ head \in 0 .. B - 1
  /\ used \in 0 .. B
  /\ content \in Seq(Frames)
  /\ Layout

-----------------------------------------------------------------------------
(* The ring index computed with % B is the one Wrap names.                 *)
LEMMA ModIsWrap ==
  ASSUME NEW x \in 0 .. 2 * B - 1
  PROVE  x % B = Wrap(x)
  BY MailboxAssumption DEF Wrap

(* An element of a sequence is a member of the set it is over.             *)
LEMMA SeqElements ==
  ASSUME NEW S, NEW s \in Seq(S)
  PROVE  Len(s) \in Nat /\ \A i \in 1 .. Len(s) : s[i] \in S
  OBVIOUS

(* Dropping l bytes from the head moves no byte behind them.               *)
LEMMA WrapShift ==
  ASSUME NEW h \in 0 .. B - 1, NEW l \in 1 .. B, NEW x \in l .. B - 1
  PROVE  Wrap(Wrap(h + l) + (x - l)) = Wrap(h + x)
  BY MailboxAssumption DEF Wrap

(* Smaller is one of its arguments and no more than either.                *)
LEMMA SmallerCases ==
  ASSUME NEW a \in Int, NEW b \in Int
  PROVE  (Smaller(a, b) = a /\ a <= b) \/ (Smaller(a, b) = b /\ b < a)
         \/ (Smaller(a, b) = b /\ a = b)
  BY DEF Smaller

(* Append leaves the elements where they are and puts the new one last.    *)
LEMMA AppendFacts ==
  ASSUME NEW S, NEW s \in Seq(S), NEW e \in S
  PROVE  /\ Append(s, e) \in Seq(S)
         /\ Len(Append(s, e)) = Len(s) + 1
         /\ \A i \in 1 .. Len(s) : Append(s, e)[i] = s[i]
         /\ Append(s, e)[Len(s) + 1] = e
  OBVIOUS

(* Tail drops the first element and moves the others up by one.            *)
LEMMA TailFacts ==
  ASSUME NEW S, NEW s \in Seq(S), s # <<>>
  PROVE  /\ Len(s) \in Nat \ {0}
         /\ s[1] \in S /\ Head(s) = s[1]
         /\ Tail(s) \in Seq(S)
         /\ Len(Tail(s)) = Len(s) - 1
         /\ \A i \in 1 .. Len(s) - 1 : Tail(s)[i] = s[i + 1]
  OBVIOUS

(* insert writes f after the bytes in use and touches none of them.        *)
LEMMA InsertBytes ==
  ASSUME RingOK, NEW f \in Frames, Fits(Len(f)), Insert(f)
  PROVE  /\ bytes' \in [0 .. B - 1 -> Byte]
         /\ \A y \in 0 .. used - 1 :
              bytes'[Wrap(head + y)] = bytes[Wrap(head + y)]
         /\ \A k \in 1 .. Len(f) :
              bytes'[Wrap(head + used + k - 1)] = f[k]
<1> DEFINE len   == Len(f)
           tail  == Wrap(head + used)
           first == Smaller(len, B - tail)
<1>1. f \in Seq(Byte) /\ B \in Nat \ {0}
  BY MailboxAssumption
<1>2. /\ len \in 1 .. B - used
      /\ head \in 0 .. B - 1 /\ used \in 0 .. B
      /\ bytes \in [0 .. B - 1 -> Byte]
  BY <1>1 DEF Fits, RingOK
<1>3. (head + used) % B = tail
  BY <1>1, <1>2, ModIsWrap
<1>4. tail \in 0 .. B - 1
  BY <1>1, <1>2 DEF Wrap
<1>5. first \in 1 .. len /\ tail + first <= B /\ (first = len \/ first = B - tail)
  BY <1>1, <1>2, <1>4 DEF Smaller
<1>6. bytes' = [j \in 0 .. B - 1 |->
                  IF tail <= j /\ j < tail + first THEN f[j - tail + 1]
                  ELSE IF j < len - first THEN f[first + j + 1]
                  ELSE bytes[j]]
  BY <1>3 DEF Insert
<1>7. bytes' \in [0 .. B - 1 -> Byte]
  <2> SUFFICES ASSUME NEW j \in 0 .. B - 1
               PROVE  bytes'[j] \in Byte
    BY <1>6
  <2>1. CASE tail <= j /\ j < tail + first
    <3>1. j - tail + 1 \in 1 .. len
      BY <2>1, <1>2, <1>4, <1>5
    <3> QED
      BY <2>1, <3>1, <1>1, <1>6
  <2>2. CASE ~(tail <= j /\ j < tail + first) /\ j < len - first
    <3>1. first + j + 1 \in 1 .. len
      BY <2>2, <1>2, <1>4, <1>5
    <3> QED
      BY <2>2, <3>1, <1>1, <1>6
  <2>3. CASE ~(tail <= j /\ j < tail + first) /\ ~(j < len - first)
    BY <2>3, <1>2, <1>6
  <2> QED
    BY <2>1, <2>2, <2>3
<1>8. ASSUME NEW y \in 0 .. used - 1
      PROVE  bytes'[Wrap(head + y)] = bytes[Wrap(head + y)]
  <2>1. Wrap(head + y) \in 0 .. B - 1
    BY <1>1, <1>2 DEF Wrap
  <2>2. ~(tail <= Wrap(head + y) /\ Wrap(head + y) < tail + first)
    BY <1>1, <1>2, <1>5 DEF Wrap
  <2>3. ~(Wrap(head + y) < len - first)
    BY <1>1, <1>2, <1>5 DEF Wrap
  <2> QED
    BY <2>1, <2>2, <2>3, <1>6
<1>9. ASSUME NEW k \in 1 .. len
      PROVE  bytes'[Wrap(head + used + k - 1)] = f[k]
  <2> DEFINE j == Wrap(head + used + k - 1)
  <2>1. j \in 0 .. B - 1
    BY <1>1, <1>2 DEF Wrap
  <2>2. CASE k <= first
    <3>1. tail <= j /\ j < tail + first /\ j - tail + 1 = k
      BY <2>2, <1>1, <1>2, <1>5 DEF Wrap
    <3> QED
      BY <3>1, <2>1, <1>6
  <2>3. CASE k > first
    <3>1. ~(tail <= j /\ j < tail + first) /\ j < len - first /\ first + j + 1 = k
      BY <2>3, <1>1, <1>2, <1>5 DEF Wrap
    <3> QED
      BY <3>1, <2>1, <1>6
  <2> QED
    BY <2>2, <2>3, <1>5
<1> QED
  BY <1>7, <1>8, <1>9

(* After an insert the ring holds the old frames and f behind them.        *)
LEMMA InsertKeepsRing ==
  ASSUME RingOK, NEW f \in Frames, Fits(Len(f)), Insert(f)
  PROVE  RingOK'
<1> DEFINE n == Len(lengths)
           len == Len(f)
<1>1. f \in Seq(Byte) /\ B \in Nat \ {0} /\ N \in Nat \ {0}
  BY MailboxAssumption
<1>2. PICK pos \in [1 .. n + 1 -> 0 .. used] : Placed(pos)
  BY DEF RingOK, Layout
<1>3. /\ len \in 1 .. B /\ used + len <= B /\ n \in Nat /\ n < N
      /\ lengths \in Seq(1 .. B) /\ content \in Seq(Frames) /\ Len(content) = n
      /\ head \in 0 .. B - 1 /\ used \in 0 .. B
  BY <1>1 DEF Fits, RingOK, Layout
<1>4. /\ lengths' = Append(lengths, len) /\ content' = Append(content, f)
      /\ used' = used + len /\ head' = head
  BY DEF Insert
<1>5. /\ bytes' \in [0 .. B - 1 -> Byte]
      /\ \A y \in 0 .. used - 1 : bytes'[Wrap(head + y)] = bytes[Wrap(head + y)]
      /\ \A k \in 1 .. len : bytes'[Wrap(head + used + k - 1)] = f[k]
  BY InsertBytes
<1>a. /\ \A i \in 1 .. n : lengths'[i] = lengths[i] /\ content'[i] = content[i]
      /\ \A i \in 1 .. n : lengths[i] \in 1 .. B
      /\ lengths'[n + 1] = len /\ content'[n + 1] = f
  <2>1. \A i \in 1 .. n : Append(lengths, len)[i] = lengths[i]
    BY <1>3, AppendFacts
  <2>2. \A i \in 1 .. n : Append(content, f)[i] = content[i]
    BY <1>3, AppendFacts
  <2>3. Append(lengths, len)[n + 1] = len /\ Append(content, f)[n + 1] = f
    BY <1>3, AppendFacts
  <2>4. \A i \in 1 .. n : lengths[i] \in 1 .. B
    BY <1>3, SeqElements
  <2> QED
    BY <2>1, <2>2, <2>3, <2>4, <1>4
<1>6. /\ lengths' \in Seq(1 .. B) /\ Len(lengths') = n + 1 /\ Len(lengths') <= N
      /\ content' \in Seq(Frames) /\ Len(content') = n + 1
      /\ head' \in 0 .. B - 1 /\ used' \in 0 .. B
  BY <1>1, <1>3, <1>4
<1> DEFINE q == [i \in 1 .. n + 2 |-> IF i = n + 2 THEN used + len ELSE pos[i]]
<1>7. q \in [1 .. Len(lengths') + 1 -> 0 .. used']
  BY <1>1, <1>2, <1>3, <1>4, <1>6
<1>8. q[1] = 0 /\ q[Len(lengths') + 1] = used'
  BY <1>2, <1>3, <1>4, <1>6 DEF Placed
<1>9. ASSUME NEW i \in 1 .. Len(lengths')
      PROVE  /\ lengths'[i] = Len(content'[i])
             /\ q[i + 1] = q[i] + lengths'[i]
             /\ \A j \in i + 1 .. Len(lengths') + 1 : q[i] + lengths'[i] <= q[j]
             /\ \A k \in 1 .. lengths'[i] :
                  bytes'[Wrap(head' + q[i] + k - 1)] = content'[i][k]
  <2>0. i = n + 1 \/ i \in 1 .. n
    BY <1>3, <1>6
  <2>1. CASE i = n + 1
    <3>1. lengths'[i] = len /\ content'[i] = f
      BY <2>1, <1>a
    <3>2. q[i] = used /\ q[i + 1] = used + len
      BY <2>1, <1>2, <1>3 DEF Placed
    <3>3. \A j \in i + 1 .. Len(lengths') + 1 : j = i + 1
      BY <2>1, <1>3, <1>6
    <3>4. \A j \in i + 1 .. Len(lengths') + 1 : q[i] + lengths'[i] <= q[j]
      BY <3>1, <3>2, <3>3, <1>3
    <3> HIDE DEF q
    <3> QED
      BY <3>1, <3>2, <3>4, <1>4, <1>5
  <2>2. CASE i \in 1 .. n
    <3>a. lengths'[i] = lengths[i] /\ content'[i] = content[i] /\ lengths[i] \in 1 .. B
      BY <2>2, <1>a
    <3>b. i # n + 2 /\ i + 1 # n + 2 /\ i \in 1 .. n + 2 /\ i + 1 \in 1 .. n + 2
          /\ i \in 1 .. n + 1 /\ i + 1 \in 1 .. n + 1
      BY <2>2, <1>3
    <3>c. q[i] = pos[i] /\ q[i + 1] = pos[i + 1]
      BY <3>b
    <3>d. pos[i] \in 0 .. used /\ pos[i + 1] \in 0 .. used
      BY <3>b, <1>2
    <3>1. /\ lengths'[i] = lengths[i] /\ content'[i] = content[i]
          /\ q[i] = pos[i] /\ q[i + 1] = pos[i + 1] /\ lengths[i] \in 1 .. B
          /\ pos[i] \in 0 .. used /\ pos[i + 1] \in 0 .. used
      BY <3>a, <3>c, <3>d
    <3>2. lengths[i] = Len(content[i]) /\ pos[i + 1] = pos[i] + lengths[i]
      BY <2>2, <1>2 DEF Placed
    <3>3. ASSUME NEW j \in i + 1 .. Len(lengths') + 1
          PROVE  q[i] + lengths'[i] <= q[j]
      <4>1. CASE j = n + 2
        BY <4>1, <3>1, <3>2, <1>1, <1>3
      <4>2. CASE j \in i + 1 .. n + 1
        <5>1. pos[i] + lengths[i] <= pos[j]
          BY <4>2, <2>2, <1>2 DEF Placed
        <5>2. q[j] = pos[j]
          BY <4>2, <2>2, <1>3
        <5> QED
          BY <5>1, <5>2, <3>1
      <4> QED
        BY <4>1, <4>2, <2>2, <1>3, <1>6
    <3>4. ASSUME NEW k \in 1 .. lengths'[i]
          PROVE  bytes'[Wrap(head' + q[i] + k - 1)] = content'[i][k]
      <4> DEFINE y == pos[i] + k - 1
      <4>0. k \in 1 .. lengths[i] /\ pos[i] + lengths[i] <= used
        BY <3>1, <3>2
      <4>1. y \in 0 .. used - 1 /\ head + y = head + pos[i] + k - 1
        <5>1. pos[i] \in Int /\ used \in Int /\ head \in Int
          BY <3>d, <1>3
        <5>2. k \in Int /\ k >= 1 /\ k <= lengths[i] /\ lengths[i] \in Int
          BY <4>0, <3>a
        <5>3. pos[i] >= 0
          BY <3>d
        <5> HIDE DEF q
        <5> QED
          BY <4>0, <5>1, <5>2, <5>3
      <4>2. bytes'[Wrap(head + y)] = bytes[Wrap(head + y)]
        BY <4>1, <1>5
      <4>3. bytes[Wrap(head + pos[i] + k - 1)] = content[i][k]
        BY <2>2, <3>1, <1>2 DEF Placed
      <4> QED
        BY <4>1, <4>2, <4>3, <3>1, <1>4
    <3> HIDE DEF q
    <3> QED
      BY <3>1, <3>2, <3>3, <3>4
  <2> HIDE DEF q
  <2> QED
    BY <2>0, <2>1, <2>2
<1>10. Layout'
  BY <1>6, <1>7, <1>8, <1>9 DEF Layout, Placed, Wrap
<1> QED
  BY <1>5, <1>6, <1>10 DEF RingOK

(* discard_front leaves the other frames where they are in the ring.       *)
LEMMA DiscardKeepsRing ==
  ASSUME RingOK, lengths # <<>>, DiscardFront
  PROVE  RingOK'
<1> DEFINE n == Len(lengths)
           l == lengths[1]
<1>1. B \in Nat \ {0} /\ N \in Nat \ {0}
  BY MailboxAssumption
<1>2. PICK pos \in [1 .. n + 1 -> 0 .. used] : Placed(pos)
  BY DEF RingOK, Layout
<1>3. /\ lengths \in Seq(1 .. B) /\ content \in Seq(Frames) /\ Len(content) = n
      /\ n <= N /\ n \in Nat \ {0} /\ content # <<>>
      /\ head \in 0 .. B - 1 /\ used \in 0 .. B
      /\ bytes \in [0 .. B - 1 -> Byte]
  BY TailFacts DEF RingOK, Layout
<1>4. /\ lengths' = Tail(lengths) /\ content' = Tail(content)
      /\ head' = (head + l) % B /\ used' = used - l /\ bytes' = bytes
  BY DEF DiscardFront
<1>5. /\ lengths' \in Seq(1 .. B) /\ Len(lengths') = n - 1
      /\ \A i \in 1 .. n - 1 : lengths'[i] = lengths[i + 1]
      /\ l \in 1 .. B
  BY <1>3, <1>4, TailFacts
<1>6. /\ content' \in Seq(Frames) /\ Len(content') = n - 1
      /\ \A i \in 1 .. n - 1 : content'[i] = content[i + 1]
  BY <1>3, <1>4, TailFacts
<1>7. /\ pos[1] = 0 /\ pos[n + 1] = used
      /\ \A i \in 1 .. n :
           /\ lengths[i] = Len(content[i]) /\ pos[i + 1] = pos[i] + lengths[i]
           /\ \A j \in i + 1 .. n + 1 : pos[i] + lengths[i] <= pos[j]
           /\ \A k \in 1 .. lengths[i] :
                bytes[Wrap(head + pos[i] + k - 1)] = content[i][k]
      /\ pos[1] + l = pos[2]
      /\ \A j \in 2 .. n + 1 : pos[1] + l <= pos[j]
  BY <1>2, <1>3 DEF Placed
<1>a. \A i \in 1 .. n : lengths[i] \in 1 .. B
  BY <1>3, SeqElements
<1> DEFINE q == [i \in 1 .. n |-> pos[i + 1] - l]
<1>q. \A i \in 1 .. n : q[i] = pos[i + 1] - l
  OBVIOUS
<1> HIDE DEF n, l, q
<1>b. \A i \in 2 .. n + 1 : pos[i] \in l .. used
  <2> SUFFICES ASSUME NEW i \in 2 .. n + 1
               PROVE  pos[i] \in l .. used
    OBVIOUS
  <2>1. pos[1] = 0 /\ pos[1] + l <= pos[i]
    BY <1>7
  <2>2. pos[i] \in 0 .. used
    BY <1>2, <1>3
  <2> QED
    BY <2>1, <2>2, <1>3, <1>5
<1>8. used' \in 0 .. B /\ l <= used
  <2>1. used \in l .. used
    BY <1>3, <1>7, <1>b
  <2> QED
    BY <2>1, <1>1, <1>3, <1>4, <1>5
<1>9. head' = Wrap(head + l) /\ head' \in 0 .. B - 1
  <2>1. head + l \in 0 .. 2 * B - 1
    BY <1>1, <1>3, <1>5
  <2>2. head' = Wrap(head + l)
    BY <2>1, <1>4, ModIsWrap
  <2> QED
    BY <2>1, <2>2, <1>1 DEF Wrap
<1>10. q \in [1 .. Len(lengths') + 1 -> 0 .. used']
  <2>1. ASSUME NEW i \in 1 .. n
        PROVE  pos[i + 1] - l \in 0 .. used - l
    <3>1. pos[i + 1] \in l .. used
      BY <1>3, <1>b
    <3> QED
      BY <3>1, <1>3, <1>5
  <2>2. Len(lengths') + 1 = n /\ used' = used - l
    BY <1>3, <1>4, <1>5
  <2> QED
    BY <2>1, <2>2 DEF q
<1>11. q[1] = 0 /\ q[Len(lengths') + 1] = used'
  <2>1. Len(lengths') + 1 = n /\ 1 \in 1 .. n /\ n \in 1 .. n
    BY <1>3, <1>5
  <2>2. q[1] = pos[2] - l /\ q[n] = pos[n + 1] - l
    BY <2>1, <1>q
  <2> QED
    BY <2>1, <2>2, <1>4, <1>5, <1>7
<1>12. ASSUME NEW i \in 1 .. Len(lengths')
       PROVE  /\ lengths'[i] = Len(content'[i])
              /\ q[i + 1] = q[i] + lengths'[i]
              /\ \A j \in i + 1 .. Len(lengths') + 1 : q[i] + lengths'[i] <= q[j]
              /\ \A k \in 1 .. lengths'[i] :
                   bytes'[Wrap(head' + q[i] + k - 1)] = content'[i][k]
  <2>1. /\ i \in 1 .. n - 1 /\ i + 1 \in 2 .. n + 1 /\ (i + 1) + 1 \in 2 .. n + 1
        /\ i \in 1 .. n /\ i + 1 \in 1 .. n
    BY <1>3, <1>5
  <2>2. lengths'[i] = lengths[i + 1] /\ content'[i] = content[i + 1]
    BY <2>1, <1>5, <1>6
  <2>3. q[i] = pos[i + 1] - l /\ q[i + 1] = pos[(i + 1) + 1] - l
    BY <2>1, <1>q
  <2>4. lengths[i + 1] = Len(content[i + 1]) /\ pos[(i + 1) + 1] = pos[i + 1] + lengths[i + 1]
    BY <2>1, <1>7
  <2>5. /\ pos[i + 1] \in l .. used /\ pos[(i + 1) + 1] \in l .. used
        /\ lengths[i + 1] \in 1 .. B
    BY <2>1, <1>a, <1>b
  <2>6. ASSUME NEW j \in i + 1 .. Len(lengths') + 1
        PROVE  q[i] + lengths'[i] <= q[j]
    <3>1. j \in 1 .. n /\ j + 1 \in (i + 1) + 1 .. n + 1 /\ j + 1 \in 2 .. n + 1
      BY <1>3, <1>5
    <3>2. pos[i + 1] + lengths[i + 1] <= pos[j + 1]
      BY <3>1, <2>1, <1>7
    <3>3. q[j] = pos[j + 1] - l /\ pos[j + 1] \in l .. used
      BY <3>1, <1>b, <1>q
    <3>4. q[i] + lengths'[i] = (pos[i + 1] - l) + lengths[i + 1]
      BY <2>2, <2>3
    <3> DEFINE p == pos[i + 1]
               m == lengths[i + 1]
               r == pos[j + 1]
    <3>5. p \in l .. used /\ m \in 1 .. B /\ r \in l .. used /\ p + m <= r
      BY <3>2, <3>3, <2>5
    <3> HIDE DEF p, m, r
    <3>6. (p - l) + m <= r - l
      BY <3>5, <1>3, <1>5
    <3> QED
      BY <3>3, <3>4, <3>6 DEF p, m, r
  <2>7. ASSUME NEW k \in 1 .. lengths'[i]
        PROVE  bytes'[Wrap(head' + q[i] + k - 1)] = content'[i][k]
    <3> DEFINE p == pos[i + 1]
               m == lengths[i + 1]
    <3>1. k \in 1 .. m
      BY <2>2
    <3>2. bytes[Wrap(head + p + k - 1)] = content[i + 1][k]
      BY <3>1, <2>1, <1>7
    <3>3. p \in l .. used /\ p + m \in l .. used /\ m \in 1 .. B
      BY <2>4, <2>5
    <3> HIDE DEF p, m
    <3>4. p + k - 1 \in l .. B - 1
      BY <3>1, <3>3, <1>1, <1>3, <1>5
    <3>5. Wrap(Wrap(head + l) + ((p + k - 1) - l)) = Wrap(head + (p + k - 1))
      BY <3>4, <1>3, <1>5, WrapShift
    <3>6. /\ head + (p + k - 1) = head + p + k - 1
          /\ head' + ((p + k - 1) - l) = head' + (p - l) + k - 1
      BY <3>1, <3>3, <1>3, <1>5, <1>9
    <3>7. q[i] = p - l
      BY <2>3 DEF p
    <3> QED
      BY <3>2, <3>5, <3>6, <3>7, <2>2, <1>4, <1>9
  <2>8. q[i + 1] = q[i] + lengths'[i]
    <3> DEFINE p == pos[i + 1]
               m == lengths[i + 1]
    <3>1. p \in l .. used /\ m \in 1 .. B
      BY <2>5
    <3> HIDE DEF p, m
    <3>2. (p + m) - l = (p - l) + m
      BY <3>1, <1>3, <1>5
    <3> QED
      BY <3>2, <2>2, <2>3, <2>4 DEF p, m
  <2>9. lengths'[i] = Len(content'[i])
    BY <2>2, <2>4
  <2> QED
    BY <2>6, <2>7, <2>8, <2>9
<1>13. Layout'
  BY <1>5, <1>6, <1>10, <1>11, <1>12 DEF Layout, Placed, Wrap
<1>14. lengths' \in Seq(1 .. B) /\ Len(lengths') <= N
  BY <1>1, <1>3, <1>5
<1>15. bytes' \in [0 .. B - 1 -> Byte]
  BY <1>3, <1>4
<1>16. content' \in Seq(Frames)
  BY <1>6
<1> QED
  BY <1>8, <1>9, <1>13, <1>14, <1>15, <1>16, Zenon DEF RingOK

(* What try_pop reads out of the ring is the oldest accepted frame.        *)
LEMMA FrontIsOldest ==
  ASSUME RingOK, lengths # <<>>
  PROVE  content # <<>> /\ Front = Head(content) /\ Front \in Seq(Byte)
<1> DEFINE n == Len(lengths)
           l == lengths[1]
           first == Smaller(l, B - head)
           f == content[1]
<1>1. B \in Nat \ {0} /\ Frames \subseteq Seq(Byte)
  BY MailboxAssumption
<1>2. PICK pos \in [1 .. n + 1 -> 0 .. used] : Placed(pos)
  BY DEF RingOK, Layout
<1>3. /\ lengths \in Seq(1 .. B) /\ content \in Seq(Frames) /\ Len(content) = n
      /\ n \in Nat \ {0} /\ content # <<>>
      /\ head \in 0 .. B - 1 /\ used \in 0 .. B
  BY TailFacts DEF RingOK, Layout
<1>4. l \in 1 .. B /\ f \in Seq(Byte) /\ Head(content) = f
  BY <1>1, <1>3, TailFacts
<1>5. /\ l = Len(f)
      /\ \A k \in 1 .. l : bytes[Wrap(head + 0 + k - 1)] = f[k]
  BY <1>2, <1>3 DEF Placed
<1>6. (first = l /\ l <= B - head) \/ (first = B - head /\ first < l)
  <2> HIDE DEF l
  <2>1. l \in Int /\ B - head \in Int
    BY <1>1, <1>3, <1>4
  <2> QED
    BY <2>1, SmallerCases
<1>7. Front = [k \in 1 .. l |->
                 IF k <= first THEN bytes[head + k - 1] ELSE bytes[k - first - 1]]
  BY DEF Front
<1> HIDE DEF n, l, first, f
<1>8. ASSUME NEW k \in 1 .. l
      PROVE  (IF k <= first THEN bytes[head + k - 1] ELSE bytes[k - first - 1]) = f[k]
  <2>1. CASE k <= first
    <3>1. first <= B - head
      BY <1>1, <1>3, <1>6
    <3>2. Wrap(head + 0 + k - 1) = head + k - 1
      BY <2>1, <3>1, <1>1, <1>3, <1>4, <1>6 DEF Wrap
    <3> QED
      BY <2>1, <3>2, <1>5
  <2>2. CASE ~(k <= first)
    <3>1. first = B - head
      BY <2>2, <1>4, <1>6
    <3>2. Wrap(head + 0 + k - 1) = k - first - 1
      BY <2>2, <3>1, <1>1, <1>3, <1>4 DEF Wrap
    <3> QED
      BY <2>2, <3>2, <1>5
  <2> QED
    BY <2>1, <2>2
<1>9. Front = [k \in 1 .. l |-> f[k]]
  BY <1>7, <1>8
<1>10. f = [k \in 1 .. l |-> f[k]]
  BY <1>4, <1>5
<1> QED
  BY <1>3, <1>4, <1>9, <1>10

-----------------------------------------------------------------------------
(* The rest of the state, and what is known of a frame while it is offered. *)
ControlOK ==
  /\ ready \in Signal
  /\ space \in Signal
  /\ pc \in [Procs -> Control]
  /\ arg \in [Procs -> Seq(Byte)]

OffersOK ==
  \A p \in Blockers \cup Overwriters :
    pc[p] \in {"check", "try", "spacePoll", "spaceParked", "evict"} =>
      arg[p] \in Frames /\ Len(arg[p]) \in 1 .. B

(* The inductive invariant: the wake-ups need nothing of the ring, and the *)
(* ring needs only that the offered frames are admissible.                 *)
IInv == RingOK /\ ControlOK /\ OffersOK /\ NoLostReady /\ NoLostSpace

(* The inductive invariant holds in the empty mailbox.                     *)
LEMMA InitIInv == Init => IInv
<1> SUFFICES ASSUME Init PROVE IInv
  OBVIOUS
<1>1. B \in Nat \ {0} /\ N \in Nat \ {0} /\ 0 \in Byte
  BY MailboxAssumption
<1>2. ControlOK /\ OffersOK /\ NoLostReady /\ NoLostSpace
  BY DEF Init, ControlOK, OffersOK, NoLostReady, NoLostSpace, Signal, Control, Procs
<1>3. Layout
  <2> DEFINE pos == [i \in 1 .. 1 |-> 0]
  <2>1. Len(lengths) = 0 /\ Len(content) = 0 /\ used = 0
    BY DEF Init
  <2>2. pos \in [1 .. Len(lengths) + 1 -> 0 .. used] /\ Placed(pos)
    BY <2>1 DEF Placed
  <2> QED
    BY <2>1, <2>2 DEF Layout
<1> QED
  BY <1>1, <1>2, <1>3 DEF IInv, RingOK, Init

(* Every step leaves the ring alone, inserts an admissible frame that fits *)
(* or discards the oldest frame.                                           *)
LEMMA RingSteps ==
  ASSUME IInv, [Next]_vars
  PROVE  \/ UNCHANGED ring
         \/ \E f \in Frames : Fits(Len(f)) /\ Insert(f)
         \/ lengths # <<>> /\ DiscardFront
<1>1. ASSUME NEW b \in Blockers, Blocker(b)
      PROVE  UNCHANGED ring \/ \E f \in Frames : Fits(Len(f)) /\ Insert(f)
  BY <1>1 DEF IInv, OffersOK, Blocker, Push, CheckSpace, PushTry, WaitSpace, CancelPush
<1>2. ASSUME NEW t \in Triers, NEW f \in Frames, TryPushRef(t, f)
      PROVE  \E g \in Frames : Fits(Len(g)) /\ Insert(g)
  BY <1>2 DEF TryPushRef
<1>3. ASSUME NEW o \in Overwriters, Overwriter(o)
      PROVE  \/ UNCHANGED ring
             \/ \E f \in Frames : Fits(Len(f)) /\ Insert(f)
             \/ lengths # <<>> /\ DiscardFront
  BY <1>3 DEF IInv, OffersOK, Overwriter, PushOverwrite, EvictOldest, InsertNewest
<1>4. ASSUME NEW p \in Procs, SignalReady(p)
      PROVE  UNCHANGED ring
  BY <1>4 DEF SignalReady
<1>5. ASSUME NEW c \in Consumers, Consumer(c)
      PROVE  UNCHANGED ring \/ (lengths # <<>> /\ DiscardFront)
  BY <1>5 DEF Consumer, TryPop, Take, Pop, PopTry, WaitReady, CancelPop, SignalSpace
<1>6. CASE UNCHANGED vars
  BY <1>6 DEF vars, ring
<1> QED
  BY <1>1, <1>2, <1>3, <1>4, <1>5, <1>6 DEF Next, Procs

(* Every step keeps the ring well formed, whatever task takes it.          *)
LEMMA RingKept ==
  ASSUME IInv, [Next]_vars
  PROVE  RingOK'
<1>1. CASE UNCHANGED ring
  <2>1. /\ bytes' = bytes /\ head' = head /\ used' = used
        /\ lengths' = lengths /\ content' = content
    BY <1>1 DEF ring
  <2>2. RingOK
    BY DEF IInv
  <2>3. Layout' = Layout
    BY <2>1 DEF Layout, Placed
  <2> QED
    BY <2>1, <2>2, <2>3 DEF RingOK, Wrap
<1>2. CASE \E f \in Frames : Fits(Len(f)) /\ Insert(f)
  BY <1>2, InsertKeepsRing DEF IInv
<1>3. CASE lengths # <<>> /\ DiscardFront
  BY <1>3, DiscardKeepsRing DEF IInv
<1> QED
  BY <1>1, <1>2, <1>3, RingSteps

(* pc and arg keep their types, and only push and push_overwrite, which    *)
(* check the length first, put a frame on offer.                           *)
LEMMA ControlKept ==
  ASSUME IInv, [Next]_vars
  PROVE  ControlOK' /\ OffersOK'
<1> USE DEF ControlOK, OffersOK, Signal, Control, Goto
<1>1. /\ ControlOK /\ OffersOK /\ B \in Nat \ {0} /\ <<>> \in Seq(Byte)
      /\ \A f \in Frames : f \in Seq(Byte) /\ Len(f) \in Nat
  BY MailboxAssumption DEF IInv
<1>2. Blockers \subseteq Procs /\ Triers \subseteq Procs /\ Overwriters \subseteq Procs
      /\ Consumers \subseteq Procs
  BY DEF Procs
<1>3. Consumers \cap (Blockers \cup Overwriters) = {}
      /\ Triers \cap (Blockers \cup Overwriters) = {}
  BY MailboxAssumption
<1>4. lengths # <<>> => Front \in Seq(Byte)
  BY FrontIsOldest DEF IInv
<1>5. ASSUME NEW b \in Blockers, Blocker(b)
      PROVE  ControlOK' /\ OffersOK'
  <2>1. ASSUME NEW f \in Frames, Push(b, f)
        PROVE  ControlOK' /\ OffersOK'
    BY <2>1, <1>1, <1>2 DEF Push
  <2>2. CASE CheckSpace(b)
    BY <2>2, <1>1, <1>2 DEF CheckSpace
  <2>3. CASE PushTry(b)
    BY <2>3, <1>1, <1>2 DEF PushTry
  <2>4. CASE WaitSpace(b)
    BY <2>4, <1>1, <1>2 DEF WaitSpace
  <2>5. CASE CancelPush(b)
    BY <2>5, <1>1, <1>2 DEF CancelPush
  <2> QED
    BY <1>5, <2>1, <2>2, <2>3, <2>4, <2>5 DEF Blocker
<1>6. ASSUME NEW t \in Triers, NEW f \in Frames, TryPushRef(t, f)
      PROVE  ControlOK' /\ OffersOK'
  BY <1>6, <1>1, <1>2, <1>3 DEF TryPushRef
<1>7. ASSUME NEW o \in Overwriters, Overwriter(o)
      PROVE  ControlOK' /\ OffersOK'
  <2>1. ASSUME NEW f \in Frames, PushOverwrite(o, f)
        PROVE  ControlOK' /\ OffersOK'
    BY <2>1, <1>1, <1>2 DEF PushOverwrite
  <2>2. CASE EvictOldest(o)
    BY <2>2, <1>1, <1>2 DEF EvictOldest
  <2>3. CASE InsertNewest(o)
    BY <2>3, <1>1, <1>2 DEF InsertNewest
  <2> QED
    BY <1>7, <2>1, <2>2, <2>3 DEF Overwriter
<1>8. ASSUME NEW p \in Procs, SignalReady(p)
      PROVE  ControlOK' /\ OffersOK'
  BY <1>8, <1>1, <1>2 DEF SignalReady, SignalAndReturn
<1>9. ASSUME NEW c \in Consumers, Consumer(c)
      PROVE  ControlOK' /\ OffersOK'
  <2>1. CASE TryPop(c)
    BY <2>1, <1>1, <1>2, <1>3, <1>4 DEF TryPop, Take
  <2>2. CASE Pop(c)
    BY <2>2, <1>1, <1>2 DEF Pop
  <2>3. CASE PopTry(c)
    BY <2>3, <1>1, <1>2, <1>3, <1>4 DEF PopTry, Take
  <2>4. CASE WaitReady(c)
    BY <2>4, <1>1, <1>2 DEF WaitReady
  <2>5. CASE CancelPop(c)
    BY <2>5, <1>1, <1>2 DEF CancelPop
  <2>6. CASE SignalSpace(c)
    BY <2>6, <1>1, <1>2, <1>3 DEF SignalSpace, SignalAndReturn
  <2> QED
    BY <1>9, <2>1, <2>2, <2>3, <2>4, <2>5, <2>6 DEF Consumer
<1>10. CASE UNCHANGED vars
  BY <1>10, <1>1 DEF vars
<1> QED
  BY <1>5, <1>6, <1>7, <1>8, <1>9, <1>10, <1>2 DEF Next

-----------------------------------------------------------------------------
(* A consumer waits beside a frame only with a wake-up on its way: the     *)
(* queue was empty under the lock when it decided to wait, and whoever has *)
(* inserted since still has to signal, or has signalled.                   *)
LEMMA ReadyKept ==
  ASSUME IInv, [Next]_vars
  PROVE  NoLostReady'
<1> DEFINE Pushers == Blockers \cup Triers \cup Overwriters
<1> USE DEF Goto
<1>1. /\ NoLostReady /\ pc \in [Procs -> Control] /\ ready \in Signal
      /\ lengths \in Seq(1 .. B)
  BY DEF IInv, ControlOK, RingOK
<1>2. Pushers \subseteq Procs /\ Consumers \subseteq Procs /\ Pushers \cap Consumers = {}
      /\ \A c, d \in Consumers : c = d
  BY MailboxAssumption DEF Procs
<1>3. ASSUME NEW b \in Blockers, Blocker(b)
      PROVE  NoLostReady'
  <2>1. ASSUME NEW f \in Frames, Push(b, f)
        PROVE  NoLostReady'
    BY <2>1, <1>1, <1>2 DEF Push, NoLostReady, ring
  <2>2. CASE CheckSpace(b)
    BY <2>2, <1>1, <1>2 DEF CheckSpace, NoLostReady, ring
  <2>3. CASE PushTry(b)
    BY <2>3, <1>1, <1>2 DEF PushTry, NoLostReady, ring
  <2>4. CASE WaitSpace(b)
    BY <2>4, <1>1, <1>2 DEF WaitSpace, NoLostReady, ring
  <2>5. CASE CancelPush(b)
    BY <2>5, <1>1, <1>2 DEF CancelPush, NoLostReady, ring
  <2> QED
    BY <1>3, <2>1, <2>2, <2>3, <2>4, <2>5 DEF Blocker
<1>4. ASSUME NEW t \in Triers, NEW f \in Frames, TryPushRef(t, f)
      PROVE  NoLostReady'
  BY <1>4, <1>1, <1>2 DEF TryPushRef, NoLostReady
<1>5. ASSUME NEW o \in Overwriters, Overwriter(o)
      PROVE  NoLostReady'
  <2>1. ASSUME NEW f \in Frames, PushOverwrite(o, f)
        PROVE  NoLostReady'
    BY <2>1, <1>1, <1>2 DEF PushOverwrite, NoLostReady, ring
  <2>2. CASE EvictOldest(o)
    BY <2>2, <1>1, <1>2 DEF EvictOldest, NoLostReady
  <2>3. CASE InsertNewest(o)
    BY <2>3, <1>1, <1>2 DEF InsertNewest, NoLostReady
  <2> QED
    BY <1>5, <2>1, <2>2, <2>3 DEF Overwriter
<1>6. ASSUME NEW p \in Pushers, SignalReady(p)
      PROVE  NoLostReady'
  BY <1>6, <1>1, <1>2 DEF SignalReady, SignalAndReturn, NoLostReady, ring
<1>7. ASSUME NEW c \in Consumers, Consumer(c)
      PROVE  NoLostReady'
  <2>0. \A d \in Consumers : d = c
    BY <1>2
  <2>1. CASE TryPop(c)
    BY <2>0, <2>1, <1>1, <1>2 DEF TryPop, Take, NoLostReady
  <2>2. CASE Pop(c)
    BY <2>0, <2>2, <1>1, <1>2 DEF Pop, NoLostReady
  <2>3. CASE PopTry(c)
    BY <2>0, <2>3, <1>1, <1>2 DEF PopTry, Take, NoLostReady, ring
  <2>4. CASE WaitReady(c)
    BY <2>0, <2>4, <1>1, <1>2 DEF WaitReady, NoLostReady, ring
  <2>5. CASE CancelPop(c)
    BY <2>0, <2>5, <1>1, <1>2 DEF CancelPop, NoLostReady
  <2>6. CASE SignalSpace(c)
    BY <2>0, <2>6, <1>1, <1>2 DEF SignalSpace, SignalAndReturn, NoLostReady
  <2> QED
    BY <1>7, <2>1, <2>2, <2>3, <2>4, <2>5, <2>6 DEF Consumer
<1>8. CASE UNCHANGED vars
  BY <1>8, <1>1 DEF vars, NoLostReady
<1> QED
  BY <1>3, <1>4, <1>5, <1>6, <1>7, <1>8 DEF Next

(* A push waits beside room for its frame only with a wake-up on its way:  *)
(* only a pop makes room in a mailbox somebody blocks on, and it signals.  *)
LEMMA SpaceKept ==
  ASSUME IInv, [Next]_vars
  PROVE  NoLostSpace'
<1> USE DEF Goto
<1>1. /\ NoLostSpace /\ pc \in [Procs -> Control] /\ space \in Signal
      /\ arg \in [Procs -> Seq(Byte)]
      /\ lengths \in Seq(1 .. B) /\ used \in 0 .. B /\ B \in Nat /\ N \in Nat
  BY MailboxAssumption DEF IInv, ControlOK, RingOK
<1>2. /\ Blockers \subseteq Procs /\ Consumers \subseteq Procs /\ Triers \subseteq Procs
      /\ Overwriters \subseteq Procs
      /\ Blockers \cap Consumers = {} /\ Blockers \cap Triers = {}
      /\ Triers \cap Consumers = {}
      /\ \A b, d \in Blockers : b = d
      /\ \A o \in Overwriters : Blockers = {}
  BY MailboxAssumption DEF Procs
<1>3. ASSUME NEW f \in Frames, Fits(Len(f)), Insert(f), NEW len \in Nat,
             len > 0, len <= B - used'
      PROVE  Fits(len)
  <2>1. Len(f) \in Nat /\ lengths' = Append(lengths, Len(f)) /\ used' = used + Len(f)
    BY <1>3, MailboxAssumption DEF Insert
  <2>2. len <= B - used
    BY <2>1, <1>1, <1>3
  <2> QED
    BY <1>3, <2>2 DEF Fits
<1>4. ASSUME NEW b \in Blockers, Blocker(b)
      PROVE  NoLostSpace'
  <2>0. \A d \in Blockers : d = b
    BY <1>2
  <2>1. ASSUME NEW f \in Frames, Push(b, f)
        PROVE  NoLostSpace'
    BY <2>0, <2>1, <1>1, <1>2 DEF Push, NoLostSpace, ring
  <2>2. CASE CheckSpace(b)
    BY <2>0, <2>2, <1>1, <1>2 DEF CheckSpace, NoLostSpace, Fits, ring
  <2>3. CASE PushTry(b)
    BY <2>0, <2>3, <1>1, <1>2 DEF PushTry, NoLostSpace
  <2>4. CASE WaitSpace(b)
    BY <2>0, <2>4, <1>1, <1>2 DEF WaitSpace, NoLostSpace, Fits, ring
  <2>5. CASE CancelPush(b)
    BY <2>0, <2>5, <1>1, <1>2 DEF CancelPush, NoLostSpace
  <2> QED
    BY <1>4, <2>1, <2>2, <2>3, <2>4, <2>5 DEF Blocker
<1>5. ASSUME NEW t \in Triers, NEW f \in Frames, TryPushRef(t, f)
      PROVE  NoLostSpace'
  <2>1. ASSUME NEW b \in Blockers
        PROVE  /\ pc'[b] = pc[b] /\ arg'[b] = arg[b]
               /\ Len(arg[b]) > 0 /\ Len(arg[b]) <= B - used' => Fits(Len(arg[b]))
    <3>1. pc'[b] = pc[b] /\ arg'[b] = arg[b] /\ Len(arg[b]) \in Nat
      BY <1>5, <1>1, <1>2 DEF TryPushRef
    <3> QED
      BY <3>1, <1>3, <1>5 DEF TryPushRef
  <2>2. \A c \in Consumers : pc'[c] = pc[c]
    BY <1>5, <1>1, <1>2 DEF TryPushRef
  <2>3. space' = space
    BY <1>5 DEF TryPushRef
  <2> QED
    BY <2>1, <2>2, <2>3, <1>1 DEF NoLostSpace, Fits
<1>6. ASSUME NEW o \in Overwriters
      PROVE  NoLostSpace'
  BY <1>2 DEF NoLostSpace
<1>7. ASSUME NEW p \in Blockers \cup Triers, SignalReady(p)
      PROVE  NoLostSpace'
  BY <1>7, <1>1, <1>2 DEF SignalReady, SignalAndReturn, NoLostSpace, Fits, ring
<1>8. ASSUME NEW c \in Consumers, Consumer(c)
      PROVE  NoLostSpace'
  <2>1. CASE TryPop(c)
    BY <2>1, <1>1, <1>2 DEF TryPop, Take, NoLostSpace
  <2>2. CASE Pop(c)
    BY <2>2, <1>1, <1>2 DEF Pop, NoLostSpace, Fits, ring
  <2>3. CASE PopTry(c)
    BY <2>3, <1>1, <1>2 DEF PopTry, Take, NoLostSpace, Fits, ring
  <2>4. CASE WaitReady(c)
    BY <2>4, <1>1, <1>2 DEF WaitReady, NoLostSpace, Fits, ring
  <2>5. CASE CancelPop(c)
    BY <2>5, <1>1, <1>2 DEF CancelPop, NoLostSpace, Fits, ring
  <2>6. CASE SignalSpace(c)
    BY <2>6, <1>1, <1>2 DEF SignalSpace, SignalAndReturn, NoLostSpace, ring
  <2> QED
    BY <1>8, <2>1, <2>2, <2>3, <2>4, <2>5, <2>6 DEF Consumer
<1>9. CASE UNCHANGED vars
  BY <1>9, <1>1 DEF vars, NoLostSpace, Fits
<1> QED
  BY <1>4, <1>5, <1>6, <1>7, <1>8, <1>9 DEF Next

-----------------------------------------------------------------------------
(* The invariant is inductive: every step, or a stutter, preserves it.     *)
LEMMA StepIInv == IInv /\ [Next]_vars => IInv'
  BY RingKept, ControlKept, ReadyKept, SpaceKept DEF IInv

(* So it holds throughout every behaviour of the mailbox.                  *)
LEMMA Invariance == Spec => []IInv
  BY InitIInv, StepIInv, PTL DEF Spec

(* The state keeps its types: in particular the byte counter never passes  *)
(* the ring's size or drops below zero and head stays inside the ring.     *)
THEOREM MailboxTypes == Spec => []TypeOK
<1>1. IInv => TypeOK
  BY DEF IInv, RingOK, ControlOK, TypeOK
<1> QED
  BY <1>1, Invariance, PTL

(* Whatever the ring's size and the frames, the ring holds the accepted    *)
(* frames' bytes, back to back and across the wrap.                        *)
THEOREM MailboxLayout == Spec => []Layout
<1>1. IInv => Layout
  BY DEF IInv, RingOK
<1> QED
  BY <1>1, Invariance, PTL

(* No interleaving of lock sections, late signals and dropped futures      *)
(* leaves a consumer asleep beside a frame.                                *)
THEOREM PopIsWoken == Spec => []NoLostReady
<1>1. IInv => NoLostReady
  BY DEF IInv
<1> QED
  BY <1>1, Invariance, PTL

(* ... nor a blocked push asleep beside enough room for its frame.         *)
THEOREM PushIsWoken == Spec => []NoLostSpace
<1>1. IInv => NoLostSpace
  BY DEF IInv
<1> QED
  BY <1>1, Invariance, PTL

(* push_overwrite always finds room for the frame it accepted.             *)
THEOREM OverwriteFindsRoom == Spec => []EvictionFindsRoom
<1>1. IInv => EvictionFindsRoom
  <2> SUFFICES ASSUME IInv, NEW o \in Overwriters, pc[o] = "evict", lengths = <<>>
               PROVE  Fits(Len(arg[o]))
    BY DEF EvictionFindsRoom
  <2>1. Len(arg[o]) \in 1 .. B
    BY DEF IInv, OffersOK
  <2>2. PICK pos \in [1 .. Len(lengths) + 1 -> 0 .. used] : Placed(pos)
    BY DEF IInv, RingOK, Layout
  <2>3. used = 0
    BY <2>2 DEF Placed
  <2> QED
    BY <2>1, <2>3, MailboxAssumption DEF Fits
<1> QED
  BY <1>1, Invariance, PTL

-----------------------------------------------------------------------------
(* A step of the mailbox is a step of the bounded FIFO, or none.           *)
LEMMA FifoStep == IInv /\ [Next]_vars => [Fifo!Next]_(Fifo!fifoVars)
<1> SUFFICES ASSUME IInv, [Next]_vars
             PROVE  Fifo!Next \/ UNCHANGED Fifo!fifoVars
  OBVIOUS
<1> USE DEF Goto, Fifo!fifoVars, ring
<1> DEFINE hand == [c \in Consumers |-> arg[c]]
<1>1. /\ arg \in [Procs -> Seq(Byte)] /\ pc \in [Procs -> Control]
      /\ content \in Seq(Frames) /\ lengths \in Seq(1 .. B)
      /\ Len(content) = Len(lengths) /\ N \in Nat
  BY MailboxAssumption DEF IInv, ControlOK, RingOK, Layout
<1>2. /\ Consumers \subseteq Procs
      /\ Consumers \cap (Blockers \cup Triers \cup Overwriters) = {}
  BY MailboxAssumption DEF Procs
<1>3. ASSUME NEW f \in Frames, Fits(Len(f)), Insert(f), hand' = hand
      PROVE  Fifo!Next
  <2>1. f # <<>> /\ Len(content) < N
    BY <1>1, <1>3, MailboxAssumption DEF Fits, IInv, RingOK
  <2>2. Fifo!Accept(f)
    BY <2>1, <1>3 DEF Insert, Fifo!Accept
  <2> QED
    BY <2>2 DEF Fifo!Next
<1>4. ASSUME NEW c \in Consumers, Take(c)
      PROVE  Fifo!Next
  <2>1. content # <<>> /\ Front = Head(content)
    BY <1>4, FrontIsOldest DEF IInv, Take
  <2>2. hand' = [hand EXCEPT ![c] = Head(content)]
    BY <2>1, <1>1, <1>2, <1>4 DEF Take
  <2>3. Fifo!Deliver(c)
    BY <2>1, <2>2, <1>4 DEF Take, DiscardFront, Fifo!Deliver
  <2> QED
    BY <2>3 DEF Fifo!Next
<1>5. ASSUME NEW p \in Procs \ Consumers, NEW v, arg' = [arg EXCEPT ![p] = v]
      PROVE  hand' = hand
  BY <1>5, <1>1, <1>2
<1>6. ASSUME NEW b \in Blockers, Blocker(b)
      PROVE  Fifo!Next \/ UNCHANGED Fifo!fifoVars
  <2>1. b \in Procs \ Consumers
    BY <1>2 DEF Procs
  <2>2. ASSUME NEW f \in Frames, Push(b, f)
        PROVE  UNCHANGED Fifo!fifoVars
    BY <2>1, <2>2, <1>5 DEF Push
  <2>3. CASE PushTry(b)
    <3>1. CASE Fits(Len(arg[b])) /\ Insert(arg[b]) /\ UNCHANGED arg
      <4>1. arg[b] \in Frames
        BY <2>3 DEF PushTry, IInv, OffersOK
      <4> QED
        BY <3>1, <4>1, <1>3
    <3>2. CASE UNCHANGED ring /\ UNCHANGED arg
      BY <3>2
    <3> QED
      BY <2>3, <3>1, <3>2 DEF PushTry
  <2>4. CASE CheckSpace(b) \/ WaitSpace(b)
    BY <2>4 DEF CheckSpace, WaitSpace
  <2>5. CASE CancelPush(b)
    BY <2>1, <2>5, <1>5 DEF CancelPush
  <2> QED
    BY <1>6, <2>2, <2>3, <2>4, <2>5 DEF Blocker
<1>7. ASSUME NEW t \in Triers, NEW f \in Frames, TryPushRef(t, f)
      PROVE  Fifo!Next
  <2>1. t \in Procs \ Consumers
    BY <1>2 DEF Procs
  <2>2. hand' = hand
    BY <2>1, <1>5, <1>7 DEF TryPushRef
  <2> QED
    BY <2>2, <1>3, <1>7 DEF TryPushRef
<1>8. ASSUME NEW o \in Overwriters, Overwriter(o)
      PROVE  Fifo!Next \/ UNCHANGED Fifo!fifoVars
  <2>1. o \in Procs \ Consumers
    BY <1>2 DEF Procs
  <2>2. ASSUME NEW f \in Frames, PushOverwrite(o, f)
        PROVE  UNCHANGED Fifo!fifoVars
    BY <2>1, <2>2, <1>5 DEF PushOverwrite
  <2>3. CASE EvictOldest(o)
    <3>1. content # <<>>
      BY <2>3, <1>1 DEF EvictOldest
    <3>2. Fifo!Evict
      BY <2>3, <3>1 DEF EvictOldest, DiscardFront, Fifo!Evict
    <3> QED
      BY <3>2 DEF Fifo!Next
  <2>4. CASE InsertNewest(o)
    <3>1. arg[o] \in Frames
      BY <2>4 DEF InsertNewest, IInv, OffersOK
    <3> QED
      BY <2>4, <3>1, <1>3 DEF InsertNewest
  <2> QED
    BY <1>8, <2>2, <2>3, <2>4 DEF Overwriter
<1>9. ASSUME NEW p \in Blockers \cup Triers \cup Overwriters, SignalReady(p)
      PROVE  UNCHANGED Fifo!fifoVars
  <2>1. p \in Procs \ Consumers
    BY <1>2 DEF Procs
  <2> QED
    BY <2>1, <1>5, <1>9 DEF SignalReady
<1>10. ASSUME NEW c \in Consumers, Consumer(c)
       PROVE  Fifo!Next \/ UNCHANGED Fifo!fifoVars
  <2>1. CASE TryPop(c)
    BY <2>1, <1>4 DEF TryPop
  <2>2. CASE Pop(c) \/ WaitReady(c) \/ CancelPop(c)
    BY <2>2 DEF Pop, WaitReady, CancelPop
  <2>3. CASE PopTry(c)
    BY <2>3, <1>4 DEF PopTry
  <2>4. CASE SignalSpace(c)
    <3>1. hand' = [hand EXCEPT ![c] = <<>>]
      BY <2>4, <1>1, <1>2 DEF SignalSpace
    <3>2. Fifo!Consume(c)
      BY <2>4, <3>1 DEF SignalSpace, Fifo!Consume
    <3> QED
      BY <3>2 DEF Fifo!Next
  <2> QED
    BY <1>10, <2>1, <2>2, <2>3, <2>4 DEF Consumer
<1>11. CASE UNCHANGED vars
  BY <1>11 DEF vars
<1> QED
  BY <1>6, <1>7, <1>8, <1>9, <1>10, <1>11 DEF Next

(* The mailbox implements the bounded FIFO: for every ring size, depth and *)
(* set of frames, accepted frames leave whole, once and in order, and a    *)
(* mailbox without push_overwrite loses none.                              *)
THEOREM MailboxIsFifo == Spec => Implements
<1>1. Init => Fifo!Init
  BY DEF Init, Fifo!Init, Procs
<1> QED
  BY <1>1, FifoStep, Invariance, PTL DEF Spec, Implements, Fifo!Spec
=============================================================================
