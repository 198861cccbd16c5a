-------------------------- MODULE BusSessionProofs --------------------------
(***************************************************************************)
(* Proofs about BusSession for every pair of upstreams, every set of       *)
(* requests, all depths of the mailboxes and of the connection, and any    *)
(* number of requests and connections.                                     *)
(***************************************************************************)
EXTENDS BusSession, WellFoundedInduction, TLAPS

Chunks == [n : Nat, part : Nat, size : Nat]

Typed ==
  /\ bus \in Setups /\ pc \in [Boards -> Places]
  /\ link \in [Boards -> BOOLEAN] /\ sock \in [Boards -> {"closed", "open", "reset"}]
  /\ rx \in [Boards -> Seq(Requests)] /\ tx \in [Boards -> 0 .. TxDepth]
  /\ stream \in [Boards -> Seq(Chunks)] /\ partial \in [Boards -> Seq(Chunks)]
  /\ writing \in [Boards -> Seq(Chunks)]
  /\ wrote \in [Boards -> Nat] /\ next \in [Boards -> Nat]

(* The bounds of the mailboxes and of the connection.                      *)
RoomOK ==
  \A b \in Boards :
    /\ Len(rx[b]) <= RxDepth /\ Len(stream[b]) <= Window
    /\ pc[b] = "select" => HasSpace(b)

Ordered(l, n) ==
  l # <<>> => /\ l[1].n = n /\ l[1].part = 0
              /\ \A i \in 1 .. Len(l) - 1 : Follows(l[i], l[i + 1])
Ends(l, n) == l # <<>> => l[Len(l)].part = l[Len(l)].size /\ l[Len(l)].n = n

(* A socket is closed before and after a session, with nothing left in it. *)
ClosedOK(b) ==
  /\ sock[b] = "closed" <=> pc[b] \in {"delay", "await", "reply"}
  /\ sock[b] = "closed" => stream[b] = <<>> /\ partial[b] = <<>> /\ writing[b] = <<>>

(* Only a write that failed leaves chunks unwritten.                       *)
WritingOK(b) ==
  /\ pc[b] = "write" => writing[b] # <<>>
  /\ writing[b] # <<>> => pc[b] = "write" \/ (pc[b] = "close" /\ sock[b] = "reset")

(* A reader holds the beginning of the frame that is due.                  *)
PartialOK(b) ==
  /\ pc[b] \in {"greet", "greeting"} => partial[b] = <<>>
  /\ partial[b] # <<>> =>
       \E size \in Nat : /\ Len(partial[b]) <= size
                         /\ \A i \in 1 .. Len(partial[b]) : partial[b][i] = Chunk(next[b], i - 1, size)

LineOK(b) ==
  sock[b] # "closed" /\ pc[b] # "close" =>
    Ordered(Line(b), next[b]) /\ (Connected(b) => Ends(Line(b), wrote[Peer(b)]))

(* A board that has not greeted has sent nothing.                          *)
Silent(b) == pc[b] = IF b = "client" THEN "greet" ELSE "greeting"
SilentOK(b) ==
  Connected(b) /\ Silent(Peer(b)) => Line(b) = <<>> /\ next[b] = 0 /\ wrote[Peer(b)] = 0

(* When nothing is left to read, the next frame of the peer is due.        *)
DueOK(b) ==
  /\ Connected(b) /\ pc[b] # "close"
  /\ pc[Peer(b)] # "close" /\ ~Silent(Peer(b)) /\ Line(b) = <<>>
  => next[b] = wrote[Peer(b)] + 1

LinesOK(b) == LineOK(b) /\ SilentOK(b) /\ DueOK(b)

OwnOK(b) == ClosedOK(b) /\ WritingOK(b) /\ PartialOK(b)

LinkInv == Typed /\ \A b \in Boards : OwnOK(b) /\ LinesOK(b)

-----------------------------------------------------------------------------
(* Sequences and chunks.                                                   *)

LEMMA ConcatFacts ==
  ASSUME NEW S, NEW s \in Seq(S), NEW t \in Seq(S)
  PROVE  /\ s \o t \in Seq(S) /\ Len(s \o t) = Len(s) + Len(t)
         /\ \A i \in 1 .. Len(s) : (s \o t)[i] = s[i]
         /\ \A i \in 1 .. Len(t) : (s \o t)[Len(s) + i] = t[i]
         /\ s \o t = <<>> <=> s = <<>> /\ t = <<>>
         /\ s \o <<>> = s /\ <<>> \o t = t
OBVIOUS

LEMMA TakenFacts ==
  ASSUME NEW S, NEW w \in Seq(S), w # <<>>
  PROVE  /\ Tail(w) \in Seq(S) /\ Head(w) \in S
         /\ Len(w) \in Nat /\ Len(w) >= 1 /\ Len(Tail(w)) = Len(w) - 1
         /\ Tail(w) = <<>> <=> Len(w) = 1
<1>1. Tail(w) \in Seq(S) /\ Head(w) \in S /\ Len(w) \in Nat /\ Len(w) >= 1
  OBVIOUS
<1>2. Len(Tail(w)) = Len(w) - 1
  OBVIOUS
<1>3. PICK t \in Seq(S) : t = Tail(w)
  BY <1>1
<1>4. t = <<>> <=> Len(t) = 0
  OBVIOUS
<1> QED
  BY <1>1, <1>2, <1>3, <1>4

LEMMA ChunkFacts ==
  ASSUME NEW n \in Nat, NEW p \in Nat, NEW z \in Nat
  PROVE  /\ Chunk(n, p, z) \in Chunks
         /\ Chunk(n, p, z).n = n /\ Chunk(n, p, z).part = p /\ Chunk(n, p, z).size = z
BY DEF Chunk, Chunks

LEMMA FollowsFacts ==
  ASSUME NEW c \in Chunks, NEW d \in Chunks
  PROVE  /\ c.part < c.size => (Follows(c, d) <=> d = Chunk(c.n, c.part + 1, c.size))
         /\ ~(c.part < c.size) => (Follows(c, d) <=> d.n = c.n + 1 /\ d.part = 0)
         /\ c.n \in Nat /\ c.part \in Nat /\ c.size \in Nat
BY DEF Follows, Chunks, Chunk

LEMMA FrameFacts ==
  ASSUME NEW n \in Nat, NEW z \in Nat
  PROVE  /\ Frame(n, z) \in Seq(Chunks) /\ Len(Frame(n, z)) = z + 1 /\ Frame(n, z) # <<>>
         /\ \A i \in 1 .. z + 1 : Frame(n, z)[i] = Chunk(n, i - 1, z)
<1>1. \A i \in 1 .. z + 1 : Chunk(n, i - 1, z) \in Chunks
  BY ChunkFacts
<1> QED
  BY <1>1 DEF Frame

LEMMA MagicFacts ==
  Magic[1] \in Chunks /\ Magic[1].n = 0 /\ Magic[1].part = 0 /\ Magic[1].size = 0
<1>1. \A i \in 1 .. 0 + 1 : Frame(0, 0)[i] = Chunk(0, i - 1, 0)
  BY FrameFacts
<1>2. Frame(0, 0)[1] = Chunk(0, 0, 0)
  BY <1>1
<1> QED
  BY <1>2, ChunkFacts DEF Magic

(* Laws of \o, named so that a proof can cite one instance of them.        *)
Groups(p, s, w) == p \o (s \o w) = p \o s \o w
Regroups(s, t, u, v) == s \o (t \o u) \o v = s \o t \o (u \o v)
Sends(p, s, w) == p \o Append(s, Head(w)) \o Tail(w) = p \o s \o w
Reads(p, s, w) == Append(p, Head(s)) \o (Tail(s) \o w) = p \o s \o w

LEMMA Grouped ==
  ASSUME NEW p \in Seq(Chunks), NEW s \in Seq(Chunks), NEW w \in Seq(Chunks)
  PROVE  Groups(p, s, w)
BY DEF Groups

LEMMA Regrouped ==
  ASSUME NEW s \in Seq(Chunks), NEW t \in Seq(Chunks), NEW u \in Seq(Chunks), NEW v \in Seq(Chunks)
  PROVE  Regroups(s, t, u, v)
<1>1. Groups(s, t, u)
  BY Grouped
<1>2. Groups(s \o t, u, v)
  <2>1. PICK x \in Seq(Chunks) : x = s \o t
    <3>1. s \o t \in Seq(Chunks)
      OBVIOUS
    <3> QED
      BY <3>1
  <2>2. Groups(x, u, v)
    BY Grouped
  <2> QED
    BY <2>1, <2>2
<1> QED
  BY <1>1, <1>2 DEF Groups, Regroups

LEMMA HeadAndTail ==
  ASSUME NEW w \in Seq(Chunks), w # <<>>
  PROVE  Head(w) \in Chunks /\ Tail(w) \in Seq(Chunks) /\ w = <<Head(w)>> \o Tail(w)
OBVIOUS

(* A chunk that is sent, and one that is read, stay on the line.           *)
LEMMA SentChunk ==
  ASSUME NEW p \in Seq(Chunks), NEW s \in Seq(Chunks), NEW w \in Seq(Chunks), w # <<>>
  PROVE  Sends(p, s, w)
<1>1. PICK e \in Chunks, t \in Seq(Chunks) : e = Head(w) /\ t = Tail(w) /\ w = <<e>> \o t
  BY HeadAndTail
<1>2. PICK u \in Seq(Chunks) : u = <<e>> /\ Append(s, e) = s \o u
  <2>1. <<e>> \in Seq(Chunks) /\ Append(s, e) = s \o <<e>>
    OBVIOUS
  <2> QED
    BY <2>1
<1>3. Regroups(p, s, u, t)
  BY Regrouped
<1> QED
  BY <1>1, <1>2, <1>3 DEF Sends, Regroups

LEMMA ReadChunkStays ==
  ASSUME NEW p \in Seq(Chunks), NEW s \in Seq(Chunks), NEW w \in Seq(Chunks), s # <<>>
  PROVE  Reads(p, s, w)
<1>1. PICK e \in Chunks, t \in Seq(Chunks) : e = Head(s) /\ t = Tail(s) /\ s = <<e>> \o t
  BY HeadAndTail
<1>2. PICK u \in Seq(Chunks) : u = <<e>> /\ Append(p, e) = p \o u
  <2>1. <<e>> \in Seq(Chunks) /\ Append(p, e) = p \o <<e>>
    OBVIOUS
  <2> QED
    BY <2>1
<1>3. Regroups(p, u, t, w)
  BY Regrouped
<1> QED
  BY <1>1, <1>2, <1>3 DEF Reads, Regroups

(* The beginning of an ordered line is one.                                *)
LEMMA OrderedPrefix ==
  ASSUME NEW l \in Seq(Chunks), NEW m \in Seq(Chunks), NEW n, Ordered(l, n),
         Len(m) <= Len(l), \A i \in 1 .. Len(m) : m[i] = l[i]
  PROVE  Ordered(m, n)
<1> SUFFICES ASSUME m # <<>>
             PROVE  /\ m[1].n = n /\ m[1].part = 0
                    /\ \A i \in 1 .. Len(m) - 1 : Follows(m[i], m[i + 1])
  BY DEF Ordered
<1>1. PICK k \in Nat, j \in Nat : k = Len(m) /\ j = Len(l) /\ k <= j /\ k >= 1
  OBVIOUS
<1>2. l # <<>>
  BY <1>1
<1>3. l[1].n = n /\ l[1].part = 0 /\ \A i \in 1 .. j - 1 : Follows(l[i], l[i + 1])
  BY <1>1, <1>2 DEF Ordered
<1>4. m[1] = l[1]
  BY <1>1
<1>5. ASSUME NEW i \in 1 .. k - 1 PROVE Follows(m[i], m[i + 1])
  <2>1. i \in 1 .. k /\ i + 1 \in 1 .. k /\ i \in 1 .. j - 1
    BY <1>1
  <2>2. m[i] = l[i] /\ m[i + 1] = l[i + 1]
    BY <1>1, <2>1
  <2> QED
    BY <1>3, <2>1, <2>2
<1> QED
  BY <1>1, <1>3, <1>4, <1>5

(* A line goes on with the frame after its last one.                       *)
LEMMA OrderedGrows ==
  ASSUME NEW l \in Seq(Chunks), NEW n \in Nat, NEW w \in Nat, NEW z \in Nat,
         Ordered(l, n), Ends(l, w), l = <<>> => n = w + 1
  PROVE  Ordered(l \o Frame(w + 1, z), n) /\ Ends(l \o Frame(w + 1, z), w + 1)
<1>1. w + 1 \in Nat /\ Len(l) \in Nat
  OBVIOUS
<1>2. PICK f \in Seq(Chunks) : /\ f = Frame(w + 1, z) /\ Len(f) = z + 1
                               /\ \A i \in 1 .. z + 1 : f[i] = Chunk(w + 1, i - 1, z)
  BY <1>1, FrameFacts
<1>3. /\ l \o f \in Seq(Chunks) /\ Len(l \o f) = Len(l) + Len(f)
      /\ \A i \in 1 .. Len(l) : (l \o f)[i] = l[i]
      /\ \A i \in 1 .. Len(f) : (l \o f)[Len(l) + i] = f[i]
  OBVIOUS
<1>4. PICK m, k : m = l \o f /\ k = Len(l)
  OBVIOUS
<1>5. /\ m \in Seq(Chunks) /\ k \in Nat /\ Len(m) = k + z + 1
      /\ \A i \in 1 .. k : m[i] = l[i]
      /\ \A i \in 1 .. z + 1 : m[k + i] = f[i]
  <2>1. Len(m) = k + Len(f) /\ k \in Nat
    BY <1>1, <1>3, <1>4
  <2>2. Len(m) = k + z + 1
    BY <1>2, <2>1
  <2> QED
    BY <1>2, <1>3, <1>4, <2>1, <2>2
<1>6. \A i \in 1 .. z + 1 : f[i] \in Chunks /\ f[i].n = w + 1 /\ f[i].part = i - 1 /\ f[i].size = z
  <2> SUFFICES ASSUME NEW i \in 1 .. z + 1
               PROVE  f[i] \in Chunks /\ f[i].n = w + 1 /\ f[i].part = i - 1 /\ f[i].size = z
    OBVIOUS
  <2>1. f[i] = Chunk(w + 1, i - 1, z) /\ i - 1 \in Nat /\ w + 1 \in Nat
    BY <1>2
  <2> QED
    BY <2>1 DEF Chunk, Chunks
<1>7. Len(l) = k /\ \A i \in 1 .. k : l[i] \in Chunks
  BY <1>4
<1>8. m[1].n = n /\ m[1].part = 0
  <2>1. CASE k = 0
    <3>1. m[1] = f[1] /\ l = <<>>
      BY <1>5, <1>7, <2>1
    <3> QED
      BY <1>6, <3>1
  <2>2. CASE k > 0
    <3>1. l # <<>> /\ m[1] = l[1]
      BY <1>5, <1>7, <2>2
    <3> QED
      BY <3>1 DEF Ordered
  <2> QED
    BY <1>5, <2>1, <2>2
<1>9. ASSUME NEW i \in 1 .. k + z PROVE Follows(m[i], m[i + 1])
  <2>1. CASE i < k
    <3>1. l # <<>> /\ i \in 1 .. k - 1 /\ m[i] = l[i] /\ m[i + 1] = l[i + 1]
      BY <1>5, <1>7, <2>1
    <3> QED
      BY <1>7, <3>1 DEF Ordered
  <2>2. CASE i = k
    <3>1. k \in 1 .. k /\ 1 \in 1 .. z + 1
      BY <1>5, <2>2
    <3>2. m[i] = l[k] /\ m[i + 1] = f[1]
      BY <1>5, <2>2, <3>1
    <3>3. l[k].part = l[k].size /\ l[k].n = w /\ l[k] \in Chunks
      BY <1>7, <3>1 DEF Ends
    <3>4. f[1] \in Chunks /\ f[1].n = w + 1 /\ f[1].part = 0
      BY <1>6, <3>1
    <3>5. Follows(l[k], f[1]) <=> f[1].n = l[k].n + 1 /\ f[1].part = 0
      <4>1. PICK c \in Chunks, d \in Chunks : c = l[k] /\ d = f[1]
        BY <3>3, <3>4
      <4>2. ~(c.part < c.size)
        BY <3>3, <4>1, FollowsFacts
      <4> QED
        BY <4>1, <4>2, FollowsFacts
    <3> QED
      BY <3>2, <3>3, <3>4, <3>5
  <2>3. CASE i > k
    <3>1. PICK j \in 1 .. z : i = k + j
      <4>1. i - k \in 1 .. z /\ i = k + (i - k)
        BY <1>5, <2>3
      <4> QED
        BY <4>1
    <3>2. j \in 1 .. z + 1 /\ j + 1 \in 1 .. z + 1 /\ k + (j + 1) = i + 1
      BY <1>5, <3>1
    <3>3. m[i] = f[j] /\ m[i + 1] = f[j + 1]
      BY <1>5, <3>1, <3>2
    <3>4. f[j + 1] = Chunk(w + 1, (j + 1) - 1, z) /\ (j + 1) - 1 = j
      BY <1>2, <3>2
    <3>5. f[j].n = w + 1 /\ f[j].part = j - 1 /\ f[j].size = z /\ f[j] \in Chunks /\ f[j + 1] \in Chunks
      BY <1>6, <3>2
    <3>6. f[j].part < f[j].size /\ f[j].part + 1 = j
      BY <3>5
    <3>7. Follows(f[j], f[j + 1]) <=> f[j + 1] = Chunk(f[j].n, f[j].part + 1, f[j].size)
      <4>1. PICK c \in Chunks, d \in Chunks : c = f[j] /\ d = f[j + 1]
        BY <3>5
      <4> QED
        BY <3>6, <4>1, FollowsFacts
    <3> QED
      BY <3>3, <3>4, <3>5, <3>6, <3>7
  <2> QED
    BY <1>5, <2>1, <2>2, <2>3
<1>10. m[Len(m)].part = m[Len(m)].size /\ m[Len(m)].n = w + 1
  <2>1. z + 1 \in 1 .. z + 1 /\ k + (z + 1) = Len(m)
    BY <1>5
  <2>2. m[Len(m)] = f[z + 1] /\ (z + 1) - 1 = z
    BY <1>5, <2>1
  <2> QED
    BY <1>6, <2>1, <2>2
<1>11. Ordered(m, n) /\ Ends(m, w + 1)
  BY <1>5, <1>8, <1>9, <1>10 DEF Ordered, Ends
<1> QED
  BY <1>2, <1>4, <1>11

(* Behind a whole frame the line begins with the next one.                 *)
LEMMA OrderedDrops ==
  ASSUME NEW p \in Seq(Chunks), NEW t \in Seq(Chunks), NEW n \in Nat, Ordered(p \o t, n),
         p # <<>>, p[Len(p)].part = p[Len(p)].size, p[Len(p)].n = n
  PROVE  /\ Ordered(t, n + 1)
         /\ \A w \in Nat : Ends(p \o t, w) => Ends(t, w) /\ (t = <<>> => w = n)
<1>0. PICK l \in Seq(Chunks) : l = p \o t
  BY ConcatFacts
<1>1. /\ Len(l) = Len(p) + Len(t)
      /\ \A i \in 1 .. Len(p) : l[i] = p[i]
      /\ \A i \in 1 .. Len(t) : l[Len(p) + i] = t[i]
  BY <1>0, ConcatFacts
<1>2. Len(p) >= 1 /\ Len(p) \in Nat /\ Len(t) \in Nat
  OBVIOUS
<1>3. \A i \in 1 .. Len(l) - 1 : Follows(l[i], l[i + 1])
  BY <1>0, <1>1, <1>2 DEF Ordered
<1>4. ASSUME t # <<>> PROVE t[1].n = n + 1 /\ t[1].part = 0
  <2>1. l[Len(p)] = p[Len(p)] /\ l[Len(p) + 1] = t[1]
    BY <1>1, <1>2, <1>4
  <2>2. Follows(p[Len(p)], t[1])
    <3>1. Len(t) >= 1
      BY <1>4
    <3>2. Len(p) \in 1 .. Len(l) - 1
      BY <1>1, <1>2, <3>1
    <3> QED
      BY <1>3, <2>1, <3>2
  <2>3. p[Len(p)] \in Chunks /\ t[1] \in Chunks
    BY <1>2, <1>4
  <2> QED
    BY <2>2, <2>3, FollowsFacts
<1>5. ASSUME NEW i \in 1 .. Len(t) - 1 PROVE Follows(t[i], t[i + 1])
  <2>1. t[i] = l[Len(p) + i] /\ t[i + 1] = l[Len(p) + i + 1]
    <3>1. i \in 1 .. Len(t) /\ i + 1 \in 1 .. Len(t) /\ Len(p) + (i + 1) = Len(p) + i + 1
      BY <1>2
    <3> QED
      BY <1>1, <3>1
  <2>2. Len(p) + i \in 1 .. Len(l) - 1
    BY <1>1, <1>2
  <2> QED
    BY <1>3, <2>1, <2>2
<1>6. ASSUME NEW w \in Nat, Ends(l, w) PROVE Ends(t, w) /\ (t = <<>> => w = n)
  <2>1. CASE t = <<>>
    BY <1>1, <1>2, <1>6, <2>1 DEF Ends
  <2>2. CASE t # <<>>
    <3>1. l[Len(l)] = t[Len(t)]
      BY <1>1, <1>2, <2>2
    <3> QED
      BY <1>1, <1>2, <1>6, <2>2, <3>1 DEF Ends
  <2> QED
    BY <2>1, <2>2
<1> QED
  BY <1>0, <1>4, <1>5, <1>6 DEF Ordered

-----------------------------------------------------------------------------
(* Lines.                                                                  *)

LEMMA BoardFacts ==
  ASSUME NEW b \in Boards
  PROVE  /\ Peer(b) \in Boards /\ Peer(b) # b /\ Peer(Peer(b)) = b
         /\ \A c \in Boards : c = b \/ c = Peer(b)
         /\ Connected(b) <=> Connected(Peer(b))
BY DEF Boards, Peer, Connected

LEMMA LineTyped ==
  ASSUME Typed, NEW b \in Boards
  PROVE  /\ Line(b) \in Seq(Chunks)
         /\ stream[b] \in Seq(Chunks) /\ partial[b] \in Seq(Chunks) /\ writing[b] \in Seq(Chunks)
         /\ next[b] \in Nat /\ wrote[b] \in Nat
<1>1. Peer(b) \in Boards
  BY BoardFacts
<1>2. /\ stream[b] \in Seq(Chunks) /\ partial[b] \in Seq(Chunks) /\ writing[b] \in Seq(Chunks)
      /\ writing[Peer(b)] \in Seq(Chunks) /\ next[b] \in Nat /\ wrote[b] \in Nat
  BY <1>1 DEF Typed
<1>3. (IF Connected(b) THEN writing[Peer(b)] ELSE <<>>) \in Seq(Chunks)
  BY <1>2
<1>4. PICK p \in Seq(Chunks), s \in Seq(Chunks), w \in Seq(Chunks) :
        p = partial[b] /\ s = stream[b] /\ w = IF Connected(b) THEN writing[Peer(b)] ELSE <<>>
  BY <1>2, <1>3, Zenon
<1>5. p \o s \o w \in Seq(Chunks)
  OBVIOUS
<1> QED
  BY <1>2, <1>4, <1>5 DEF Line

(* The line is that of a board's reader and of its peer's writer.          *)
LEMMA LineParts ==
  ASSUME Typed, NEW b \in Boards
  PROVE  /\ Connected(b) => Line(b) = partial[b] \o stream[b] \o writing[Peer(b)]
         /\ ~Connected(b) => Line(b) = partial[b] \o stream[b]
<1>1. PICK t \in Seq(Chunks) : t = partial[b] \o stream[b]
  <2>1. PICK p \in Seq(Chunks), s \in Seq(Chunks) : p = partial[b] /\ s = stream[b]
    BY LineTyped
  <2>2. p \o s \in Seq(Chunks)
    OBVIOUS
  <2> QED
    BY <2>1, <2>2
<1>2. t \o <<>> = t
  OBVIOUS
<1> QED
  BY <1>1, <1>2 DEF Line

(* A step that leaves a board's line, and what belongs to it, as it was.   *)
LEMMA LineKept ==
  ASSUME NEW b \in Boards, LinesOK(b),
         Line(b)' = Line(b), Connected(b)' <=> Connected(b),
         next'[b] = next[b], wrote'[Peer(b)] = wrote[Peer(b)],
         sock'[b] = "closed" <=> sock[b] = "closed",
         pc[b] = "close" => pc'[b] = "close",
         pc[Peer(b)] = "close" \/ Silent(Peer(b)) =>
           pc'[Peer(b)] = "close" \/ pc'[Peer(b)] = pc[Peer(b)],
         Silent(Peer(b))' => Silent(Peer(b))
  PROVE  LinesOK(b)'
<1>1. LineOK(b)'
  BY DEF LinesOK, LineOK
<1>2. SilentOK(b)'
  BY DEF LinesOK, SilentOK
<1>3. DueOK(b)'
  BY DEF LinesOK, DueOK, Silent
<1> QED
  BY <1>1, <1>2, <1>3 DEF LinesOK

(* A line whose end is cut off.                                            *)
LEMMA CutPrefix ==
  ASSUME NEW p \in Seq(Chunks), NEW s \in Seq(Chunks), NEW w \in Seq(Chunks), NEW n \in 0 .. Len(s)
  PROVE  /\ p \o SubSeq(s, 1, n) \o <<>> \in Seq(Chunks)
         /\ Len(p \o SubSeq(s, 1, n) \o <<>>) <= Len(p \o s \o w)
         /\ \A i \in 1 .. Len(p \o SubSeq(s, 1, n) \o <<>>) :
              (p \o SubSeq(s, 1, n) \o <<>>)[i] = (p \o s \o w)[i]
<1>1. PICK q \in Seq(Chunks) : q = SubSeq(s, 1, n) /\ Len(q) <= Len(s)
                               /\ \A i \in 1 .. Len(q) : q[i] = s[i]
  <2>1. /\ SubSeq(s, 1, n) \in Seq(Chunks) /\ Len(SubSeq(s, 1, n)) <= Len(s)
        /\ \A i \in 1 .. Len(SubSeq(s, 1, n)) : SubSeq(s, 1, n)[i] = s[i]
    OBVIOUS
  <2> QED
    BY <2>1
<1>2. /\ p \o q \o <<>> \in Seq(Chunks) /\ Len(p \o q \o <<>>) <= Len(p \o s \o w)
      /\ \A i \in 1 .. Len(p \o q \o <<>>) : (p \o q \o <<>>)[i] = (p \o s \o w)[i]
  BY <1>1
<1> QED
  BY <1>1, <1>2

(* A step that cuts it off.                                                *)
LEMMA LineCut ==
  ASSUME NEW b \in Boards, Typed, LinesOK(b), ~Connected(b)', next'[b] = next[b],
         sock'[b] # "closed" => sock[b] # "closed",
         pc'[b] # "close" => pc[b] # "close",
         sock'[b] # "closed" =>
           partial'[b] = partial[b] /\ \E n \in 0 .. Len(stream[b]) : stream'[b] = SubSeq(stream[b], 1, n)
  PROVE  LinesOK(b)'
<1>1. SilentOK(b)' /\ DueOK(b)'
  BY DEF SilentOK, DueOK
<1>2. LineOK(b)'
  <2> SUFFICES ASSUME sock'[b] # "closed", pc'[b] # "close" PROVE Ordered(Line(b)', next'[b])
    BY DEF LineOK
  <2>1. Ordered(Line(b), next[b]) /\ Line(b) \in Seq(Chunks)
    BY LineTyped DEF LinesOK, LineOK
  <2>2. PICK n \in 0 .. Len(stream[b]) : stream'[b] = SubSeq(stream[b], 1, n)
    OBVIOUS
  <2>3. PICK p \in Seq(Chunks), s \in Seq(Chunks), w \in Seq(Chunks) :
          /\ p = partial[b] /\ s = stream[b]
          /\ w = IF Connected(b) THEN writing[Peer(b)] ELSE <<>>
    <3>1. /\ partial[b] \in Seq(Chunks) /\ stream[b] \in Seq(Chunks)
          /\ writing[Peer(b)] \in Seq(Chunks) /\ <<>> \in Seq(Chunks)
      BY LineTyped, BoardFacts
    <3>2. (IF Connected(b) THEN writing[Peer(b)] ELSE <<>>) \in Seq(Chunks)
      BY <3>1
    <3> QED
      BY <3>1, <3>2, Zenon
  <2>4. Line(b) = p \o s \o w /\ Line(b)' = p \o SubSeq(s, 1, n) \o <<>>
    BY <2>2, <2>3 DEF Line
  <2>5. n \in 0 .. Len(s)
    BY <2>3
  <2>6. /\ p \o SubSeq(s, 1, n) \o <<>> \in Seq(Chunks)
        /\ Len(p \o SubSeq(s, 1, n) \o <<>>) <= Len(p \o s \o w)
        /\ \A i \in 1 .. Len(p \o SubSeq(s, 1, n) \o <<>>) :
             (p \o SubSeq(s, 1, n) \o <<>>)[i] = (p \o s \o w)[i]
    BY <2>5, CutPrefix
  <2>7. PICK l \in Seq(Chunks), m \in Seq(Chunks) : l = Line(b) /\ m = Line(b)'
    BY <2>1, <2>4, <2>6
  <2>8. Len(m) <= Len(l) /\ \A i \in 1 .. Len(m) : m[i] = l[i]
    BY <2>4, <2>6, <2>7
  <2>9. Ordered(m, next[b])
    BY <2>1, <2>7, <2>8, OrderedPrefix
  <2> QED
    BY <2>7, <2>9
<1> QED
  BY <1>1, <1>2 DEF LinesOK

-----------------------------------------------------------------------------
(* Types and room.                                                         *)

LEMMA InitTyped == Init => Typed
<1>1. <<>> \in Seq(Chunks) /\ <<>> \in Seq(Requests) /\ 0 \in 0 .. TxDepth
  BY BusSessionAssumption
<1> QED
  BY <1>1 DEF Init, Typed, Places, Boards

LEMMA GotoTyped ==
  ASSUME Typed, NEW b \in Boards, NEW q \in Places, Goto(b, q)
  PROVE  pc' \in [Boards -> Places]
BY DEF Typed, Goto

LEMMA RequestTyped ==
  ASSUME Typed, RoomOK, NEW b \in Boards, NEW r \in Requests, Request(b, r)
  PROVE  Typed' /\ RoomOK'
<1>1. /\ rx[b] \in Seq(Requests) /\ Len(rx[b]) <= RxDepth /\ RxDepth \in Nat \ {0}
      /\ rx' = [rx EXCEPT ![b] = Append(IF Len(@) = RxDepth THEN Tail(@) ELSE @, r)]
  BY BusSessionAssumption DEF Typed, RoomOK, Request
<1>2. PICK s \in Seq(Requests) : s = rx[b]
  BY <1>1
<1>3. PICK t \in Seq(Requests) : /\ t = Append(IF Len(s) = RxDepth THEN Tail(s) ELSE s, r)
                                 /\ Len(t) <= RxDepth
  <2>1. Append(IF Len(s) = RxDepth THEN Tail(s) ELSE s, r) \in Seq(Requests)
    BY <1>1, <1>2
  <2>2. Len(Append(IF Len(s) = RxDepth THEN Tail(s) ELSE s, r)) <= RxDepth
    BY <1>1, <1>2
  <2> QED
    BY <2>1, <2>2
<1>4. rx' = [rx EXCEPT ![b] = t]
  BY <1>1, <1>2, <1>3
<1>5. rx' \in [Boards -> Seq(Requests)] /\ \A c \in Boards : Len(rx'[c]) <= RxDepth
  BY <1>3, <1>4 DEF Typed, RoomOK
<1> QED
  BY <1>5 DEF Request, Typed, RoomOK, HasSpace, wire, frames

LEMMA PopTyped ==
  ASSUME Typed, RoomOK, NEW b \in Boards, rx[b] # <<>>, rx' = [rx EXCEPT ![b] = Tail(@)]
  PROVE  rx' \in [Boards -> Seq(Requests)] /\ \A c \in Boards : Len(rx'[c]) <= RxDepth
<1>1. PICK s \in Seq(Requests) : s = rx[b] /\ Len(s) <= RxDepth /\ s # <<>>
  BY DEF Typed, RoomOK
<1>2. PICK t \in Seq(Requests) : t = Tail(s) /\ Len(t) <= RxDepth
  <2>1. Tail(s) \in Seq(Requests) /\ Len(Tail(s)) <= RxDepth
    BY <1>1, BusSessionAssumption
  <2> QED
    BY <2>1
<1>3. rx' = [rx EXCEPT ![b] = t]
  BY <1>1, <1>2
<1> QED
  BY <1>2, <1>3 DEF Typed, RoomOK

(* The response of a session that has room.                                *)
LEMMA ReplyTyped ==
  ASSUME Typed, NEW b \in Boards, HasSpace(b), tx' = [tx EXCEPT ![b] = @ + 1]
  PROVE  tx' \in [Boards -> 0 .. TxDepth] /\ \A c \in Boards : c # b => tx'[c] = tx[c]
BY BusSessionAssumption, SMTT(30) DEF Typed, HasSpace

LEMMA SelectHasSpace ==
  ASSUME RoomOK, Typed, NEW b \in Boards, NEW q, Goto(b, q), q # "select" \/ HasSpace(b)',
         \A c \in Boards : c # b => tx'[c] = tx[c]
  PROVE  \A c \in Boards : pc'[c] = "select" => HasSpace(c)'
BY DEF RoomOK, Typed, HasSpace, Goto

-----------------------------------------------------------------------------
(* LinkInv and RoomOK are inductive.                                       *)

Outside == {"delay", "await", "reply"}

LEMMA OwnKept ==
  ASSUME NEW c \in Boards, OwnOK(c), pc'[c] = pc[c],
         UNCHANGED <<sock[c], partial[c], writing[c], next[c]>>,
         sock[c] = "closed" => stream'[c] = stream[c]
  PROVE  OwnOK(c)'
<1>1. ClosedOK(c)' /\ WritingOK(c)'
  BY DEF OwnOK, ClosedOK, WritingOK
<1>2. PartialOK(c)'
  BY DEF OwnOK, PartialOK
<1> QED
  BY <1>1, <1>2 DEF OwnOK

(* A step of the bus.                                                      *)
LEMMA QuietStep ==
  ASSUME LinkInv, UNCHANGED <<pc, wire, frames>>, Typed'
  PROVE  LinkInv'
<1> SUFFICES ASSUME NEW b \in Boards PROVE OwnOK(b)' /\ LinesOK(b)'
  BY DEF LinkInv
<1>1. OwnOK(b) /\ LinesOK(b)
  BY DEF LinkInv
<1>2. OwnOK(b)'
  BY <1>1, OwnKept DEF wire, frames
<1>3. Line(b)' = Line(b) /\ (Connected(b)' <=> Connected(b)) /\ (Silent(Peer(b))' <=> Silent(Peer(b)))
  BY DEF Line, Connected, Silent, wire, frames
<1>4. LinesOK(b)'
  BY <1>1, <1>3, LineKept DEF wire, frames
<1> QED
  BY <1>2, <1>4

(* A step of the session that leaves the connection as it is.              *)
LEMMA CalmStep ==
  ASSUME LinkInv, RoomOK, NEW b \in Boards, NEW q \in Places, Goto(b, q),
         UNCHANGED <<bus, link, wire, frames>>,
         rx' \in [Boards -> Seq(Requests)], \A c \in Boards : Len(rx'[c]) <= RxDepth,
         tx' \in [Boards -> 0 .. TxDepth], \A c \in Boards : c # b => tx'[c] = tx[c],
         q = "select" => HasSpace(b)',
         pc[b] # "close", pc[b] = "write" => q = "close" /\ sock[b] = "reset",
         pc[b] \in {"greet", "greeting"} => q = "close",
         q \notin {"greet", "greeting", "write"},
         pc[b] \in Outside <=> q \in Outside
  PROVE  LinkInv' /\ RoomOK'
<1>1. Typed'
  BY GotoTyped DEF LinkInv, Typed, wire, frames
<1>2. RoomOK'
  BY SelectHasSpace DEF LinkInv, RoomOK, wire
<1>3. /\ pc'[b] = q /\ \A c \in Boards : c # b => pc'[c] = pc[c]
      /\ \A c \in Boards : OwnOK(c) /\ LinesOK(c)
  BY DEF LinkInv, Typed, Goto
<1>4. UNCHANGED <<sock, stream, partial, writing, wrote, next>>
  BY DEF wire, frames
<1>5. OwnOK(b)'
  BY <1>3, <1>4 DEF OwnOK, ClosedOK, WritingOK, PartialOK, Outside
<1>6. ASSUME NEW c \in Boards, c # b PROVE OwnOK(c)'
  BY <1>3, <1>4, <1>6, OwnKept
<1>7. ASSUME NEW c \in Boards PROVE LinesOK(c)'
  <2>1. Line(c)' = Line(c) /\ (Connected(c)' <=> Connected(c))
    BY <1>4 DEF Line, Connected
  <2>2. Peer(c) \in Boards
    BY BoardFacts
  <2>3. Silent(Peer(c))' => Silent(Peer(c))
    BY <1>3, <2>2 DEF Silent
  <2>4. pc[Peer(c)] = "close" \/ Silent(Peer(c)) =>
          pc'[Peer(c)] = "close" \/ pc'[Peer(c)] = pc[Peer(c)]
    BY <1>3, <2>2 DEF Silent
  <2>5. pc[c] = "close" => pc'[c] = "close"
    BY <1>3
  <2> QED
    BY <1>3, <1>4, <2>1, <2>3, <2>4, <2>5, LineKept
<1> QED
  BY <1>1, <1>2, <1>5, <1>6, <1>7 DEF LinkInv

(* Both ends of a connection after a step of one.                          *)
LEMMA BothEnds ==
  ASSUME Typed', NEW b \in Boards, NEW c \in Boards, c # b,
         OwnOK(b)', LinesOK(b)', OwnOK(c)', LinesOK(c)'
  PROVE  LinkInv'
<1>1. \A d \in Boards : d = b \/ d = c
  BY DEF Boards
<1> QED
  BY <1>1 DEF LinkInv

LEMMA ResetStep ==
  ASSUME LinkInv, RoomOK, NEW b \in Boards, Reset(b)
  PROVE  LinkInv' /\ RoomOK'
<1>1. PICK c \in Boards : c = Peer(b) /\ c # b /\ b = Peer(c)
  BY BoardFacts
<1>2. PICK n \in 0 .. Len(stream[b]) : stream' = [stream EXCEPT ![b] = SubSeq(@, 1, n)]
  BY DEF Reset
<1>3. PICK s \in Seq(Chunks) : s = stream[b]
  BY LineTyped DEF LinkInv
<1>4. PICK t \in Seq(Chunks) : t = SubSeq(s, 1, n) /\ Len(t) <= Len(s)
  <2>1. n \in 0 .. Len(s)
    BY <1>3
  <2>2. SubSeq(s, 1, n) \in Seq(Chunks) /\ Len(SubSeq(s, 1, n)) <= Len(s)
    BY <2>1
  <2> QED
    BY <2>2
<1>5. stream' = [stream EXCEPT ![b] = t]
  BY <1>2, <1>3, <1>4
<1>6. /\ stream'[b] = t /\ stream'[c] = stream[c] /\ sock'[b] = "reset" /\ sock'[c] = sock[c]
      /\ sock[b] = "open" /\ sock[c] # "open" /\ stream' \in [Boards -> Seq(Chunks)]
      /\ sock' \in [Boards -> {"closed", "open", "reset"}]
  BY <1>1, <1>5 DEF LinkInv, Typed, Reset
<1>7. UNCHANGED <<bus, pc, rx, tx, link, partial, writing, wrote, next>>
  BY DEF Reset, mailboxes, frames
<1>8. Typed'
  BY <1>6, <1>7 DEF LinkInv, Typed
<1>9. RoomOK'
  <2>1. Len(stream'[b]) <= Window /\ Len(stream'[c]) <= Window
    BY <1>3, <1>4, <1>6, BusSessionAssumption DEF RoomOK
  <2>2. \A d \in Boards : d = b \/ d = c
    BY <1>1, BoardFacts
  <2> QED
    BY <1>7, <2>1, <2>2 DEF RoomOK, HasSpace
<1>10. OwnOK(b) /\ LinesOK(b) /\ OwnOK(c) /\ LinesOK(c)
  BY DEF LinkInv
<1>11. OwnOK(b)'
  BY <1>6, <1>7, <1>10 DEF OwnOK, ClosedOK, WritingOK, PartialOK
<1>12. OwnOK(c)'
  BY <1>6, <1>7, <1>10, OwnKept
<1>13. ~Connected(b) /\ ~Connected(b)' /\ ~Connected(c) /\ ~Connected(c)'
  BY <1>1, <1>6 DEF Connected
<1>14. LinesOK(b)'
  BY <1>2, <1>3, <1>4, <1>6, <1>7, <1>10, <1>13, LineCut DEF LinkInv
<1>15. Line(c)' = Line(c)
  BY <1>6, <1>7, <1>13 DEF Line
<1>16. LinesOK(c)'
  BY <1>6, <1>7, <1>10, <1>13, <1>15, LineKept DEF Silent
<1> QED
  BY <1>1, <1>8, <1>9, <1>11, <1>12, <1>14, <1>16, BothEnds

LEMMA AbortStep ==
  ASSUME LinkInv, RoomOK, NEW b \in Boards, Abort(b), NEW q \in Outside, Goto(b, q),
         UNCHANGED <<bus, mailboxes>>
  PROVE  LinkInv' /\ RoomOK'
<1>1. PICK c \in Boards : c = Peer(b) /\ c # b /\ b = Peer(c)
  BY BoardFacts
<1>2. q \in Places /\ q # "select" /\ q # "close" /\ q # "write" /\ q \notin {"greet", "greeting"}
  BY DEF Outside, Places
<1>3. /\ sock'[b] = "closed" /\ stream'[b] = <<>> /\ partial'[b] = <<>> /\ writing'[b] = <<>>
      /\ pc'[b] = q
  BY DEF LinkInv, Typed, Abort, Goto
<1>4. /\ sock'[c] = sock[c] /\ stream'[c] = stream[c] /\ partial'[c] = partial[c]
      /\ writing'[c] = writing[c] /\ pc'[c] = pc[c]
  BY <1>1 DEF LinkInv, Typed, Abort, Goto
<1>5. UNCHANGED <<bus, rx, tx, wrote, next>>
  BY DEF Abort, mailboxes
<1>6. Typed'
  <2>1. <<>> \in Seq(Chunks)
    OBVIOUS
  <2>2. pc' \in [Boards -> Places]
    BY <1>2, GotoTyped DEF LinkInv
  <2> QED
    BY <1>5, <2>1, <2>2 DEF LinkInv, Typed, Abort
<1>7. RoomOK'
  <2>1. \A d \in Boards : d = b \/ d = c
    BY <1>1, BoardFacts
  <2>2. Len(stream'[b]) <= Window /\ Len(stream'[c]) <= Window
    BY <1>3, <1>4, BusSessionAssumption DEF RoomOK
  <2> QED
    BY <1>2, <1>3, <1>4, <1>5, <2>1, <2>2 DEF RoomOK, HasSpace
<1>8. OwnOK(b) /\ LinesOK(b) /\ OwnOK(c) /\ LinesOK(c)
  BY DEF LinkInv
<1>9. OwnOK(b)'
  BY <1>2, <1>3 DEF OwnOK, ClosedOK, WritingOK, PartialOK, Outside
<1>10. OwnOK(c)'
  BY <1>4, <1>5, <1>8, OwnKept
<1>11. ~Connected(b)' /\ ~Connected(c)'
  BY <1>1, <1>3 DEF Connected
<1>12. LinesOK(b)'
  BY <1>3, <1>11 DEF LinesOK, LineOK, SilentOK, DueOK
<1>13. stream'[c] = SubSeq(stream[c], 1, Len(stream[c])) /\ Len(stream[c]) \in 0 .. Len(stream[c])
  BY <1>4, LineTyped DEF LinkInv
<1>14. LinesOK(c)'
  BY <1>4, <1>5, <1>8, <1>11, <1>13, LineCut DEF LinkInv
<1> QED
  BY <1>1, <1>6, <1>7, <1>9, <1>10, <1>12, <1>14, BothEnds

(* What a step of board b leaves of the other end c, apart from its line.  *)
LEMMA OtherEnd ==
  ASSUME NEW c \in Boards, OwnOK(c), LinesOK(c),
         UNCHANGED <<pc[c], sock[c], partial[c], writing[c], next[c], wrote[Peer(c)]>>,
         sock[c] = "closed" => stream'[c] = stream[c],
         Connected(c)' <=> Connected(c), Line(c)' = Line(c),
         pc[Peer(c)] # "close", ~Silent(Peer(c)) \/ pc'[Peer(c)] = pc[Peer(c)],
         Silent(Peer(c))' => Silent(Peer(c))
  PROVE  OwnOK(c)' /\ LinesOK(c)'
<1>1. OwnOK(c)'
  BY OwnKept
<1>2. LinesOK(c)'
  BY LineKept
<1> QED
  BY <1>1, <1>2

LEMMA ConnectStep ==
  ASSUME LinkInv, RoomOK, Connect
  PROVE  LinkInv' /\ RoomOK'
<1>1. /\ pc' = [client |-> "greet", server |-> "greeting"]
      /\ \A b \in Boards : sock'[b] = "open" /\ stream'[b] = <<>> /\ wrote'[b] = 0 /\ next'[b] = 0
      /\ \A b \in Boards : partial[b] = <<>> /\ writing[b] = <<>>
      /\ UNCHANGED <<bus, rx, tx, link, partial, writing>>
  BY DEF Connect, mailboxes, LinkInv, OwnOK, ClosedOK
<1>2. pc'["client"] = "greet" /\ pc'["server"] = "greeting"
  BY <1>1
<1>3. Typed'
  <2>1. pc' \in [Boards -> Places]
    BY <1>1 DEF Boards, Places
  <2>2. <<>> \in Seq(Chunks)
    OBVIOUS
  <2> QED
    BY <1>1, <2>1, <2>2 DEF LinkInv, Typed, Connect
<1>4. \A b \in Boards : pc'[b] \in {"greet", "greeting"}
  BY <1>2 DEF Boards
<1>5. RoomOK'
  BY <1>1, <1>4, BusSessionAssumption DEF RoomOK, HasSpace
<1>6. ASSUME NEW b \in Boards PROVE OwnOK(b)' /\ LinesOK(b)'
  <2>1. OwnOK(b)'
    BY <1>1, <1>4 DEF OwnOK, ClosedOK, WritingOK, PartialOK
  <2>2. PICK c \in Boards : c = Peer(b)
    BY BoardFacts
  <2>3. partial'[b] = <<>> /\ stream'[b] = <<>> /\ writing'[c] = <<>>
    BY <1>1
  <2>4. Line(b)' = <<>>
    BY <2>2, <2>3 DEF Line
  <2>5. Silent(c)'
    BY <1>2 DEF Silent, Boards
  <2>6. LineOK(b)'
    BY <2>4 DEF LineOK, Ordered, Ends
  <2>7. SilentOK(b)' /\ DueOK(b)'
    BY <1>1, <2>2, <2>4, <2>5 DEF SilentOK, DueOK
  <2> QED
    BY <2>1, <2>6, <2>7 DEF LinesOK
<1> QED
  BY <1>3, <1>5, <1>6 DEF LinkInv

(* A chunk goes out: to the other end if it is there.                      *)
LEMMA SendFacts ==
  ASSUME Typed, NEW b \in Boards, NEW c \in Boards, c = Peer(b), NEW e \in Chunks, Send(b, e)
  PROVE  /\ stream' \in [Boards -> Seq(Chunks)] /\ stream'[b] = stream[b]
         /\ Connected(b) => stream'[c] = Append(stream[c], e)
         /\ ~Connected(b) => stream'[c] = stream[c]
<1>1. c # b /\ Append(stream[c], e) \in Seq(Chunks)
  BY BoardFacts, LineTyped
<1> QED
  BY <1>1 DEF Send, Typed

LEMMA SendRoom ==
  ASSUME Typed, RoomOK, NEW b \in Boards, NEW e \in Chunks, Send(b, e), CanSend(b)
  PROVE  \A d \in Boards : Len(stream'[d]) <= Window
<1>1. PICK c \in Boards : c = Peer(b) /\ c # b /\ \A d \in Boards : d = b \/ d = c
  BY BoardFacts
<1>2. PICK s \in Seq(Chunks) : s = stream[c] /\ Len(s) < Window
  BY <1>1, LineTyped DEF CanSend
<1>3. Len(Append(s, e)) <= Window
  BY <1>2, BusSessionAssumption
<1>4. stream'[b] = stream[b] /\ (stream'[c] = Append(s, e) \/ stream'[c] = stream[c])
  BY <1>1, <1>2, SendFacts
<1> QED
  BY <1>1, <1>3, <1>4 DEF RoomOK

LEMMA GreetStep ==
  ASSUME LinkInv, RoomOK, Greet
  PROVE  LinkInv' /\ RoomOK'
<1> DEFINE b == "client"
           c == "server"
<1>1. b \in Boards /\ c \in Boards /\ Peer(b) = c /\ Peer(c) = b /\ c # b
  BY DEF Boards, Peer
<1>2. /\ Typed /\ Magic[1] \in Chunks /\ Send(b, Magic[1]) /\ CanSend(b) /\ pc[b] = "greet"
      /\ Goto(b, "greeting")
      /\ UNCHANGED <<bus, rx, tx, link, sock, partial, writing, wrote, next>>
  BY MagicFacts DEF Greet, LinkInv, mailboxes, frames
<1>3. /\ stream' \in [Boards -> Seq(Chunks)] /\ stream'[b] = stream[b]
      /\ Connected(b) => stream'[c] = Append(stream[c], Magic[1])
      /\ ~Connected(b) => stream'[c] = stream[c]
  BY <1>1, <1>2, SendFacts
<1>4. pc' \in [Boards -> Places] /\ pc'[b] = "greeting" /\ pc'[c] = pc[c]
  BY <1>1, <1>2 DEF Typed, Goto, Places
<1>5. Typed'
  BY <1>2, <1>3, <1>4 DEF Typed
<1>6. RoomOK'
  <2>1. \A d \in Boards : Len(stream'[d]) <= Window
    BY <1>1, <1>2, SendRoom
  <2> QED
    BY <1>2, <2>1 DEF RoomOK, HasSpace, Goto, Typed
<1>7. OwnOK(b) /\ LinesOK(b) /\ OwnOK(c) /\ LinesOK(c)
  BY <1>1 DEF LinkInv
<1>8. OwnOK(b)'
  BY <1>2, <1>3, <1>4, <1>7 DEF OwnOK, ClosedOK, WritingOK, PartialOK
<1>9. /\ Connected(b)' <=> Connected(b)
      /\ Connected(c)' <=> Connected(c)
      /\ Connected(b) <=> Connected(c)
  BY <1>1, <1>2 DEF Connected
<1>10. Line(b)' = Line(b)
  BY <1>1, <1>2, <1>3, <1>9 DEF Line
<1>11. LinesOK(b)'
  BY <1>1, <1>2, <1>4, <1>7, <1>9, <1>10, LineKept DEF Silent
<1>12. Silent(b) /\ ~Silent(b)'
  BY <1>2, <1>4 DEF Silent
<1>13. CASE ~Connected(c)
  <2>1. stream'[c] = stream[c]
    BY <1>3, <1>9, <1>13
  <2>2. Line(c)' = Line(c)
    BY <1>1, <1>2, <1>9, <1>13, <2>1 DEF Line
  <2>3. OwnOK(c)'
    BY <1>1, <1>2, <1>4, <1>7, <2>1, OwnKept
  <2>4. LinesOK(c)'
    BY <1>1, <1>2, <1>4, <1>7, <1>9, <1>13, <2>2 DEF LinesOK, LineOK, SilentOK, DueOK
  <2> QED
    BY <1>1, <1>5, <1>6, <1>8, <1>11, <2>3, <2>4, BothEnds
<1>14. CASE Connected(c)
  <2>1. Line(c) = <<>> /\ next[c] = 0 /\ wrote[b] = 0
    BY <1>1, <1>7, <1>12, <1>14 DEF LinesOK, SilentOK
  <2>2. Line(c) = partial[c] \o stream[c] \o writing[b]
    BY <1>1, <1>2, <1>14, LineParts
  <2>3. partial[c] = <<>> /\ stream[c] = <<>> /\ writing[b] = <<>>
    <3>1. PICK p \in Seq(Chunks), s \in Seq(Chunks), w \in Seq(Chunks) :
            p = partial[c] /\ s = stream[c] /\ w = writing[b]
      BY <1>1, <1>2, LineTyped
    <3>2. p \o s \o w = <<>> => p = <<>> /\ s = <<>> /\ w = <<>>
      OBVIOUS
    <3> QED
      BY <2>1, <2>2, <3>1, <3>2
  <2>4. stream'[c] = Append(<<>>, Magic[1]) /\ partial'[c] = <<>> /\ writing'[b] = <<>>
    BY <1>2, <1>3, <1>9, <1>14, <2>3
  <2>5. Line(c)' = <<>> \o Append(<<>>, Magic[1]) \o <<>>
    BY <1>1, <1>9, <1>14, <2>4 DEF Line
  <2>6. <<>> \o Append(<<>>, Magic[1]) \o <<>> = <<Magic[1]>>
    OBVIOUS
  <2>7. PICK l : l = Line(c)' /\ l = <<Magic[1]>>
    BY <2>5, <2>6
  <2>8. l # <<>> /\ Len(l) = 1 /\ l[1] = Magic[1]
    BY <2>7
  <2>9. Ordered(l, 0) /\ Ends(l, 0)
    BY <2>8, MagicFacts DEF Ordered, Ends
  <2>10. LineOK(c)'
    BY <1>1, <1>2, <2>1, <2>7, <2>9 DEF LineOK
  <2>11. SilentOK(c)' /\ DueOK(c)'
    BY <1>1, <1>12, <2>7, <2>8 DEF SilentOK, DueOK
  <2>12. OwnOK(c)'
    <3>1. sock[c] = "open"
      BY <1>14 DEF Connected
    <3> QED
      BY <1>1, <1>2, <1>4, <1>7, <3>1, OwnKept
  <2> QED
    BY <1>1, <1>5, <1>6, <1>8, <1>11, <2>10, <2>11, <2>12, BothEnds DEF LinesOK
<1> QED
  BY <1>13, <1>14

(* Nothing on a line is nothing anywhere on it.                            *)
LEMMA EmptyLine ==
  ASSUME Typed, NEW b \in Boards, Line(b) = <<>>
  PROVE  partial[b] = <<>> /\ stream[b] = <<>> /\ (Connected(b) => writing[Peer(b)] = <<>>)
<1>1. PICK p \in Seq(Chunks), s \in Seq(Chunks), w \in Seq(Chunks) :
        p = partial[b] /\ s = stream[b] /\ w = writing[Peer(b)]
  BY LineTyped, BoardFacts
<1>2. p \o s \o w = <<>> => p = <<>> /\ s = <<>> /\ w = <<>>
  OBVIOUS
<1>3. p \o s = <<>> => p = <<>> /\ s = <<>>
  OBVIOUS
<1> QED
  BY <1>1, <1>2, <1>3, LineParts

(* A line that holds the magic only, or nothing.                           *)
LEMMA MagicLine ==
  ASSUME NEW l, l = <<Magic[1]>>
  PROVE  l # <<>> /\ Ordered(l, 0) /\ Ends(l, 0)
<1>1. l # <<>> /\ Len(l) = 1 /\ l[1] = Magic[1]
  OBVIOUS
<1> QED
  BY <1>1, MagicFacts DEF Ordered, Ends

(* The server's answer, on the empty line of a client that is there.       *)
LEMMA AnswerStep ==
  ASSUME LinkInv, NEW b \in Boards, NEW c \in Boards, c = Peer(b), Silent(b), Connected(b),
         pc'[b] = "loop", stream'[c] = Append(stream[c], Magic[1]),
         UNCHANGED <<sock, partial, writing, wrote, pc[c], next[c]>>
  PROVE  OwnOK(c)' /\ LinesOK(c)' /\ stream[c] = <<>>
<1>1. c # b /\ b = Peer(c) /\ Connected(c) /\ (Connected(c)' <=> Connected(c))
  BY BoardFacts DEF Connected
<1>2. OwnOK(c) /\ LinesOK(c) /\ Typed
  BY DEF LinkInv
<1>3. Line(c) = <<>> /\ next[c] = 0 /\ wrote[b] = 0
  BY <1>1, <1>2 DEF LinesOK, SilentOK
<1>4. partial[c] = <<>> /\ stream[c] = <<>> /\ writing[b] = <<>>
  BY <1>1, <1>2, <1>3, EmptyLine
<1>5. Line(c)' = <<>> \o Append(<<>>, Magic[1]) \o <<>>
  BY <1>1, <1>4 DEF Line
<1>6. <<>> \o Append(<<>>, Magic[1]) \o <<>> = <<Magic[1]>>
  OBVIOUS
<1>7. PICK l : l = Line(c)' /\ l = <<Magic[1]>>
  BY <1>5, <1>6
<1>8. l # <<>> /\ Ordered(l, 0) /\ Ends(l, 0)
  BY <1>7, MagicLine
<1>9. LineOK(c)'
  BY <1>1, <1>3, <1>7, <1>8 DEF LineOK
<1>10. ~Silent(b)'
  BY DEF Silent
<1>11. SilentOK(c)' /\ DueOK(c)'
  BY <1>1, <1>7, <1>8, <1>10 DEF SilentOK, DueOK
<1>12. sock[c] = "open"
  BY <1>1 DEF Connected
<1>13. OwnOK(c)'
  BY <1>2, <1>12, OwnKept
<1> QED
  BY <1>4, <1>9, <1>11, <1>13 DEF LinesOK

(* The magic is the end of what a peer without frames has sent.            *)
LEMMA GreetedLine ==
  ASSUME LinkInv, NEW b \in Boards, pc[b] = "greeting", stream[b] # <<>>,
         Head(stream[b]) = Magic[1],
         stream'[b] = Tail(stream[b]), next'[b] = 1, UNCHANGED <<sock, partial, writing, wrote>>
  PROVE  /\ Ordered(Line(b)', 1)
         /\ Connected(b) => /\ ~Silent(Peer(b)) /\ Ends(Line(b)', wrote[Peer(b)])
                            /\ Line(b)' = <<>> => wrote[Peer(b)] = 0
<1>1. OwnOK(b) /\ LinesOK(b) /\ Typed /\ (Connected(b)' <=> Connected(b))
      /\ Peer(b) \in Boards
  BY BoardFacts DEF LinkInv, Connected
<1>2. partial[b] = <<>> /\ sock[b] # "closed"
  BY <1>1 DEF OwnOK, PartialOK, ClosedOK
<1>3. PICK s \in Seq(Chunks), w \in Seq(Chunks) :
        s = stream[b] /\ w = IF Connected(b) THEN writing[Peer(b)] ELSE <<>>
  <2>1. stream[b] \in Seq(Chunks) /\ writing[Peer(b)] \in Seq(Chunks) /\ <<>> \in Seq(Chunks)
    BY <1>1, LineTyped
  <2>2. (IF Connected(b) THEN writing[Peer(b)] ELSE <<>>) \in Seq(Chunks)
    BY <2>1
  <2> QED
    BY <2>1, <2>2, Zenon
<1>4. Line(b) = <<>> \o s \o w /\ Line(b)' = <<>> \o Tail(s) \o w
  BY <1>1, <1>2, <1>3 DEF Line
<1>5. s # <<>> /\ Head(s) = Magic[1]
  BY <1>3
<1>6. PICK p \in Seq(Chunks), t \in Seq(Chunks), l \in Seq(Chunks) :
        p = <<Magic[1]>> /\ t = Line(b)' /\ l = Line(b) /\ l = p \o t
  <2>1. <<Magic[1]>> \in Seq(Chunks)
    BY MagicFacts
  <2>2. /\ <<>> \o Tail(s) \o w \in Seq(Chunks) /\ <<>> \o s \o w \in Seq(Chunks)
        /\ <<>> \o s \o w = <<Head(s)>> \o (<<>> \o Tail(s) \o w)
    BY <1>5
  <2> QED
    BY <1>4, <1>5, <2>1, <2>2
<1>7. l # <<>> /\ l[1] = Magic[1] /\ p # <<>> /\ Len(p) = 1 /\ p[1] = Magic[1]
  BY <1>6
<1>8. Ordered(l, next[b])
  BY <1>1, <1>2, <1>6 DEF LinesOK, LineOK
<1>9. next[b] = 0
  BY <1>7, <1>8, MagicFacts DEF Ordered
<1>10. /\ Ordered(t, 0 + 1)
       /\ \A k \in Nat : Ends(l, k) => Ends(t, k) /\ (t = <<>> => k = 0)
  <2>1. /\ p # <<>> /\ p[Len(p)].part = p[Len(p)].size /\ p[Len(p)].n = 0
        /\ Ordered(p \o t, 0) /\ 0 \in Nat
    BY <1>6, <1>7, <1>8, <1>9, MagicFacts
  <2>2. /\ Ordered(t, 0 + 1)
        /\ \A k \in Nat : Ends(p \o t, k) => Ends(t, k) /\ (t = <<>> => k = 0)
    BY <2>1, OrderedDrops
  <2> QED
    BY <1>6, <2>2
<1>11. ASSUME Connected(b)
       PROVE  ~Silent(Peer(b)) /\ Ends(t, wrote[Peer(b)]) /\ (t = <<>> => wrote[Peer(b)] = 0)
  <2>1. ~Silent(Peer(b))
    BY <1>1, <1>6, <1>7, <1>11 DEF LinesOK, SilentOK
  <2>2. Ends(l, wrote[Peer(b)]) /\ wrote[Peer(b)] \in Nat
    BY <1>1, <1>2, <1>6, <1>11, LineTyped DEF LinesOK, LineOK
  <2> QED
    BY <1>10, <2>1, <2>2
<1> QED
  BY <1>6, <1>10, <1>11

LEMMA GreetedStep ==
  ASSUME LinkInv, RoomOK, NEW b \in Boards, Greeted(b)
  PROVE  LinkInv' /\ RoomOK'
<1>1. PICK c \in Boards : c = Peer(b) /\ c # b /\ b = Peer(c)
  BY BoardFacts
<1>2. /\ Typed /\ pc[b] = "greeting" /\ stream[b] # <<>> /\ Head(stream[b]) = Magic[1]
      /\ Goto(b, "loop") /\ OwnOK(b) /\ LinesOK(b) /\ OwnOK(c) /\ LinesOK(c)
      /\ UNCHANGED <<bus, rx, tx, sock, partial, writing, wrote>>
      /\ link' = [link EXCEPT ![b] = TRUE] /\ next' = [next EXCEPT ![b] = 1]
  BY DEF Greeted, LinkInv, mailboxes
<1>3. /\ stream'[b] = Tail(stream[b]) /\ next'[b] = 1 /\ next'[c] = next[c]
      /\ b = "server" /\ Connected(b) => stream'[c] = Append(stream[c], Magic[1])
      /\ ~(b = "server" /\ Connected(b)) => stream'[c] = stream[c]
  BY <1>1, <1>2 DEF Greeted, Typed
<1>4. pc' \in [Boards -> Places] /\ pc'[b] = "loop" /\ pc'[c] = pc[c]
  BY <1>1, <1>2 DEF Typed, Goto, Places
<1>5. (Connected(b)' <=> Connected(b)) /\ (Connected(c)' <=> Connected(c))
      /\ (Connected(b) <=> Connected(c))
  BY <1>1, <1>2 DEF Connected
<1>6. b = "server" => Silent(b)
  BY <1>2 DEF Silent
<1>7. b # "server" => ~Silent(b)
  BY <1>2 DEF Silent, Boards
<1>8. OwnOK(c)' /\ LinesOK(c)' /\ (b = "server" /\ Connected(b) => stream[c] = <<>>)
  <2>1. CASE b = "server" /\ Connected(b)
    BY <1>1, <1>2, <1>3, <1>4, <1>6, <2>1, AnswerStep
  <2>2. CASE ~(b = "server" /\ Connected(b))
    <3>1. stream'[c] = stream[c]
      BY <1>3, <2>2
    <3>2. Line(c)' = Line(c)
      BY <1>1, <1>2, <1>5, <3>1 DEF Line
    <3>3. OwnOK(c)'
      BY <1>2, <1>3, <1>4, <3>1, OwnKept
    <3>4. ~Silent(b)'
      BY <1>4 DEF Silent
    <3>5. LinesOK(c)'
      <4>1. CASE ~Connected(b)
        BY <1>1, <1>2, <1>3, <1>4, <1>5, <3>2, <4>1 DEF LinesOK, LineOK, SilentOK, DueOK
      <4>2. CASE b # "server"
        BY <1>1, <1>2, <1>3, <1>4, <1>5, <1>7, <3>2, <3>4, <4>2, LineKept
      <4> QED
        BY <2>2, <4>1, <4>2
    <3> QED
      BY <2>2, <3>3, <3>5
  <2> QED
    BY <2>1, <2>2
<1>9. /\ stream'[b] \in Seq(Chunks) /\ Len(stream'[b]) <= Window
      /\ stream'[c] \in Seq(Chunks) /\ Len(stream'[c]) <= Window
  <2>1. PICK s \in Seq(Chunks), t \in Seq(Chunks) :
          s = stream[b] /\ t = stream[c] /\ Len(s) <= Window /\ Len(t) <= Window /\ s # <<>>
    BY <1>2, LineTyped DEF RoomOK
  <2>2. Tail(s) \in Seq(Chunks) /\ Len(Tail(s)) <= Window
    BY <2>1, BusSessionAssumption
  <2>3. Append(<<>>, Magic[1]) \in Seq(Chunks) /\ Len(Append(<<>>, Magic[1])) <= Window
    BY MagicFacts, BusSessionAssumption
  <2> QED
    BY <1>3, <1>8, <2>1, <2>2, <2>3
<1>10. \A d \in Boards : d = b \/ d = c
  BY <1>1, BoardFacts
<1>11. Typed'
  <2>1. stream' \in [Boards -> Seq(Chunks)]
    <3>1. stream' = [d \in Boards |-> stream'[d]]
      BY DEF Greeted
    <3> QED
      BY <1>9, <1>10, <3>1
  <2> QED
    BY <1>2, <1>4, <2>1 DEF Typed
<1>12. RoomOK'
  BY <1>2, <1>4, <1>9, <1>10 DEF RoomOK, HasSpace
<1>13. OwnOK(b)'
  BY <1>2, <1>4 DEF OwnOK, ClosedOK, WritingOK, PartialOK
<1>14. /\ Ordered(Line(b)', 1)
       /\ Connected(b) => /\ ~Silent(c) /\ Ends(Line(b)', wrote[c])
                          /\ Line(b)' = <<>> => wrote[c] = 0
  BY <1>1, <1>2, <1>3, GreetedLine
<1>15. LineOK(b)'
  BY <1>1, <1>2, <1>3, <1>5, <1>14 DEF LineOK
<1>16. Silent(c)' <=> Silent(c)
  BY <1>4 DEF Silent
<1>17. SilentOK(b)' /\ DueOK(b)'
  BY <1>1, <1>2, <1>3, <1>5, <1>14, <1>16 DEF SilentOK, DueOK
<1> QED
  BY <1>1, <1>8, <1>11, <1>12, <1>13, <1>15, <1>17, BothEnds DEF LinesOK

(* A request is taken: a command, or a frame that goes on the line of the  *)
(* other end behind the last one.                                          *)
LEMMA CommandStep ==
  ASSUME LinkInv, RoomOK, NEW b \in Boards, TakeRequest(b), Head(rx[b]) = 0
  PROVE  LinkInv' /\ RoomOK'
<1>1. /\ pc[b] \in {"select", "paused"} /\ rx[b] # <<>> /\ Goto(b, "push")
      /\ rx' = [rx EXCEPT ![b] = Tail(@)]
      /\ UNCHANGED <<bus, link, tx, wire, frames>>
  BY DEF TakeRequest, MayPop, frames
<1>2. rx' \in [Boards -> Seq(Requests)] /\ \A c \in Boards : Len(rx'[c]) <= RxDepth
  BY <1>1, PopTyped DEF LinkInv
<1>3. tx' \in [Boards -> 0 .. TxDepth] /\ \A c \in Boards : c # b => tx'[c] = tx[c]
  BY <1>1 DEF LinkInv, Typed
<1>4. "push" \in Places
  BY DEF Places
<1>5. pc[b] \in Outside <=> "push" \in Outside
  BY <1>1 DEF Outside
<1> QED
  BY <1>1, <1>2, <1>3, <1>4, <1>5, CalmStep

LEMMA FrameStep ==
  ASSUME LinkInv, RoomOK, NEW b \in Boards, TakeRequest(b), Head(rx[b]) # 0
  PROVE  LinkInv' /\ RoomOK'
<1>1. PICK c \in Boards : c = Peer(b) /\ c # b /\ b = Peer(c)
  BY BoardFacts
<1>2. PICK r \in Nat : r = Head(rx[b])
  <2>1. rx[b] \in Seq(Requests) /\ rx[b] # <<>> /\ Requests \subseteq Nat
    BY BusSessionAssumption DEF LinkInv, Typed, TakeRequest, MayPop
  <2>2. Head(rx[b]) \in Requests
    BY <2>1
  <2> QED
    BY <2>1, <2>2
<1>3. /\ Typed /\ pc[b] \in {"select", "paused"} /\ rx[b] # <<>> /\ Goto(b, "write")
      /\ rx' = [rx EXCEPT ![b] = Tail(@)]
      /\ wrote' = [wrote EXCEPT ![b] = @ + 1]
      /\ writing' = [writing EXCEPT ![b] = Frame(wrote'[b], r)]
      /\ UNCHANGED <<bus, tx, link, sock, stream, partial, next>>
      /\ OwnOK(b) /\ LinesOK(b) /\ OwnOK(c) /\ LinesOK(c)
  BY <1>2 DEF TakeRequest, MayPop, LinkInv, wire
<1>4. rx' \in [Boards -> Seq(Requests)] /\ \A d \in Boards : Len(rx'[d]) <= RxDepth
  BY <1>3, PopTyped
<1>5. pc' \in [Boards -> Places] /\ pc'[b] = "write" /\ pc'[c] = pc[c]
  BY <1>1, <1>3 DEF Typed, Goto, Places
<1>6. PICK w \in Nat : w = wrote[b] /\ wrote'[b] = w + 1 /\ wrote'[c] = wrote[c]
  BY <1>1, <1>3 DEF Typed
<1>7. PICK f \in Seq(Chunks) : f = Frame(w + 1, r) /\ f # <<>>
  <2>1. w + 1 \in Nat
    BY <1>6
  <2> QED
    BY <2>1, FrameFacts
<1>8. writing'[b] = f /\ writing'[c] = writing[c]
  BY <1>1, <1>3, <1>6, <1>7 DEF Typed
<1>9. Typed'
  <2>1. writing' = [writing EXCEPT ![b] = f]
    BY <1>3, <1>6, <1>7
  <2>2. writing' \in [Boards -> Seq(Chunks)]
    BY <1>3, <2>1 DEF Typed
  <2>3. wrote' \in [Boards -> Nat]
    <3>1. wrote' = [wrote EXCEPT ![b] = w + 1] /\ w + 1 \in Nat
      BY <1>3, <1>6
    <3> QED
      BY <1>3, <3>1 DEF Typed
  <2> QED
    BY <1>3, <1>4, <1>5, <2>2, <2>3 DEF Typed
<1>10. RoomOK'
  BY <1>3, <1>4 DEF RoomOK, HasSpace, Goto, Typed
<1>11. (Connected(b)' <=> Connected(b)) /\ (Connected(c)' <=> Connected(c))
  BY <1>3 DEF Connected
<1>12. ~Silent(b) /\ ~Silent(b)' /\ pc[b] # "close" /\ writing[b] = <<>> /\ sock[b] # "closed"
  BY <1>3, <1>5 DEF Silent, OwnOK, WritingOK, ClosedOK
<1>13. OwnOK(b)'
  BY <1>3, <1>5, <1>7, <1>8, <1>12 DEF OwnOK, ClosedOK, WritingOK, PartialOK
<1>14. Line(b)' = Line(b)
  BY <1>1, <1>3, <1>8, <1>11 DEF Line
<1>15. LinesOK(b)'
  BY <1>1, <1>3, <1>5, <1>6, <1>11, <1>12, <1>14, LineKept DEF Silent
<1>16. OwnOK(c)'
  BY <1>3, <1>5, <1>8, OwnKept
<1>17. LinesOK(c)'
  <2>1. CASE ~Connected(c)
    <3>1. Line(c)' = Line(c)
      BY <1>3, <1>11, <2>1 DEF Line
    <3> QED
      BY <1>3, <1>5, <1>11, <2>1, <3>1 DEF LinesOK, LineOK, SilentOK, DueOK
  <2>2. CASE Connected(c)
    <3>1. PICK l \in Seq(Chunks) : l = Line(c)
      BY <1>3, LineTyped
    <3>2. l = partial[c] \o stream[c] /\ Line(c)' = partial[c] \o stream[c] \o f
      <4>1. PICK p \in Seq(Chunks), s \in Seq(Chunks) : p = partial[c] /\ s = stream[c]
        BY <1>3, LineTyped
      <4>2. p \o s \o <<>> = p \o s
        OBVIOUS
      <4>3. Line(c)' = partial[c] \o stream[c] \o f
        BY <1>1, <1>3, <1>8, <1>11, <2>2 DEF Line
      <4>4. l = partial[c] \o stream[c] \o <<>>
        BY <1>1, <1>3, <1>12, <2>2, <3>1, LineParts
      <4> QED
        BY <4>1, <4>2, <4>3, <4>4
    <3>3. Line(c)' = l \o f
      BY <3>2
    <3>4. PICK n \in Nat : n = next[c] /\ next'[c] = n
      BY <1>3, LineTyped
    <3>5. pc[c] # "close" /\ sock[c] # "closed" =>
            Ordered(l, n) /\ Ends(l, w) /\ (l = <<>> => n = w + 1)
      BY <1>1, <1>3, <1>6, <1>12, <2>2, <3>1, <3>4 DEF LinesOK, LineOK, DueOK
    <3>6. pc[c] # "close" /\ sock[c] # "closed" => Ordered(l \o f, n) /\ Ends(l \o f, w + 1)
      BY <1>7, <3>5, OrderedGrows
    <3>7. LineOK(c)'
      BY <1>1, <1>3, <1>5, <1>6, <3>3, <3>4, <3>6 DEF LineOK
    <3>8. l \o f # <<>>
      BY <1>7, ConcatFacts
    <3>9. SilentOK(c)' /\ DueOK(c)'
      BY <1>1, <1>12, <3>3, <3>8 DEF SilentOK, DueOK
    <3> QED
      BY <3>7, <3>9 DEF LinesOK
  <2> QED
    BY <2>1, <2>2
<1> QED
  BY <1>1, <1>9, <1>10, <1>13, <1>15, <1>16, <1>17, BothEnds

LEMMA SentLine ==
  ASSUME Typed, NEW b \in Boards, NEW c \in Boards, b = Peer(c), Connected(c), Connected(c)',
         writing[b] # <<>>, writing'[b] = Tail(writing[b]),
         stream'[c] = Append(stream[c], Head(writing[b])), partial'[c] = partial[c]
  PROVE  Line(c)' = Line(c)
<1>1. partial[c] \in Seq(Chunks) /\ stream[c] \in Seq(Chunks) /\ writing[b] \in Seq(Chunks)
  BY LineTyped
<1>2. Sends(partial[c], stream[c], writing[b])
  BY <1>1, SentChunk
<1> QED
  BY <1>2 DEF Line, Sends

(* A chunk goes from the writer into the connection, if there is one.      *)
LEMMA WriteStep ==
  ASSUME LinkInv, RoomOK, NEW b \in Boards, Write(b)
  PROVE  LinkInv' /\ RoomOK'
<1>1. PICK c \in Boards : c = Peer(b) /\ c # b /\ b = Peer(c)
  BY BoardFacts
<1>2. PICK w \in Seq(Chunks) : w = writing[b]
  BY LineTyped DEF LinkInv
<1>3. PICK q \in {"loop", "write"} : Goto(b, q) /\ q = IF Len(w) = 1 THEN "loop" ELSE "write"
  BY <1>2 DEF Write
<1>4. /\ Typed /\ pc[b] = "write" /\ CanSend(b) /\ Send(b, Head(w))
      /\ writing' = [writing EXCEPT ![b] = Tail(w)]
      /\ UNCHANGED <<bus, rx, tx, link, sock, partial, wrote, next>>
      /\ OwnOK(b) /\ LinesOK(b) /\ OwnOK(c) /\ LinesOK(c)
  BY <1>2 DEF Write, LinkInv, mailboxes
<1>5. w # <<>> /\ sock[b] = "open"
  BY <1>2, <1>4 DEF OwnOK, WritingOK, CanSend
<1>6. PICK t \in Seq(Chunks), e \in Chunks :
        t = Tail(w) /\ e = Head(w) /\ (t = <<>> <=> Len(w) = 1)
  <2>1. Tail(w) \in Seq(Chunks) /\ Head(w) \in Chunks /\ (Tail(w) = <<>> <=> Len(w) = 1)
    BY <1>5, TakenFacts
  <2> QED
    BY <2>1
<1>7. /\ stream' \in [Boards -> Seq(Chunks)] /\ stream'[b] = stream[b]
      /\ Connected(b) => stream'[c] = Append(stream[c], e)
      /\ ~Connected(b) => stream'[c] = stream[c]
      /\ \A d \in Boards : Len(stream'[d]) <= Window
  BY <1>1, <1>4, <1>6, SendFacts, SendRoom
<1>8. pc' \in [Boards -> Places] /\ pc'[b] = q /\ pc'[c] = pc[c]
  BY <1>1, <1>3, <1>4 DEF Typed, Goto, Places
<1>9. writing'[b] = t /\ writing'[c] = writing[c] /\ writing' \in [Boards -> Seq(Chunks)]
  BY <1>1, <1>4, <1>6 DEF Typed
<1>10. Typed'
  BY <1>4, <1>7, <1>8, <1>9 DEF Typed
<1>11. RoomOK'
  BY <1>3, <1>4, <1>7 DEF RoomOK, HasSpace, Goto, Typed
<1>12. /\ Connected(b)' <=> Connected(b)
       /\ Connected(c)' <=> Connected(c)
       /\ Connected(b) <=> Connected(c)
  BY <1>1, <1>4 DEF Connected
<1>13. OwnOK(b)'
  BY <1>3, <1>4, <1>5, <1>6, <1>8, <1>9 DEF OwnOK, ClosedOK, WritingOK, PartialOK
<1>14. ~Silent(b) /\ ~Silent(b)' /\ pc[b] # "close"
  BY <1>3, <1>4, <1>8 DEF Silent
<1>15. Line(b)' = Line(b)
  BY <1>1, <1>4, <1>7, <1>9, <1>12 DEF Line
<1>16. LinesOK(b)'
  BY <1>1, <1>4, <1>8, <1>12, <1>14, <1>15, LineKept DEF Silent
<1>17. Line(c)' = Line(c)
  <2>1. CASE Connected(c)
    BY <1>1, <1>2, <1>4, <1>5, <1>6, <1>7, <1>9, <1>12, <2>1, SentLine
  <2>2. CASE ~Connected(c)
    BY <1>4, <1>7, <1>12, <2>2 DEF Line
  <2> QED
    BY <2>1, <2>2
<1>18. OwnOK(c)' /\ LinesOK(c)'
  <2>1. sock[c] = "closed" => stream'[c] = stream[c]
    BY <1>7, <1>12 DEF Connected
  <2> QED
    BY <1>1, <1>4, <1>8, <1>9, <1>12, <1>14, <1>17, <2>1, OtherEnd
<1> QED
  BY <1>1, <1>10, <1>11, <1>13, <1>16, <1>18, BothEnds

(* With the next chunk a reader holds the beginning of one frame still.    *)
Begun(g, n) ==
  \E z \in Nat : Len(g) <= z + 1 /\ \A i \in 1 .. Len(g) : g[i] = Chunk(n, i - 1, z)

LEMMA GotBegins ==
  ASSUME NEW p \in Seq(Chunks), NEW e \in Chunks, NEW t \in Seq(Chunks), NEW n \in Nat,
         Ordered(Append(p, e) \o t, n),
         p # <<>> => \E z \in Nat : /\ Len(p) <= z
                                    /\ \A i \in 1 .. Len(p) : p[i] = Chunk(n, i - 1, z)
  PROVE  Begun(Append(p, e), n)
<1>1. PICK g \in Seq(Chunks), k \in Nat :
        /\ g = Append(p, e) /\ k = Len(p) /\ Len(g) = k + 1 /\ g[k + 1] = e
        /\ \A i \in 1 .. k : g[i] = p[i]
  <2>1. /\ Append(p, e) \in Seq(Chunks) /\ Len(p) \in Nat /\ Len(Append(p, e)) = Len(p) + 1
        /\ Append(p, e)[Len(p) + 1] = e /\ \A i \in 1 .. Len(p) : Append(p, e)[i] = p[i]
    OBVIOUS
  <2> QED
    BY <2>1
<1>2. PICK l \in Seq(Chunks) : /\ l = g \o t /\ Len(l) = Len(g) + Len(t)
                               /\ \A i \in 1 .. Len(g) : l[i] = g[i]
  <2>1. /\ g \o t \in Seq(Chunks) /\ Len(g \o t) = Len(g) + Len(t)
        /\ \A i \in 1 .. Len(g) : (g \o t)[i] = g[i]
    OBVIOUS
  <2> QED
    BY <2>1
<1>3. Ordered(l, n) /\ Len(t) \in Nat
  BY <1>1, <1>2
<1>4. l # <<>>
  BY <1>1, <1>2, SMTT(30)
<1>5. SUFFICES \E z \in Nat : k <= z /\ \A i \in 1 .. k + 1 : g[i] = Chunk(n, i - 1, z)
  BY <1>1 DEF Begun
<1>6. CASE p = <<>>
  <2>1. k = 0 /\ l[1] = e
    BY <1>1, <1>2, <1>6
  <2>2. e.n = n /\ e.part = 0
    BY <1>3, <1>4, <2>1 DEF Ordered
  <2>3. e.size \in Nat /\ e = Chunk(n, 0, e.size)
    BY <2>2 DEF Chunk, Chunks
  <2>4. \A i \in 1 .. k + 1 : g[i] = Chunk(n, i - 1, e.size)
    BY <1>1, <2>1, <2>3
  <2> QED
    BY <2>1, <2>3, <2>4
<1>7. CASE p # <<>>
  <2>1. PICK z \in Nat : k <= z /\ \A i \in 1 .. k : p[i] = Chunk(n, i - 1, z)
    BY <1>1, <1>7
  <2>2. k \in 1 .. k /\ k \in 1 .. Len(l) - 1
    BY <1>1, <1>2, <1>3, <1>7
  <2>3. l[k] = p[k] /\ l[k + 1] = e /\ p[k] = Chunk(n, k - 1, z)
    BY <1>1, <1>2, <2>1, <2>2
  <2>4. Follows(l[k], l[k + 1])
    BY <1>3, <1>4, <2>2 DEF Ordered
  <2>5. k - 1 \in Nat /\ k - 1 < z /\ (k - 1) + 1 = k
    BY <2>1, <2>2
  <2>6. Chunk(n, k - 1, z) \in Chunks /\ Follows(Chunk(n, k - 1, z), e)
    BY <2>3, <2>4, <2>5, ChunkFacts
  <2>7. e = Chunk(n, k, z)
    BY <2>5, <2>6 DEF Follows, Chunk
  <2>8. \A i \in 1 .. k + 1 : g[i] = Chunk(n, i - 1, z)
    <3> SUFFICES ASSUME NEW i \in 1 .. k + 1 PROVE g[i] = Chunk(n, i - 1, z)
      OBVIOUS
    <3>1. CASE i \in 1 .. k
      BY <1>1, <2>1, <3>1
    <3>2. CASE i = k + 1
      <4>1. i - 1 = k
        BY <1>1, <3>2
      <4> QED
        BY <1>1, <2>7, <3>2, <4>1
    <3> QED
      BY <1>1, <3>1, <3>2
  <2> QED
    BY <2>1, <2>8
<1> QED
  BY <1>6, <1>7

(* The line of a reader with a chunk before it.                            *)
LEMMA ReadLine ==
  ASSUME LinkInv, NEW b \in Boards, pc[b] = "select", stream[b] # <<>>
  PROVE  LET rest == IF Connected(b) THEN writing[Peer(b)] ELSE <<>>
         IN  \E g \in Seq(Chunks), t \in Seq(Chunks) :
               /\ g = Append(partial[b], Head(stream[b])) /\ t = <<>> \o Tail(stream[b]) \o rest
               /\ Line(b) = g \o t /\ g \o Tail(stream[b]) \o rest = g \o t
               /\ Ordered(g \o t, next[b]) /\ Begun(g, next[b])
<1>1. /\ Typed /\ OwnOK(b) /\ LinesOK(b) /\ next[b] \in Nat /\ Peer(b) \in Boards
      /\ partial[b] \in Seq(Chunks) /\ stream[b] \in Seq(Chunks)
  BY LineTyped, BoardFacts DEF LinkInv
<1>2. (IF Connected(b) THEN writing[Peer(b)] ELSE <<>>) \in Seq(Chunks)
  <2>1. writing[Peer(b)] \in Seq(Chunks) /\ <<>> \in Seq(Chunks)
    BY <1>1, LineTyped
  <2> QED
    BY <2>1
<1>3. PICK p \in Seq(Chunks), r \in Seq(Chunks), w \in Seq(Chunks), n \in Nat :
        /\ p = partial[b] /\ r = stream[b] /\ n = next[b]
        /\ w = IF Connected(b) THEN writing[Peer(b)] ELSE <<>>
  BY <1>1, <1>2, Zenon
<1>4. r # <<>>
  BY <1>3
<1>5. PICK e \in Chunks, s \in Seq(Chunks) : e = Head(r) /\ s = Tail(r)
  BY <1>4, TakenFacts
<1>6. PICK g \in Seq(Chunks), t \in Seq(Chunks) : g = Append(p, e) /\ t = <<>> \o s \o w
  <2>1. Append(p, e) \in Seq(Chunks) /\ <<>> \o s \o w \in Seq(Chunks)
    OBVIOUS
  <2> QED
    BY <2>1
<1>7. t = s \o w
  <2>1. <<>> \o s \o w = s \o w
    OBVIOUS
  <2> QED
    BY <1>6, <2>1
<1>8. Line(b) = p \o r \o w
  BY <1>3 DEF Line
<1>9. g \o t = p \o r \o w
  <2>1. Reads(p, r, w)
    BY <1>4, ReadChunkStays
  <2> QED
    BY <1>5, <1>6, <1>7, <2>1 DEF Reads
<1>10. g \o s \o w = g \o t
  <2>1. Groups(g, s, w)
    BY Grouped
  <2> QED
    BY <1>7, <2>1 DEF Groups
<1>11. Ordered(g \o t, n)
  <2>1. sock[b] # "closed"
    BY <1>1 DEF OwnOK, ClosedOK
  <2> QED
    BY <1>1, <1>3, <1>8, <1>9, <2>1 DEF LinesOK, LineOK
<1>12. p # <<>> => \E z \in Nat : Len(p) <= z /\ \A i \in 1 .. Len(p) : p[i] = Chunk(n, i - 1, z)
  BY <1>1, <1>3 DEF OwnOK, PartialOK
<1>13. Begun(g, n)
  <2>1. Ordered(Append(p, e) \o t, n)
    BY <1>6, <1>11
  <2>2. Begun(Append(p, e), n)
    BY <1>12, <2>1, GotBegins
  <2> QED
    BY <1>6, <2>2
<1>14. g = Append(partial[b], Head(stream[b])) /\ s = Tail(stream[b]) /\ Line(b) = g \o t
  BY <1>3, <1>5, <1>6, <1>8, <1>9
<1> QED
  BY <1>3, <1>6, <1>10, <1>11, <1>13, <1>14, Zenon

(* A chunk is read: it is refused, or it completes a frame, or the reader  *)
(* holds it.                                                               *)
LEMMA ReadOwn ==
  ASSUME LinkInv, NEW b \in Boards, ReadChunk(b),
         UNCHANGED <<sock, writing, wrote>>, pc'[Peer(b)] = pc[Peer(b)]
  PROVE  OwnOK(b)' /\ LinesOK(b)'
<1> DEFINE rest == IF Connected(b) THEN writing[Peer(b)] ELSE <<>>
<1>1. PICK n \in Nat : n = next[b]
  BY LineTyped DEF LinkInv
<1>2. /\ Typed /\ OwnOK(b) /\ LinesOK(b) /\ pc[b] = "select" /\ stream[b] # <<>>
      /\ stream'[b] = Tail(stream[b])
  BY DEF LinkInv, Typed, ReadChunk, MayRead
<1>3. PICK g \in Seq(Chunks), t \in Seq(Chunks) :
        /\ g = Append(partial[b], Head(stream[b])) /\ t = <<>> \o Tail(stream[b]) \o rest
        /\ Line(b) = g \o t /\ g \o Tail(stream[b]) \o rest = g \o t
        /\ Ordered(g \o t, n) /\ Begun(g, n)
  BY <1>1, <1>2, ReadLine
<1>4. PICK z \in Nat : Len(g) <= z + 1 /\ \A i \in 1 .. Len(g) : g[i] = Chunk(n, i - 1, z)
  BY <1>3, SMTT(30) DEF Begun
<1>5. g # <<>> /\ Len(g) \in Nat /\ Len(g) >= 1
  <2>1. PICK p \in Seq(Chunks), e \in Chunks : p = partial[b] /\ e = Head(stream[b])
    BY <1>2, LineTyped, TakenFacts
  <2>2. Len(Append(p, e)) = Len(p) + 1 /\ Len(p) \in Nat
    OBVIOUS
  <2>3. Len(g) = Len(p) + 1
    BY <1>3, <2>1, <2>2
  <2> QED
    BY <2>2, <2>3
<1>6. g[1] = Chunk(n, 1 - 1, z) /\ g[1].size = z
  BY <1>4, <1>5, ChunkFacts DEF Chunk
<1>7. (Connected(b)' <=> Connected(b)) /\ Line(b)' = partial'[b] \o Tail(stream[b]) \o rest
  BY <1>2 DEF Line, Connected
<1>8. sock[b] # "closed" /\ writing[b] = <<>>
  BY <1>2, SMTT(30) DEF OwnOK, ClosedOK, WritingOK
<1>9. Line(b) # <<>>
  <2>1. g \o t # <<>>
    BY <1>5
  <2> QED
    BY <1>3, <2>1
<1>10. ~(Connected(b) /\ Silent(Peer(b))) /\ (Connected(b) => Ends(Line(b), wrote[Peer(b)]))
  BY <1>2, <1>8, <1>9 DEF LinesOK, LineOK, SilentOK
<1>11. SilentOK(b)'
  BY <1>7, <1>10 DEF SilentOK, Silent
<1>12. CASE Goto(b, "close") /\ UNCHANGED <<partial, next>>
  <2>1. pc'[b] = "close"
    BY <1>2, <1>12 DEF Typed, Goto
  <2>2. OwnOK(b)'
    BY <1>2, <1>8, <1>12, <2>1 DEF OwnOK, ClosedOK, WritingOK, PartialOK
  <2>3. LineOK(b)' /\ DueOK(b)'
    BY <2>1 DEF LineOK, DueOK
  <2> QED
    BY <1>11, <2>2, <2>3 DEF LinesOK
<1>13. CASE Len(g) = g[1].size + 1 /\ Deliver(b)
  <2>1. pc'[b] \in {"loop", "close"} /\ partial'[b] = <<>> /\ next'[b] = n + 1
    BY <1>1, <1>2, <1>13, SMTT(30) DEF Typed, Goto, Deliver
  <2>2. OwnOK(b)'
    BY <1>2, <1>8, <2>1 DEF OwnOK, ClosedOK, WritingOK, PartialOK
  <2>3. Line(b)' = t
    BY <1>3, <1>7, <2>1
  <2>4. g[Len(g)] = Chunk(n, z, z)
    <3>1. Len(g) = z + 1 /\ Len(g) \in 1 .. Len(g) /\ Len(g) - 1 = z
      BY <1>5, <1>6, <1>13
    <3> QED
      BY <1>4, <3>1
  <2>5. g[Len(g)].part = g[Len(g)].size /\ g[Len(g)].n = n
    BY <2>4, ChunkFacts, SMTT(30)
  <2>6. /\ Ordered(t, n + 1)
        /\ \A w \in Nat : Ends(g \o t, w) => Ends(t, w) /\ (t = <<>> => w = n)
    <3>1. /\ g # <<>> /\ g[Len(g)].part = g[Len(g)].size /\ g[Len(g)].n = n
          /\ Ordered(g \o t, n)
      BY <1>3, <1>5, <2>5, SMTT(30)
    <3> QED
      BY <3>1, OrderedDrops
  <2>7. Connected(b) => /\ Ends(t, wrote[Peer(b)])
                        /\ t = <<>> => wrote[Peer(b)] = n
    <3>1. wrote[Peer(b)] \in Nat
      BY <1>2, BoardFacts, LineTyped
    <3> QED
      BY <1>3, <1>10, <2>6, <3>1
  <2>8. LineOK(b)'
    BY <1>7, <2>1, <2>3, <2>6, <2>7 DEF LineOK
  <2>9. DueOK(b)'
    BY <1>7, <2>1, <2>3, <2>7 DEF DueOK
  <2> QED
    BY <1>11, <2>2, <2>8, <2>9 DEF LinesOK
<1>14. CASE Len(g) < g[1].size + 1 /\ partial' = [partial EXCEPT ![b] = g] /\ UNCHANGED <<pc, next>>
  <2>1. partial'[b] = g /\ Len(g) <= z
    BY <1>2, <1>5, <1>6, <1>14 DEF Typed
  <2>2. PartialOK(b)'
    BY <1>1, <1>2, <1>4, <1>14, <2>1 DEF PartialOK
  <2>3. OwnOK(b)'
    BY <1>2, <1>8, <1>14, <2>2, Zenon DEF OwnOK, ClosedOK, WritingOK
  <2>4. Line(b)' = Line(b)
    BY <1>3, <1>7, <2>1, Zenon
  <2>5. LinesOK(b)'
    BY <1>2, <1>7, <1>14, <2>4, LineKept, Zenon DEF Silent
  <2> QED
    BY <2>3, <2>5
<1>15. \/ Goto(b, "close") /\ UNCHANGED <<partial, next>>
       \/ Len(g) = g[1].size + 1 /\ Deliver(b)
       \/ Len(g) < g[1].size + 1 /\ partial' = [partial EXCEPT ![b] = g] /\ UNCHANGED <<pc, next>>
  BY <1>3, Zenon DEF ReadChunk
<1> QED
  BY <1>12, <1>13, <1>14, <1>15

LEMMA ReadChunkStep ==
  ASSUME LinkInv, RoomOK, NEW b \in Boards, ReadChunk(b)
  PROVE  LinkInv' /\ RoomOK'
<1>1. PICK c \in Boards : c = Peer(b) /\ c # b /\ b = Peer(c) /\ \A d \in Boards : d = b \/ d = c
  BY BoardFacts
<1>2. /\ Typed /\ pc[b] = "select" /\ stream[b] # <<>> /\ HasSpace(b)
      /\ stream' = [stream EXCEPT ![b] = Tail(@)]
      /\ UNCHANGED <<bus, rx, link, sock, writing, wrote>>
      /\ OwnOK(b) /\ OwnOK(c) /\ LinesOK(c)
  BY DEF ReadChunk, MayRead, LinkInv, RoomOK
<1>3. PICK s \in Seq(Chunks), e \in Chunks : s = Tail(stream[b]) /\ e = Head(stream[b]) /\ Len(s) <= Window
  <2>1. PICK r \in Seq(Chunks) : r = stream[b] /\ r # <<>> /\ Len(r) <= Window
    BY <1>2, LineTyped DEF RoomOK
  <2>2. Tail(r) \in Seq(Chunks) /\ Head(r) \in Chunks /\ Len(Tail(r)) <= Window
    BY <2>1, BusSessionAssumption
  <2> QED
    BY <2>1, <2>2
<1>4. stream'[b] = s /\ stream'[c] = stream[c] /\ stream' \in [Boards -> Seq(Chunks)]
  BY <1>1, <1>2, <1>3 DEF Typed
<1>5. PICK g \in Seq(Chunks) : g = Append(partial[b], e)
  <2>1. PICK p \in Seq(Chunks) : p = partial[b]
    BY <1>2, LineTyped
  <2>2. Append(p, e) \in Seq(Chunks)
    OBVIOUS
  <2> QED
    BY <2>1, <2>2
<1>6. PICK q \in {"select", "loop", "close"} :
        /\ Goto(b, q) /\ tx' \in [Boards -> 0 .. TxDepth] /\ \A d \in Boards : d # b => tx'[d] = tx[d]
        /\ q = "select" => UNCHANGED tx
        /\ next' \in [Boards -> Nat] /\ next'[c] = next[c]
        /\ partial' \in [Boards -> Seq(Chunks)] /\ partial'[c] = partial[c]
  <2>0. <<>> \in Seq(Chunks)
    OBVIOUS
  <2>1. /\ tx \in [Boards -> 0 .. TxDepth] /\ next \in [Boards -> Nat] /\ partial \in [Boards -> Seq(Chunks)]
        /\ <<>> \in Seq(Chunks) /\ pc \in [Boards -> Places]
    BY <1>2, <2>0 DEF Typed
  <2>2. CASE Goto(b, "close") /\ UNCHANGED <<tx, partial, next>>
    BY <2>1, <2>2
  <2>3. CASE Deliver(b)
    <3>1. /\ next' \in [Boards -> Nat] /\ next'[c] = next[c]
          /\ partial' \in [Boards -> Seq(Chunks)] /\ partial'[c] = partial[c]
      BY <1>1, <2>1, <2>3 DEF Deliver
    <3>2. /\ Goto(b, "loop") /\ tx' \in [Boards -> 0 .. TxDepth]
          /\ \A d \in Boards : d # b => tx'[d] = tx[d]
      BY <1>2, <2>3, ReplyTyped DEF Deliver
    <3> QED
      BY <3>1, <3>2
  <2>4. CASE partial' = [partial EXCEPT ![b] = g] /\ UNCHANGED <<pc, tx, next>>
    <3>1. Goto(b, "select")
      BY <1>2, <2>1, <2>4 DEF Goto
    <3> QED
      BY <1>1, <2>1, <2>4, <3>1
  <2>5. \/ Goto(b, "close") /\ UNCHANGED <<tx, partial, next>>
        \/ Deliver(b)
        \/ partial' = [partial EXCEPT ![b] = g] /\ UNCHANGED <<pc, tx, next>>
    BY <1>3, <1>5 DEF ReadChunk
  <2> QED
    BY <2>2, <2>3, <2>4, <2>5
<1>7. q \in Places /\ pc' \in [Boards -> Places] /\ pc'[b] = q /\ pc'[c] = pc[c]
  BY <1>1, <1>2, <1>6 DEF Typed, Goto, Places
<1>8. Typed'
  BY <1>2, <1>4, <1>6, <1>7 DEF Typed
<1>9. RoomOK'
  <2>1. \A d \in Boards : Len(stream'[d]) <= Window
    BY <1>1, <1>3, <1>4 DEF RoomOK
  <2>2. q # "select" \/ HasSpace(b)'
    BY <1>2, <1>6 DEF HasSpace
  <2>3. \A d \in Boards : pc'[d] = "select" => HasSpace(d)'
    BY <1>2, <1>6, <2>2, SelectHasSpace
  <2> QED
    BY <1>2, <2>1, <2>3 DEF RoomOK
<1>10. OwnOK(b)' /\ LinesOK(b)'
  BY <1>1, <1>2, <1>7, ReadOwn
<1>11. Line(c)' = Line(c) /\ (Connected(c)' <=> Connected(c))
  BY <1>1, <1>2, <1>4, <1>6 DEF Line, Connected
<1>12. ~Silent(b) /\ ~Silent(b)' /\ pc[b] # "close"
  BY <1>2, <1>6, <1>7 DEF Silent
<1>13. OwnOK(c)' /\ LinesOK(c)'
  BY <1>1, <1>2, <1>4, <1>6, <1>7, <1>11, <1>12, OtherEnd
<1> QED
  BY <1>1, <1>8, <1>9, <1>10, <1>13, BothEnds

LEMMA InitLink == Init => LinkInv /\ RoomOK
<1> SUFFICES ASSUME Init PROVE LinkInv /\ RoomOK
  OBVIOUS
<1>1. Typed
  BY InitTyped
<1>2. /\ pc["client"] = "delay" /\ pc["server"] = "await"
      /\ \A b \in Boards : /\ rx[b] = <<>> /\ tx[b] = 0 /\ sock[b] = "closed"
                           /\ stream[b] = <<>> /\ partial[b] = <<>> /\ writing[b] = <<>>
  BY DEF Init
<1>3. \A b \in Boards : pc[b] \in {"delay", "await"}
  BY <1>2 DEF Boards
<1>4. RoomOK
  BY <1>2, <1>3, BusSessionAssumption DEF RoomOK
<1>5. ASSUME NEW b \in Boards PROVE OwnOK(b) /\ LinesOK(b)
  <2>1. OwnOK(b)
    BY <1>2, <1>3 DEF OwnOK, ClosedOK, WritingOK, PartialOK
  <2>2. ~Connected(b)
    BY <1>2 DEF Connected
  <2>3. LinesOK(b)
    BY <1>2, <2>2 DEF LinesOK, LineOK, SilentOK, DueOK
  <2> QED
    BY <2>1, <2>3
<1> QED
  BY <1>1, <1>4, <1>5 DEF LinkInv

(* The other steps of one board.                                           *)
LEMMA BusStep ==
  ASSUME LinkInv, RoomOK, NEW b \in Boards,
         Pull(b) \/ \E r \in Requests : Request(b, r)
  PROVE  LinkInv' /\ RoomOK'
<1>1. ASSUME NEW r \in Requests, Request(b, r) PROVE LinkInv' /\ RoomOK'
  <2>1. Typed' /\ RoomOK'
    BY <1>1, RequestTyped DEF LinkInv
  <2> QED
    BY <1>1, <2>1, QuietStep DEF Request
<1>2. CASE Pull(b)
  <2>0. tx' \in [Boards -> 0 .. TxDepth]
    BY <1>2, BusSessionAssumption, SMTT(30) DEF LinkInv, Typed, Pull
  <2>1. Typed'
    BY <1>2, <2>0 DEF LinkInv, Typed, Pull, wire, frames
  <2>2. RoomOK'
    BY <1>2, BusSessionAssumption DEF LinkInv, Typed, Pull, RoomOK, HasSpace, wire, frames
  <2> QED
    BY <1>2, <2>1, <2>2, QuietStep DEF Pull
<1> QED
  BY <1>1, <1>2

LEMMA MovesCalmly ==
  ASSUME LinkInv, RoomOK, NEW b \in Boards, NEW q \in Places, Goto(b, q),
         UNCHANGED <<bus, mailboxes, link, wire, frames>>, q = "select" => HasSpace(b),
         pc[b] # "close", pc[b] = "write" => q = "close" /\ sock[b] = "reset",
         pc[b] \in {"greet", "greeting"} => q = "close",
         q \notin {"greet", "greeting", "write"},
         pc[b] \in Outside <=> q \in Outside
  PROVE  LinkInv' /\ RoomOK'
<1>1. /\ rx' \in [Boards -> Seq(Requests)] /\ \A c \in Boards : Len(rx'[c]) <= RxDepth
      /\ tx' \in [Boards -> 0 .. TxDepth] /\ \A c \in Boards : c # b => tx'[c] = tx[c]
  BY DEF LinkInv, Typed, RoomOK, mailboxes
<1>2. q = "select" => HasSpace(b)'
  BY DEF HasSpace, mailboxes
<1> QED
  BY <1>1, <1>2, CalmStep

LEMMA MoveStep ==
  ASSUME LinkInv, RoomOK, NEW b \in Boards,
         \/ Delay(b) \/ DialFails(b) \/ GreetingFails(b) \/ Check(b) \/ Resume(b)
         \/ WriteFails(b) \/ ReadFails(b)
  PROVE  LinkInv' /\ RoomOK'
<1>1. CASE Delay(b)
  BY <1>1, MovesCalmly DEF Delay, Places, Outside
<1>2. CASE DialFails(b)
  BY <1>2, MovesCalmly DEF DialFails, Waits, Places, Outside
<1>3. CASE GreetingFails(b)
  BY <1>3, MovesCalmly DEF GreetingFails, Places, Outside
<1>4. CASE Check(b)
  <2>1. PICK q \in {"select", "paused"} : Goto(b, q) /\ (q = "select" => HasSpace(b))
    BY <1>4 DEF Check
  <2> QED
    BY <1>4, <2>1, MovesCalmly DEF Check, Places, Outside
<1>5. CASE Resume(b)
  BY <1>5, MovesCalmly DEF Resume, Places, Outside
<1>6. CASE WriteFails(b)
  BY <1>6, MovesCalmly DEF WriteFails, Places, Outside
<1>7. CASE ReadFails(b)
  BY <1>7, MovesCalmly DEF ReadFails, MayRead, Places, Outside
<1> QED
  BY <1>1, <1>2, <1>3, <1>4, <1>5, <1>6, <1>7

LEMMA MailStep ==
  ASSUME LinkInv, RoomOK, NEW b \in Boards, EarlyRequest(b) \/ EarlyReply(b) \/ Push(b)
  PROVE  LinkInv' /\ RoomOK'
<1>1. Typed
  BY DEF LinkInv
<1>2. CASE EarlyRequest(b)
  <2>1. rx' \in [Boards -> Seq(Requests)] /\ \A c \in Boards : Len(rx'[c]) <= RxDepth
    BY <1>1, <1>2, PopTyped DEF EarlyRequest
  <2>2. tx' \in [Boards -> 0 .. TxDepth] /\ \A c \in Boards : c # b => tx'[c] = tx[c]
    BY <1>1, <1>2 DEF EarlyRequest, Typed
  <2> QED
    BY <1>2, <2>1, <2>2, CalmStep DEF EarlyRequest, Places, Outside
<1>3. CASE EarlyReply(b) \/ Push(b)
  <2>1. tx' \in [Boards -> 0 .. TxDepth] /\ \A c \in Boards : c # b => tx'[c] = tx[c]
    BY <1>1, <1>3, ReplyTyped DEF EarlyReply, Push
  <2>2. rx' \in [Boards -> Seq(Requests)] /\ \A c \in Boards : Len(rx'[c]) <= RxDepth
    BY <1>1, <1>3 DEF EarlyReply, Push, Typed, RoomOK
  <2>3. CASE EarlyReply(b)
    BY <2>1, <2>2, <2>3, CalmStep DEF EarlyReply, Places, Outside
  <2>4. CASE Push(b)
    BY <2>1, <2>2, <2>4, CalmStep DEF Push, Places, Outside
  <2> QED
    BY <1>3, <2>3, <2>4
<1> QED
  BY <1>2, <1>3

LEMMA EndStep ==
  ASSUME LinkInv, RoomOK, NEW b \in Boards, Close(b) \/ AddressChange(b)
  PROVE  LinkInv' /\ RoomOK'
<1>1. PICK q \in Outside : Goto(b, q)
  BY DEF Close, AddressChange, Outside
<1>2. Abort(b) /\ UNCHANGED <<bus, mailboxes>>
  BY DEF Close, AddressChange
<1> QED
  BY <1>1, <1>2, AbortStep

LEMMA LinkStep == LinkInv /\ RoomOK /\ [Next]_vars => LinkInv' /\ RoomOK'
<1> SUFFICES ASSUME LinkInv, RoomOK, [Next]_vars PROVE LinkInv' /\ RoomOK'
  OBVIOUS
<1>1. CASE Connect \/ Greet
  BY <1>1, ConnectStep, GreetStep
<1>2. ASSUME NEW b \in Boards, Pull(b) \/ \E r \in Requests : Request(b, r)
      PROVE  LinkInv' /\ RoomOK'
  BY <1>2, BusStep
<1>3. ASSUME NEW b \in Boards, Delay(b) \/ DialFails(b) \/ GreetingFails(b)
      PROVE  LinkInv' /\ RoomOK'
  BY <1>3, MoveStep
<1>4. ASSUME NEW b \in Boards, EarlyRequest(b) \/ EarlyReply(b)
      PROVE  LinkInv' /\ RoomOK'
  BY <1>4, MailStep
<1>5. ASSUME NEW b \in Boards, Reset(b) PROVE LinkInv' /\ RoomOK'
  BY <1>5, ResetStep
<1>6. ASSUME NEW b \in Boards, Greeted(b) PROVE LinkInv' /\ RoomOK'
  BY <1>6, GreetedStep
<1>7. ASSUME NEW b \in Boards, AddressChange(b) PROVE LinkInv' /\ RoomOK'
  BY <1>7, EndStep
<1>8. ASSUME NEW b \in Boards, Session(b) PROVE LinkInv' /\ RoomOK'
  <2>1. CASE Check(b) \/ Resume(b) \/ WriteFails(b) \/ ReadFails(b)
    BY <2>1, MoveStep
  <2>2. CASE TakeRequest(b)
    BY <2>2, CommandStep, FrameStep
  <2>3. CASE Write(b)
    BY <2>3, WriteStep
  <2>4. CASE Push(b)
    BY <2>4, MailStep
  <2>5. CASE ReadChunk(b)
    BY <2>5, ReadChunkStep
  <2>6. CASE Close(b)
    BY <2>6, EndStep
  <2> QED
    BY <1>8, <2>1, <2>2, <2>3, <2>4, <2>5, <2>6 DEF Session
<1>9. CASE UNCHANGED vars
  <2>1. Typed' /\ RoomOK'
    BY <1>9 DEF vars, LinkInv, Typed, RoomOK, HasSpace
  <2> QED
    BY <1>9, <2>1, QuietStep DEF vars, wire, frames
<1> QED
  BY <1>1, <1>2, <1>3, <1>4, <1>5, <1>6, <1>7, <1>8, <1>9 DEF Next

THEOREM LinkInvariant == Spec => [](LinkInv /\ RoomOK)
<1> QED
  BY InitLink, LinkStep, PTL DEF Spec

(* The mailboxes and the connection stay within their depths, and a        *)
(* session that is in its select has room for the frame its read may       *)
(* complete (the test of has_space before it, bridge/i2c.rs and spi.rs).   *)
THEOREM SessionTypes == Spec => []TypeOK
<1>1. LinkInv /\ RoomOK => TypeOK
  BY DEF LinkInv, Typed, RoomOK, TypeOK
<1> QED
  BY <1>1, LinkInvariant, PTL

(* What a session has read, what is on its way and what its peer has still *)
(* to write are whole frames in order from the one that is due: reads      *)
(* dropped by the select (protocol/stream.rs), partial writes, resets and  *)
(* aborts lose no chunk, and repeat none, within a connection.             *)
THEOREM StreamsExact == Spec => []StreamExact
<1>1. ASSUME LinkInv PROVE StreamExact
  <2> SUFFICES ASSUME NEW b \in Boards, sock[b] # "closed", pc[b] # "close", Line(b) # <<>>
               PROVE  /\ Line(b)[1].n = next[b] /\ Line(b)[1].part = 0
                      /\ \A i \in 1 .. Len(Line(b)) - 1 : Follows(Line(b)[i], Line(b)[i + 1])
                      /\ Connected(b) => /\ Line(b)[Len(Line(b))].part = Line(b)[Len(Line(b))].size
                                         /\ Line(b)[Len(Line(b))].n = wrote[Peer(b)]
    BY DEF StreamExact
  <2>1. Ordered(Line(b), next[b]) /\ (Connected(b) => Ends(Line(b), wrote[Peer(b)]))
    BY <1>1 DEF LinkInv, LinesOK, LineOK
  <2> QED
    BY <2>1 DEF Ordered, Ends
<1> QED
  BY <1>1, LinkInvariant, PTL

-----------------------------------------------------------------------------
(* The steps of the link, as steps of a board b and its peer c.            *)

Same(b) == Up(b)' = Up(b) /\ Met(b)' = Met(b) /\ Way(b)' = Way(b)

LEMMA OtherIsPeer ==
  ASSUME NEW b \in Boards
  PROVE  /\ Pair!Ends = Boards /\ Pair!Other(b) = Peer(b) /\ Pair!Other(b) \in Boards
         /\ Up(b) \in BOOLEAN /\ Met(b) \in BOOLEAN
BY DEF Pair!Ends, Pair!Other, Peer, Boards, Up, Met

LEMMA PairStutters ==
  ASSUME \A d \in Boards : Same(d), UNCHANGED <<wrote, next>>
  PROVE  UNCHANGED Pair!linkVars
BY DEF Pair!linkVars, Same

LEMMA PairLeaves ==
  ASSUME NEW b \in Boards, NEW c \in Boards, c = Peer(b), UNCHANGED <<wrote, next>>,
         Up(b), ~Up(b)', ~Met(b)', Way(b)' = {},
         Up(c)' = Up(c), Met(c)' = Met(c), Way(c)' \in Pair!Oldest(Way(c))
  PROVE  Pair!Next
<1>1. c # b /\ (\A d \in Boards : d = b \/ d = c) /\ Pair!Other(b) = c /\ b \in Pair!Ends
  BY BoardFacts, OtherIsPeer
<1>2. [d \in Boards |-> Up(d)'] = [[d \in Boards |-> Up(d)] EXCEPT ![b] = FALSE]
  BY <1>1 DEF Up
<1>3. [d \in Boards |-> Met(d)'] = [[d \in Boards |-> Met(d)] EXCEPT ![b] = FALSE]
  BY <1>1 DEF Met
<1>4. [d \in Boards |-> Way(d)'] =
        [[d \in Boards |-> Way(d)] EXCEPT ![b] = {}, ![c] = Way(c)']
  BY <1>1
<1>5. Pair!Leave(b)
  BY <1>1, <1>2, <1>3, <1>4 DEF Pair!Leave
<1> QED
  BY <1>1, <1>5 DEF Pair!Next

LEMMA PairLoses ==
  ASSUME NEW b \in Boards, NEW c \in Boards, c = Peer(b), UNCHANGED <<wrote, next>>,
         ~Up(c), Up(b)' = Up(b), Met(b)' = Met(b), Way(b)' \in Pair!Oldest(Way(b)), Same(c)
  PROVE  Pair!Next
<1>1. c # b /\ (\A d \in Boards : d = b \/ d = c) /\ Pair!Other(b) = c /\ b \in Pair!Ends
  BY BoardFacts, OtherIsPeer
<1>2. /\ [d \in Boards |-> Up(d)'] = [d \in Boards |-> Up(d)]
      /\ [d \in Boards |-> Met(d)'] = [d \in Boards |-> Met(d)]
  BY <1>1 DEF Same
<1>3. [d \in Boards |-> Way(d)'] = [[d \in Boards |-> Way(d)] EXCEPT ![b] = Way(b)']
  BY <1>1 DEF Same
<1>4. Pair!Lose(b)
  BY <1>1, <1>2, <1>3 DEF Pair!Lose
<1> QED
  BY <1>1, <1>4 DEF Pair!Next

LEMMA PairReceives ==
  ASSUME NEW b \in Boards, NEW c \in Boards, c = Peer(b), Typed, NEW f \in Way(b), f.n = next[b],
         Met(b), Up(b)' = Up(b), Met(b)' = Met(b), Way(b)' = Way(b) \ {f}, Same(c),
         UNCHANGED wrote, next' = [next EXCEPT ![b] = @ + 1]
  PROVE  Pair!Next
<1>1. c # b /\ (\A d \in Boards : d = b \/ d = c) /\ b \in Pair!Ends
  BY BoardFacts, OtherIsPeer
<1>2. /\ [d \in Boards |-> Up(d)'] = [d \in Boards |-> Up(d)]
      /\ [d \in Boards |-> Met(d)'] = [d \in Boards |-> Met(d)]
  BY <1>1 DEF Same
<1>3. [d \in Boards |-> Way(d)'] = [[d \in Boards |-> Way(d)] EXCEPT ![b] = @ \ {f}]
  BY <1>1 DEF Same
<1>4. Pair!Receive(b, f)
  BY <1>1, <1>2, <1>3 DEF Pair!Receive
<1>5. f \in [d \in Boards |-> Way(d)][b]
  OBVIOUS
<1> QED
  BY <1>1, <1>4, <1>5 DEF Pair!Next

LEMMA PairBegins ==
  ASSUME NEW b \in Boards, NEW c \in Boards, c = Peer(b), Typed, NEW z \in Requests \ {0},
         Met(b), Same(b), Up(c)' = Up(c), Met(c)' = Met(c),
         Up(c) => Way(c)' = Way(c) \cup {[n |-> wrote[b] + 1, size |-> z]},
         ~Up(c) => Way(c)' = Way(c),
         UNCHANGED next, wrote' = [wrote EXCEPT ![b] = @ + 1]
  PROVE  Pair!Next
<1>1. c # b /\ (\A d \in Boards : d = b \/ d = c) /\ Pair!Other(b) = c /\ b \in Pair!Ends
  BY BoardFacts, OtherIsPeer
<1>2. /\ [d \in Boards |-> Up(d)'] = [d \in Boards |-> Up(d)]
      /\ [d \in Boards |-> Met(d)'] = [d \in Boards |-> Met(d)]
  BY <1>1 DEF Same
<1>3. wrote'[b] = wrote[b] + 1
  BY DEF Typed
<1>4. ~Up(c) => [d \in Boards |-> Way(d)'] = [d \in Boards |-> Way(d)]
  BY <1>1 DEF Same
<1>5. Up(c) => [d \in Boards |-> Way(d)'] =
        [[d \in Boards |-> Way(d)] EXCEPT ![c] = @ \cup {[n |-> wrote'[b], size |-> z]}]
  BY <1>1, <1>3 DEF Same
<1>6. Pair!Begin(b, z)
  BY <1>1, <1>2, <1>4, <1>5 DEF Pair!Begin
<1> QED
  BY <1>1, <1>6 DEF Pair!Next

LEMMA PairJoins ==
  ASSUME NEW b \in Boards, NEW c \in Boards, c = Peer(b), Typed,
         Up(b), ~Met(b), Up(b)' = Up(b), Met(b)', Way(b)' = Way(b), Same(c),
         b = "client" => next["server"] > 0,
         UNCHANGED wrote, next' = [next EXCEPT ![b] = 1]
  PROVE  Pair!Next
<1>1. c # b /\ (\A d \in Boards : d = b \/ d = c) /\ b \in Pair!Ends
  BY BoardFacts, OtherIsPeer
<1>2. /\ [d \in Boards |-> Up(d)'] = [d \in Boards |-> Up(d)]
      /\ [d \in Boards |-> Way(d)'] = [d \in Boards |-> Way(d)]
  BY <1>1 DEF Same
<1>3. [d \in Boards |-> Met(d)'] = [[d \in Boards |-> Met(d)] EXCEPT ![b] = TRUE]
  BY <1>1 DEF Same, Met
<1>4. Pair!Join(b)
  BY <1>1, <1>2, <1>3 DEF Pair!Join
<1> QED
  BY <1>1, <1>4 DEF Pair!Next

LEMMA PairConnects ==
  ASSUME \A d \in Boards : ~Up(d) /\ Up(d)' /\ Met(d)' = Met(d) /\ Way(d)' = {},
         wrote' = [d \in Boards |-> 0], next' = [d \in Boards |-> 0]
  PROVE  Pair!Next
<1>1. [d \in Boards |-> Up(d)'] = [d \in Boards |-> TRUE]
  BY DEF Up
<1>2. Pair!Connect
  BY <1>1 DEF Pair!Connect, Pair!Ends, Boards
<1> QED
  BY <1>2 DEF Pair!Next

-----------------------------------------------------------------------------
(* The frames that are whole on a line.                                    *)

Complete(c) == c.part = c.size /\ c.n # 0
Named(c) == [n |-> c.n, size |-> c.size]

LEMMA WholeIs ==
  ASSUME NEW l, NEW f
  PROVE  f \in Whole(l) <=> \E i \in 1 .. Len(l) : Complete(l[i]) /\ f = Named(l[i])
BY DEF Whole, Complete, Named

LEMMA JoinedParts ==
  ASSUME NEW p \in Seq(Chunks), NEW t \in Seq(Chunks)
  PROVE  \E l \in Seq(Chunks), k \in Nat, j \in Nat :
           /\ l = p \o t /\ k = Len(p) /\ j = Len(t) /\ Len(l) = k + j
           /\ \A i \in 1 .. k : l[i] = p[i]
           /\ \A i \in 1 .. j : l[k + i] = t[i]
<1>1. /\ p \o t \in Seq(Chunks) /\ Len(p \o t) = Len(p) + Len(t)
      /\ \A i \in 1 .. Len(p) : (p \o t)[i] = p[i]
      /\ \A i \in 1 .. Len(t) : (p \o t)[Len(p) + i] = t[i]
  BY ConcatFacts
<1>2. Len(p) \in Nat /\ Len(t) \in Nat
  OBVIOUS
<1> QED
  BY <1>1, <1>2, Zenon

LEMMA WholeJoins ==
  ASSUME NEW p \in Seq(Chunks), NEW t \in Seq(Chunks)
  PROVE  Whole(p \o t) = Whole(p) \cup Whole(t)
<1>1. PICK l \in Seq(Chunks), k \in Nat, j \in Nat :
        /\ l = p \o t /\ k = Len(p) /\ j = Len(t) /\ Len(l) = k + j
        /\ \A i \in 1 .. k : l[i] = p[i]
        /\ \A i \in 1 .. j : l[k + i] = t[i]
  BY JoinedParts, Zenon
<1>2. ASSUME NEW f, f \in Whole(l) PROVE f \in Whole(p) \cup Whole(t)
  <2>1. PICK i \in 1 .. k + j : Complete(l[i]) /\ f = Named(l[i])
    <3>1. Len(l) = k + j
      BY <1>1
    <3> QED
      BY <1>2, <3>1, WholeIs, Zenon
  <2>2. CASE i \in 1 .. k
    BY <1>1, <2>1, <2>2, WholeIs
  <2>3. CASE i \notin 1 .. k
    <3>1. PICK m \in 1 .. j : i = k + m
      <4>1. i - k \in 1 .. j /\ i = k + (i - k)
        BY <2>3
      <4> QED
        BY <4>1
    <3>2. Complete(t[m]) /\ f = Named(t[m])
      BY <1>1, <2>1, <3>1
    <3> QED
      BY <1>1, <3>2, WholeIs
  <2> QED
    BY <2>2, <2>3
<1>3. ASSUME NEW f, f \in Whole(p) PROVE f \in Whole(l)
  <2>1. PICK i \in 1 .. k : Complete(p[i]) /\ f = Named(p[i])
    BY <1>1, <1>3, WholeIs
  <2>2. i \in 1 .. Len(l) /\ Complete(l[i]) /\ f = Named(l[i])
    BY <1>1, <2>1
  <2> QED
    BY <2>2, WholeIs
<1>4. ASSUME NEW f, f \in Whole(t) PROVE f \in Whole(l)
  <2>1. PICK i \in 1 .. j : Complete(t[i]) /\ f = Named(t[i])
    <3>1. Len(t) = j
      BY <1>1
    <3> QED
      BY <1>4, <3>1, WholeIs, Zenon
  <2>2. k + i \in 1 .. Len(l) /\ Complete(l[k + i]) /\ f = Named(l[k + i])
    BY <1>1, <2>1
  <2> QED
    BY <2>2, WholeIs
<1> QED
  BY <1>1, <1>2, <1>3, <1>4

LEMMA WholeNothing == Whole(<<>>) = {}
BY WholeIs

LEMMA WholeMagic == Whole(<<Magic[1]>>) = {}
<1>1. ASSUME NEW f, f \in Whole(<<Magic[1]>>) PROVE FALSE
  <2>1. PICK i \in 1 .. Len(<<Magic[1]>>) : Complete(<<Magic[1]>>[i])
    BY <1>1, WholeIs
  <2>2. <<Magic[1]>>[i] = Magic[1]
    OBVIOUS
  <2> QED
    BY <2>1, <2>2, MagicFacts DEF Complete
<1> QED
  BY <1>1

(* The chunks of one frame.                                                *)
IsFrame(g, n, z) == Len(g) = z + 1 /\ \A i \in 1 .. Len(g) : g[i] = Chunk(n, i - 1, z)

LEMMA WholeFrame ==
  ASSUME NEW g \in Seq(Chunks), NEW n \in Nat \ {0}, NEW z \in Nat, IsFrame(g, n, z)
  PROVE  Whole(g) = {[n |-> n, size |-> z]}
<1>1. ASSUME NEW i \in 1 .. z + 1
      PROVE  /\ Complete(g[i]) <=> i = z + 1
             /\ Named(g[i]) = [n |-> n, size |-> z]
  <2>1. g[i] = Chunk(n, i - 1, z) /\ i - 1 \in Nat
    BY <1>1 DEF IsFrame
  <2>2. g[i].n = n /\ g[i].part = i - 1 /\ g[i].size = z
    <3>1. PICK k \in Nat : k = i - 1
      BY <2>1
    <3>2. /\ Chunk(n, k, z).n = n /\ Chunk(n, k, z).part = k /\ Chunk(n, k, z).size = z
      BY ChunkFacts, SMTT(30)
    <3> QED
      BY <2>1, <3>1, <3>2, Zenon
  <2>3. i - 1 = z <=> i = z + 1
    OBVIOUS
  <2> QED
    BY <2>2, <2>3 DEF Complete, Named
<1>2. z + 1 \in 1 .. z + 1
  OBVIOUS
<1>3. \A f : f \in Whole(g) <=> \E i \in 1 .. z + 1 : Complete(g[i]) /\ f = Named(g[i])
  BY WholeIs DEF IsFrame
<1> QED
  BY <1>1, <1>2, <1>3

(* The numbers on an ordered line grow, from a frame to the next at least. *)
LEMMA Least ==
  ASSUME NEW T \in SUBSET Nat, T # {}
  PROVE  \E m \in T : \A k \in T : m <= k
<1> DEFINE R == {p \in Nat \X Nat : p[1] < p[2]}
<1>1. IsWellFoundedOn(R, Nat)
  BY NatLessThanWellFounded DEF OpToRel
<1>2. PICK x \in T : \A y \in T : ~(<<y, x>> \in R)
  <2> HIDE DEF R
  <2> QED
    BY <1>1, WFMin
<1>3. ASSUME NEW y \in T PROVE x <= y
  <2>1. <<y, x>> \in Nat \X Nat /\ <<y, x>>[1] = y /\ <<y, x>>[2] = x
    OBVIOUS
  <2>2. ~(y < x)
    BY <1>2, <2>1
  <2> QED
    BY <2>2
<1> QED
  BY <1>3

(* What a chunk's number has to do with that of a later one.               *)
Before(c, d) == c.n <= d.n /\ (Complete(c) => c.n < d.n)

LEMMA BeforeNext ==
  ASSUME NEW c \in Chunks, NEW d \in Chunks, Follows(c, d)
  PROVE  Before(c, d)
<1>1. c.n \in Nat /\ d.n \in Nat
  BY DEF Chunks
<1>2. CASE c.part < c.size
  <2>1. d = Chunk(c.n, c.part + 1, c.size) /\ c.part \in Nat /\ c.size \in Nat
    BY <1>2, FollowsFacts
  <2>2. d.n = c.n
    BY <2>1 DEF Chunk
  <2> QED
    BY <1>1, <1>2, <2>1, <2>2 DEF Before, Complete
<1>3. CASE ~(c.part < c.size)
  BY <1>1, <1>3, FollowsFacts DEF Before
<1> QED
  BY <1>2, <1>3

LEMMA BeforeGoesOn ==
  ASSUME NEW c \in Chunks, NEW d \in Chunks, NEW e \in Chunks, Before(c, d), Follows(d, e)
  PROVE  Before(c, e)
<1>1. c.n \in Nat /\ d.n \in Nat /\ e.n \in Nat
  BY DEF Chunks
<1>2. d.n <= e.n
  BY BeforeNext DEF Before
<1> QED
  BY <1>1, <1>2 DEF Before

LEMMA NumbersGrow ==
  ASSUME NEW l \in Seq(Chunks), NEW n, Ordered(l, n),
         NEW i \in 1 .. Len(l), NEW j \in 1 .. Len(l), i < j
  PROVE  Before(l[i], l[j])
<1> DEFINE T == {m \in 1 .. Len(l) : i < m /\ ~Before(l[i], l[m])}
<1> SUFFICES ASSUME T # {} PROVE FALSE
  OBVIOUS
<1>1. PICK k \in Nat : k = Len(l)
  OBVIOUS
<1>2. T \in SUBSET Nat
  OBVIOUS
<1>3. PICK m \in T : \A q \in T : m <= q
  <2> HIDE DEF T
  <2> QED
    BY <1>2, Least
<1>4. m \in 1 .. k /\ i < m /\ i \in 1 .. k /\ ~Before(l[i], l[m])
  BY <1>1
<1>5. m - 1 \in 1 .. k - 1 /\ m - 1 \in 1 .. k /\ (m - 1) + 1 = m /\ ~(m <= m - 1)
  BY <1>4
<1>6. Follows(l[m - 1], l[m])
  <2>1. l # <<>>
    BY <1>1, <1>4
  <2>2. \A q \in 1 .. k - 1 : Follows(l[q], l[q + 1])
    BY <1>1, <2>1 DEF Ordered
  <2>3. Follows(l[m - 1], l[(m - 1) + 1])
    BY <1>5, <2>2
  <2> QED
    BY <1>5, <2>3
<1>7. l[i] \in Chunks /\ l[m - 1] \in Chunks /\ l[m] \in Chunks
  BY <1>1, <1>4, <1>5
<1>8. CASE m - 1 = i
  BY <1>4, <1>6, <1>7, <1>8, BeforeNext
<1>9. CASE m - 1 # i
  <2>1. i < m - 1
    BY <1>4, <1>9
  <2>2. m - 1 \notin T
    BY <1>3, <1>5
  <2>3. Before(l[i], l[m - 1])
    BY <1>1, <1>5, <2>1, <2>2
  <2> QED
    BY <1>4, <1>6, <1>7, <2>3, BeforeGoesOn
<1> QED
  BY <1>8, <1>9

(* What is left of a line that is cut off are its oldest frames.           *)
LEMMA CutLine ==
  ASSUME NEW l \in Seq(Chunks), NEW m \in Seq(Chunks), NEW n, Ordered(l, n),
         Len(m) <= Len(l), \A i \in 1 .. Len(m) : m[i] = l[i]
  PROVE  Whole(m) \in Pair!Oldest(Whole(l))
<1>1. PICK k \in Nat, j \in Nat : k = Len(m) /\ j = Len(l) /\ k <= j
  OBVIOUS
<1>2. Whole(m) \subseteq Whole(l)
  <2> SUFFICES ASSUME NEW f \in Whole(m) PROVE f \in Whole(l)
    OBVIOUS
  <2>1. PICK i \in 1 .. k : Complete(m[i]) /\ f = Named(m[i])
    BY <1>1, WholeIs
  <2>2. i \in 1 .. j /\ Complete(l[i]) /\ f = Named(l[i])
    BY <1>1, <2>1
  <2> QED
    BY <1>1, <2>2, WholeIs
<1>3. ASSUME NEW f \in Whole(m), NEW g \in Whole(l), g \notin Whole(m) PROVE f.n < g.n
  <2>1. PICK i \in 1 .. k : Complete(m[i]) /\ f = Named(m[i])
    BY <1>1, WholeIs
  <2>2. PICK q \in 1 .. j : Complete(l[q]) /\ g = Named(l[q])
    BY <1>1, WholeIs
  <2>3. q \notin 1 .. k
    BY <1>1, <1>3, <2>2, WholeIs
  <2>4. i \in 1 .. j /\ i < q /\ m[i] = l[i]
    BY <1>1, <2>1, <2>2, <2>3
  <2>5. Before(l[i], l[q])
    BY <1>1, <2>2, <2>4, NumbersGrow
  <2> QED
    BY <2>1, <2>2, <2>4, <2>5 DEF Before, Named
<1> QED
  BY <1>2, <1>3 DEF Pair!Oldest

LEMMA KeptWhole ==
  ASSUME NEW fs
  PROVE  fs \in Pair!Oldest(fs)
BY DEF Pair!Oldest

(* A line without the frame in front of it.                                *)
Takes(f, l, t) == f \in Whole(l) /\ Whole(t) = Whole(l) \ {f}

LEMMA FrontGone ==
  ASSUME NEW g \in Seq(Chunks), NEW t \in Seq(Chunks), NEW n \in Nat \ {0}, NEW z \in Nat,
         Ordered(g \o t, n), IsFrame(g, n, z)
  PROVE  Takes([n |-> n, size |-> z], g \o t, t)
<1>1. Whole(g) = {[n |-> n, size |-> z]}
  BY WholeFrame
<1>2. Whole(g \o t) = Whole(g) \cup Whole(t)
  BY WholeJoins
<1>3. PICK l \in Seq(Chunks), k \in Nat, j \in Nat :
        /\ l = g \o t /\ k = Len(g) /\ j = Len(t) /\ Len(l) = k + j
        /\ \A i \in 1 .. k : l[i] = g[i]
        /\ \A i \in 1 .. j : l[k + i] = t[i]
  BY JoinedParts, Zenon
<1>4. ASSUME [n |-> n, size |-> z] \in Whole(t) PROVE FALSE
  <2>1. PICK i \in 1 .. j : Complete(t[i]) /\ [n |-> n, size |-> z] = Named(t[i])
    <3>1. Len(t) = j
      BY <1>3
    <3> QED
      BY <1>4, <3>1, WholeIs, Zenon
  <2>2. k = z + 1 /\ k \in 1 .. k /\ k - 1 = z
    <3>1. k = z + 1
      BY <1>3, Zenon DEF IsFrame
    <3> QED
      BY <3>1
  <2>3. g[k] = Chunk(n, z, z)
    BY <1>3, <2>2 DEF IsFrame
  <2>4. Complete(g[k]) /\ g[k].n = n
    <3>1. Chunk(n, z, z).n = n /\ Chunk(n, z, z).part = z /\ Chunk(n, z, z).size = z /\ n # 0
      BY ChunkFacts
    <3> QED
      BY <2>3, <3>1, Zenon DEF Complete
  <2>5. k \in 1 .. Len(l) /\ k + i \in 1 .. Len(l) /\ k < k + i
    BY <1>3, <2>1, <2>2
  <2>6. Before(l[k], l[k + i])
    BY <1>3, <2>5, NumbersGrow
  <2>7. l[k] = g[k] /\ l[k + i] = t[i] /\ t[i].n = n
    BY <1>3, <2>1, <2>2 DEF Named
  <2>8. n < n
    BY <2>4, <2>6, <2>7 DEF Before
  <2> QED
    BY <2>8
<1> QED
  BY <1>1, <1>2, <1>4 DEF Takes

-----------------------------------------------------------------------------
(* What the sessions know of each other.  The flag says that a board has   *)
(* greeted, a reset comes after the other end is closed, and nothing comes *)
(* from a server that has not answered.                                    *)
Serving == {"loop", "select", "paused", "write", "push"}

JoinOK(b) ==
  /\ sock[b] = "closed" => ~link[b]
  /\ pc[b] \in {"greet", "greeting"} => ~link[b]
  /\ pc[b] \in Serving => link[b]
  /\ link[b] => next[b] > 0
  /\ sock[b] = "reset" => sock[Peer(b)] = "closed"

JoinInv ==
  /\ \A b \in Boards : JoinOK(b)
  /\ next["server"] = 0 => stream["client"] = <<>>

LEMMA JoinInit == Init => JoinInv
BY DEF Init, JoinInv, JoinOK, Serving, Boards

(* A step that changes nothing of this but the place of one board.         *)
LEMMA JoinMoves ==
  ASSUME Typed, JoinInv, NEW b \in Boards, NEW q, Goto(b, q), UNCHANGED <<link, sock, next, stream>>,
         q \in Serving => link[b], q \in {"greet", "greeting"} => ~link[b]
  PROVE  JoinInv'
<1>1. pc'[b] = q /\ \A d \in Boards : d # b => pc'[d] = pc[d]
  BY DEF Goto, Typed
<1>2. ASSUME NEW d \in Boards PROVE JoinOK(d)'
  BY <1>1 DEF JoinInv, JoinOK
<1> QED
  BY <1>2 DEF JoinInv

LEMMA JoinStays ==
  ASSUME JoinInv, UNCHANGED <<pc, link, sock, next, stream>>
  PROVE  JoinInv'
BY DEF JoinInv, JoinOK

LEMMA JoinCalm ==
  ASSUME Typed, JoinInv, NEW b \in Boards,
         \/ Delay(b) \/ DialFails(b) \/ EarlyRequest(b) \/ EarlyReply(b) \/ GreetingFails(b)
         \/ Check(b) \/ Resume(b) \/ TakeRequest(b) \/ Push(b) \/ WriteFails(b) \/ ReadFails(b)
  PROVE  JoinInv'
<1>1. PICK q : /\ Goto(b, q) /\ q \in Serving \cup Outside \cup {"close"}
               /\ q \in Serving => pc[b] \in Serving
  BY DEF Delay, DialFails, EarlyRequest, EarlyReply, GreetingFails, Check, Resume, TakeRequest, Push,
         WriteFails, ReadFails, Serving, Outside
<1>2. UNCHANGED <<link, sock, next, stream>>
  BY DEF Delay, DialFails, EarlyRequest, EarlyReply, GreetingFails, Check, Resume, TakeRequest, Push,
         WriteFails, ReadFails, wire, frames
<1>3. q \in Serving => link[b]
  BY <1>1 DEF JoinInv, JoinOK
<1>4. q \notin {"greet", "greeting"}
  BY <1>1 DEF Serving, Outside
<1> QED
  BY <1>1, <1>2, <1>3, <1>4, JoinMoves

LEMMA JoinGreet ==
  ASSUME LinkInv, JoinInv, Greet
  PROVE  JoinInv'
<1>1. "client" \in Boards /\ Peer("client") = "server" /\ Typed
  BY DEF Boards, Peer, LinkInv
<1>2. /\ pc["client"] = "greet" /\ pc'["client"] = "greeting"
      /\ \A d \in Boards : d # "client" => pc'[d] = pc[d]
      /\ UNCHANGED <<link, sock, next>>
  BY <1>1 DEF Greet, Goto, Typed, frames
<1>3. stream'["client"] = stream["client"]
  BY <1>1, MagicFacts, SendFacts, BoardFacts DEF Greet
<1>4. ASSUME NEW d \in Boards PROVE JoinOK(d)'
  BY <1>1, <1>2 DEF JoinInv, JoinOK, Serving
<1> QED
  BY <1>2, <1>3, <1>4 DEF JoinInv

LEMMA JoinWrite ==
  ASSUME LinkInv, JoinInv, NEW b \in Boards, Write(b)
  PROVE  JoinInv'
<1>1. Typed /\ writing[b] # <<>> /\ writing[b] \in Seq(Chunks) /\ link[b]
  BY LineTyped DEF LinkInv, OwnOK, WritingOK, Write, JoinInv, JoinOK, Serving
<1>2. Head(writing[b]) \in Chunks /\ Peer(b) \in Boards
  BY <1>1, TakenFacts, BoardFacts
<1>3. stream'[b] = stream[b] /\ Send(b, Head(writing[b]))
  BY <1>1, <1>2, SendFacts DEF Write
<1>4. /\ pc[b] = "write" /\ pc'[b] \in {"loop", "write"} /\ \A d \in Boards : d # b => pc'[d] = pc[d]
      /\ UNCHANGED <<link, sock, next>>
  BY <1>1 DEF Write, Goto, Typed
<1>5. ASSUME NEW d \in Boards PROVE JoinOK(d)'
  BY <1>1, <1>4 DEF JoinInv, JoinOK, Serving
<1>6. next'["server"] = 0 => stream'["client"] = <<>>
  <2>1. CASE b = "client"
    BY <1>3, <1>4, <2>1 DEF JoinInv
  <2>2. CASE b = "server"
    <3>1. next["server"] > 0
      BY <1>1, <2>2 DEF JoinInv, JoinOK
    <3> QED
      BY <1>4, <3>1
  <2> QED
    BY <2>1, <2>2 DEF Boards
<1> QED
  BY <1>5, <1>6 DEF JoinInv

LEMMA JoinRead ==
  ASSUME LinkInv, JoinInv, NEW b \in Boards, ReadChunk(b)
  PROVE  JoinInv'
<1>1. /\ Typed /\ pc[b] = "select" /\ stream[b] # <<>> /\ stream' = [stream EXCEPT ![b] = Tail(@)]
      /\ UNCHANGED <<link, sock>>
  BY DEF LinkInv, ReadChunk, MayRead
<1>2. PICK q \in {"select", "loop", "close"} : Goto(b, q)
  <2>1. Goto(b, "close") \/ Goto(b, "loop") \/ UNCHANGED pc
    BY DEF ReadChunk, Deliver
  <2>2. UNCHANGED pc => Goto(b, "select")
    BY <1>1 DEF Goto, Typed
  <2> QED
    BY <2>1, <2>2
<1>3. pc'[b] = q /\ \A d \in Boards : d # b => pc'[d] = pc[d]
  BY <1>1, <1>2 DEF Goto, Typed
<1>4. UNCHANGED next \/ next' = [next EXCEPT ![b] = @ + 1]
  BY DEF ReadChunk, Deliver
<1>5. \A d \in Boards : next[d] \in Nat /\ (next'[d] = next[d] \/ next'[d] = next[d] + 1)
  BY <1>1, <1>4 DEF Typed
<1>6. ASSUME NEW d \in Boards PROVE JoinOK(d)'
  <2>1. next[d] > 0 => next'[d] > 0
    BY <1>5
  <2> QED
    BY <1>1, <1>2, <1>3, <2>1 DEF JoinInv, JoinOK, Serving
<1>7. next'["server"] = 0 => stream'["client"] = <<>>
  <2> SUFFICES ASSUME next'["server"] = 0 PROVE stream'["client"] = <<>>
    OBVIOUS
  <2>1. next["server"] = 0
    BY <1>5 DEF Boards
  <2>2. stream["client"] = <<>>
    BY <2>1 DEF JoinInv
  <2>3. b # "client"
    BY <1>1, <2>2
  <2> QED
    BY <1>1, <2>2, <2>3
<1> QED
  BY <1>6, <1>7 DEF JoinInv

LEMMA JoinReset ==
  ASSUME LinkInv, JoinInv, NEW b \in Boards, Reset(b)
  PROVE  JoinInv'
<1>1. PICK c \in Boards : c = Peer(b) /\ c # b /\ b = Peer(c) /\ \A d \in Boards : d = b \/ d = c
  BY BoardFacts
<1>2. /\ sock[b] = "open" /\ sock[c] # "open" /\ sock'[b] = "reset" /\ sock'[c] = sock[c]
      /\ UNCHANGED <<pc, link, next>>
  BY <1>1 DEF LinkInv, Typed, Reset, frames
<1>3. sock[c] = "closed"
  <2>1. sock[c] \in {"closed", "open", "reset"}
    BY DEF LinkInv, Typed
  <2>2. sock[c] = "reset" => sock[b] = "closed"
    BY <1>1 DEF JoinInv, JoinOK
  <2> QED
    BY <1>2, <2>1, <2>2
<1>4. JoinOK(b)' /\ JoinOK(c)'
  BY <1>1, <1>2, <1>3 DEF JoinInv, JoinOK
<1>5. stream["client"] = <<>> => stream'["client"] = <<>>
  <2>1. PICK n \in 0 .. Len(stream[b]) : stream' = [stream EXCEPT ![b] = SubSeq(@, 1, n)]
    BY DEF Reset
  <2>2. CASE b = "client"
    <3>1. stream["client"] = <<>> => Len(stream[b]) = 0 /\ n = 0
      BY <2>1, <2>2
    <3>2. stream'[b] = SubSeq(stream[b], 1, n)
      BY <2>1 DEF LinkInv, Typed
    <3>3. SubSeq(<<>>, 1, 0) = <<>>
      OBVIOUS
    <3> QED
      BY <2>2, <3>1, <3>2, <3>3
  <2>3. CASE b # "client"
    BY <2>1, <2>3 DEF LinkInv, Typed, Boards
  <2> QED
    BY <2>2, <2>3
<1> QED
  BY <1>1, <1>2, <1>4, <1>5 DEF JoinInv

LEMMA JoinConnect ==
  ASSUME LinkInv, JoinInv, Connect
  PROVE  JoinInv'
<1>1. \A d \in Boards : sock[d] = "closed" /\ sock'[d] = "open" /\ stream'[d] = <<>>
  BY DEF Connect
<1>2. link' = link /\ \A d \in Boards : pc'[d] \in {"greet", "greeting"}
  BY DEF Connect, Boards
<1>3. ASSUME NEW d \in Boards PROVE JoinOK(d)'
  BY <1>1, <1>2 DEF JoinInv, JoinOK, Serving
<1> QED
  BY <1>1, <1>3 DEF JoinInv, Boards

LEMMA JoinGreeted ==
  ASSUME LinkInv, JoinInv, NEW b \in Boards, Greeted(b)
  PROVE  JoinInv'
<1>1. PICK c \in Boards : c = Peer(b) /\ c # b /\ b = Peer(c) /\ \A d \in Boards : d = b \/ d = c
  BY BoardFacts
<1>2. /\ pc[b] = "greeting" /\ pc'[b] = "loop" /\ pc'[c] = pc[c] /\ link'[b] = TRUE /\ link'[c] = link[c]
      /\ next'[b] = 1 /\ next'[c] = next[c] /\ UNCHANGED sock
  BY <1>1 DEF LinkInv, Typed, Greeted, Goto
<1>3. sock[b] # "closed"
  BY <1>2 DEF LinkInv, OwnOK, ClosedOK
<1>4. JoinOK(b)' /\ JoinOK(c)'
  BY <1>1, <1>2, <1>3 DEF JoinInv, JoinOK, Serving
<1>5. next'["server"] = 0 => stream'["client"] = <<>>
  <2>1. CASE b = "server"
    BY <1>2, <2>1
  <2>2. CASE b = "client"
    <3>1. stream["client"] # <<>> /\ c = "server"
      BY <1>1, <2>2 DEF Greeted, Peer
    <3>2. next["server"] # 0
      BY <3>1 DEF JoinInv
    <3> QED
      BY <1>2, <3>1, <3>2
  <2> QED
    BY <2>1, <2>2 DEF Boards
<1> QED
  BY <1>1, <1>4, <1>5 DEF JoinInv

LEMMA JoinEnds ==
  ASSUME LinkInv, JoinInv, NEW b \in Boards, Close(b) \/ AddressChange(b)
  PROVE  JoinInv'
<1>1. PICK c \in Boards : c = Peer(b) /\ c # b /\ b = Peer(c) /\ \A d \in Boards : d = b \/ d = c
  BY BoardFacts
<1>2. PICK q \in Outside : Goto(b, q)
  BY DEF Close, AddressChange, Outside
<1>3. /\ sock'[b] = "closed" /\ link'[b] = FALSE /\ stream'[b] = <<>> /\ pc'[b] = q
      /\ sock'[c] = sock[c] /\ link'[c] = link[c] /\ stream'[c] = stream[c] /\ pc'[c] = pc[c]
      /\ UNCHANGED next
  BY <1>1, <1>2, SMTT(30) DEF LinkInv, Typed, Close, AddressChange, Abort, Goto
<1>4. JoinOK(b)' /\ JoinOK(c)'
  BY <1>1, <1>2, <1>3 DEF JoinInv, JoinOK, Serving, Outside
<1>5. stream'["client"] = stream["client"] \/ stream'["client"] = <<>>
  BY <1>1, <1>3 DEF Boards
<1> QED
  BY <1>1, <1>3, <1>4, <1>5 DEF JoinInv

LEMMA JoinStep == LinkInv /\ JoinInv /\ [Next]_vars => JoinInv'
<1> SUFFICES ASSUME LinkInv, JoinInv, [Next]_vars PROVE JoinInv'
  OBVIOUS
<1>1. Typed
  BY DEF LinkInv
<1>2. CASE Connect \/ Greet
  BY <1>2, JoinConnect, JoinGreet
<1>3. ASSUME NEW b \in Boards, Pull(b) \/ \E r \in Requests : Request(b, r) PROVE JoinInv'
  BY <1>3, JoinStays DEF Pull, Request, wire, frames
<1>4. ASSUME NEW b \in Boards,
             \/ Delay(b) \/ DialFails(b) \/ EarlyRequest(b) \/ EarlyReply(b) \/ GreetingFails(b)
             \/ Check(b) \/ Resume(b) \/ TakeRequest(b) \/ Push(b) \/ WriteFails(b) \/ ReadFails(b)
      PROVE  JoinInv'
  BY <1>1, <1>4, JoinCalm
<1>5. ASSUME NEW b \in Boards, Reset(b) \/ Greeted(b) \/ Write(b) \/ ReadChunk(b) PROVE JoinInv'
  BY <1>5, JoinReset, JoinGreeted, JoinWrite, JoinRead
<1>6. ASSUME NEW b \in Boards, Close(b) \/ AddressChange(b) PROVE JoinInv'
  BY <1>6, JoinEnds
<1>7. CASE UNCHANGED vars
  BY <1>7, JoinStays DEF vars
<1> QED
  BY <1>2, <1>3, <1>4, <1>5, <1>6, <1>7 DEF Next, Session

-----------------------------------------------------------------------------
(* The sessions implement the link.                                        *)

LEMMA UpFacts ==
  ASSUME LinkInv, NEW b \in Boards
  PROVE  Up(b) <=> pc[b] \notin Outside \cup {"close"}
BY DEF LinkInv, OwnOK, ClosedOK, Up, Outside

LEMMA WayKept ==
  ASSUME NEW b \in Boards, Up(b)' = Up(b), link'[b] = link[b], Line(b)' = Line(b)
  PROVE  Same(b)
BY DEF Same, Way, Met

(* A board at the same end of its connection, and nothing new on the line. *)
LEMMA PairCalm ==
  ASSUME LinkInv, NEW b \in Boards, NEW q, Goto(b, q), pc[b] # "close", q # "close",
         UNCHANGED <<link, wire, frames>>
  PROVE  UNCHANGED Pair!linkVars
<1>1. UNCHANGED <<sock, stream, partial, writing, wrote, next>>
  BY DEF wire, frames
<1>2. ASSUME NEW d \in Boards PROVE Same(d)
  <2>1. pc[d] = "close" <=> pc'[d] = "close"
    BY DEF Goto, LinkInv, Typed
  <2>2. Up(d)' = Up(d) /\ Line(d)' = Line(d)
    BY <1>1, <2>1 DEF Up, Line, Connected
  <2> QED
    BY <2>2, WayKept
<1> QED
  BY <1>1, <1>2, PairStutters

(* A session is over, but for the close.                                   *)
LEMMA PairGone ==
  ASSUME LinkInv, NEW b \in Boards, NEW c \in Boards, c = Peer(b), Goto(b, "close"),
         pc[b] \notin Outside \cup {"close"}, stream'[c] = stream[c],
         UNCHANGED <<link, sock, partial, writing, wrote, next>>
  PROVE  Pair!Next
<1>1. c # b /\ b = Peer(c) /\ Up(b)
  BY BoardFacts, UpFacts
<1>2. pc'[b] = "close" /\ pc'[c] = pc[c]
  BY <1>1 DEF Goto, LinkInv, Typed
<1>3. ~Up(b)' /\ ~Met(b)' /\ Way(b)' = {}
  BY <1>2 DEF Up, Met, Way
<1>4. Up(c)' = Up(c) /\ Line(c)' = Line(c)
  BY <1>1, <1>2 DEF Up, Line, Connected
<1>5. Met(c)' = Met(c) /\ Way(c)' = Way(c)
  BY <1>4, WayKept DEF Same
<1>6. Way(c)' \in Pair!Oldest(Way(c))
  BY <1>5, KeptWhole
<1> QED
  BY <1>1, <1>3, <1>4, <1>5, <1>6, PairLeaves

LEMMA PairFails ==
  ASSUME LinkInv, NEW b \in Boards, GreetingFails(b) \/ WriteFails(b) \/ ReadFails(b)
  PROVE  Pair!Next
<1>1. /\ Goto(b, "close") /\ pc[b] \notin Outside \cup {"close"}
      /\ UNCHANGED <<link, sock, stream, partial, writing, wrote, next>>
  BY DEF GreetingFails, WriteFails, ReadFails, MayRead, Outside, wire, frames
<1>2. Peer(b) \in Boards
  BY BoardFacts
<1> QED
  BY <1>1, <1>2, PairGone

(* The end of a line is lost.                                              *)
LEMMA CutWay ==
  ASSUME LinkInv, NEW b \in Boards, Up(b), Up(b)' = Up(b), ~Connected(b)', partial'[b] = partial[b],
         NEW n \in 0 .. Len(stream[b]), stream'[b] = SubSeq(stream[b], 1, n)
  PROVE  Way(b)' \in Pair!Oldest(Way(b))
<1>1. Typed /\ Ordered(Line(b), next[b]) /\ Line(b) \in Seq(Chunks)
  BY LineTyped DEF LinkInv, LinesOK, LineOK, Up
<1>2. PICK p \in Seq(Chunks), s \in Seq(Chunks), w \in Seq(Chunks) :
        /\ p = partial[b] /\ s = stream[b]
        /\ w = IF Connected(b) THEN writing[Peer(b)] ELSE <<>>
  <2>1. /\ partial[b] \in Seq(Chunks) /\ stream[b] \in Seq(Chunks)
        /\ writing[Peer(b)] \in Seq(Chunks) /\ <<>> \in Seq(Chunks)
    BY <1>1, LineTyped, BoardFacts
  <2>2. (IF Connected(b) THEN writing[Peer(b)] ELSE <<>>) \in Seq(Chunks)
    BY <2>1
  <2> QED
    BY <2>1, <2>2, Zenon
<1>3. Line(b) = p \o s \o w /\ Line(b)' = p \o SubSeq(s, 1, n) \o <<>> /\ n \in 0 .. Len(s)
  BY <1>2 DEF Line
<1>4. PICK l \in Seq(Chunks), m \in Seq(Chunks) :
        /\ l = Line(b) /\ m = Line(b)' /\ Len(m) <= Len(l)
        /\ \A i \in 1 .. Len(m) : m[i] = l[i]
  <2>1. /\ p \o SubSeq(s, 1, n) \o <<>> \in Seq(Chunks)
        /\ Len(p \o SubSeq(s, 1, n) \o <<>>) <= Len(p \o s \o w)
        /\ \A i \in 1 .. Len(p \o SubSeq(s, 1, n) \o <<>>) :
             (p \o SubSeq(s, 1, n) \o <<>>)[i] = (p \o s \o w)[i]
    BY <1>3, CutPrefix, SMTT(30)
  <2> QED
    BY <1>1, <1>3, <2>1
<1>5. Whole(m) \in Pair!Oldest(Whole(l))
  BY <1>1, <1>4, CutLine
<1> QED
  BY <1>4, <1>5 DEF Way

LEMMA PairReset ==
  ASSUME LinkInv, JoinInv, NEW b \in Boards, Reset(b)
  PROVE  Pair!Next \/ UNCHANGED Pair!linkVars
<1>1. PICK c \in Boards : c = Peer(b) /\ c # b /\ b = Peer(c) /\ \A d \in Boards : d = b \/ d = c
  BY BoardFacts
<1>2. /\ sock[b] = "open" /\ sock[c] # "open" /\ sock'[b] = "reset" /\ sock'[c] = sock[c]
      /\ UNCHANGED <<pc, link, partial, writing, wrote, next>>
  BY <1>1 DEF LinkInv, Typed, Reset, frames
<1>3. PICK n \in 0 .. Len(stream[b]) : stream' = [stream EXCEPT ![b] = SubSeq(@, 1, n)]
  BY DEF Reset
<1>4. stream'[b] = SubSeq(stream[b], 1, n) /\ stream'[c] = stream[c]
  BY <1>1, <1>3 DEF LinkInv, Typed
<1>5. ~Connected(b)' /\ ~Connected(c) /\ ~Connected(c)'
  BY <1>1, <1>2 DEF Connected
<1>6. Up(b)' = Up(b) /\ Up(c)' = Up(c) /\ Line(c)' = Line(c)
  BY <1>2, <1>4, <1>5 DEF Up, Line
<1>7. Same(c) /\ Met(b)' = Met(b)
  BY <1>2, <1>6, WayKept DEF Met
<1>8. ~Up(c)
  <2>1. sock[c] \in {"closed", "open", "reset"}
    BY DEF LinkInv, Typed
  <2>2. sock[c] = "reset" => sock[b] = "closed"
    BY <1>1 DEF JoinInv, JoinOK
  <2> QED
    BY <1>2, <2>1, <2>2 DEF Up
<1>9. CASE Up(b)
  BY <1>1, <1>2, <1>4, <1>5, <1>6, <1>7, <1>8, <1>9, CutWay, PairLoses
<1>10. CASE ~Up(b)
  <2>1. Same(b)
    BY <1>6, <1>7, <1>10 DEF Same, Way
  <2> QED
    BY <1>1, <1>2, <1>7, <2>1, PairStutters
<1> QED
  BY <1>9, <1>10

LEMMA PairEnds ==
  ASSUME LinkInv, NEW b \in Boards, Close(b) \/ AddressChange(b)
  PROVE  Pair!Next \/ UNCHANGED Pair!linkVars
<1>1. PICK c \in Boards : c = Peer(b) /\ c # b /\ b = Peer(c) /\ \A d \in Boards : d = b \/ d = c
  BY BoardFacts
<1>2. /\ sock'[b] = "closed" /\ sock'[c] = sock[c] /\ link'[c] = link[c] /\ stream'[c] = stream[c]
      /\ partial'[c] = partial[c] /\ pc'[c] = pc[c] /\ UNCHANGED <<wrote, next>>
  <2>1. PICK q : Goto(b, q)
    BY DEF Close, AddressChange
  <2> QED
    BY <1>1, <2>1 DEF LinkInv, Typed, Close, AddressChange, Abort, Goto
<1>3. ~Up(b)' /\ ~Met(b)' /\ Way(b)' = {} /\ Up(c)' = Up(c) /\ Met(c)' = Met(c) /\ ~Connected(c)'
  BY <1>1, <1>2 DEF Up, Met, Way, Connected
<1>4. OwnOK(b) /\ Typed
  BY DEF LinkInv
<1>5. CASE Up(b)
  <2>1. Way(c)' \in Pair!Oldest(Way(c))
    <3>1. CASE Up(c)
      <4>1. stream'[c] = SubSeq(stream[c], 1, Len(stream[c])) /\ Len(stream[c]) \in 0 .. Len(stream[c])
        BY <1>2, <1>4, LineTyped
      <4> QED
        BY <1>2, <1>3, <3>1, <4>1, CutWay
    <3>2. CASE ~Up(c)
      <4>1. Way(c) = {} /\ Way(c)' = {}
        BY <1>3, <3>2 DEF Way
      <4> QED
        BY <4>1, KeptWhole
    <3> QED
      BY <3>1, <3>2
  <2> QED
    BY <1>1, <1>2, <1>3, <1>5, <2>1, PairLeaves
<1>6. CASE ~Up(b)
  <2>1. ~Connected(c) \/ writing[b] = <<>>
    BY <1>1, <1>4, <1>6 DEF Connected, Up, OwnOK, WritingOK
  <2>2. Line(c)' = Line(c)
    BY <1>1, <1>2, <1>3, <2>1 DEF Line
  <2>3. Same(c)
    BY <1>2, <1>3, <2>2, WayKept
  <2>4. Same(b)
    <3>1. ~Met(b) /\ Way(b) = {}
      BY <1>6 DEF Met, Way
    <3> QED
      BY <1>3, <1>6, <3>1, OtherIsPeer DEF Same, Met, Up
  <2> QED
    BY <1>1, <1>2, <2>3, <2>4, PairStutters
<1> QED
  BY <1>5, <1>6

LEMMA PairDials ==
  ASSUME LinkInv, JoinInv, Connect
  PROVE  Pair!Next
<1>1. ASSUME NEW d \in Boards
      PROVE  /\ sock[d] = "closed" /\ sock'[d] = "open" /\ pc'[d] # "close" /\ ~link[d] /\ ~link'[d]
             /\ partial'[d] = <<>> /\ stream'[d] = <<>> /\ writing'[d] = <<>>
  BY <1>1 DEF Connect, LinkInv, OwnOK, ClosedOK, JoinInv, JoinOK, Boards
<1>2. ASSUME NEW d \in Boards
      PROVE  ~Up(d) /\ Up(d)' /\ Met(d)' = Met(d) /\ Way(d)' = {}
  <2>1. ~Up(d) /\ Up(d)' /\ Met(d)' = Met(d)
    BY <1>1 DEF Up, Met
  <2>2. Peer(d) \in Boards
    BY BoardFacts
  <2>3. Line(d)' = <<>>
    BY <1>1, <2>2 DEF Line
  <2> QED
    BY <2>1, <2>3, WholeNothing DEF Way
<1>3. wrote' = [d \in Boards |-> 0] /\ next' = [d \in Boards |-> 0]
  BY DEF Connect
<1> QED
  BY <1>2, <1>3, PairConnects

(* The magic is no frame, on the line or off it.                           *)
LEMMA MagicSent ==
  ASSUME Typed, NEW b \in Boards, NEW c \in Boards, c = Peer(b), writing[b] = <<>>,
         UNCHANGED <<writing, partial>>,
         stream'[c] = Append(stream[c], Magic[1]) \/ stream'[c] = stream[c]
  PROVE  Whole(Line(c)') = Whole(Line(c))
<1>1. PICK p \in Seq(Chunks), s \in Seq(Chunks) :
        p = partial[c] /\ s = stream[c] /\ b = Peer(c)
  BY LineTyped, BoardFacts
<1>2. Line(c) = p \o s \o <<>>
  BY <1>1 DEF Line
<1>3. CASE stream'[c] = stream[c]
  <2>1. Line(c)' = p \o s \o <<>>
    BY <1>1, <1>3 DEF Line
  <2> QED
    BY <1>2, <2>1
<1>4. CASE stream'[c] = Append(stream[c], Magic[1])
  <2>1. Line(c)' = p \o Append(s, Magic[1]) \o <<>>
    BY <1>1, <1>4 DEF Line
  <2>2. PICK l \in Seq(Chunks), m \in Seq(Chunks) : l = Line(c) /\ m = <<Magic[1]>> /\ Line(c)' = l \o m
    <3>1. /\ p \o s \o <<>> \in Seq(Chunks) /\ <<Magic[1]>> \in Seq(Chunks)
          /\ p \o Append(s, Magic[1]) \o <<>> = (p \o s \o <<>>) \o <<Magic[1]>>
      BY MagicFacts
    <3> QED
      BY <1>2, <2>1, <3>1
  <2>3. Whole(l \o m) = Whole(l) \cup Whole(m) /\ Whole(m) = {}
    BY <2>2, WholeJoins, WholeMagic
  <2> QED
    BY <2>2, <2>3
<1> QED
  BY <1>3, <1>4

LEMMA MagicRead ==
  ASSUME Typed, NEW b \in Boards, partial[b] = <<>>, stream[b] # <<>>, Head(stream[b]) = Magic[1],
         stream'[b] = Tail(stream[b]), UNCHANGED <<sock, partial, writing>>
  PROVE  Whole(Line(b)') = Whole(Line(b))
<1>1. PICK s \in Seq(Chunks), w \in Seq(Chunks) :
        s = stream[b] /\ w = IF Connected(b) THEN writing[Peer(b)] ELSE <<>>
  <2>1. stream[b] \in Seq(Chunks) /\ writing[Peer(b)] \in Seq(Chunks) /\ <<>> \in Seq(Chunks)
    BY LineTyped, BoardFacts
  <2>2. (IF Connected(b) THEN writing[Peer(b)] ELSE <<>>) \in Seq(Chunks)
    BY <2>1
  <2> QED
    BY <2>1, <2>2, Zenon
<1>2. Line(b) = <<>> \o s \o w /\ Line(b)' = <<>> \o Tail(s) \o w
  <2>1. Connected(b)' <=> Connected(b)
    BY DEF Connected
  <2> QED
    BY <1>1, <2>1 DEF Line
<1>3. s # <<>> /\ Head(s) = Magic[1]
  BY <1>1
<1>4. PICK m \in Seq(Chunks), t \in Seq(Chunks) : m = <<Magic[1]>> /\ t = Line(b)' /\ Line(b) = m \o t
  <2>1. <<Magic[1]>> \in Seq(Chunks)
    BY MagicFacts
  <2>2. /\ <<>> \o Tail(s) \o w \in Seq(Chunks)
        /\ <<>> \o s \o w = <<Head(s)>> \o (<<>> \o Tail(s) \o w)
    BY <1>3
  <2> QED
    BY <1>2, <1>3, <2>1, <2>2
<1>5. Whole(m \o t) = Whole(m) \cup Whole(t) /\ Whole(m) = {}
  BY <1>4, WholeJoins, WholeMagic
<1> QED
  BY <1>4, <1>5

LEMMA WayIs ==
  ASSUME NEW b \in Boards, Up(b)' = Up(b), link'[b] = link[b], Whole(Line(b)') = Whole(Line(b))
  PROVE  Same(b)
BY DEF Same, Way, Met

LEMMA PairGreets ==
  ASSUME LinkInv, Greet
  PROVE  UNCHANGED Pair!linkVars
<1>1. PICK b \in Boards, c \in Boards :
        b = "client" /\ c = Peer(b) /\ c # b /\ b = Peer(c) /\ \A d \in Boards : d = b \/ d = c
  BY BoardFacts DEF Boards
<1>2. /\ Typed /\ pc[b] = "greet" /\ pc'[b] = "greeting" /\ pc'[c] = pc[c] /\ Send(b, Magic[1])
      /\ UNCHANGED <<link, sock, partial, writing, wrote, next>> /\ writing[b] = <<>>
  BY <1>1 DEF Greet, Goto, LinkInv, Typed, OwnOK, WritingOK, frames
<1>3. stream'[b] = stream[b] /\ (stream'[c] = Append(stream[c], Magic[1]) \/ stream'[c] = stream[c])
  BY <1>1, <1>2, MagicFacts, SendFacts
<1>4. Up(b)' = Up(b) /\ Up(c)' = Up(c)
  BY <1>2 DEF Up
<1>5. Line(b)' = Line(b)
  BY <1>2, <1>3 DEF Line, Connected
<1>6. Whole(Line(c)') = Whole(Line(c))
  BY <1>1, <1>2, <1>3, MagicSent
<1>7. Same(b) /\ Same(c)
  BY <1>2, <1>4, <1>5, <1>6, WayIs
<1> QED
  BY <1>1, <1>2, <1>7, PairStutters

LEMMA PairGreeted ==
  ASSUME LinkInv, JoinInv, NEW b \in Boards, Greeted(b)
  PROVE  Pair!Next
<1>1. PICK c \in Boards : c = Peer(b) /\ c # b /\ b = Peer(c) /\ \A d \in Boards : d = b \/ d = c
  BY BoardFacts
<1>2. /\ Typed /\ pc[b] = "greeting" /\ pc'[b] = "loop" /\ pc'[c] = pc[c]
      /\ link'[b] = TRUE /\ link'[c] = link[c] /\ ~link[b]
      /\ stream[b] # <<>> /\ Head(stream[b]) = Magic[1]
      /\ UNCHANGED <<sock, partial, writing, wrote>> /\ next' = [next EXCEPT ![b] = 1]
  BY <1>1 DEF LinkInv, Typed, Greeted, Goto, JoinInv, JoinOK
<1>3. /\ stream'[b] = Tail(stream[b])
      /\ stream'[c] = Append(stream[c], Magic[1]) \/ stream'[c] = stream[c]
  BY <1>1 DEF Greeted
<1>4. partial[b] = <<>> /\ writing[b] = <<>> /\ sock[b] # "closed"
  BY <1>2 DEF LinkInv, OwnOK, ClosedOK, WritingOK, PartialOK
<1>5. Whole(Line(b)') = Whole(Line(b))
  BY <1>2, <1>3, <1>4, MagicRead
<1>6. Whole(Line(c)') = Whole(Line(c))
  BY <1>1, <1>2, <1>3, <1>4, MagicSent
<1>7. Up(c)' = Up(c)
  BY <1>2 DEF Up
<1>8. Same(c)
  BY <1>2, <1>6, <1>7, WayIs
<1>9. Up(b) /\ Up(b)' /\ Up(b)' = Up(b)
  BY <1>2, <1>4 DEF Up
<1>10. ~Met(b) /\ Met(b)' /\ Way(b)' = Way(b)
  BY <1>2, <1>5, <1>9 DEF Met, Way
<1>11. b = "client" => next["server"] > 0
  <2> SUFFICES ASSUME b = "client" PROVE next["server"] > 0
    OBVIOUS
  <2>1. next["server"] # 0
    BY <1>2 DEF JoinInv
  <2>2. next["server"] \in Nat
    BY <1>2 DEF Typed, Boards
  <2> QED
    BY <2>1, <2>2
<1> QED
  BY <1>1, <1>2, <1>8, <1>9, <1>10, <1>11, PairJoins

(* A frame that is begun is on the line, behind all others.                *)
LEMMA FrameSent ==
  ASSUME Typed, NEW b \in Boards, NEW c \in Boards, c = Peer(b), NEW n \in Nat, NEW z \in Nat,
         writing[b] = <<>>, writing'[b] = Frame(n + 1, z), Connected(c), UNCHANGED <<sock, stream, partial>>
  PROVE  Whole(Line(c)') = Whole(Line(c)) \cup {[n |-> n + 1, size |-> z]}
<1>1. PICK p \in Seq(Chunks), s \in Seq(Chunks) :
        p = partial[c] /\ s = stream[c] /\ b = Peer(c)
  BY LineTyped, BoardFacts
<1>2. PICK k \in Nat \ {0} : k = n + 1
  OBVIOUS
<1>3. PICK f \in Seq(Chunks) : f = Frame(k, z) /\ IsFrame(f, k, z)
  <2>1. /\ Frame(k, z) \in Seq(Chunks) /\ Len(Frame(k, z)) = z + 1
        /\ \A i \in 1 .. z + 1 : Frame(k, z)[i] = Chunk(k, i - 1, z)
    BY FrameFacts
  <2> QED
    BY <2>1 DEF IsFrame
<1>4. Line(c) = p \o s \o <<>>
  BY <1>1 DEF Line
<1>5. Line(c)' = p \o s \o f
  <2>1. Connected(c)'
    BY DEF Connected
  <2> QED
    BY <1>1, <1>2, <1>3, <2>1 DEF Line
<1>6. PICK l \in Seq(Chunks) : l = Line(c) /\ Line(c)' = l \o f
  <2>1. p \o s \o <<>> \in Seq(Chunks) /\ p \o s \o f = (p \o s \o <<>>) \o f
    OBVIOUS
  <2> QED
    BY <1>4, <1>5, <2>1
<1>7. Whole(l \o f) = Whole(l) \cup Whole(f)
  BY WholeJoins
<1>8. Whole(f) = {[n |-> k, size |-> z]}
  BY <1>3, WholeFrame
<1> QED
  BY <1>2, <1>6, <1>7, <1>8

(* Two ends of one connection.                                             *)
LEMMA BothUp ==
  ASSUME LinkInv, JoinInv, NEW b \in Boards, NEW c \in Boards, c = Peer(b), Up(b), Up(c)
  PROVE  Connected(c)
<1>1. b = Peer(c)
  BY BoardFacts
<1>2. sock[b] \in {"closed", "open", "reset"} /\ sock[c] \in {"closed", "open", "reset"}
  BY DEF LinkInv, Typed
<1>3. (sock[b] = "reset" => sock[c] = "closed") /\ (sock[c] = "reset" => sock[b] = "closed")
  BY <1>1 DEF JoinInv, JoinOK
<1> QED
  BY <1>1, <1>2, <1>3 DEF Up, Connected

LEMMA PairTakes ==
  ASSUME LinkInv, JoinInv, NEW b \in Boards, TakeRequest(b)
  PROVE  Pair!Next \/ UNCHANGED Pair!linkVars
<1>1. PICK c \in Boards : c = Peer(b) /\ c # b /\ b = Peer(c) /\ \A d \in Boards : d = b \/ d = c
  BY BoardFacts
<1>2. /\ Typed /\ pc[b] \in {"select", "paused"} /\ rx[b] # <<>>
      /\ UNCHANGED <<link, sock, stream, partial, next>>
  BY DEF TakeRequest, MayPop, LinkInv, wire
<1>3. CASE Head(rx[b]) = 0
  <2>1. Goto(b, "push") /\ UNCHANGED <<link, wire, frames>>
    BY <1>2, <1>3 DEF TakeRequest, wire, frames
  <2> QED
    BY <1>2, <2>1, PairCalm
<1>4. CASE Head(rx[b]) # 0
  <2>1. PICK z \in Requests \ {0} : z = Head(rx[b]) /\ z \in Nat
    <3>1. rx[b] \in Seq(Requests) /\ Requests \subseteq Nat
      BY <1>2, BusSessionAssumption DEF Typed
    <3>2. Head(rx[b]) \in Requests
      BY <1>2, <3>1
    <3> QED
      BY <1>4, <3>1, <3>2
  <2>2. /\ Goto(b, "write") /\ wrote' = [wrote EXCEPT ![b] = @ + 1]
        /\ writing' = [writing EXCEPT ![b] = Frame(wrote'[b], z)]
    BY <1>4, <2>1 DEF TakeRequest
  <2>3. PICK n \in Nat : n = wrote[b] /\ wrote'[b] = n + 1
    BY <1>2, <2>2 DEF Typed
  <2>4. /\ pc'[b] = "write" /\ pc'[c] = pc[c]
        /\ writing'[b] = Frame(n + 1, z) /\ writing'[c] = writing[c]
    BY <1>1, <1>2, <2>2, <2>3 DEF Typed, Goto
  <2>5. writing[b] = <<>> /\ sock[b] # "closed"
    BY <1>2 DEF LinkInv, OwnOK, WritingOK, ClosedOK
  <2>6. Up(b) /\ Up(b)' = Up(b) /\ Up(c)' = Up(c) /\ Met(b) /\ Met(c)' = Met(c)
    BY <1>2, <2>4, <2>5 DEF Up, Met, JoinInv, JoinOK, Serving
  <2>7. Line(b)' = Line(b)
    BY <1>1, <1>2, <2>4 DEF Line, Connected
  <2>8. Same(b)
    BY <1>2, <2>6, <2>7, WayKept
  <2>9. Up(c) => Way(c)' = Way(c) \cup {[n |-> wrote[b] + 1, size |-> z]}
    <3> SUFFICES ASSUME Up(c) PROVE Way(c)' = Way(c) \cup {[n |-> wrote[b] + 1, size |-> z]}
      OBVIOUS
    <3>1. Connected(c)
      BY <1>1, <2>6, BothUp
    <3>2. Whole(Line(c)') = Whole(Line(c)) \cup {[n |-> n + 1, size |-> z]}
      BY <1>1, <1>2, <2>1, <2>4, <2>5, <3>1, FrameSent
    <3> QED
      BY <2>3, <2>6, <3>2 DEF Way
  <2>10. ~Up(c) => Way(c)' = Way(c)
    BY <2>6 DEF Way
  <2> QED
    BY <1>1, <1>2, <2>2, <2>6, <2>8, <2>9, <2>10, PairBegins
<1> QED
  BY <1>3, <1>4

LEMMA PairWrites ==
  ASSUME LinkInv, NEW b \in Boards, Write(b)
  PROVE  UNCHANGED Pair!linkVars
<1>1. PICK c \in Boards : c = Peer(b) /\ c # b /\ b = Peer(c) /\ \A d \in Boards : d = b \/ d = c
  BY BoardFacts
<1>2. PICK w \in Seq(Chunks) : w = writing[b]
  BY LineTyped DEF LinkInv
<1>3. /\ Typed /\ pc[b] = "write" /\ Send(b, Head(w)) /\ w # <<>>
      /\ writing' = [writing EXCEPT ![b] = Tail(w)]
      /\ UNCHANGED <<link, sock, partial, wrote, next>>
  BY <1>2 DEF Write, LinkInv, OwnOK, WritingOK
<1>4. pc'[b] \in {"loop", "write"} /\ pc'[c] = pc[c]
  BY <1>1, <1>3 DEF Write, Goto, Typed
<1>5. Head(w) \in Chunks
  BY <1>3, TakenFacts
<1>6. /\ stream'[b] = stream[b]
      /\ Connected(b) => stream'[c] = Append(stream[c], Head(w))
      /\ ~Connected(b) => stream'[c] = stream[c]
      /\ writing'[b] = Tail(w) /\ writing'[c] = writing[c]
  <2>1. /\ stream'[b] = stream[b]
        /\ Connected(b) => stream'[c] = Append(stream[c], Head(w))
        /\ ~Connected(b) => stream'[c] = stream[c]
    BY <1>1, <1>3, <1>5, SendFacts, Zenon
  <2>2. writing'[b] = Tail(w) /\ writing'[c] = writing[c]
    BY <1>1, <1>3 DEF Typed
  <2> QED
    BY <2>1, <2>2
<1>7. Up(b)' = Up(b) /\ Up(c)' = Up(c)
  BY <1>3, <1>4 DEF Up
<1>8. Line(b)' = Line(b)
  BY <1>1, <1>3, <1>6 DEF Line, Connected
<1>9. Line(c)' = Line(c)
  <2>1. CASE Connected(c)
    <3>1. Connected(b) /\ Connected(c)'
      BY <1>1, <1>3, <2>1 DEF Connected
    <3> QED
      BY <1>1, <1>2, <1>3, <1>6, <2>1, <3>1, SentLine
  <2>2. CASE ~Connected(c)
    <3>1. ~Connected(b) /\ ~Connected(c)'
      BY <1>1, <1>3, <2>2 DEF Connected
    <3> QED
      BY <1>3, <1>6, <2>2, <3>1 DEF Line
  <2> QED
    BY <2>1, <2>2
<1>10. Same(b) /\ Same(c)
  BY <1>3, <1>7, <1>8, <1>9, WayKept
<1> QED
  BY <1>1, <1>3, <1>10, PairStutters

(* A chunk is read: the session is over, a frame is handed over, or the    *)
(* frame is still on the line.                                             *)
LEMMA PairReads ==
  ASSUME LinkInv, RoomOK, JoinInv, NEW b \in Boards, ReadChunk(b)
  PROVE  Pair!Next \/ UNCHANGED Pair!linkVars
<1> DEFINE rest == IF Connected(b) THEN writing[Peer(b)] ELSE <<>>
<1>1. PICK c \in Boards : c = Peer(b) /\ c # b /\ b = Peer(c) /\ \A d \in Boards : d = b \/ d = c
  BY BoardFacts
<1>2. /\ Typed /\ pc[b] = "select" /\ stream[b] # <<>> /\ HasSpace(b)
      /\ stream'[b] = Tail(stream[b]) /\ stream'[c] = stream[c]
      /\ UNCHANGED <<link, sock, writing, wrote>>
  BY <1>1 DEF ReadChunk, MayRead, LinkInv, RoomOK, Typed
<1>3. PICK n \in Nat \ {0} : n = next[b]
  <2>1. next[b] > 0 /\ next[b] \in Nat
    BY <1>2, LineTyped DEF JoinInv, JoinOK, Serving
  <2> QED
    BY <2>1
<1>4. PICK g \in Seq(Chunks), t \in Seq(Chunks) :
        /\ g = Append(partial[b], Head(stream[b])) /\ t = <<>> \o Tail(stream[b]) \o rest
        /\ Line(b) = g \o t /\ g \o Tail(stream[b]) \o rest = g \o t
        /\ Ordered(g \o t, n) /\ Begun(g, n)
  BY <1>2, <1>3, ReadLine
<1>5. PICK z \in Nat : Len(g) <= z + 1 /\ \A i \in 1 .. Len(g) : g[i] = Chunk(n, i - 1, z)
  BY <1>4 DEF Begun
<1>6. g[1].size = z
  <2>1. PICK p \in Seq(Chunks), e \in Chunks : p = partial[b] /\ e = Head(stream[b])
    BY <1>2, LineTyped, TakenFacts, SMTT(30)
  <2>2. Len(Append(p, e)) = Len(p) + 1 /\ Len(p) \in Nat
    OBVIOUS
  <2>3. 1 \in 1 .. Len(g)
    BY <1>4, <2>1, <2>2
  <2>4. g[1] = Chunk(n, 1 - 1, z)
    BY <1>5, <2>3
  <2> QED
    BY <2>4 DEF Chunk
<1>7. Line(b)' = partial'[b] \o Tail(stream[b]) \o rest
  BY <1>2 DEF Line, Connected
<1>8. Up(b) /\ Met(b)
  BY <1>2 DEF LinkInv, OwnOK, ClosedOK, Up, Met, JoinInv, JoinOK, Serving
<1>9. ASSUME partial'[c] = partial[c], pc'[c] = pc[c] PROVE Same(c)
  <2>1. Up(c)' = Up(c) /\ Line(c)' = Line(c)
    BY <1>1, <1>2, <1>9 DEF Up, Line, Connected
  <2> QED
    BY <1>2, <2>1, WayKept
<1>10. CASE Goto(b, "close") /\ UNCHANGED <<partial, next>>
  BY <1>1, <1>2, <1>10, PairGone DEF Outside
<1>11. CASE Len(g) = g[1].size + 1 /\ Deliver(b)
  <2>1. /\ pc'[b] = "loop" /\ pc'[c] = pc[c] /\ partial'[b] = <<>> /\ partial'[c] = partial[c]
        /\ next' = [next EXCEPT ![b] = @ + 1]
    BY <1>1, <1>2, <1>11 DEF Deliver, Goto, Typed
  <2>2. Line(b)' = t /\ Len(g) = z + 1
    BY <1>4, <1>6, <1>7, <1>11, <2>1
  <2>3. Up(b)' = Up(b) /\ Met(b)' = Met(b)
    BY <1>2, <1>8, <2>1 DEF Up, Met
  <2>4. PICK f : f = [n |-> n, size |-> z]
    OBVIOUS
  <2>5. f \in Whole(Line(b)) /\ Whole(Line(b)') = Whole(Line(b)) \ {f} /\ f.n = next[b]
    <3>1. g \in Seq(Chunks) /\ t \in Seq(Chunks) /\ n \in Nat \ {0} /\ z \in Nat
      BY <1>3, <1>4, <1>5, SMTT(30)
    <3>2. Ordered(g \o t, n) /\ IsFrame(g, n, z)
      BY <1>4, <1>5, <2>2 DEF IsFrame
    <3>3. Takes([n |-> n, size |-> z], g \o t, t)
      BY <3>1, <3>2, FrontGone, Zenon
    <3> QED
      BY <1>3, <1>4, <2>2, <2>4, <3>3 DEF Takes
  <2>6. f \in Way(b) /\ Way(b)' = Way(b) \ {f}
    BY <1>8, <2>3, <2>5 DEF Way
  <2>7. Same(c)
    BY <1>9, <2>1
  <2> QED
    BY <1>1, <1>2, <1>8, <2>1, <2>3, <2>5, <2>6, <2>7, PairReceives
<1>12. CASE partial' = [partial EXCEPT ![b] = g] /\ UNCHANGED <<pc, next>>
  <2>1. partial'[b] = g /\ partial'[c] = partial[c]
    BY <1>1, <1>2, <1>12 DEF Typed
  <2>2. Line(b)' = Line(b) /\ Up(b)' = Up(b)
    BY <1>2, <1>4, <1>7, <1>12, <2>1, Zenon DEF Up
  <2>3. Same(b) /\ Same(c)
    BY <1>2, <1>9, <1>12, <2>1, <2>2, WayKept, Zenon
  <2> QED
    BY <1>1, <1>2, <1>12, <2>3, PairStutters
<1>13. \/ Goto(b, "close") /\ UNCHANGED <<partial, next>>
       \/ Len(g) = g[1].size + 1 /\ Deliver(b)
       \/ partial' = [partial EXCEPT ![b] = g] /\ UNCHANGED <<pc, next>>
  BY <1>4, Zenon DEF ReadChunk
<1> QED
  BY <1>10, <1>11, <1>12, <1>13

LEMMA PairQuiet ==
  ASSUME LinkInv, NEW b \in Boards,
         \/ Delay(b) \/ DialFails(b) \/ EarlyRequest(b) \/ EarlyReply(b)
         \/ Check(b) \/ Resume(b) \/ Push(b)
  PROVE  UNCHANGED Pair!linkVars
<1>1. PICK q : Goto(b, q) /\ q # "close"
  BY DEF Delay, DialFails, EarlyRequest, EarlyReply, Check, Resume, Push
<1>2. pc[b] # "close" /\ UNCHANGED <<link, wire, frames>>
  BY DEF Delay, DialFails, Waits, EarlyRequest, EarlyReply, Check, Resume, Push
<1> QED
  BY <1>1, <1>2, PairCalm

LEMMA PairKept ==
  ASSUME UNCHANGED <<pc, link, wire, frames>>
  PROVE  UNCHANGED Pair!linkVars
<1>1. UNCHANGED <<sock, stream, partial, writing, wrote, next>>
  BY DEF wire, frames
<1>2. ASSUME NEW d \in Boards PROVE Same(d)
  <2>1. Up(d)' = Up(d) /\ Line(d)' = Line(d)
    BY <1>1 DEF Up, Line, Connected
  <2> QED
    BY <2>1, WayKept
<1> QED
  BY <1>1, <1>2, PairStutters

LEMMA PairStarts == Init => Pair!Init
<1> SUFFICES ASSUME Init PROVE Pair!Init
  OBVIOUS
<1>1. \A d \in Boards : ~Up(d) /\ ~Met(d) /\ Way(d) = {}
  BY DEF Init, Up, Met, Way
<1>2. /\ [d \in Boards |-> Up(d)] = [d \in Boards |-> FALSE]
      /\ [d \in Boards |-> Met(d)] = [d \in Boards |-> FALSE]
  BY <1>1 DEF Up, Met
<1> QED
  BY <1>1, <1>2 DEF Init, Pair!Init, Pair!Ends, Boards

LEMMA PairStep == LinkInv /\ RoomOK /\ JoinInv /\ [Next]_vars => [Pair!Next]_(Pair!linkVars)
<1> SUFFICES ASSUME LinkInv, RoomOK, JoinInv, [Next]_vars
             PROVE  Pair!Next \/ UNCHANGED Pair!linkVars
  OBVIOUS
<1>1. CASE Connect \/ Greet
  BY <1>1, PairDials, PairGreets
<1>2. ASSUME NEW b \in Boards, Pull(b) \/ \E r \in Requests : Request(b, r)
      PROVE  UNCHANGED Pair!linkVars
  BY <1>2, PairKept DEF Pull, Request
<1>3. ASSUME NEW b \in Boards,
             \/ Delay(b) \/ DialFails(b) \/ EarlyRequest(b) \/ EarlyReply(b)
             \/ Check(b) \/ Resume(b) \/ Push(b)
      PROVE  UNCHANGED Pair!linkVars
  BY <1>3, PairQuiet
<1>4. ASSUME NEW b \in Boards, GreetingFails(b) \/ WriteFails(b) \/ ReadFails(b)
      PROVE  Pair!Next
  BY <1>4, PairFails
<1>5. ASSUME NEW b \in Boards, Reset(b) \/ Close(b) \/ AddressChange(b)
      PROVE  Pair!Next \/ UNCHANGED Pair!linkVars
  BY <1>5, PairReset, PairEnds
<1>6. ASSUME NEW b \in Boards, Greeted(b) \/ TakeRequest(b) \/ Write(b) \/ ReadChunk(b)
      PROVE  Pair!Next \/ UNCHANGED Pair!linkVars
  BY <1>6, PairGreeted, PairTakes, PairWrites, PairReads
<1>7. CASE UNCHANGED vars
  BY <1>7, PairKept DEF vars, wire, frames
<1> QED
  BY <1>1, <1>2, <1>3, <1>4, <1>5, <1>6, <1>7 DEF Next, Session

(* The I2C and SPI sessions of two boards (bridge/i2c.rs, bridge/spi.rs)   *)
(* carry frames as FrameLink promises: a frame that a board begins to      *)
(* write in a session is handed to the other board whole, once and in its  *)
(* turn, whatever chunks it came in and however often its read was         *)
(* dropped; frames are lost only when a board leaves, the newest first,    *)
(* and none of them reaches a later connection; and a client serves its    *)
(* bus only after the server has answered its greeting.                    *)
THEOREM SessionsCarryFrames == Spec => Implements
<1>1. Spec => [](LinkInv /\ RoomOK /\ JoinInv)
  BY InitLink, LinkStep, JoinInit, JoinStep, PTL DEF Spec
<1> QED
  BY <1>1, PairStarts, PairStep, PTL DEF Spec, Implements, Pair!Spec
=============================================================================
