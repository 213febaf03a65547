--------------------------- MODULE DeliveryProofs ---------------------------
(***************************************************************************)
(* What a connection owes a peer that asks again only when it has all it   *)
(* was promised: its responses arrive complete, in order and once, and no  *)
(* file is overwritten, for every set and number of requests, size of a    *)
(* network block and length of a listing.                                  *)
(***************************************************************************)
EXTENDS ConnectionProofs, FiniteSetTheorems

\* A peer that asks again only when all that the last response announced has arrived, at a
\* server behind whose input buffer no blank line happens to lie.  It may split a request,
\* ask while the server still has the file open, go on when it was told the connection would
\* close, read slowly or not at all, shut down or go away.
Patient == "eager" \notin Manners /\ "blank" \notin Behind

-----------------------------------------------------------------------------
(* The inductive invariant, in parts. *)

\* A client whose requests are still looked at: not given up, nor stuck behind a NUL.
Heard(c) == c.active /\ ~c.cut /\ ~c.crash

\* All that is on its way to the server (flight) is the n-th request; while some of it is
\* still to be sent (open) its last piece is not there.
Flying(flight, open, n) ==
    /\ \A i \in 1..Len(flight) : flight[i].req = n
    /\ \A i \in 1..Len(flight) : open \/ i < Len(flight) => flight[i].part = "begin"

\* So is all that waits in the input buffer.
Waiting(in, flight, open, n) ==
    /\ \A i \in 1..Len(in) : in[i].req = n
    /\ open \/ flight # <<>> => \A i \in 1..Len(in) : in[i].part = "begin"

\* The heads on the wire answer requests up to the m-th.
Reach(wire, m) == \A i \in Heads(wire) : wire[i][2] <= m

\* Between two requests nothing is on its way to the server.
Resting(c, flight, open, n) ==
    /\ Cardinality(Heads(c.wire)) = n /\ Reach(c.wire, n)
    /\ ~open /\ flight = <<>>
    /\ Heard(c) => c.in = <<>>

\* The last request is not answered yet, and nothing else is under way; what has arrived of
\* it may have been thrown away.
Asking(c, flight, open, n) ==
    /\ Cardinality(Heads(c.wire)) + 1 = n /\ Reach(c.wire, n - 1)
    /\ Flying(flight, open, n)
    /\ Heard(c) => Waiting(c.in, flight, open, n)

Exchange(c, flight, open, n) == Resting(c, flight, open, n) \/ Asking(c, flight, open, n)

\* Requests are answered in their order.
Distinctly(wire) == \A i, j \in Heads(wire) : i < j => wire[i][2] < wire[j][2]

\* What follows the last head on the wire, what it announced, and whether it went by that.
Since(wire) == Len(wire) - LastHead(wire)
Due(wire)   == Announced(wire[LastHead(wire)])
Own(wire)   == LastHead(wire) # 0 /\ OwnHeaders(wire[LastHead(wire)])

\* The headers gathered since clear_client are the last head's, with a Connection header
\* among them; where there are none, nothing was done yet for this client.
Headed(c) ==
    /\ c.outh # <<>> =>
          /\ LastHead(c.wire) # 0 /\ c.wire[LastHead(c.wire)][4] = c.outh
          /\ \E i \in 1..Len(c.outh) : c.outh[i][1] = "connection"
    /\ c.outh = <<>> => c.pump = 0 /\ c.out = <<>>

\* The buffer goes on where the wire ends.
Queued(c) ==
    Own(c.wire) =>
        \A k \in 1..Len(c.out) : c.out[k][1] = "file" =>
            c.out[k] = <<"file", c.wire[LastHead(c.wire)][2], Since(c.wire) + k>>

\* The open file is the last response's, and all that was read of it is written or buffered;
\* or its reader has all of it, and may have made it longer.
Reading(c) ==
    Own(c.wire) /\ c.pump # 0 =>
        /\ c.wire[LastHead(c.wire)][2] = c.pump /\ Due(c.wire) = sent[c.pump].size
        /\ \/ c.pos <= sent[c.pump].size /\ Since(c.wire) + Len(c.out) = c.pos
           \/ c.pos >= sent[c.pump].size /\ Since(c.wire) >= Due(c.wire) /\ c.out = <<>>

\* A transfer is completed at the end of its file, with less than a block left to write.
Completing(c) ==
    ~fin /\ c.completed =>
        /\ c.active => c.pump # 0
        /\ Own(c.wire) /\ c.pump # 0 =>
              /\ Since(c.wire) + Len(c.out) >= Due(c.wire)
              /\ c.out # <<>> => c.short /\ Len(c.out) < NBS

\* ClosedOnlyWhenDelivered, of any client.
Delivered(c) ==
    ~c.active /\ ~c.crash /\ ~fin /\ ~reset /\ Own(c.wire) =>
        Since(c.wire) + (IF c.short THEN NBS - 1 ELSE 0) >= Due(c.wire)

\* BodyInOrder, of any wire.
Placed(w) ==
    \A i \in 1..Len(w) : w[i][1] = "file" =>
        \E h \in 1..Len(w) :
            /\ BelongsTo(w, h, i)
            /\ OwnHeaders(w[h]) => w[i] = <<"file", w[h][2], i - h>>

\* A file meets something to receive only when its reader has all of it.
Appends(c, flight, open) ==
    c.pump # 0 /\ Own(c.wire) /\ (open \/ flight # <<>> \/ c.in # <<>>) =>
        Since(c.wire) >= Due(c.wire) /\ c.pos >= sent[c.pump].size

\* What poll reported, stale as it may be.
Events ==
    /\ "in" \in revents => net # <<>> \/ fin
    /\ "hup" \in revents => reset \/ ~client.active
    /\ "out" \in revents => client.active
    /\ pc # "handle" => revents = {}
    /\ ~client.open => ~client.active
    /\ pc = "poll" /\ ~client.active => ~client.open

\* What is promised of a client, whatever the next step is.
Orderly(c) ==
    /\ Placed(c.wire) /\ Delivered(c)
    /\ c.pump # 0 => c.progress
    /\ ~reset => Headed(c) /\ Queued(c) /\ Reading(c) /\ Completing(c)

DeliveryInv ==
    /\ Exchange(client, net, half, Len(sent)) /\ Distinctly(client.wire)
    /\ Orderly(client) /\ Appends(client, net, half) /\ Events

-----------------------------------------------------------------------------
(* The wire. *)

\* Where the heads are is a finite set, and the last of them is one of them.
LEMMA HeadsFinite ==
    ASSUME NEW S, NEW w \in Seq(S)
    PROVE  /\ IsFiniteSet(Heads(w)) /\ Cardinality(Heads(w)) \in Nat
           /\ Heads(w) \subseteq 1..Len(w)
<1>1. Heads(w) \in SUBSET (1..Len(w)) /\ Len(w) \in Nat
  BY DEF Heads
<1>2. IsFiniteSet(1..Len(w))
  BY <1>1, FS_Interval
<1>3. IsFiniteSet(Heads(w))
  BY <1>1, <1>2, FS_Subset
<1> QED
  BY <1>1, <1>3, FS_CardinalityType

LEMMA LastHeadIs ==
    ASSUME NEW S, NEW w \in Seq(S)
    PROVE  /\ LastHead(w) \in 0..Len(w)
           /\ LastHead(w) # 0 => LastHead(w) \in Heads(w)
           /\ \A i \in Heads(w) : i <= LastHead(w)
<1>1. Heads(w) \subseteq 1..Len(w) /\ Len(w) \in Nat
  BY DEF Heads
<1>2. CASE Heads(w) = {}
  BY <1>1, <1>2 DEF LastHead
<1>3. CASE Heads(w) # {}
  <2> DEFINE T == {k \in 0..Len(w) : Len(w) - k \in Heads(w)}
  <2>1. PICK i \in Heads(w) : TRUE
    BY <1>3
  <2>2. Len(w) - i \in T
    BY <1>1, <2>1
  <2>3. T \in SUBSET Nat
    BY <1>1
  <2>4. PICK k \in T : \A j \in T : k <= j
    <3> HIDE DEF T
    <3> QED
      BY <2>2, <2>3, Oldest
  <2>5. \A j \in Heads(w) : Len(w) - j \in T
    BY <1>1
  <2>6. \A j \in Heads(w) : j <= Len(w) - k
    <3>1. k \in Nat
      BY <2>3, <2>4
    <3>2. ASSUME NEW j \in Heads(w)
          PROVE  j <= Len(w) - k
      <4>1. Len(w) - j \in T /\ j \in Nat
        BY <1>1, <2>5
      <4>2. k <= Len(w) - j
        <5> HIDE DEF T
        <5> QED
          BY <2>4, <4>1
      <4> QED
        BY <1>1, <3>1, <4>1, <4>2
    <3> QED
      BY <3>2
  <2>7. Len(w) - k \in Heads(w)
    BY <2>4
  <2>8. LastHead(w) \in Heads(w) /\ \A j \in Heads(w) : j <= LastHead(w)
    BY <1>3, <2>6, <2>7 DEF LastHead
  <2> QED
    BY <1>1, <2>8
<1> QED
  BY <1>2, <1>3

\* Units behind a wire move nothing of it.
GoesOn(n, w, u, v) ==
    /\ v \in Wire(n) /\ Len(v) = Len(w) + Len(u)
    /\ Heads(v) = Heads(w) /\ LastHead(v) = LastHead(w)
    /\ \A i \in 1..Len(w) : v[i] = w[i]
    /\ \A i \in 1..Len(u) : v[Len(w) + i] = u[i]

LEMMA UnitsHeads ==
    ASSUME NEW n \in Nat, NEW w \in Wire(n), NEW u \in Seq(Unit(n)), NEW v, v = w \o u
    PROVE  GoesOn(n, w, u, v)
<1>1. w \in Seq(Unit(n) \cup HeadOf(n)) /\ u \in Seq(Unit(n) \cup HeadOf(n))
  BY DEF Wire
<1>2. /\ v \in Seq(Unit(n) \cup HeadOf(n)) /\ Len(v) = Len(w) + Len(u)
      /\ \A i \in 1..Len(w) : v[i] = w[i]
      /\ \A i \in 1..Len(u) : v[Len(w) + i] = u[i]
  BY <1>1
<1>3. \A i \in 1..Len(u) : ~IsHead(u[i])
  <2>1. \A x \in Unit(n) : ~IsHead(x)
    BY DEF Unit, IsHead
  <2> QED
    BY <2>1
<1>4. Heads(v) = Heads(w)
  <2>1. ASSUME NEW i \in 1..Len(v), i \notin 1..Len(w)
        PROVE  ~IsHead(v[i])
    <3>1. i - Len(w) \in 1..Len(u) /\ i = Len(w) + (i - Len(w))
      BY <1>1, <1>2, <2>1
    <3> QED
      BY <1>2, <1>3, <3>1
  <2>2. \A i \in 1..Len(w) : i \in 1..Len(v)
    BY <1>1, <1>2
  <2> QED
    BY <1>2, <2>1, <2>2 DEF Heads
<1> QED
  BY <1>2, <1>4 DEF Wire, LastHead, GoesOn

\* Another head is the last one.
LEMMA HeadHeads ==
    ASSUME NEW n \in Nat, NEW w \in Wire(n), NEW x, IsHead(x), NEW v, v = Append(w, x)
    PROVE  /\ Len(v) = Len(w) + 1 /\ Len(w) \in Nat
           /\ \A i \in 1..Len(w) : v[i] = w[i]
           /\ v[Len(v)] = x
           /\ Heads(v) = Heads(w) \cup {Len(v)} /\ LastHead(v) = Len(v)
           /\ Cardinality(Heads(v)) = Cardinality(Heads(w)) + 1
<1>1. w \in Seq(Unit(n) \cup HeadOf(n))
  BY DEF Wire
<1>2. PICK len \in Nat : len = Len(w)
  BY <1>1
<1>3. Len(v) = len + 1 /\ v[len + 1] = x /\ \A i \in 1..len : v[i] = w[i]
  BY <1>1, <1>2
<1>4. Heads(v) = Heads(w) \cup {len + 1}
  <2>1. \A i \in 1..Len(v) : i \in 1..len \/ i = len + 1
    BY <1>2, <1>3
  <2>2. 1..len \subseteq 1..Len(v) /\ len + 1 \in 1..Len(v)
    BY <1>2, <1>3
  <2> QED
    BY <1>2, <1>3, <2>1, <2>2 DEF Heads
<1>5. Heads(w) \subseteq 1..len
  BY <1>2 DEF Heads
<1>6. Cardinality(Heads(v)) = Cardinality(Heads(w)) + 1
  <2>1. len + 1 \notin Heads(w)
    BY <1>2, <1>5
  <2>2. IsFiniteSet(Heads(w))
    BY <1>1, HeadsFinite
  <2> QED
    BY <1>4, <2>1, <2>2, FS_AddElement
<1>7. LastHead(v) = len + 1
  <2>1. \A j \in Heads(v) : j \in Nat /\ j <= len + 1
    BY <1>2, <1>4, <1>5
  <2>2. PICK hs : hs = Heads(v)
    OBVIOUS
  <2>3. len + 1 \in hs /\ \A j \in hs : j \in Nat /\ j <= len + 1
    BY <1>4, <2>1, <2>2
  <2>4. \A i \in hs : (\A j \in hs : j <= i) => i = len + 1
    BY <1>2, <2>3
  <2>5. (CHOOSE i \in hs : \A j \in hs : j <= i) = len + 1
    BY <2>3, <2>4
  <2> QED
    BY <2>2, <2>3, <2>5 DEF LastHead
<1> QED
  BY <1>2, <1>3, <1>4, <1>6, <1>7

\* The wire goes on with units: its last response is the same.
Follows(n, w, u, v) ==
    /\ v \in Wire(n)
    /\ Since(w) \in Nat /\ Since(v) = Since(w) + Len(u)
    /\ Own(v) <=> Own(w)
    /\ LastHead(w) # 0 => v[LastHead(w)] = w[LastHead(w)]
    /\ LastHead(v) = LastHead(w) /\ Heads(v) = Heads(w)
    /\ Own(w) => Due(v) = Due(w)

LEMMA UnitsFollow ==
    ASSUME NEW n \in Nat, NEW w \in Wire(n), NEW u \in Seq(Unit(n)), NEW v, v = w \o u
    PROVE  Follows(n, w, u, v)
<1>0. GoesOn(n, w, u, v)
  BY UnitsHeads
<1>1. /\ v \in Wire(n) /\ Len(v) = Len(w) + Len(u)
      /\ Heads(v) = Heads(w) /\ LastHead(v) = LastHead(w)
      /\ \A i \in 1..Len(w) : v[i] = w[i]
  BY <1>0 DEF GoesOn
<1>2. LastHead(w) \in 0..Len(w) /\ Len(w) \in Nat /\ Len(u) \in Nat
  BY LastHeadIs DEF Wire
<1>3. LastHead(w) # 0 => v[LastHead(w)] = w[LastHead(w)]
  BY <1>1, <1>2
<1>4. Since(w) \in Nat /\ Since(v) = Since(w) + Len(u)
  BY <1>1, <1>2 DEF Since
<1>5. (Own(v) <=> Own(w)) /\ (Own(w) => Due(v) = Due(w))
  BY <1>1, <1>3 DEF Own, Due
<1> QED
  BY <1>1, <1>3, <1>4, <1>5 DEF Follows

\* The unit at place i is where it should be.
InPlace(v, i) ==
    \E h \in 1..Len(v) :
        /\ BelongsTo(v, h, i)
        /\ OwnHeaders(v[h]) => v[i] = <<"file", v[h][2], i - h>>

\* What belonged to a response still does.
LEMMA FrontPlaced ==
    ASSUME NEW w, Len(w) \in Nat, Placed(w), NEW v, Len(v) \in Nat, Len(v) >= Len(w),
           \A i \in 1..Len(w) : v[i] = w[i], NEW i \in 1..Len(w), v[i][1] = "file"
    PROVE  InPlace(v, i)
<1>1. w[i][1] = "file"
  OBVIOUS
<1>2. PICK h \in 1..Len(w) :
        /\ BelongsTo(w, h, i)
        /\ OwnHeaders(w[h]) => w[i] = <<"file", w[h][2], i - h>>
  BY <1>1 DEF Placed
<1>3. v[h] = w[h] /\ v[i] = w[i] /\ h \in 1..Len(v)
  BY <1>2
<1>4. \A j \in h + 1 .. i : v[j] = w[j]
  BY <1>2
<1>5. BelongsTo(v, h, i)
  BY <1>2, <1>3, <1>4 DEF BelongsTo
<1> QED
  BY <1>2, <1>3, <1>5 DEF InPlace

\* The units that go on where the wire ends are at their places.
LEMMA UnitsPlaced ==
    ASSUME NEW n \in Nat, NEW w \in Wire(n), NEW u \in Seq(Unit(n)), NEW v, v = w \o u, Placed(w),
           \A k \in 1..Len(u) : u[k][1] = "file" =>
               /\ LastHead(w) # 0
               /\ Own(w) => u[k] = <<"file", w[LastHead(w)][2], Since(w) + k>>
    PROVE  Placed(v)
<1>0. GoesOn(n, w, u, v)
  BY UnitsHeads
<1>1. /\ v \in Wire(n) /\ Len(v) = Len(w) + Len(u)
      /\ Heads(v) = Heads(w)
      /\ \A i \in 1..Len(w) : v[i] = w[i]
      /\ \A i \in 1..Len(u) : v[Len(w) + i] = u[i]
  BY <1>0 DEF GoesOn
<1>2. PICK len \in Nat, more \in Nat : len = Len(w) /\ more = Len(u)
  BY DEF Wire
<1>3. ASSUME NEW i \in 1..Len(v), v[i][1] = "file"
      PROVE  InPlace(v, i)
  <2>1. CASE i \in 1..len
    <3>1. Len(w) \in Nat /\ Len(v) \in Nat /\ Len(v) >= Len(w) /\ i \in 1..Len(w)
      BY <1>1, <1>2, <2>1
    <3> QED
      BY <1>1, <1>3, <3>1, FrontPlaced
  <2>2. CASE i > len
    <3>1. PICK k \in 1..more : i = len + k
      <4>1. i - len \in 1..more /\ i = len + (i - len)
        BY <1>1, <1>2, <2>2
      <4> QED
        BY <4>1
    <3>2. v[i] = u[k]
      BY <1>1, <1>2, <3>1
    <3>3. PICK h : h = LastHead(w)
      OBVIOUS
    <3>4. /\ h \in 1..len /\ h \in Heads(w) /\ \A j \in Heads(w) : j <= h
      BY <1>2, <1>3, <3>1, <3>2, <3>3, LastHeadIs DEF Wire
    <3>5. v[h] = w[h]
      BY <1>1, <1>2, <3>4
    <3>6. IsHead(v[h])
      BY <3>4, <3>5 DEF Heads
    <3>7. \A j \in h + 1 .. i : ~IsHead(v[j])
      <4>1. ASSUME NEW j \in h + 1 .. i, IsHead(v[j])
            PROVE  FALSE
        <5>1. j \in 1..Len(v)
          BY <1>1, <1>2, <3>1, <3>4, <4>1
        <5>2. j \in Heads(v)
          BY <4>1, <5>1 DEF Heads
        <5> QED
          BY <1>1, <3>4, <4>1, <5>2
      <4> QED
        BY <4>1
    <3>8. BelongsTo(v, h, i)
      BY <3>1, <3>4, <3>6, <3>7, SMTT(60) DEF BelongsTo
    <3>9. OwnHeaders(v[h]) => v[i] = <<"file", v[h][2], i - h>>
      <4> SUFFICES ASSUME OwnHeaders(v[h]) PROVE v[i] = <<"file", v[h][2], i - h>>
        OBVIOUS
      <4>1. Own(w)
        BY <3>3, <3>4, <3>5 DEF Own
      <4>2. u[k] = <<"file", w[h][2], Since(w) + k>>
        BY <1>2, <1>3, <3>1, <3>2, <3>3, <4>1
      <4>3. Since(w) + k = i - h
        BY <1>2, <3>1, <3>3, <3>4 DEF Since
      <4> QED
        BY <3>2, <3>5, <4>2, <4>3
    <3>10. h \in 1..Len(v)
      BY <1>1, <1>2, <3>4
    <3> QED
      BY <3>8, <3>9, <3>10 DEF InPlace
  <2> QED
    BY <1>1, <1>2, <2>1, <2>2
<1> QED
  BY <1>3 DEF Placed, InPlace

\* A head moves nothing.
LEMMA HeadPlaced ==
    ASSUME NEW n \in Nat, NEW w \in Wire(n), NEW x, IsHead(x), NEW v, v = Append(w, x), Placed(w)
    PROVE  Placed(v)
<1>1. /\ Len(v) = Len(w) + 1 /\ Len(w) \in Nat
      /\ \A i \in 1..Len(w) : v[i] = w[i]
      /\ v[Len(v)] = x
  BY HeadHeads
<1>2. x[1] # "file"
  BY DEF IsHead
<1>3. ASSUME NEW i \in 1..Len(v), v[i][1] = "file"
      PROVE  InPlace(v, i)
  <2>1. i \in 1..Len(w) /\ Len(v) \in Nat /\ Len(v) >= Len(w)
    BY <1>1, <1>2, <1>3
  <2> QED
    BY <1>1, <1>3, <2>1, FrontPlaced
<1> QED
  BY <1>3 DEF Placed, InPlace

\* What follows the last head, and what it announced, are numbers.
LEMMA SinceNat ==
    ASSUME NEW n \in Nat, NEW w \in Wire(n)
    PROVE  Since(w) \in Nat
<1>1. LastHead(w) \in 0..Len(w) /\ Len(w) \in Nat
  BY LastHeadIs DEF Wire
<1> QED
  BY <1>1 DEF Since

LEMMA DueNat ==
    ASSUME NEW n \in Nat, NEW w \in Wire(n), LastHead(w) # 0
    PROVE  Due(w) \in Nat
<1>1. w \in Seq(Unit(n) \cup HeadOf(n))
  BY DEF Wire
<1>2. LastHead(w) \in Heads(w)
  BY <1>1, LastHeadIs
<1>3. PICK x : x = w[LastHead(w)]
  OBVIOUS
<1>4. x \in HeadOf(n)
  <2>1. x \in Unit(n) \cup HeadOf(n) /\ IsHead(x)
    BY <1>1, <1>2, <1>3 DEF Heads
  <2>2. \A y \in Unit(n) : ~IsHead(y)
    BY DEF Unit, IsHead
  <2> QED
    BY <2>1, <2>2
<1>5. PICK outh \in Seq(Header) : x[4] = outh
  BY <1>4 DEF HeadOf
<1>6. PICK at : at = {i \in 1..Len(outh) : outh[i][1] = "length"}
  OBVIOUS
<1>7. Announced(x) = IF at = {} THEN 0 ELSE outh[CHOOSE i \in at : \A j \in at : i <= j][2]
  BY <1>5, <1>6 DEF Announced, FirstHeader
<1>8. CASE at # {}
  <2>1. at \in SUBSET Nat
    BY <1>6
  <2>2. \E i \in at : \A j \in at : i <= j
    BY <1>8, <2>1, Oldest
  <2>3. PICK k : k = CHOOSE i \in at : \A j \in at : i <= j
    OBVIOUS
  <2>4. k \in at
    BY <2>2, <2>3
  <2>5. outh[k] \in Header /\ outh[k][1] = "length"
    BY <1>6, <2>4
  <2>6. outh[k][2] \in Nat
    BY <2>5 DEF Header
  <2> QED
    BY <1>3, <1>7, <1>8, <2>3, <2>6 DEF Due
<1>9. CASE at = {}
  BY <1>3, <1>7, <1>9 DEF Due
<1> QED
  BY <1>8, <1>9

-----------------------------------------------------------------------------
(* The headers of a response. *)

\* One more header.
LEMMA HeaderAdded ==
    ASSUME NEW outh \in Seq(Header), NEW x, NEW longer, longer = Append(outh, x)
    PROVE  /\ Len(longer) = Len(outh) + 1 /\ Len(outh) \in Nat
           /\ \A i \in 1..Len(outh) : longer[i] = outh[i]
           /\ longer[Len(longer)] = x
           /\ \A i \in 1..Len(longer) : i \in 1..Len(outh) \/ i = Len(longer)
           /\ Len(longer) \in 1..Len(longer)
OBVIOUS

\* A head that carries a Connection header of its own carries none that was on the list,
\* if it goes by its own: it is the first response since clear_client.
LEMMA OwnIsFirst ==
    ASSUME NEW outh \in Seq(Header), NEW head, NEW all \in Seq(Header), head[4] = all,
           outh # <<>> => \E i \in 1..Len(outh) : outh[i][1] = "connection",
           Len(all) > Len(outh), \A i \in 1..Len(outh) : all[i] = outh[i],
           all[Len(all)][1] = "connection", OwnHeaders(head)
    PROVE  outh = <<>>
<1>1. ASSUME NEW i \in 1..Len(outh), outh[i][1] = "connection"
      PROVE  FALSE
  <2>1. i \in 1..Len(all) /\ Len(all) \in 1..Len(all) /\ i # Len(all)
    OBVIOUS
  <2>2. all[i][1] = "connection" /\ all[Len(all)][1] = "connection"
    BY <1>1
  <2> QED
    BY <2>1, <2>2 DEF OwnHeaders
<1> QED
  BY <1>1

\* The first head for a file announces its length.
LEMMA FileLength ==
    ASSUME NEW size \in Nat, NEW value, NEW x,
           x[4] = Append(Append(<<>>, <<"length", size>>), <<"connection", value>>)
    PROVE  Announced(x) = size
<1>1. PICK all : all = Append(Append(<<>>, <<"length", size>>), <<"connection", value>>)
  OBVIOUS
<1>2. x[4] = all
  BY <1>1
<1>3. Len(all) = 2 /\ all[1] = <<"length", size>> /\ all[2] = <<"connection", value>>
  BY <1>1
<1>4. {i \in 1..Len(all) : all[i][1] = "length"} = {1}
  BY <1>3
<1>5. (CHOOSE i \in {1} : \A j \in {1} : i <= j) = 1
  OBVIOUS
<1> QED
  BY <1>2, <1>3, <1>4, <1>5 DEF Announced, FirstHeader

\* The first head without a length announces nothing.
LEMMA BareLength ==
    ASSUME NEW value, NEW x, x[4] = Append(<<>>, <<"connection", value>>)
    PROVE  Announced(x) = 0
<1>1. PICK all : all = <<<<"connection", value>>>>
  OBVIOUS
<1>2. x[4] = all
  BY <1>1
<1>3. Len(all) = 1 /\ all[1] = <<"connection", value>>
  BY <1>1
<1>4. {i \in 1..Len(all) : all[i][1] = "length"} = {}
  BY <1>3
<1> QED
  BY <1>2, <1>4 DEF Announced, FirstHeader


-----------------------------------------------------------------------------
(* parse_request. *)

\* All of a client that parse_request leaves alone.
Untouched(c, d) ==
    /\ d.active = c.active /\ d.open = c.open
    /\ d.out = c.out /\ d.outh = c.outh /\ d.wire = c.wire
    /\ d.pump = c.pump /\ d.pos = c.pos
    /\ d.progress = c.progress /\ d.completed = c.completed
    /\ d.short = c.short

\* Its outcome: the process ends, or the request is refused and stays in the buffer, behind
\* a NUL, or it was of a version the server speaks and is taken out of the buffer.
Parsed(c, p) ==
    /\ Untouched(c, p) /\ p.req = Head(c.in).req
    /\ \/ p.crash
       \/ ~p.crash /\ p.cut /\ p.result # 200
       \/ ~p.crash /\ ~p.cut /\ p.in = <<>> /\ p.flags \cap {"1.0", "1.1"} # {}

LEMMA ReadingLeaves ==
    ASSUME NEW n \in Nat, NEW c, IsClient(c, n), c.in # <<>>,
           n = Len(sent), sent \in Seq(Requests), NEW behind, NEW header \in {"short", "nohttp"},
           NEW d \in {CutFirstLine(c), ReadFirstLine(c, header), ReadHeaders(c, behind, header)}
    PROVE  Untouched(c, d) /\ d.cut
<1> DEFINE Good(e) == Untouched(c, e) /\ e.cut = TRUE
<1>1. Good(CutFirstLine(c))
  BY DEF CutFirstLine, IsClient, Fields, Untouched
<1>2. Good(ReadFirstLine(c, header))
  <2>1. PICK e : e = CutFirstLine(c)
    OBVIOUS
  <2>2. PICK flags, method :
          /\ flags = VersionFlags(e.flags, FirstLine(c, header))
          /\ method = (e.method \/ sent[Head(c.in).req].method = "known")
    OBVIOUS
  <2>3. ReadFirstLine(c, header) = [e EXCEPT !.flags = flags, !.method = method]
    BY <2>1, <2>2 DEF ReadFirstLine
  <2>4. IsClient(e, n) /\ Good(e)
    BY <1>1, <2>1, ReadingSilent
  <2> QED
    BY <2>3, <2>4 DEF IsClient, Fields, Untouched
<1>3. Good(ReadHeaders(c, behind, header))
  <2>1. PICK e : e = ReadFirstLine(c, header)
    OBVIOUS
  <2>2. PICK conn, flags, host :
          /\ conn = FirstConnection(c, behind) /\ host = HostGiven(c)
          /\ flags = KeepAliveFlags(e.flags, conn)
    OBVIOUS
  <2>3. ReadHeaders(c, behind, header) = [e EXCEPT !.conn = conn, !.host = host, !.flags = flags]
    BY <2>1, <2>2 DEF ReadHeaders
  <2>4. IsClient(e, n) /\ Good(e)
    BY <1>2, <2>1, ReadingSilent
  <2> QED
    BY <2>3, <2>4 DEF IsClient, Fields, Untouched
<1> QED
  BY <1>1, <1>2, <1>3

\* The headers leave the version that the first line gave.
LEMMA VersionStays ==
    ASSUME NEW n \in Nat, NEW c, IsClient(c, n), c.in # <<>>,
           n = Len(sent), sent \in Seq(Requests), NEW behind, NEW header \in {"short", "nohttp"},
           FirstLine(c, header) \in {"1.0", "1.1"}
    PROVE  ReadHeaders(c, behind, header).flags \cap {"1.0", "1.1"} # {}
<1>1. PICK e : e = CutFirstLine(c)
  OBVIOUS
<1>2. PICK f : f = ReadFirstLine(c, header)
  OBVIOUS
<1>3. IsClient(e, n) /\ IsClient(f, n)
  BY <1>1, <1>2, ReadingSilent
<1>4. PICK flags, method :
        /\ flags = VersionFlags(e.flags, FirstLine(c, header))
        /\ method = (e.method \/ sent[Head(c.in).req].method = "known")
  OBVIOUS
<1>5. f = [e EXCEPT !.flags = flags, !.method = method]
  BY <1>1, <1>2, <1>4 DEF ReadFirstLine
<1>6. f.flags = flags
  BY <1>3, <1>5 DEF IsClient, Fields
<1>7. flags \cap {"1.0", "1.1"} # {}
  BY <1>4 DEF VersionFlags, Toggle
<1>8. PICK conn, told, host :
        /\ conn = FirstConnection(c, behind) /\ host = HostGiven(c)
        /\ told = KeepAliveFlags(f.flags, conn)
  OBVIOUS
<1>9. ReadHeaders(c, behind, header) = [f EXCEPT !.conn = conn, !.host = host, !.flags = told]
  BY <1>2, <1>8 DEF ReadHeaders
<1>10. ReadHeaders(c, behind, header).flags = told
  BY <1>3, <1>9 DEF IsClient, Fields
<1>11. told \cap {"1.0", "1.1"} # {}
  BY <1>6, <1>7, <1>8 DEF KeepAliveFlags, Toggle
<1> QED
  BY <1>10, <1>11

LEMMA ParseParsed ==
    ASSUME NEW n \in Nat, NEW c, IsClient(c, n), c.in # <<>>, ~c.crash,
           n = Len(sent), sent \in Seq(Requests), NEW behind, NEW header \in {"short", "nohttp"}, NEW wild,
           NEW d, d = Parse(c, behind, header, wild)
    PROVE  Parsed(c, d)
<1>1. PICK line : line = FirstLine(c, header)
  OBVIOUS
<1>2. PICK begun, known, read :
        begun = CutFirstLine(c) /\ known = ReadFirstLine(c, header) /\ read = ReadHeaders(c, behind, header)
  OBVIOUS
<1>3. \A e \in {begun, known, read} :
        IsClient(e, n) /\ Untouched(c, e) /\ e.cut /\ e.req = Head(c.in).req
  BY <1>2, ReadingSilent, ReadingLeaves
<1>4. line \in {"short", "nohttp", "other", "1.0", "1.1"}
  <2>1. Head(c.in).req \in 1..n
    BY ReadingSilent
  <2>2. sent[Head(c.in).req] \in Request
    BY <2>1, ConnectionAssumption
  <2> QED
    BY <1>1, <2>2 DEF FirstLine, Request
<1>5. ~begun.crash /\ ~known.crash /\ ~read.crash
  BY <1>2, ReadingSilent
<1>6. CASE line = "short"
  <2>1. PICK flags : flags = begun.flags \cup {"close"}
    OBVIOUS
  <2>2. d = [begun EXCEPT !.result = 400, !.flags = flags]
    BY <1>1, <1>2, <1>6, <2>1 DEF Parse
  <2>3. IsClient(begun, n) /\ Untouched(c, begun) /\ begun.cut /\ begun.req = Head(c.in).req
    BY <1>3
  <2> QED
    BY <1>5, <2>2, <2>3 DEF IsClient, Fields, Parsed, Untouched
<1>7. CASE line \in {"nohttp", "other"}
  <2>1. PICK flags : flags = VersionFlags(begun.flags, line)
    OBVIOUS
  <2>2. PICK code \in {400, 505} : d = [begun EXCEPT !.result = code, !.flags = flags]
    BY <1>1, <1>2, <1>7, <2>1 DEF Parse
  <2>3. IsClient(begun, n) /\ Untouched(c, begun) /\ begun.cut /\ begun.req = Head(c.in).req
    BY <1>3
  <2> QED
    BY <1>5, <2>2, <2>3 DEF IsClient, Fields, Parsed, Untouched
<1>8. CASE line \in {"1.0", "1.1"} /\ ~known.method
  <2>1. d = [known EXCEPT !.result = 501]
    BY <1>1, <1>2, <1>8 DEF Parse
  <2>2. IsClient(known, n) /\ Untouched(c, known) /\ known.cut /\ known.req = Head(c.in).req
    BY <1>3
  <2> QED
    BY <1>5, <2>1, <2>2 DEF IsClient, Fields, Parsed, Untouched
<1>9. CASE line \in {"1.0", "1.1"} /\ known.method /\ LooksUpHost(read) /\ wild
  <2>1. d = Crash(read)
    BY <1>1, <1>2, <1>9 DEF Parse
  <2>2. IsClient(read, n) /\ Untouched(c, read) /\ read.req = Head(c.in).req
    BY <1>3
  <2> QED
    BY <2>1, <2>2 DEF Crash, IsClient, Fields, Parsed, Untouched
<1>10. CASE line \in {"1.0", "1.1"} /\ known.method /\ ~(LooksUpHost(read) /\ wild)
  <2>1. d = LookUp(read)
    BY <1>1, <1>2, <1>10 DEF Parse
  <2>2. IsClient(read, n) /\ Untouched(c, read) /\ read.req = Head(c.in).req
    BY <1>3
  <2>3. PICK code, cgi : d = [read EXCEPT !.result = code, !.cgi = cgi, !.in = <<>>, !.cut = FALSE]
    BY <2>1 DEF LookUp
  <2>4. /\ Untouched(c, d) /\ d.req = Head(c.in).req /\ d.flags = read.flags
        /\ d.in = <<>> /\ d.cut = FALSE /\ d.crash = read.crash
    BY <2>2, <2>3 DEF IsClient, Fields, Untouched
  <2>5. read.flags \cap {"1.0", "1.1"} # {}
    BY <1>1, <1>2, <1>10, VersionStays
  <2> QED
    BY <1>5, <2>4, <2>5 DEF Parsed
<1> QED
  BY <1>4, <1>6, <1>7, <1>8, <1>9, <1>10

-----------------------------------------------------------------------------
(* dispatch_request. *)

\* All that is known of a client when the n-th request is about to be answered.
Before(c, n) ==
    /\ IsClient(c, n) /\ n # 0
    /\ c.active /\ c.open
    /\ Cardinality(Heads(c.wire)) + 1 = n /\ Reach(c.wire, n - 1) /\ Distinctly(c.wire)
    /\ Orderly(c)
    /\ c.pump # 0 /\ Own(c.wire) => Since(c.wire) >= Due(c.wire) /\ c.pos >= sent[c.pump].size
    /\ ~reset /\ ~fin => ~c.completed

\* All that is promised when it has been.
After(d, n) ==
    /\ Exchange(d, <<>>, FALSE, n) /\ Distinctly(d.wire)
    /\ Orderly(d) /\ Appends(d, <<>>, FALSE)
    /\ d.active <=> d.open

\* parse_request changes nothing of what is known.
LEMMA ParsedBefore ==
    ASSUME NEW n \in Nat, NEW c, Before(c, n), NEW p, IsClient(p, n), Untouched(c, p)
    PROVE  Before(p, n)
<1>1. Orderly(p)
  <2>1. Placed(p.wire) /\ (p.pump # 0 => p.progress)
    BY DEF Before, Orderly, Untouched
  <2>2. Delivered(p)
    BY DEF Before, Delivered, Untouched
  <2>3. ~reset => Headed(p) /\ Queued(p)
    BY DEF Before, Orderly, Untouched, Headed, Queued
  <2>4. ~reset => Reading(p) /\ Completing(p)
    BY DEF Before, Orderly, Untouched, Reading, Completing
  <2> QED
    BY <2>1, <2>2, <2>3, <2>4 DEF Orderly
<1> QED
  BY <1>1 DEF Before, Untouched

\* What the head of the n-th response makes of the wire.
Spoken(w, x, n) ==
    /\ Cardinality(Heads(w)) = n /\ Reach(w, n) /\ Distinctly(w) /\ Placed(w)
    /\ LastHead(w) = Len(w) /\ Len(w) \in Nat \ {0}
    /\ w[Len(w)] = x /\ Since(w) = 0 /\ Due(w) = Announced(x)

LEMMA HeadSpoken ==
    ASSUME NEW n \in Nat, NEW p, Before(p, n), NEW x, IsHead(x), x[2] = n,
           NEW w, w = Append(p.wire, x)
    PROVE  Spoken(w, x, n)
<1>1. PICK v : v = p.wire
  OBVIOUS
<1>2. v \in Wire(n) /\ w = Append(v, x)
  BY <1>1 DEF Before, IsClient
<1>3. /\ Len(w) = Len(v) + 1 /\ Len(v) \in Nat
      /\ \A i \in 1..Len(v) : w[i] = v[i]
      /\ w[Len(w)] = x
      /\ Heads(w) = Heads(v) \cup {Len(w)} /\ LastHead(w) = Len(w)
      /\ Cardinality(Heads(w)) = Cardinality(Heads(v)) + 1
  BY <1>2, HeadHeads
<1>4. Heads(v) \subseteq 1..Len(v) /\ Cardinality(Heads(v)) \in Nat
  BY <1>2, HeadsFinite DEF Wire
<1>5. Cardinality(Heads(w)) = n
  BY <1>1, <1>3 DEF Before
<1>6. \A i \in Heads(v) : w[i] = v[i] /\ w[i][2] <= n - 1 /\ i < Len(w)
  BY <1>1, <1>3, <1>4 DEF Before, Reach
<1>7. \A i \in Heads(v) : v[i][2] \in Nat
  <2>1. \A y \in Unit(n) \cup HeadOf(n) : IsHead(y) => y[2] \in Nat
    BY DEF Unit, HeadOf, IsHead
  <2>2. \A i \in 1..Len(v) : v[i] \in Unit(n) \cup HeadOf(n)
    BY <1>2 DEF Wire
  <2> QED
    BY <2>1, <2>2 DEF Heads
<1>8. Reach(w, n)
  <2>1. ASSUME NEW i \in Heads(w)
        PROVE  w[i][2] <= n
    <3>1. CASE i \in Heads(v)
      <4>1. PICK m \in Nat : m = v[i][2]
        BY <1>7, <3>1
      <4>2. w[i][2] = m /\ m <= n - 1
        BY <1>6, <3>1, <4>1
      <4> QED
        BY <4>2
    <3>2. CASE i = Len(w)
      BY <1>3, <3>2
    <3> QED
      BY <1>3, <3>1, <3>2
  <2> QED
    BY <2>1 DEF Reach
<1>9. Distinctly(w)
  <2>1. ASSUME NEW i \in Heads(w), NEW j \in Heads(w), i < j
        PROVE  w[i][2] < w[j][2]
    <3>1. i \in Heads(v)
      BY <1>3, <1>4, <2>1
    <3>2. CASE j \in Heads(v)
      BY <1>1, <1>6, <2>1, <3>1, <3>2 DEF Before, Distinctly
    <3>3. CASE j = Len(w)
      <4>1. PICK m \in Nat : m = v[i][2]
        BY <1>7, <3>1
      <4>2. w[i][2] = m /\ m <= n - 1
        BY <1>6, <3>1, <4>1
      <4>3. w[j][2] = n
        BY <1>3, <3>3
      <4> QED
        BY <4>2, <4>3
    <3> QED
      BY <1>3, <3>2, <3>3
  <2> QED
    BY <2>1 DEF Distinctly
<1>10. Placed(w)
  BY <1>1, <1>2, HeadPlaced DEF Before, Orderly
<1> QED
  BY <1>3, <1>5, <1>8, <1>9, <1>10 DEF Spoken, Since, Due

LEMMA NothingFlies == \A n : Flying(<<>>, FALSE, n)
<1>1. Len(<<>>) = 0
  OBVIOUS
<1> QED
  BY <1>1 DEF Flying

\* The process ends before anything was said of the request.
LEMMA CrashAfter ==
    ASSUME NEW n \in Nat, NEW p, Before(p, n), p.crash
    PROVE  After(p, n)
<1>1. Exchange(p, <<>>, FALSE, n)
  <2>1. ~Heard(p)
    BY DEF Heard
  <2> QED
    BY <2>1, NothingFlies, Zenon DEF Before, Exchange, Asking
<1>2. Appends(p, <<>>, FALSE)
  BY DEF Before, Appends
<1> QED
  BY <1>1, <1>2 DEF After, Before

\* So it does if the peer is gone and the head cannot be written.
LEMMA ResetAfter ==
    ASSUME NEW n \in Nat, NEW p, Before(p, n), reset, NEW d, d.crash, d.wire = p.wire,
           d.active <=> d.open, d.pump # 0 => d.progress,
           \/ d.pump = 0
           \/ d.in = <<>>
           \/ d.pump = p.pump /\ d.pos = p.pos
    PROVE  After(d, n)
<1>1. Exchange(d, <<>>, FALSE, n)
  <2>1. ~Heard(d)
    BY DEF Heard
  <2> QED
    BY <2>1, NothingFlies, Zenon DEF Before, Exchange, Asking
<1>2. Appends(d, <<>>, FALSE)
  BY DEF Before, Appends
<1>3. Orderly(d)
  BY DEF Before, Orderly, Delivered
<1> QED
  BY <1>1, <1>2, <1>3 DEF After, Before

\* A head that was written, behind the headers that were on the list.
Writes(p, x, all) ==
    /\ IsHead(x) /\ x[4] = all /\ all \in Seq(Header)
    /\ Len(all) > Len(p.outh) /\ all[Len(all)][1] = "connection"
    /\ \A i \in 1..Len(p.outh) : all[i] = p.outh[i]

\* One that goes by its own headers is the first since clear_client, or of all.
LEMMA FirstHead ==
    ASSUME NEW n \in Nat, NEW p, Before(p, n), ~reset, NEW x, NEW all, Writes(p, x, all),
           OwnHeaders(x)
    PROVE  p.outh = <<>> /\ p.pump = 0 /\ p.out = <<>>
<1>1. Headed(p) /\ p.outh \in Seq(Header)
  BY DEF Before, Orderly, IsClient
<1>2. p.outh # <<>> => \E i \in 1..Len(p.outh) : p.outh[i][1] = "connection"
  BY <1>1 DEF Headed
<1>3. PICK outh : outh = p.outh
  OBVIOUS
<1>4. outh = <<>>
  BY <1>1, <1>2, <1>3, OwnIsFirst DEF Writes
<1> QED
  BY <1>1, <1>3, <1>4 DEF Headed

\* What a response has to leave behind.
LEMMA HeadAfter ==
    ASSUME NEW n \in Nat, NEW p, Before(p, n), ~reset, NEW x, NEW all, Writes(p, x, all), x[2] = n,
           NEW d, d.wire = Append(p.wire, x), d.active <=> d.open,
           d.outh = all \/ (d.outh = <<>> /\ d.pump = 0 /\ d.out = <<>>),
           d.pump # 0 => d.progress, ~fin => ~d.completed, Heard(d) => d.in = <<>>,
           OwnHeaders(x) =>
               /\ \A k \in 1..Len(d.out) : d.out[k][1] # "file"
               /\ d.pump # 0 => /\ d.pump = n /\ d.pos = 0 /\ d.out = <<>> /\ d.in = <<>>
                                /\ Announced(x) = sent[n].size /\ sent[n].size \in Nat
               /\ d.active \/ d.crash \/ Announced(x) = 0
    PROVE  After(d, n)
<1>1. PICK w : w = d.wire
  OBVIOUS
<1>2. Spoken(w, x, n)
  BY <1>1, HeadSpoken DEF Writes
<1>3. /\ Cardinality(Heads(w)) = n /\ Reach(w, n) /\ Distinctly(w) /\ Placed(w)
      /\ LastHead(w) = Len(w) /\ Len(w) # 0
      /\ w[LastHead(w)] = x /\ Since(w) = 0 /\ Due(w) = Announced(x)
  BY <1>2 DEF Spoken
<1>4. Own(w) <=> OwnHeaders(x)
  BY <1>3 DEF Own
<1>5. Exchange(d, <<>>, FALSE, n)
  BY <1>1, <1>3 DEF Exchange, Resting
<1>6. Appends(d, <<>>, FALSE)
  BY <1>1, <1>4 DEF Appends
<1>7. Delivered(d)
  <2> SUFFICES ASSUME ~d.active, ~d.crash, Own(d.wire)
               PROVE  Since(d.wire) + (IF d.short THEN NBS - 1 ELSE 0) >= Due(d.wire)
    BY DEF Delivered
  <2>1. Since(d.wire) = 0 /\ Due(d.wire) = 0
    BY <1>1, <1>3, <1>4
  <2> QED
    BY <2>1, ConnectionAssumption
<1>8. Headed(d)
  <2>1. CASE d.outh = all
    <3>1. Len(all) > Len(p.outh) /\ Len(p.outh) \in Nat /\ Len(all) \in Nat
      BY SMTT(60) DEF Writes, Before, IsClient
    <3>2. Len(all) \in 1..Len(all)
      BY <3>1
    <3>3. all # <<>>
      BY <3>1
    <3>4. all[Len(all)][1] = "connection"
      BY DEF Writes
    <3> QED
      BY <1>1, <1>3, <2>1, <3>2, <3>3, <3>4 DEF Headed, Writes
  <2>2. CASE d.outh = <<>> /\ d.pump = 0 /\ d.out = <<>>
    BY <2>2 DEF Headed
  <2> QED
    BY <2>1, <2>2
<1>9. Queued(d)
  BY <1>1, <1>4 DEF Queued
<1>10. Reading(d)
  <2> SUFFICES ASSUME Own(d.wire), d.pump # 0
               PROVE  /\ d.wire[LastHead(d.wire)][2] = d.pump /\ Due(d.wire) = sent[d.pump].size
                      /\ \/ d.pos <= sent[d.pump].size /\ Since(d.wire) + Len(d.out) = d.pos
                         \/ d.pos >= sent[d.pump].size /\ Since(d.wire) >= Due(d.wire) /\ d.out = <<>>
    BY DEF Reading
  <2>1. /\ d.pump = n /\ d.pos = 0 /\ d.out = <<>>
        /\ Announced(x) = sent[n].size /\ sent[n].size \in Nat
    BY <1>1, <1>4
  <2>2. Since(d.wire) = 0 /\ Due(d.wire) = Announced(x) /\ d.wire[LastHead(d.wire)] = x
    BY <1>1, <1>3
  <2> QED
    BY <2>1, <2>2
<1>11. Completing(d)
  BY DEF Completing
<1> QED
  BY <1>1, <1>3, <1>5, <1>6, <1>7, <1>8, <1>9, <1>10, <1>11 DEF After, Orderly

\* The n-th request's head goes on the wire, with a Connection header at the end.
HeadOn(b, d, n) ==
    \E value \in {"Close", "Keep-Alive"} : \E all, x :
        /\ all = Append(b.outh, <<"connection", value>>)
        /\ IsHead(x) /\ x[2] = n /\ x[4] = all
        /\ d = [b EXCEPT !.outh = all, !.wire = Append(b.wire, x)]

\* The head that SendHead writes.
LEMMA HeadWritten ==
    ASSUME NEW n \in Nat, NEW b, b.req = n, ~reset, NEW d, d = SendHead(b)
    PROVE  HeadOn(b, d, n)
<1>1. PICK value \in {"Close", "Keep-Alive"} :
         value = IF "close" \in b.flags THEN "Close" ELSE "Keep-Alive"
  OBVIOUS
<1>2. PICK all : all = Append(b.outh, <<"connection", value>>)
  OBVIOUS
<1>3. PICK x : x = <<"head", n, b.result, all>>
  OBVIOUS
<1>4. IsHead(x) /\ x[2] = n /\ x[4] = all
  BY <1>3 DEF IsHead
<1>5. d = [b EXCEPT !.outh = all, !.wire = Append(b.wire, x)]
  BY <1>1, <1>2, <1>3 DEF SendHead
<1> QED
  BY <1>2, <1>4, <1>5 DEF HeadOn

\* A Connection header behind those that were on the list, or behind one more.
LEMMA HeadWrites ==
    ASSUME NEW p, p.outh \in Seq(Header), NEW value \in {"Close", "Keep-Alive"},
           NEW outh \in Seq(Header), outh = p.outh \/ \E h : outh = Append(p.outh, h),
           NEW all, all = Append(outh, <<"connection", value>>), NEW x, IsHead(x), x[4] = all
    PROVE  Writes(p, x, all)
<1>1. PICK old : old = p.outh
  OBVIOUS
<1>2. <<"connection", value>> \in Header /\ old \in Seq(Header)
  BY <1>1 DEF Header
<1>3. /\ Len(all) = Len(outh) + 1 /\ Len(outh) \in Nat /\ all \in Seq(Header)
      /\ \A i \in 1..Len(outh) : all[i] = outh[i]
      /\ all[Len(all)] = <<"connection", value>>
  BY <1>2
<1>4. Len(outh) >= Len(old) /\ Len(old) \in Nat /\ \A i \in 1..Len(old) : outh[i] = old[i]
  <2>1. CASE outh = old
    BY <1>2, <2>1
  <2>2. CASE \E h : outh = Append(old, h)
    BY <1>2, <2>2
  <2> QED
    BY <1>1, <2>1, <2>2
<1>5. Len(all) > Len(old) /\ \A i \in 1..Len(old) : all[i] = old[i]
  BY <1>3, <1>4
<1>6. all[Len(all)][1] = "connection"
  BY <1>3
<1> QED
  BY <1>1, <1>3, <1>5, <1>6 DEF Writes

\* What the n-th request has made of a client before its head is written.
BodyOf(p, b, n) ==
    /\ IsClient(b, n) /\ b.req = n
    /\ b.wire = p.wire /\ b.active = p.active /\ b.open = p.open /\ b.in = <<>>
    /\ b.pump # 0 => b.progress
    /\ ~reset /\ ~fin => ~b.completed
    /\ b.outh = p.outh \/ \E h : b.outh = Append(p.outh, h)
    /\ p.outh = <<>> /\ p.pump = 0 /\ p.out = <<>> =>
          /\ \A k \in 1..Len(b.out) : b.out[k][1] # "file"
          /\ b.pump # 0 => /\ b.pump = n /\ b.pos = 0 /\ b.out = <<>>
                           /\ b.outh = Append(p.outh, <<"length", sent[n].size>>)
                           /\ sent[n].size \in Nat

LEMMA SaidAfter ==
    ASSUME NEW n \in Nat, NEW p, Before(p, n), NEW b, BodyOf(p, b, n), NEW d, d = SendHead(b)
    PROVE  After(d, n)
<1>1. CASE reset
  <2>1. d = Crash(b)
    BY <1>1 DEF SendHead
  <2>2. d.crash /\ d.wire = p.wire /\ d.active = p.active /\ d.open = p.open
    BY <2>1 DEF Crash, BodyOf, IsClient, Fields
  <2>3. d.in = <<>> /\ (d.pump # 0 => d.progress)
    BY <2>1 DEF Crash, BodyOf, IsClient, Fields
  <2> QED
    BY <1>1, <2>2, <2>3, ResetAfter DEF Before
<1>2. CASE ~reset
  <2>1. HeadOn(b, d, n)
    BY <1>2, HeadWritten DEF BodyOf
  <2>2. PICK value \in {"Close", "Keep-Alive"} : \E all, x :
           /\ all = Append(b.outh, <<"connection", value>>)
           /\ IsHead(x) /\ x[2] = n /\ x[4] = all
           /\ d = [b EXCEPT !.outh = all, !.wire = Append(b.wire, x)]
    BY <2>1 DEF HeadOn
  <2>3. PICK all, x :
           /\ all = Append(b.outh, <<"connection", value>>)
           /\ IsHead(x) /\ x[2] = n /\ x[4] = all
           /\ d = [b EXCEPT !.outh = all, !.wire = Append(b.wire, x)]
    BY <2>2
  <2>4. Writes(p, x, all)
    <3>1. p.outh \in Seq(Header) /\ b.outh \in Seq(Header)
      BY DEF Before, BodyOf, IsClient
    <3>2. PICK outh : outh = b.outh
      OBVIOUS
    <3> QED
      BY <2>3, <3>1, <3>2, HeadWrites DEF BodyOf
  <2>5. PICK wire : wire = Append(p.wire, x)
    OBVIOUS
  <2>6. d = [b EXCEPT !.outh = all, !.wire = wire]
    BY <2>3, <2>5 DEF BodyOf
  <2>7. /\ d.wire = Append(p.wire, x) /\ d.outh = all
        /\ d.active = p.active /\ d.open = p.open /\ d.in = <<>> /\ d.out = b.out
        /\ d.pump = b.pump /\ d.pos = b.pos
        /\ d.progress = b.progress /\ d.completed = b.completed
    BY <2>5, <2>6 DEF BodyOf, IsClient, Fields
  <2>8. ASSUME OwnHeaders(x)
        PROVE  /\ \A k \in 1..Len(d.out) : d.out[k][1] # "file"
               /\ d.pump # 0 => /\ d.pump = n /\ d.pos = 0 /\ d.out = <<>> /\ d.in = <<>>
                                /\ Announced(x) = sent[n].size /\ sent[n].size \in Nat
    <3>1. p.outh = <<>> /\ p.pump = 0 /\ p.out = <<>>
      BY <1>2, <2>4, <2>8, FirstHead
    <3>2. \A k \in 1..Len(b.out) : b.out[k][1] # "file"
      BY <3>1 DEF BodyOf
    <3>3. ASSUME b.pump # 0
          PROVE  /\ b.pump = n /\ b.pos = 0 /\ b.out = <<>>
                 /\ Announced(x) = sent[n].size /\ sent[n].size \in Nat
      <4>1. /\ b.pump = n /\ b.pos = 0 /\ b.out = <<>> /\ sent[n].size \in Nat
            /\ b.outh = Append(<<>>, <<"length", sent[n].size>>)
        BY <3>1, <3>3 DEF BodyOf
      <4>2. PICK size \in Nat : size = sent[n].size
        BY <4>1
      <4>3. x[4] = Append(Append(<<>>, <<"length", size>>), <<"connection", value>>)
        BY <2>3, <4>1, <4>2
      <4>4. Announced(x) = size
        BY <4>3, FileLength
      <4> QED
        BY <4>1, <4>2, <4>4
    <3> QED
      BY <2>7, <3>2, <3>3
  <2>9. d.active /\ (d.active <=> d.open)
    BY <2>7 DEF Before
  <2>10. (d.pump # 0 => d.progress) /\ (~fin => ~d.completed)
    BY <1>2, <2>7 DEF BodyOf
  <2> QED
    BY <1>2, <2>3, <2>4, <2>7, <2>8, <2>9, <2>10, HeadAfter, ZenonT(60)
<1> QED
  BY <1>1, <1>2

\* A request that was found good.
LEMMA FoundAfter ==
    ASSUME NEW n \in Nat, NEW p, Before(p, n), ~p.crash, p.in = <<>>, p.req = n,
           n = Len(sent), sent \in Seq(Requests), NEW wild, NEW d, d = DispatchFound(p, wild)
    PROVE  After(d, n)
<1>1. IsClient(p, n) /\ p.req \in 1..n
  BY DEF Before
<1>2. CASE d = Crash(p)
  <2>1. d.crash /\ Untouched(p, d) /\ IsClient(d, n)
    <3>1. d.crash /\ IsClient(d, n)
      BY <1>1, <1>2, CrashSilent DEF Silent
    <3>2. Untouched(p, d)
      BY <1>1, <1>2 DEF Crash, Untouched, IsClient, Fields
    <3> QED
      BY <3>1, <3>2
  <2> QED
    BY <2>1, ParsedBefore, CrashAfter
<1>3. CASE d # Crash(p)
  <2>1. PICK r : r = sent[p.req]
    OBVIOUS
  <2>2. r = sent[n] /\ r.size \in Nat
    <3>1. r \in Request
      BY <1>1, <2>1, ConnectionAssumption
    <3> QED
      BY <2>1, <3>1 DEF Request
  <2>3. PICK body \in {PlainTransferOpen(p), GenerateDirListing(p), p}, code \in Codes :
           d = SendHead([body EXCEPT !.result = code])
    <3>1. TargetResult(r) \in Codes
      BY TargetCodes DEF Codes
    <3>2. CASE IsFile(r)
      BY <1>3, <2>1, <3>1, <3>2 DEF DispatchFound, IsFile
    <3>3. CASE r.target = "dir"
      BY <1>3, <2>1, <3>1, <3>3 DEF DispatchFound, IsFile
    <3>4. CASE ~IsFile(r) /\ r.target # "dir"
      BY <1>3, <2>1, <3>1, <3>4 DEF DispatchFound
    <3> QED
      BY <3>2, <3>3, <3>4
  <2>4. BodyOf(p, body, n)
    <3>1. CASE body = PlainTransferOpen(p) /\ r.access
      <4>1. PICK outh : outh = Append(p.outh, <<"length", r.size>>)
        OBVIOUS
      <4>2. body = [p EXCEPT !.outh = outh, !.pump = n, !.pos = 0,
                             !.progress = TRUE, !.completed = FALSE]
        BY <2>1, <3>1, <4>1 DEF PlainTransferOpen
      <4>3. IsClient(body, n)
        BY <1>1, <3>1, PlainTransferOpenSilent DEF Silent
      <4>4. /\ body.req = n /\ body.wire = p.wire /\ body.active = p.active /\ body.open = p.open
            /\ body.in = <<>> /\ body.out = p.out /\ body.outh = outh
            /\ body.pump = n /\ body.pos = 0 /\ body.progress /\ ~body.completed
        BY <1>1, <4>2 DEF IsClient, Fields
      <4>5. p.out = <<>> => \A k \in 1..Len(body.out) : body.out[k][1] # "file"
        BY <4>4
      <4> QED
        BY <2>2, <4>1, <4>3, <4>4, <4>5 DEF BodyOf
    <3>2. CASE body = PlainTransferOpen(p) /\ ~r.access
      <4>1. body = [p EXCEPT !.pump = 0, !.progress = FALSE, !.completed = FALSE]
        BY <2>1, <3>2 DEF PlainTransferOpen
      <4>2. IsClient(body, n)
        BY <1>1, <3>2, PlainTransferOpenSilent DEF Silent
      <4>3. /\ body.req = n /\ body.wire = p.wire /\ body.active = p.active /\ body.open = p.open
            /\ body.in = <<>> /\ body.out = p.out /\ body.outh = p.outh
            /\ body.pump = 0 /\ ~body.completed
        BY <1>1, <4>1 DEF IsClient, Fields
      <4>4. p.out = <<>> => \A k \in 1..Len(body.out) : body.out[k][1] # "file"
        BY <4>3
      <4> QED
        BY <4>2, <4>3, <4>4 DEF BodyOf
    <3>3. CASE body = GenerateDirListing(p)
      <4>1. PICK listing : listing = [k \in 1..ListLen |-> <<"list", p.req, k>>]
        OBVIOUS
      <4>2. PICK out : out = p.out \o listing
        OBVIOUS
      <4>3. PICK outh : outh = Append(p.outh, <<"length", Len(out)>>)
        OBVIOUS
      <4>4. body = [p EXCEPT !.out = out, !.outh = outh]
        BY <3>3, <4>1, <4>2, <4>3 DEF GenerateDirListing
      <4>5. IsClient(body, n)
        BY <1>1, <3>3, GenerateDirListingSilent DEF Silent
      <4>6. /\ body.req = n /\ body.wire = p.wire /\ body.active = p.active /\ body.open = p.open
            /\ body.in = <<>> /\ body.out = out /\ body.outh = outh
            /\ body.pump = p.pump /\ body.progress = p.progress /\ body.completed = p.completed
        BY <1>1, <4>4 DEF IsClient, Fields
      <4>7. p.out = <<>> => \A k \in 1..Len(out) : out[k][1] # "file"
        <5> SUFFICES ASSUME p.out = <<>>, NEW k \in 1..Len(out) PROVE out[k][1] # "file"
          OBVIOUS
        <5>1. out = listing
          BY <4>1, <4>2, ConnectionAssumption
        <5>2. k \in 1..ListLen
          BY <4>1, <5>1, ConnectionAssumption
        <5>3. out[k] = <<"list", p.req, k>>
          BY <4>1, <5>1, <5>2
        <5> QED
          BY <5>3
      <4>8. (p.pump # 0 => p.progress) /\ (~reset /\ ~fin => ~p.completed)
        BY DEF Before, Orderly
      <4> QED
        BY <4>3, <4>5, <4>6, <4>7, <4>8 DEF BodyOf
    <3>4. CASE body = p
      <4>1. (p.pump # 0 => p.progress) /\ (~reset /\ ~fin => ~p.completed)
        BY DEF Before, Orderly
      <4>2. p.out = <<>> => \A k \in 1..Len(p.out) : p.out[k][1] # "file"
        OBVIOUS
      <4> QED
        BY <1>1, <3>4, <4>1, <4>2 DEF BodyOf
    <3> QED
      BY <2>3, <3>1, <3>2, <3>3, <3>4
  <2>5. PICK coded : coded = [body EXCEPT !.result = code]
    OBVIOUS
  <2>6. BodyOf(p, coded, n)
    BY <2>4, <2>5 DEF BodyOf, IsClient, Fields
  <2> QED
    BY <2>3, <2>5, <2>6, SaidAfter
<1> QED
  BY <1>2, <1>3

\* A request that was refused: its connection is cleared or ended, or it stays in the
\* buffer behind a NUL.
LEMMA RefusedAfter ==
    ASSUME NEW n \in Nat, NEW p, Before(p, n), ~p.crash, p.req = n,
           p.cut \/ p.flags \cap {"1.0", "1.1"} # {}, NEW d, d = DispatchRefused(p)
    PROVE  After(d, n)
<1>1. IsClient(p, n) /\ p.req \in 1..n
  BY DEF Before
<1>2. PICK told : told = SendHead(p)
  OBVIOUS
<1>3. DOMAIN told = Fields
  BY <1>1, <1>2, SendHeadSays DEF Says, IsClient
<1>4. PICK out : out = Append(told.out, <<"html", p.req, 1>>)
  OBVIOUS
<1>5. PICK body : body = [told EXCEPT !.out = out]
  OBVIOUS
<1>6. DOMAIN body = Fields
  BY <1>3, <1>5
<1>7. PICK ended : /\ \/ ended = ClearClient(body)
                      \/ ended = EndConnection(body)
                      \/ ended = body /\ p.cut
                   /\ \/ d = ended
                      \/ d = Crash(ended)
  <2>1. PICK ended : ended = CASE "1.1" \in p.flags -> ClearClient(body)
                               [] "1.1" \notin p.flags /\ "1.0" \in p.flags -> EndConnection(body)
                               [] OTHER -> body
    OBVIOUS
  <2>2. d = IF told.crash \/ p.method THEN ended ELSE Crash(ended)
    BY <1>2, <1>4, <1>5, <2>1 DEF DispatchRefused
  <2>3. \/ ended = ClearClient(body)
        \/ ended = EndConnection(body)
        \/ ended = body /\ p.cut
    BY <2>1
  <2> QED
    BY <2>2, <2>3
<1>8. DOMAIN ended = Fields
  BY <1>6, <1>7 DEF ClearClient, EndConnection
\* All that the end of the process leaves alone.
<1>9. /\ d.active = ended.active /\ d.open = ended.open
      /\ d.in = ended.in /\ d.cut = ended.cut /\ d.out = ended.out
      /\ d.outh = ended.outh /\ d.wire = ended.wire /\ d.pump = ended.pump /\ d.pos = ended.pos
      /\ d.progress = ended.progress /\ d.completed = ended.completed
      /\ ended.crash => d.crash
  BY <1>7, <1>8 DEF Crash, Fields
<1>10. (ended.pump # 0 => ended.progress) /\ ended.completed = body.completed
       /\ ended.wire = body.wire /\ ended.crash = body.crash
       /\ (ended.pump = 0 \/ (ended.pump = body.pump /\ ended.pos = body.pos))
       /\ body.active = p.active /\ body.open = p.open
       /\ (ended.active <=> ended.open)
  <2>1. /\ body.pump = p.pump /\ body.progress = p.progress /\ (p.pump # 0 => p.progress)
        /\ body.active = p.active /\ body.open = p.open /\ p.active /\ p.open
    <3>1. /\ told.pump = p.pump /\ told.progress = p.progress
          /\ told.active = p.active /\ told.open = p.open
      <4>1. CASE reset
        BY <1>1, <1>2, <4>1 DEF SendHead, Crash, IsClient, Fields
      <4>2. CASE ~reset
        <5>1. PICK all, wire : told = [p EXCEPT !.outh = all, !.wire = wire]
          BY <1>2, <4>2 DEF SendHead
        <5> QED
          BY <1>1, <5>1 DEF IsClient, Fields
      <4> QED
        BY <4>1, <4>2
    <3> QED
      BY <1>3, <1>5, <3>1 DEF Fields, Before, Orderly
  <2>2. CASE ended = ClearClient(body)
    BY <1>6, <2>1, <2>2 DEF ClearClient, Fields
  <2>3. CASE ended = EndConnection(body)
    BY <1>6, <2>1, <2>3 DEF EndConnection, Fields
  <2>4. CASE ended = body
    BY <2>1, <2>4
  <2> QED
    BY <1>7, <2>2, <2>3, <2>4
<1>11. CASE reset
  <2>1. told = Crash(p)
    BY <1>2, <1>11 DEF SendHead
  <2>2. /\ told.crash /\ told.wire = p.wire /\ told.pump = p.pump /\ told.pos = p.pos
    BY <1>1, <2>1 DEF Crash, IsClient, Fields
  <2>3. body.crash /\ body.wire = p.wire /\ body.pump = p.pump /\ body.pos = p.pos
    BY <1>3, <1>5, <2>2 DEF Fields
  <2>4. d.crash /\ d.wire = p.wire /\ (d.pump = 0 \/ (d.pump = p.pump /\ d.pos = p.pos))
    BY <1>9, <1>10, <2>3
  <2>5. (d.active <=> d.open) /\ (d.pump # 0 => d.progress)
    BY <1>9, <1>10
  <2> QED
    BY <1>11, <2>4, <2>5, ResetAfter
<1>12. CASE ~reset
  <2>1. HeadOn(p, told, n)
    BY <1>2, <1>12, HeadWritten
  <2>2. PICK value \in {"Close", "Keep-Alive"} : \E all, x :
           /\ all = Append(p.outh, <<"connection", value>>)
           /\ IsHead(x) /\ x[2] = n /\ x[4] = all
           /\ told = [p EXCEPT !.outh = all, !.wire = Append(p.wire, x)]
    BY <2>1 DEF HeadOn
  <2>3. PICK all, x :
           /\ all = Append(p.outh, <<"connection", value>>)
           /\ IsHead(x) /\ x[2] = n /\ x[4] = all
           /\ told = [p EXCEPT !.outh = all, !.wire = Append(p.wire, x)]
    BY <2>2
  <2>4. Writes(p, x, all)
    <3>1. p.outh \in Seq(Header)
      BY <1>1 DEF IsClient
    <3>2. PICK outh : outh = p.outh
      OBVIOUS
    <3> QED
      BY <2>3, <3>1, <3>2, HeadWrites
  <2>5. PICK wire : wire = Append(p.wire, x)
    OBVIOUS
  <2>6. told = [p EXCEPT !.outh = all, !.wire = wire]
    BY <2>3, <2>5
  <2>7. /\ told.wire = wire /\ told.outh = all /\ told.in = p.in /\ told.cut = p.cut
        /\ told.out = p.out /\ told.pump = p.pump /\ told.completed = p.completed
    BY <1>1, <2>6 DEF IsClient, Fields
  <2>8. /\ body.wire = wire /\ body.outh = all /\ body.in = p.in /\ body.cut = p.cut
        /\ body.out = out /\ body.pump = p.pump /\ body.completed = p.completed
    BY <1>3, <1>5, <2>7 DEF Fields
  <2>9. ~fin => ~p.completed
    BY <1>12 DEF Before
  <2>10. OwnHeaders(x) => p.outh = <<>> /\ p.pump = 0 /\ p.out = <<>>
    BY <1>12, <2>4, FirstHead
  <2>11. OwnHeaders(x) => Announced(x) = 0 /\ \A k \in 1..Len(out) : out[k][1] # "file"
    <3> SUFFICES ASSUME OwnHeaders(x)
                 PROVE  Announced(x) = 0 /\ \A k \in 1..Len(out) : out[k][1] # "file"
      OBVIOUS
    <3>1. x[4] = Append(<<>>, <<"connection", value>>)
      BY <2>3, <2>10
    <3>2. out = Append(<<>>, <<"html", p.req, 1>>)
      BY <1>4, <2>7, <2>10
    <3>3. Len(out) = 1 /\ out[1] = <<"html", p.req, 1>>
      BY <3>2
    <3>4. \A k \in 1..Len(out) : out[k][1] # "file"
      BY <3>3
    <3> QED
      BY <3>1, <3>4, BareLength
  <2>12. d.wire = Append(p.wire, x) /\ (d.active <=> d.open) /\ (d.pump # 0 => d.progress)
         /\ (~fin => ~d.completed)
    BY <1>9, <1>10, <2>5, <2>8, <2>9
  <2>13. CASE ended = ClearClient(body)
    <3>1. /\ ended.outh = <<>> /\ ended.pump = 0 /\ ended.out = <<>> /\ ended.in = <<>>
          /\ ended.active = body.active
      BY <1>6, <2>13 DEF ClearClient, Fields
    <3>2. d.outh = <<>> /\ d.pump = 0 /\ d.out = <<>> /\ d.in = <<>> /\ d.active
      BY <1>9, <1>10, <3>1 DEF Before
    <3>3. \A k \in 1..Len(d.out) : d.out[k][1] # "file"
      BY <3>2
    <3> QED
      BY <1>12, <2>3, <2>4, <2>12, <3>2, <3>3, HeadAfter
  <2>14. CASE ended = EndConnection(body)
    <3>1. /\ ended.outh = all /\ ended.pump = p.pump /\ ended.out = out /\ ended.active = FALSE
      BY <1>6, <2>8, <2>14 DEF EndConnection, Fields
    <3>2. d.outh = all /\ d.pump = p.pump /\ d.out = out /\ d.active = FALSE
      BY <1>9, <3>1
    <3>3. ~Heard(d)
      BY <3>2 DEF Heard
    <3> QED
      BY <1>12, <2>3, <2>4, <2>10, <2>11, <2>12, <3>2, <3>3, HeadAfter, ZenonT(60)
  <2>15. CASE ended = body /\ p.cut
    <3>1. d.outh = all /\ d.pump = p.pump /\ d.out = out /\ d.active /\ d.cut
      BY <1>9, <1>10, <2>8, <2>15 DEF Before
    <3>2. ~Heard(d)
      BY <3>1 DEF Heard
    <3> QED
      BY <1>12, <2>3, <2>4, <2>10, <2>11, <2>12, <3>1, <3>2, HeadAfter, ZenonT(60)
  <2> QED
    BY <1>7, <2>13, <2>14, <2>15
<1> QED
  BY <1>11, <1>12

\* parse_request and dispatch_request together.
LEMMA AnswerAfter ==
    ASSUME NEW n \in Nat, NEW c, Before(c, n), ~c.crash, c.in # <<>>, Head(c.in).req = n,
           n = Len(sent), sent \in Seq(Requests), NEW behind, NEW header \in {"short", "nohttp"},
           NEW wild, NEW d, d = Dispatch(Parse(c, behind, header, wild), wild)
    PROVE  After(d, n)
<1>1. PICK p : p = Parse(c, behind, header, wild)
  OBVIOUS
<1>2. IsClient(c, n)
  BY DEF Before
<1>3. IsClient(p, n)
  BY <1>1, <1>2, ParseCode
<1>4. Parsed(c, p)
  BY <1>1, <1>2, ParseParsed
<1>5. p.req = n
  BY <1>4 DEF Parsed
<1>6. Before(p, n)
  BY <1>3, <1>4, ParsedBefore DEF Parsed
<1>7. CASE p.crash
  <2>1. d = p
    BY <1>1, <1>7 DEF Dispatch
  <2> QED
    BY <1>6, <1>7, <2>1, CrashAfter
<1>8. CASE ~p.crash /\ p.result = 200
  <2>1. d = DispatchFound(p, wild)
    BY <1>1, <1>8 DEF Dispatch
  <2>2. p.in = <<>>
    BY <1>4, <1>8 DEF Parsed
  <2> QED
    BY <1>5, <1>6, <1>8, <2>1, <2>2, FoundAfter
<1>9. CASE ~p.crash /\ p.result # 200
  <2>1. d = DispatchRefused(p)
    BY <1>1, <1>9 DEF Dispatch
  <2>2. p.cut \/ p.flags \cap {"1.0", "1.1"} # {}
    BY <1>4, <1>9 DEF Parsed
  <2> QED
    BY <1>5, <1>6, <1>9, <2>1, <2>2, RefusedAfter
<1> QED
  BY <1>7, <1>8, <1>9

-----------------------------------------------------------------------------
(* The steps of the server. *)

\* A step of the server keeps the invariant if what it leaves of the client is as promised.
LEMMA ServerDelivers ==
    ASSUME UNCHANGED <<sent, half, fin, reset>>,
           Exchange(client', net', half, Len(sent)), Distinctly(client'.wire),
           Orderly(client'), Appends(client', net', half), Events'
    PROVE  DeliveryInv'
<1>1. Exchange(client, net, half, Len(sent))' /\ Distinctly(client.wire)'
  BY DEF Exchange, Resting, Asking
<1>2. Orderly(client)'
  <2>1. Placed(client.wire)' /\ (client.pump # 0 => client.progress)'
    BY DEF Orderly
  <2>2. Delivered(client)'
    BY DEF Orderly, Delivered
  <2>3. (~reset => Headed(client) /\ Queued(client))'
    BY DEF Orderly, Headed, Queued
  <2>4. (~reset => Reading(client) /\ Completing(client))'
    BY DEF Orderly, Reading, Completing
  <2> QED
    BY <2>1, <2>2, <2>3, <2>4 DEF Orderly
<1>3. Appends(client, net, half)'
  BY DEF Appends
<1> QED
  BY <1>1, <1>2, <1>3 DEF DeliveryInv

\* The exchange does not mind what becomes of a client, if it says nothing new of requests
\* and hears no more than before.
LEMMA QuietExchange ==
    ASSUME NEW n, NEW flight, NEW open, NEW c, Exchange(c, flight, open, n), Distinctly(c.wire),
           NEW d, Heads(d.wire) = Heads(c.wire), \A i \in Heads(c.wire) : d.wire[i] = c.wire[i],
           d.in = <<>> \/ (d.in = c.in /\ (Heard(d) => Heard(c)))
    PROVE  Exchange(d, flight, open, n) /\ Distinctly(d.wire)
<1>1. \A m : Reach(c.wire, m) => Reach(d.wire, m)
  BY DEF Reach
<1>2. Distinctly(d.wire)
  BY DEF Distinctly
<1>3. Waiting(<<>>, flight, open, n)
  <2>1. Len(<<>>) = 0
    OBVIOUS
  <2> QED
    BY <2>1 DEF Waiting
<1>4. Resting(c, flight, open, n) => Resting(d, flight, open, n)
  BY <1>1 DEF Resting
<1>5. Asking(c, flight, open, n) => Asking(d, flight, open, n)
  BY <1>1, <1>3 DEF Asking
<1> QED
  BY <1>2, <1>4, <1>5 DEF Exchange

\* The request in the buffer is the last one, all of it is there, and nothing else is under way.
LEMMA RequestReady ==
    ASSUME Patient, IInv, DeliveryInv, client.active, ~client.crash,
           ~(client.progress /\ client.completed),
           NEW behind \in Behind, RequestComplete(client, behind), NEW n, n = Len(sent)
    PROVE  /\ Before(client, n) /\ client.in # <<>> /\ Head(client.in).req = n
           /\ net = <<>> /\ ~half
<1>1. /\ IsClient(client, n) /\ n \in Nat /\ client.in \in Seq(Piece(n)) /\ half \in BOOLEAN
  BY DEF IInv, IsClient
<1>2. PICK in : in = client.in
  OBVIOUS
<1>3. /\ in # <<>> /\ ~client.cut
      /\ \E i \in 1..Len(in) : in[i].part \in {"whole", "rest"}
  BY <1>2 DEF RequestComplete, Patient
<1>4. Heard(client)
  BY <1>3 DEF Heard
<1>5. Asking(client, net, half, n)
  BY <1>2, <1>3, <1>4 DEF DeliveryInv, Exchange, Resting
<1>6. Waiting(in, net, half, n)
  BY <1>2, <1>4, <1>5 DEF Asking
<1>7. net = <<>> /\ ~half
  BY <1>3, <1>6 DEF Waiting
<1>8. 1 \in 1..Len(in) /\ Head(in) = in[1]
  BY <1>1, <1>2, <1>3
<1>9. Head(in).req = n
  BY <1>6, <1>8 DEF Waiting
<1>10. n # 0
  BY <1>1, <1>2, <1>8, <1>9, PiecesReq
<1>11. client.open
  BY <1>1 DEF DeliveryInv, Events, IsClient
<1>12. ~reset /\ ~fin => ~client.completed
  BY DEF DeliveryInv, Orderly, Completing
<1>13. client.pump # 0 /\ Own(client.wire) =>
          Since(client.wire) >= Due(client.wire) /\ client.pos >= sent[client.pump].size
  BY <1>2, <1>3 DEF DeliveryInv, Appends
<1> QED
  BY <1>1, <1>2, <1>3, <1>5, <1>7, <1>9, <1>10, <1>11, <1>12, <1>13 DEF Before, DeliveryInv, Asking

\* The listing of the client, and the answer if a request is complete.
LEMMA ServiceDelivers ==
    ASSUME Patient, IInv, DeliveryInv, NEW behind \in Behind, NEW header \in {"short", "nohttp"},
           NEW wild \in BOOLEAN, Service(behind, header, wild)
    PROVE  DeliveryInv'
<1>1. PICK n \in Nat : n = Len(sent)
  BY DEF IInv
<1>2. /\ ~client.crash /\ pc = "build" /\ client.active
      /\ ~(client.progress /\ client.completed)
      /\ pc' = "poll" /\ UNCHANGED <<sent, half, net, fin, reset, revents>>
  BY DEF Service, Running, peerVars
<1>3. revents' = {}
  BY <1>2 DEF DeliveryInv, Events
<1>4. CASE RequestComplete(client, behind)
  <2>1. PICK d : d = client'
    OBVIOUS
  <2>2. d = Dispatch(Parse(client, behind, header, wild), wild)
    BY <1>4, <2>1 DEF Service
  <2>3. Before(client, n) /\ client.in # <<>> /\ Head(client.in).req = n /\ net = <<>> /\ ~half
    BY <1>1, <1>2, <1>4, RequestReady
  <2>4. sent \in Seq(Requests) /\ half = FALSE
    BY <2>3 DEF IInv
  <2>5. After(d, n)
    BY <1>1, <1>2, <2>2, <2>3, <2>4, AnswerAfter
  <2>6. Exchange(client', net', half, Len(sent)) /\ Appends(client', net', half)
    BY <1>1, <1>2, <2>1, <2>3, <2>4, <2>5 DEF After
  <2>7. Events'
    BY <1>2, <1>3, <2>1, <2>5 DEF After, Events
  <2> QED
    BY <1>2, <2>1, <2>5, <2>6, <2>7, ServerDelivers DEF After
<1>5. CASE ~RequestComplete(client, behind)
  <2>1. client' = client
    BY <1>5 DEF Service
  <2>2. Events'
    BY <1>2, <1>3, <2>1 DEF DeliveryInv, Events
  <2> QED
    BY <1>2, <2>1, <2>2, ServerDelivers DEF DeliveryInv
<1> QED
  BY <1>4, <1>5

\* The end of a transfer.
LEMMA FinishDelivers ==
    ASSUME IInv, DeliveryInv, FinishTransfer
    PROVE  DeliveryInv'
<1>1. PICK c : c = client
  OBVIOUS
<1>2. PICK d : d = client'
  OBVIOUS
<1>3. /\ c.active /\ c.progress /\ c.completed /\ pc = "build" /\ revents = {}
      /\ d = AfterTransfer(PlainTransferClose(c)) /\ UNCHANGED <<sent, half, net, fin, reset, pc, revents>>
      /\ DOMAIN c = Fields
  BY <1>1, <1>2 DEF FinishTransfer, peerVars, IInv, IsClient, DeliveryInv, Events
<1>4. PICK closed : closed = PlainTransferClose(c)
  OBVIOUS
<1>5. /\ DOMAIN closed = Fields
      /\ closed.pump = 0 /\ closed.completed = FALSE /\ closed.active = c.active /\ closed.open = c.open
      /\ closed.cut = c.cut /\ closed.crash = c.crash /\ closed.in = c.in /\ closed.out = c.out
      /\ closed.outh = c.outh /\ closed.wire = c.wire /\ closed.short = c.short
  BY <1>3, <1>4 DEF PlainTransferClose, Fields
<1>6. \/ d = ClearClient(closed)
      \/ d = EndConnection(closed)
      \/ d = closed
  BY <1>3, <1>4 DEF AfterTransfer
<1>7. /\ d.pump = 0 /\ d.completed = FALSE /\ d.wire = c.wire /\ d.short = c.short /\ d.crash = c.crash
      /\ d.in = <<>> \/ (d.in = c.in /\ (Heard(d) => Heard(c)))
      /\ \/ d.outh = <<>> /\ d.out = <<>>
         \/ d.outh = c.outh /\ d.out = c.out
      /\ \/ d.active = c.active /\ d.open = c.open
         \/ d.active = FALSE /\ d.open = FALSE
  <2>1. CASE d = ClearClient(closed)
    BY <1>5, <2>1 DEF ClearClient, Fields
  <2>2. CASE d = EndConnection(closed)
    BY <1>5, <2>2 DEF EndConnection, Fields, Heard
  <2>3. CASE d = closed
    BY <1>5, <2>3 DEF Heard
  <2> QED
    BY <1>6, <2>1, <2>2, <2>3
<1>8. Exchange(d, net, half, Len(sent)) /\ Distinctly(d.wire)
  <2>1. Exchange(c, net, half, Len(sent)) /\ Distinctly(c.wire)
    BY <1>1 DEF DeliveryInv
  <2> QED
    BY <1>7, <2>1, QuietExchange
<1>9. Orderly(c)
  BY <1>1 DEF DeliveryInv
<1>10. Delivered(d)
  <2> SUFFICES ASSUME ~fin, ~reset, Own(c.wire)
               PROVE  Since(c.wire) + (IF c.short THEN NBS - 1 ELSE 0) >= Due(c.wire)
    BY <1>7 DEF Delivered
  <2>1. /\ c.pump # 0
        /\ Since(c.wire) + Len(c.out) >= Due(c.wire)
        /\ c.out # <<>> => c.short /\ Len(c.out) < NBS
    BY <1>3, <1>9 DEF Orderly, Completing
  <2>2. PICK n \in Nat : c.wire \in Wire(n) /\ c.out \in Seq(Unit(n))
    BY <1>1 DEF IInv, IsClient
  <2>3. Since(c.wire) \in Nat /\ Due(c.wire) \in Nat
    BY <2>2, SinceNat, DueNat DEF Own
  <2>4. NBS \in Nat \ {0} /\ Len(c.out) \in Nat
    BY <2>2, ConnectionAssumption
  <2>5. CASE c.out = <<>>
    <3>1. Len(c.out) = 0
      BY <2>5
    <3>2. (IF c.short THEN NBS - 1 ELSE 0) >= 0
      BY <2>4
    <3> QED
      BY <2>1, <2>3, <2>4, <3>1, <3>2
  <2>6. CASE c.out # <<>>
    BY <2>1, <2>3, <2>4, <2>6
  <2> QED
    BY <2>5, <2>6
<1>11. Headed(c) /\ Queued(c) => Headed(d) /\ Queued(d)
  <2>1. Len(<<>>) = 0
    OBVIOUS
  <2> QED
    BY <1>7, <2>1 DEF Headed, Queued
<1>12. Orderly(d)
  BY <1>7, <1>9, <1>10, <1>11 DEF Orderly, Reading, Completing
<1>13. Appends(d, net, half)
  BY <1>7 DEF Appends
<1>14. Events'
  BY <1>1, <1>2, <1>3, <1>7 DEF DeliveryInv, Events
<1> QED
  BY <1>2, <1>3, <1>8, <1>12, <1>13, <1>14, ServerDelivers

\* poll looks at the client, and changes nothing of it.
LEMMA PollDelivers ==
    ASSUME IInv, DeliveryInv, NEW writable \in BOOLEAN, Poll(writable)
    PROVE  DeliveryInv'
<1>1. /\ client' = client /\ UNCHANGED <<sent, half, net, fin, reset>> /\ pc = "poll"
      /\ revents' = IF ~client.open \/ reset THEN {"hup"}
                    ELSE {e \in {"in", "out"} : IF e = "out" THEN writable ELSE net # <<>> \/ fin}
      /\ pc' = IF revents' = {} THEN "build" ELSE "handle"
  BY DEF Poll, peerVars
<1>2. (~client.open => ~client.active) /\ (~client.active => ~client.open)
  BY <1>1 DEF DeliveryInv, Events
<1>3. Events'
  BY <1>1, <1>2 DEF Events
<1> QED
  BY <1>1, <1>3, ServerDelivers DEF DeliveryInv

\* A client that poll gave up was closed, or its peer is gone.
LEMMA HandleHupDelivers ==
    ASSUME IInv, DeliveryInv, HandleHup
    PROVE  DeliveryInv'
<1>1. PICK c, d : c = client /\ d = client'
  OBVIOUS
<1>2. /\ d = [c EXCEPT !.active = FALSE] /\ pc' = "build" /\ revents' = {}
      /\ UNCHANGED <<sent, half, net, fin, reset>> /\ DOMAIN c = Fields
      /\ reset \/ ~c.active
  BY <1>1 DEF HandleHup, peerVars, IInv, IsClient, DeliveryInv, Events
<1>3. /\ d.active = FALSE /\ d.open = c.open /\ d.cut = c.cut /\ d.crash = c.crash
      /\ d.in = c.in /\ d.out = c.out /\ d.outh = c.outh /\ d.wire = c.wire
      /\ d.pump = c.pump /\ d.pos = c.pos
      /\ d.progress = c.progress /\ d.completed = c.completed /\ d.short = c.short
  BY <1>2 DEF Fields
<1>4. Exchange(d, net, half, Len(sent)) /\ Distinctly(d.wire)
  <2>1. Exchange(c, net, half, Len(sent)) /\ Distinctly(c.wire)
    BY <1>1 DEF DeliveryInv
  <2>2. ~Heard(d)
    BY <1>3 DEF Heard
  <2> QED
    BY <1>3, <2>1, <2>2, QuietExchange
<1>5. Orderly(c) /\ Appends(c, net, half)
  BY <1>1 DEF DeliveryInv
<1>6. Orderly(d)
  <2>1. Delivered(d)
    BY <1>2, <1>3, <1>5 DEF Orderly, Delivered
  <2>2. Headed(c) /\ Queued(c) => Headed(d) /\ Queued(d)
    BY <1>3 DEF Headed, Queued
  <2>3. Reading(c) /\ Completing(c) => Reading(d) /\ Completing(d)
    BY <1>3 DEF Reading, Completing
  <2> QED
    BY <1>3, <1>5, <2>1, <2>2, <2>3 DEF Orderly
<1>7. Appends(d, net, half)
  BY <1>3, <1>5 DEF Appends
<1>8. Events'
  BY <1>1, <1>2, <1>3 DEF Events
<1> QED
  BY <1>1, <1>2, <1>4, <1>6, <1>7, <1>8, ServerDelivers

\* The listening thread's delete_client.
LEMMA DeleteDelivers ==
    ASSUME IInv, DeliveryInv, DeleteClient
    PROVE  DeliveryInv'
<1>1. PICK c, d : c = client /\ d = client'
  OBVIOUS
<1>2. PICK cleared : cleared = ClearClient(c)
  OBVIOUS
<1>3. /\ d = [cleared EXCEPT !.open = FALSE] /\ ~c.active /\ DOMAIN c = Fields
      /\ UNCHANGED <<sent, half, net, fin, reset, pc, revents>>
  BY <1>1, <1>2 DEF DeleteClient, peerVars, IInv, IsClient
<1>4. /\ DOMAIN cleared = Fields /\ cleared.active = c.active /\ cleared.wire = c.wire
      /\ cleared.in = <<>> /\ cleared.out = <<>> /\ cleared.outh = <<>> /\ cleared.pump = 0
      /\ cleared.short = c.short /\ cleared.crash = c.crash
  BY <1>2, <1>3 DEF ClearClient, Fields
<1>5. /\ ~d.active /\ d.open = FALSE /\ d.wire = c.wire
      /\ d.in = <<>> /\ d.out = <<>> /\ d.outh = <<>> /\ d.pump = 0
      /\ d.short = c.short /\ d.crash = c.crash
  BY <1>3, <1>4 DEF Fields
<1>6. Exchange(d, net, half, Len(sent)) /\ Distinctly(d.wire)
  <2>1. Exchange(c, net, half, Len(sent)) /\ Distinctly(c.wire)
    BY <1>1 DEF DeliveryInv
  <2> QED
    BY <1>5, <2>1, QuietExchange
<1>7. Orderly(d)
  <2>1. Placed(d.wire) /\ Delivered(d)
    BY <1>1, <1>3, <1>5 DEF DeliveryInv, Orderly, Delivered
  <2>2. Headed(d) /\ Queued(d)
    <3>1. Len(<<>>) = 0
      OBVIOUS
    <3> QED
      BY <1>5, <3>1 DEF Headed, Queued
  <2> QED
    BY <1>5, <2>1, <2>2 DEF Orderly, Reading, Completing
<1>8. Appends(d, net, half)
  BY <1>5 DEF Appends
<1>9. Events'
  BY <1>1, <1>3, <1>5 DEF DeliveryInv, Events
<1> QED
  BY <1>1, <1>3, <1>6, <1>7, <1>8, <1>9, ServerDelivers

\* Pieces that arrive are still all there is, in the order they were sent.
LEMMA PiecesArrive ==
    ASSUME NEW n \in Nat, NEW old \in Seq(Piece(n)), NEW flight \in Seq(Piece(n)), NEW open,
           NEW k \in 1..Len(flight), Flying(flight, open, n)
    PROVE  /\ Flying(SubSeq(flight, k + 1, Len(flight)), open, n)
           /\ Waiting(old, flight, open, n) =>
                 Waiting(old \o SubSeq(flight, 1, k), SubSeq(flight, k + 1, Len(flight)), open, n)
<1>1. PICK pieces, in, left : /\ pieces = SubSeq(flight, 1, k) /\ in = old \o pieces
                              /\ left = SubSeq(flight, k + 1, Len(flight))
  OBVIOUS
<1>2. /\ pieces \in Seq(Piece(n)) /\ Len(pieces) = k /\ \A i \in 1..k : pieces[i] = flight[i]
  BY <1>1
<1>3. PICK len \in Nat : len = Len(flight)
  OBVIOUS
<1>4. left \in Seq(Piece(n)) /\ Len(left) = len - k /\ \A i \in 1..(len - k) : left[i] = flight[k + i]
  BY <1>1, <1>3
<1>5. /\ Len(in) = Len(old) + k /\ Len(old) \in Nat
      /\ \A i \in 1..Len(old) : in[i] = old[i]
      /\ \A i \in 1..k : in[Len(old) + i] = pieces[i]
  BY <1>1, <1>2
<1>6. \A i \in 1..Len(in) : i \in 1..Len(old) \/ (i - Len(old) \in 1..k /\ in[i] = flight[i - Len(old)])
  <2>1. ASSUME NEW i \in 1..Len(in), i \notin 1..Len(old)
        PROVE  i - Len(old) \in 1..k /\ in[i] = flight[i - Len(old)]
    <3>1. i - Len(old) \in 1..k /\ Len(old) + (i - Len(old)) = i
      BY <1>5, <2>1
    <3> QED
      BY <1>2, <1>5, <3>1
  <2> QED
    BY <2>1
<1>7. \A i \in 1..k : i \in 1..len /\ (i < k => i < len)
  BY <1>3
<1>8. \A i \in 1..Len(left) : k + i \in 1..len /\ left[i] = flight[k + i] /\ (i < Len(left) => k + i < len)
  BY <1>3, <1>4
<1>9. Flying(left, open, n)
  BY <1>3, <1>8 DEF Flying
<1>10. ASSUME Waiting(old, flight, open, n)
       PROVE  Waiting(in, left, open, n)
  <2>1. ASSUME NEW i \in 1..Len(in)
        PROVE  in[i].req = n
    <3>1. CASE i \in 1..Len(old)
      BY <1>5, <1>10, <3>1 DEF Waiting
    <3>2. CASE i \notin 1..Len(old)
      <4>1. PICK j \in 1..k : j = i - Len(old) /\ in[i] = flight[j]
        BY <1>6, <3>2
      <4>2. j \in 1..len
        BY <1>3, <4>1
      <4> QED
        BY <1>3, <4>1, <4>2 DEF Flying
    <3> QED
      BY <3>1, <3>2
  <2>2. ASSUME open \/ left # <<>>, NEW i \in 1..Len(in)
        PROVE  in[i].part = "begin"
    <3>1. flight # <<>>
      BY <1>3
    <3>2. CASE i \in 1..Len(old)
      BY <1>5, <1>10, <3>1, <3>2 DEF Waiting
    <3>3. CASE i \notin 1..Len(old)
      <4>1. PICK j \in 1..k : j = i - Len(old) /\ in[i] = flight[j]
        BY <1>6, <3>3
      <4>2. open \/ k < len
        BY <1>3, <1>4, <2>2
      <4>3. j \in 1..len /\ (open \/ j < len)
        BY <1>3, <4>1, <4>2
      <4> QED
        BY <1>3, <4>1, <4>3 DEF Flying
    <3> QED
      BY <3>2, <3>3
  <2> QED
    BY <2>1, <2>2 DEF Waiting
<1> QED
  BY <1>1, <1>9, <1>10

\* What plain_transfer_recv makes of a client: what arrived is in its buffer, and while a
\* file is open as much of the memory before it is in the file.
Received(c, d, pieces, failed) ==
    /\ d.active = c.active /\ d.open = c.open /\ d.cut = c.cut
    /\ d.outh = c.outh /\ d.wire = c.wire
    /\ d.pump = c.pump /\ d.progress = c.progress /\ d.short = c.short
    /\ \/ failed /\ d.in = c.in
       \/ ~failed /\ d.in = c.in \o pieces /\ d.crash = c.crash
    /\ \/ d.completed = c.completed
       \/ pieces = <<>> \/ failed
    /\ \/ d.out = c.out /\ d.pos = c.pos
       \/ /\ c.pump # 0 /\ d.in # <<>> /\ d.pos \in Nat /\ d.pos >= c.pos
          /\ c.out = <<>> => d.out = <<>>

LEMMA RecvReceives ==
    ASSUME NEW n \in Nat, NEW c, IsClient(c, n), NEW pieces \in Seq(Piece(n)),
           NEW failed \in BOOLEAN, NEW d, d = PlainTransferRecv(c, pieces, failed)
    PROVE  Received(c, d, pieces, failed)
<1>1. PICK in : in = c.in \o pieces
  OBVIOUS
<1>2. in \in Seq(Piece(n)) /\ (pieces = <<>> => in = c.in) /\ (pieces # <<>> => in # <<>>)
  BY <1>1 DEF IsClient
<1>3. PICK got : got = CASE failed -> IF c.in = <<>> THEN c ELSE Crash(c)
                         [] ~failed /\ pieces = <<>> -> [c EXCEPT !.completed = TRUE]
                         [] OTHER -> [c EXCEPT !.in = in]
  OBVIOUS
<1>4. /\ \/ failed /\ got = c /\ c.in = <<>>
         \/ failed /\ got = Crash(c)
         \/ ~failed /\ pieces = <<>> /\ got = [c EXCEPT !.completed = TRUE]
         \/ ~failed /\ pieces # <<>> /\ got = [c EXCEPT !.in = in]
  BY <1>3
<1>5. /\ DOMAIN got = Fields
      /\ got.active = c.active /\ got.open = c.open /\ got.cut = c.cut
      /\ got.outh = c.outh /\ got.wire = c.wire /\ got.out = c.out /\ got.pos = c.pos
      /\ got.pump = c.pump /\ got.progress = c.progress /\ got.short = c.short
      /\ \/ failed /\ got.in = c.in /\ (got.crash \/ c.in = <<>>)
         \/ ~failed /\ got.in = in /\ got.crash = c.crash
      /\ got.completed = c.completed \/ pieces = <<>> \/ failed
  <2>1. CASE failed /\ got = c /\ c.in = <<>>
    BY <2>1 DEF IsClient
  <2>2. CASE failed /\ got = Crash(c)
    BY <2>2 DEF Crash, IsClient, Fields
  <2>3. CASE ~failed /\ pieces = <<>> /\ got = [c EXCEPT !.completed = TRUE]
    BY <1>2, <2>3 DEF IsClient, Fields
  <2>4. CASE ~failed /\ pieces # <<>> /\ got = [c EXCEPT !.in = in]
    BY <2>4 DEF IsClient, Fields
  <2> QED
    BY <1>4, <2>1, <2>2, <2>3, <2>4
<1>6. got.in \in Seq(Piece(n))
  BY <1>2, <1>5 DEF IsClient
<1>7. PICK m : m = Least(Len(got.in), NBS)
  OBVIOUS
<1>8. m \in Nat /\ (m = 0 <=> got.in = <<>>)
  BY <1>6, <1>7, ConnectionAssumption DEF Least
<1>9. PICK out, pos : out = LtrimBuffer(c.out, m) /\ pos = c.pos + m
  OBVIOUS
<1>10. pos \in Nat /\ pos >= c.pos /\ (c.out = <<>> => out = <<>>)
  <2>1. c.pos \in Nat /\ c.out \in Seq(Unit(n))
    BY DEF IsClient
  <2>2. c.out = <<>> => out = <<>>
    BY <1>8, <1>9 DEF LtrimBuffer
  <2> QED
    BY <1>8, <1>9, <2>1, <2>2
<1>11. \/ d = got
       \/ got.in = <<>> /\ d = [got EXCEPT !.completed = TRUE]
       \/ got.pump # 0 /\ ~got.crash /\ got.in # <<>> /\ d = [got EXCEPT !.pos = pos, !.out = out]
  <2>1. d = CASE got.crash \/ got.pump = 0 \/ ~got.progress -> got
              [] ~got.crash /\ got.pump # 0 /\ got.progress /\ m = 0 ->
                     [got EXCEPT !.completed = TRUE]
              [] OTHER -> [got EXCEPT !.pos = pos, !.out = out]
    BY <1>1, <1>3, <1>5, <1>7, <1>9 DEF PlainTransferRecv
  <2> QED
    BY <1>8, <2>1
<1>12. CASE d = got
  BY <1>1, <1>5, <1>12 DEF Received
<1>13. CASE got.in = <<>> /\ d = [got EXCEPT !.completed = TRUE]
  <2>1. pieces = <<>> \/ failed
    BY <1>2, <1>5, <1>13
  <2> QED
    BY <1>1, <1>5, <1>13, <2>1 DEF Received, Fields
<1>14. CASE got.pump # 0 /\ got.in # <<>> /\ d = [got EXCEPT !.pos = pos, !.out = out]
  BY <1>1, <1>5, <1>10, <1>14 DEF Received, Fields
<1> QED
  BY <1>11, <1>12, <1>13, <1>14

LEMMA NoLength ==
    ASSUME NEW S, NEW s \in Seq(S), Len(s) = 0
    PROVE  s = <<>>
OBVIOUS

\* A file whose reader has all of it is read to its end, and nothing of it waits to be sent.
LEMMA ReadToTheEnd ==
    ASSUME NEW n \in Nat, NEW c, IsClient(c, n), n = Len(sent), sent \in Seq(Requests), Reading(c),
           Own(c.wire), c.pump # 0, Since(c.wire) >= Due(c.wire)
    PROVE  c.pos >= sent[c.pump].size /\ c.out = <<>>
<1>1. PICK size \in Nat : size = sent[c.pump].size
  <2>1. sent[c.pump] \in Request
    BY ConnectionAssumption DEF IsClient
  <2> QED
    BY <2>1 DEF Request
<1>2. PICK out \in Seq(Unit(n)) : out = c.out /\ c.pos \in Nat
  BY DEF IsClient
<1>3. PICK len \in Nat : len = Len(out)
  OBVIOUS
<1>4. PICK since \in Nat : since = Since(c.wire)
  BY SinceNat DEF IsClient
<1>5. since >= size
  BY <1>1, <1>4 DEF Reading
<1>6. \/ c.pos <= size /\ since + len = c.pos
      \/ c.pos >= size /\ c.out = <<>>
  BY <1>1, <1>2, <1>3, <1>4 DEF Reading
<1>7. CASE c.pos <= size /\ since + len = c.pos
  <2>1. c.pos = size /\ len = 0
    BY <1>2, <1>5, <1>7
  <2>2. Len(out) = 0
    BY <1>3, <2>1
  <2>3. out = <<>>
    BY <2>2, NoLength
  <2> QED
    BY <1>1, <1>2, <2>1, <2>3
<1>8. CASE c.pos >= size /\ c.out = <<>>
  BY <1>1, <1>8
<1> QED
  BY <1>6, <1>7, <1>8

\* What arrives is a piece of the request that is asked; while a file is open, its reader
\* has all of it.
LEMMA HandleInDelivers ==
    ASSUME IInv, DeliveryInv, NEW k \in 0..Len(net), HandleIn(k)
    PROVE  DeliveryInv'
<1>1. PICK n, c, d, flight : n \in Nat /\ n = Len(sent) /\ c = client /\ d = client' /\ flight = net
  BY DEF IInv
<1>2. /\ IsClient(c, n) /\ UNCHANGED <<sent, half, fin, reset>> /\ revents' = {} /\ pc' = "build"
      /\ net' = SubSeq(flight, k + 1, Len(flight))
      /\ flight \in Seq(Piece(n)) /\ k \in 0..Len(flight) /\ sent \in Seq(Requests)
      /\ k = 0 => flight = <<>>
      /\ flight # <<>> \/ fin
      /\ ~c.crash /\ (~c.open => ~c.active)
  BY <1>1 DEF IInv, DeliveryInv, Events, HandleIn, Running
<1>3. Exchange(c, flight, half, n) /\ Distinctly(c.wire) /\ Orderly(c) /\ Appends(c, flight, half)
  BY <1>1 DEF DeliveryInv
<1>4. PICK failed \in BOOLEAN : failed = (flight = <<>> /\ reset)
  OBVIOUS
<1>5. PICK pieces, left : pieces = SubSeq(flight, 1, k) /\ left = SubSeq(flight, k + 1, Len(flight))
  OBVIOUS
<1>6. /\ pieces \in Seq(Piece(n)) /\ (pieces = <<>> <=> flight = <<>>)
      /\ flight = <<>> => left = <<>>
  <2>1. pieces \in Seq(Piece(n)) /\ Len(pieces) = k
    BY <1>2, <1>5
  <2>2. pieces = <<>> <=> k = 0
    BY <2>1
  <2>3. flight = <<>> => left = <<>>
    BY <1>2, <1>5
  <2> QED
    BY <1>2, <2>1, <2>2, <2>3
<1>7. Received(c, d, pieces, failed)
  <2>1. d = PlainTransferRecv(c, pieces, failed)
    BY <1>1, <1>4, <1>5 DEF HandleIn
  <2> QED
    BY <1>1, <1>2, <1>6, <2>1, RecvReceives
<1>8. flight = <<>> => reset \/ fin
  BY <1>2
<1>9. Exchange(d, left, half, n) /\ Distinctly(d.wire)
  <2>1. CASE flight = <<>>
    <3>1. pieces = <<>> /\ left = flight
      BY <1>6, <2>1
    <3>2. PICK in \in Seq(Piece(n)) : in = c.in
      BY <1>2 DEF IsClient
    <3>3. in \o <<>> = in
      OBVIOUS
    <3>4. d.in = c.in /\ d.wire = c.wire
      BY <1>7, <3>1, <3>2, <3>3 DEF Received
    <3>5. Heard(d) => Heard(c)
      BY <1>2, <1>7 DEF Received, Heard
    <3> QED
      BY <1>3, <3>1, <3>4, <3>5, QuietExchange
  <2>2. CASE flight # <<>>
    <3>1. k \in 1..Len(flight) /\ ~failed
      <4>1. PICK len \in Nat : len = Len(flight)
        BY <1>2
      <4>2. k \in 0..len /\ k # 0
        BY <1>2, <2>2, <4>1
      <4>3. ~failed
        BY <1>4, <2>2
      <4> QED
        BY <4>1, <4>2, <4>3
    <3>2. PICK old \in Seq(Piece(n)) : old = c.in
      BY <1>2 DEF IsClient
    <3>3. d.in = old \o pieces /\ d.wire = c.wire /\ (Heard(d) => Heard(c))
      BY <1>2, <1>7, <3>1, <3>2 DEF Received, Heard
    <3>4. ~Resting(c, flight, half, n)
      BY <2>2 DEF Resting
    <3>5. Asking(c, flight, half, n)
      BY <1>3, <3>4 DEF Exchange
    <3>6. Flying(flight, half, n)
      BY <3>5 DEF Asking
    <3>7. /\ Flying(left, half, n)
          /\ Waiting(old, flight, half, n) => Waiting(old \o pieces, left, half, n)
      BY <1>1, <1>2, <1>5, <3>1, <3>6, PiecesArrive
    <3>8. Asking(d, left, half, n)
      BY <3>2, <3>3, <3>5, <3>7 DEF Asking
    <3> QED
      BY <1>3, <3>3, <3>8 DEF Exchange
  <2> QED
    BY <2>1, <2>2
<1>10. ASSUME ~reset, Own(c.wire), c.pump # 0, d.out # c.out \/ d.pos # c.pos
       PROVE  /\ Since(c.wire) >= Due(c.wire) /\ c.pos >= sent[c.pump].size
              /\ c.out = <<>> /\ d.out = <<>> /\ d.pos \in Nat /\ d.pos >= c.pos
  <2>1. d.in # <<>> /\ d.pos \in Nat /\ d.pos >= c.pos /\ (c.out = <<>> => d.out = <<>>)
    BY <1>7, <1>10 DEF Received
  <2>2. c.in # <<>> \/ flight # <<>>
    <3> SUFFICES ASSUME c.in = <<>>, flight = <<>> PROVE FALSE
      OBVIOUS
    <3>1. <<>> \o <<>> = <<>>
      OBVIOUS
    <3> QED
      BY <1>6, <1>7, <2>1, <3>1 DEF Received
  <2>3. Since(c.wire) >= Due(c.wire) /\ Reading(c)
    BY <1>3, <1>10, <2>2 DEF Appends, Orderly
  <2>4. c.pos >= sent[c.pump].size /\ c.out = <<>>
    BY <1>1, <1>2, <1>10, <2>3, ReadToTheEnd
  <2> QED
    BY <2>1, <2>3, <2>4
<1>11. Orderly(d)
  <2>1. Placed(d.wire) /\ (d.pump # 0 => d.progress)
    BY <1>3, <1>7 DEF Orderly, Received
  <2>2. Delivered(d)
    <3>1. reset \/ d.crash = c.crash
      BY <1>4, <1>7 DEF Received
    <3> QED
      BY <1>3, <1>7, <3>1 DEF Orderly, Delivered, Received
  <2>3. ASSUME ~reset
        PROVE  Headed(d) /\ Queued(d)
    <3>1. Headed(c) /\ Queued(c)
      BY <1>3, <2>3 DEF Orderly
    <3>2. c.out = <<>> => d.out = <<>>
      BY <1>7 DEF Received
    <3>3. Headed(d)
      BY <1>7, <3>1, <3>2 DEF Headed, Received
    <3>4. ASSUME d.out = c.out
          PROVE  Queued(d)
      <4>1. d.wire = c.wire
        BY <1>7 DEF Received
      <4> QED
        BY <3>1, <3>4, <4>1 DEF Queued
    <3>5. ASSUME d.out # c.out
          PROVE  Queued(d)
      <4>1. c.pump # 0
        BY <1>7, <3>5 DEF Received
      <4>2. Own(c.wire) => d.out = <<>>
        BY <1>10, <2>3, <3>5, <4>1
      <4>3. Len(<<>>) = 0
        OBVIOUS
      <4>4. d.wire = c.wire
        BY <1>7 DEF Received
      <4>5. Own(c.wire) => Len(d.out) = 0
        BY <4>2, <4>3
      <4>6. Own(c.wire) => \A j \in 1..Len(d.out) : FALSE
        BY <4>5
      <4> QED
        BY <4>4, <4>6 DEF Queued
    <3> QED
      BY <3>3, <3>4, <3>5
  <2>4. ASSUME ~reset
        PROVE  Reading(d)
    <3>1. Reading(c)
      BY <1>3, <2>4 DEF Orderly
    <3>2. CASE d.out = c.out /\ d.pos = c.pos
      BY <1>7, <3>1, <3>2 DEF Reading, Received
    <3>3. CASE d.out # c.out \/ d.pos # c.pos
      <4> SUFFICES ASSUME Own(c.wire), c.pump # 0
                   PROVE  /\ c.wire[LastHead(c.wire)][2] = c.pump /\ Due(c.wire) = sent[c.pump].size
                          /\ d.pos >= sent[c.pump].size /\ Since(c.wire) >= Due(c.wire) /\ d.out = <<>>
        BY <1>7 DEF Reading, Received
      <4>1. /\ Since(c.wire) >= Due(c.wire) /\ c.pos >= sent[c.pump].size
            /\ d.out = <<>> /\ d.pos \in Nat /\ d.pos >= c.pos
        BY <1>10, <2>4, <3>3
      <4>2. c.wire[LastHead(c.wire)][2] = c.pump /\ Due(c.wire) = sent[c.pump].size
        BY <3>1 DEF Reading
      <4>3. PICK size \in Nat : size = sent[c.pump].size
        <5>1. sent[c.pump] \in Request
          BY <1>1, <1>2, ConnectionAssumption DEF IsClient
        <5> QED
          BY <5>1 DEF Request
      <4>4. c.pos \in Nat
        BY <1>2 DEF IsClient
      <4> QED
        BY <4>1, <4>2, <4>3, <4>4
    <3> QED
      BY <3>2, <3>3
  <2>5. ASSUME ~reset
        PROVE  Completing(d)
    <3> SUFFICES ASSUME ~fin, d.completed
                 PROVE  /\ d.active => d.pump # 0
                        /\ Own(d.wire) /\ d.pump # 0 =>
                              /\ Since(d.wire) + Len(d.out) >= Due(d.wire)
                              /\ d.out # <<>> => d.short /\ Len(d.out) < NBS
      BY DEF Completing
    <3>1. c.completed
      <4>1. pieces # <<>> /\ ~failed
        BY <1>4, <1>6, <1>8, <2>5
      <4> QED
        BY <1>7, <4>1 DEF Received
    <3>2. Completing(c)
      BY <1>3, <2>5 DEF Orderly
    <3>3. CASE d.out = c.out
      BY <1>7, <3>1, <3>2, <3>3 DEF Completing, Received
    <3>4. CASE d.out # c.out
      <4>1. d.active => d.pump # 0
        BY <1>7, <3>1, <3>2 DEF Completing, Received
      <4>2. ASSUME Own(c.wire), c.pump # 0
            PROVE  Since(c.wire) + Len(d.out) >= Due(c.wire) /\ d.out = <<>>
        <5>1. Since(c.wire) >= Due(c.wire) /\ d.out = <<>>
          BY <1>10, <2>5, <3>4, <4>2
        <5>2. Len(d.out) = 0
          BY <5>1
        <5>3. Since(c.wire) \in Nat /\ Due(c.wire) \in Nat
          BY <1>1, <1>2, <4>2, SinceNat, DueNat DEF IsClient, Own
        <5> QED
          BY <5>1, <5>2, <5>3
      <4> QED
        BY <1>7, <4>1, <4>2 DEF Received
    <3> QED
      BY <3>3, <3>4
  <2> QED
    BY <2>1, <2>2, <2>3, <2>4, <2>5 DEF Orderly
<1>12. Appends(d, left, half)
  <2> SUFFICES ASSUME c.pump # 0, Own(c.wire), half \/ left # <<>> \/ d.in # <<>>
               PROVE  Since(c.wire) >= Due(c.wire) /\ d.pos >= sent[c.pump].size
    BY <1>7 DEF Appends, Received
  <2>1. half \/ flight # <<>> \/ c.in # <<>>
    <3> SUFFICES ASSUME c.in = <<>>, flight = <<>> PROVE half
      OBVIOUS
    <3>1. <<>> \o <<>> = <<>>
      OBVIOUS
    <3> QED
      BY <1>6, <1>7, <3>1 DEF Received
  <2>2. Since(c.wire) >= Due(c.wire) /\ c.pos >= sent[c.pump].size
    BY <1>3, <2>1 DEF Appends
  <2>3. c.pos \in Nat /\ d.pos \in Nat /\ d.pos >= c.pos
    BY <1>2, <1>7 DEF Received, IsClient
  <2>4. PICK size \in Nat : size = sent[c.pump].size
    <3>1. sent[c.pump] \in Request
      BY <1>1, <1>2, ConnectionAssumption DEF IsClient
    <3> QED
      BY <3>1 DEF Request
  <2> QED
    BY <2>2, <2>3, <2>4
<1>13. Events'
  BY <1>1, <1>2, <1>7 DEF Events, Received
<1> QED
  BY <1>1, <1>2, <1>5, <1>9, <1>11, <1>12, <1>13, ServerDelivers

-----------------------------------------------------------------------------
(* plain_transfer_send. *)

\* What reading from the file makes of a client, whose file has so many units.
Filled(c, f, size) ==
    /\ f.active = c.active /\ f.open = c.open /\ f.cut = c.cut /\ f.in = c.in
    /\ f.outh = c.outh /\ f.wire = c.wire /\ f.short = c.short
    /\ f.pump = c.pump /\ f.progress = c.progress
    /\ \/ f.out = c.out /\ f.pos = c.pos /\ f.completed = c.completed
       \/ /\ f.out = c.out /\ f.pos = c.pos /\ ~f.crash
          /\ c.pump # 0 /\ c.pos >= size /\ Len(c.out) < NBS
       \/ \E m \in Nat \ {0} :
             /\ f.out = c.out \o [k \in 1..m |-> <<"file", c.pump, c.pos + k>>]
             /\ f.pos = c.pos + m /\ f.completed = c.completed /\ ~f.crash
             /\ c.pump # 0 /\ f.pos <= size

LEMMA FillFills ==
    ASSUME NEW n \in Nat, NEW c, IsClient(c, n), ~c.crash, NEW size \in Nat,
           c.pump # 0 => size = sent[c.pump].size, NEW f, f = FillFromFile(c)
    PROVE  Filled(c, f, size)
<1>1. PICK len \in Nat, pos \in Nat : len = Len(c.out) /\ pos = c.pos
  BY DEF IsClient
<1>2. PICK room \in Int : room = NBS - len
  <2>1. NBS \in Nat \ {0}
    BY ConnectionAssumption
  <2>2. NBS - len \in Int
    BY <2>1
  <2> QED
    BY <2>2
<1>3. PICK m \in Int : m = Least(room, size - pos)
  BY <1>1, <1>2 DEF Least
<1>4. CASE c.pump = 0 \/ ~c.progress \/ room = 0
  <2>1. f = c
    BY <1>1, <1>2, <1>4 DEF FillFromFile
  <2> QED
    BY <2>1 DEF Filled
<1>5. CASE c.pump # 0 /\ c.progress /\ room < 0
  <2>1. f = Crash(c)
    BY <1>1, <1>2, <1>5 DEF FillFromFile
  <2> QED
    BY <2>1 DEF Filled, Crash, IsClient, Fields
<1>6. CASE c.pump # 0 /\ c.progress /\ room > 0 /\ m <= 0
  <2>1. f = [c EXCEPT !.completed = TRUE]
    BY <1>1, <1>2, <1>3, <1>6 DEF FillFromFile
  <2>2. pos >= size /\ len < NBS
    BY <1>1, <1>2, <1>3, <1>6, ConnectionAssumption DEF Least
  <2> QED
    BY <1>1, <1>6, <2>1, <2>2 DEF Filled, IsClient, Fields
<1>7. CASE c.pump # 0 /\ c.progress /\ room > 0 /\ m > 0
  <2>1. PICK out : out = c.out \o [k \in 1..m |-> <<"file", c.pump, c.pos + k>>]
    OBVIOUS
  <2>2. f = [c EXCEPT !.out = out, !.pos = c.pos + m]
    <3>1. NBS - Len(c.out) \in Int /\ NBS - Len(c.out) > 0
      BY <1>1, <1>2, <1>7
    <3>2. m = Least(NBS - Len(c.out), sent[c.pump].size - c.pos)
      BY <1>1, <1>2, <1>3, <1>7
    <3> QED
      BY <1>7, <2>1, <3>1, <3>2, FillReads
  <2>3. m \in Nat \ {0} /\ pos + m <= size
    <3>1. m <= size - pos
      BY <1>3 DEF Least
    <3> QED
      BY <1>7, <3>1
  <2>4. /\ f.active = c.active /\ f.open = c.open /\ f.cut = c.cut /\ f.in = c.in
        /\ f.outh = c.outh /\ f.wire = c.wire /\ f.short = c.short
        /\ f.pump = c.pump /\ f.progress = c.progress
        /\ f.out = out /\ f.pos = c.pos + m /\ f.completed = c.completed /\ f.crash = c.crash
    BY <2>2 DEF IsClient, Fields
  <2>5. f.pos <= size
    BY <1>1, <2>3, <2>4
  <2> QED
    BY <1>7, <2>1, <2>3, <2>4, <2>5 DEF Filled
<1> QED
  BY <1>2, <1>3, <1>4, <1>5, <1>6, <1>7

\* At the end of its file a transfer has less than a block left to write.
Closing(f) ==
    ~fin /\ f.completed =>
        /\ f.active => f.pump # 0
        /\ Own(f.wire) /\ f.pump # 0 =>
              Since(f.wire) + Len(f.out) >= Due(f.wire) /\ Len(f.out) < NBS

LEMMA FillKeeps ==
    ASSUME NEW n \in Nat, NEW c, IsClient(c, n), Orderly(c), ~reset, NEW size \in Nat,
           c.pump # 0 => size = sent[c.pump].size, NEW f, Filled(c, f, size)
    PROVE  Headed(f) /\ Queued(f) /\ Reading(f) /\ Closing(f) /\ (f.crash => Completing(f))
<1>1. /\ f.active = c.active /\ f.outh = c.outh /\ f.wire = c.wire /\ f.pump = c.pump
      /\ f.short = c.short
  BY DEF Filled
<1>2. Headed(c) /\ Queued(c) /\ Reading(c) /\ Completing(c)
  BY DEF Orderly
<1>3. PICK len \in Nat, pos \in Nat, w \in Wire(n), out \in Seq(Unit(n)) :
        len = Len(out) /\ out = c.out /\ pos = c.pos /\ w = c.wire
  <2>1. c.out \in Seq(Unit(n)) /\ c.pos \in Nat /\ c.wire \in Wire(n)
    BY DEF IsClient
  <2>2. Len(c.out) \in Nat
    BY <2>1
  <2> QED
    BY <2>1, <2>2
<1>4. PICK since \in Nat : since = Since(w)
  BY <1>3, SinceNat DEF IsClient
<1>5. Own(w) /\ c.pump # 0 =>
        /\ w[LastHead(w)][2] = c.pump /\ Due(w) = size
        /\ \/ pos <= size /\ since + len = pos
           \/ pos >= size /\ since >= size /\ out = <<>>
  BY <1>2, <1>3, <1>4 DEF Reading
<1>6. /\ c.completed /\ ~fin /\ c.active => c.pump # 0
      /\ c.completed /\ ~fin /\ Own(w) /\ c.pump # 0 => since + len >= size /\ (out # <<>> => len < NBS)
  BY <1>2, <1>3, <1>4, <1>5 DEF Completing
<1>7. out = <<>> => len = 0 /\ len < NBS
  BY <1>3, ConnectionAssumption
<1>8. CASE f.out = c.out /\ f.pos = c.pos /\ f.completed = c.completed
  <2>1. Headed(f) /\ Queued(f) /\ Reading(f) /\ Completing(f)
    BY <1>1, <1>2, <1>8 DEF Headed, Queued, Reading, Completing
  <2>2. Closing(f)
    BY <1>1, <1>3, <1>4, <1>5, <1>6, <1>7, <1>8 DEF Closing
  <2> QED
    BY <2>1, <2>2
<1>9. CASE /\ f.out = c.out /\ f.pos = c.pos /\ ~f.crash
           /\ c.pump # 0 /\ c.pos >= size /\ Len(c.out) < NBS
  <2>1. Headed(f) /\ Queued(f) /\ Reading(f)
    BY <1>1, <1>2, <1>9 DEF Headed, Queued, Reading
  <2>2. Own(w) => since + len >= size
    BY <1>3, <1>5, <1>9
  <2>3. Closing(f)
    BY <1>1, <1>3, <1>4, <1>5, <1>9, <2>2 DEF Closing
  <2> QED
    BY <1>9, <2>1, <2>3
<1>10. ASSUME NEW m \in Nat \ {0},
              f.out = c.out \o [k \in 1..m |-> <<"file", c.pump, c.pos + k>>],
              f.pos = c.pos + m, f.completed = c.completed, ~f.crash,
              c.pump # 0, f.pos <= size
       PROVE  Headed(f) /\ Queued(f) /\ Reading(f) /\ Closing(f)
  <2>1. Headed(f)
    BY <1>1, <1>2, <1>10 DEF Headed
  <2>2. pos + m <= size /\ pos < size
    BY <1>3, <1>10
  <2>3. Own(w) => since + len = pos
    BY <1>5, <1>10, <2>2
  <2>4. PICK units : units = [k \in 1..m |-> <<"file", c.pump, c.pos + k>>]
    OBVIOUS
  <2>5. PICK more : more = out \o units
    OBVIOUS
  <2>6. /\ units \in Seq({"file"} \X (0..n) \X Nat) /\ Len(units) = m
        /\ \A k \in 1..m : units[k] = <<"file", c.pump, pos + k>>
    <3>1. \A k \in 1..m : <<"file", c.pump, pos + k>> \in {"file"} \X (0..n) \X Nat
      BY <1>3 DEF IsClient
    <3> QED
      BY <1>3, <2>4, <3>1, SMTT(60)
  <2>7. /\ Len(more) = len + m
        /\ \A k \in 1..len : more[k] = out[k]
        /\ \A k \in len + 1 .. len + m : more[k] = units[k - len]
    <3>1. PICK S : S = Unit(n) \cup ({"file"} \X (0..n) \X Nat)
      OBVIOUS
    <3>2. out \in Seq(S) /\ units \in Seq(S)
      BY <1>3, <2>6, <3>1, SMTT(60)
    <3>3. more \in Seq(S) /\ Len(more) = Len(out) + Len(units)
      BY <2>5, <3>2
    <3>4. \A k \in 1..len : more[k] = out[k]
      BY <1>3, <2>5, <3>2
    <3>5. ASSUME NEW k \in len + 1 .. len + m
          PROVE  more[k] = units[k - len]
      <4>1. k \in Len(out) + 1 .. Len(out) + Len(units)
        BY <1>3, <2>6, <3>5
      <4>2. (out \o units)[k] = units[k - Len(out)]
        BY <3>2, <4>1
      <4> QED
        BY <1>3, <2>5, <4>2
    <3> QED
      BY <1>3, <2>6, <3>3, <3>4, <3>5
  <2>8. Queued(f)
    <3> SUFFICES ASSUME Own(w), NEW k \in 1..Len(more), more[k][1] = "file"
                 PROVE  more[k] = <<"file", w[LastHead(w)][2], since + k>>
      BY <1>1, <1>3, <1>4, <1>10, <2>4, <2>5 DEF Queued
    <3>1. CASE k \in 1..len
      BY <1>2, <1>3, <1>4, <2>7, <3>1 DEF Queued
    <3>2. CASE k \in len + 1 .. len + m
      <4>1. more[k] = <<"file", c.pump, pos + (k - len)>>
        <5>1. k - len \in 1..m
          BY <3>2
        <5> QED
          BY <2>6, <2>7, <3>2, <5>1
      <4>2. pos + (k - len) = since + k
        BY <2>3, <3>2
      <4> QED
        BY <1>5, <1>10, <4>1, <4>2
    <3> QED
      BY <2>7, <3>1, <3>2
  <2>9. Reading(f)
    <3>1. Own(w) => since + (len + m) = pos + m
      BY <2>3
    <3> QED
      BY <1>1, <1>3, <1>4, <1>5, <1>10, <2>2, <2>4, <2>5, <2>7, <3>1, SMTT(60) DEF Reading
  <2>10. Closing(f)
    <3>1. ~(Own(w) /\ c.completed /\ ~fin)
      BY <1>6, <1>10, <2>2, <2>3
    <3> QED
      BY <1>1, <1>3, <1>10, <3>1 DEF Closing
  <2> QED
    BY <2>1, <2>8, <2>9, <2>10
<1> QED
  BY <1>8, <1>9, <1>10 DEF Filled

\* What writing a block makes of the filled client.
Written(f, d, n) ==
    /\ d.active = f.active /\ d.open = f.open /\ d.cut = f.cut /\ d.in = f.in
    /\ d.outh = f.outh /\ d.pump = f.pump /\ d.progress = f.progress
    /\ d.pos = f.pos /\ d.completed = f.completed
    /\ \/ d = f /\ (f.crash \/ f.out = <<>>)
       \/ reset /\ d.wire = f.wire
       \/ /\ ~reset /\ ~f.crash /\ ~d.crash
          /\ \E k \in 1..Len(f.out) :
                /\ d.wire = f.wire \o SubSeq(f.out, 1, k)
                /\ d.out = SubSeq(f.out, k + 1, Len(f.out))
                /\ Len(f.out) < NBS /\ k < Len(f.out) => d.short

LEMMA SendWrites ==
    ASSUME NEW n \in Nat, NEW c, IsClient(c, n), NEW f, f = FillFromFile(c), IsClient(f, n),
           NEW killed, NEW taken \in 1..NBS, NEW d, d = PlainTransferSend(c, killed, taken)
    PROVE  Written(f, d, n)
<1>1. PICK len \in Nat : len = Len(f.out) /\ (len = 0 => f.out = <<>>)
  BY NoLength DEF IsClient
<1>2. PICK block \in Nat : block = Least(Len(f.out), NBS)
  BY <1>1, ConnectionAssumption DEF Least
<1>3. PICK k \in Nat : k = Least(block, taken)
  BY <1>2, ConnectionAssumption DEF Least
<1>4. block <= len /\ (block = 0 => len = 0) /\ (len < NBS => block = len)
  BY <1>1, <1>2, ConnectionAssumption DEF Least
<1>5. CASE f.crash \/ block = 0
  <2>1. d = f
    BY <1>2, <1>5 DEF PlainTransferSend
  <2> QED
    BY <1>1, <1>4, <1>5, <2>1 DEF Written
<1>6. CASE ~f.crash /\ block > 0 /\ reset
  <2>1. PICK out : out = LtrimBuffer(f.out, -1)
    OBVIOUS
  <2>2. d \in {Crash(f), [f EXCEPT !.out = out]}
    BY <1>2, <1>6, <2>1 DEF PlainTransferSend
  <2> QED
    BY <1>6, <2>2 DEF Written, Crash, IsClient, Fields
<1>7. CASE ~f.crash /\ block > 0 /\ ~reset
  <2>1. k \in 1..len /\ k <= block
    BY <1>3, <1>4, <1>7, ConnectionAssumption DEF Least
  <2>2. PICK wire, out, short : /\ wire = f.wire \o SubSeq(f.out, 1, k)
                                /\ out = LtrimBuffer(f.out, k)
                                /\ short = (k < block)
    OBVIOUS
  <2>3. d = [f EXCEPT !.wire = wire, !.short = short, !.out = out]
    BY <1>2, <1>3, <1>7, <2>2 DEF PlainTransferSend
  <2>4. out = SubSeq(f.out, k + 1, Len(f.out))
    BY <1>1, <2>1, <2>2 DEF LtrimBuffer
  <2>5. /\ d.active = f.active /\ d.open = f.open /\ d.cut = f.cut /\ d.in = f.in
        /\ d.outh = f.outh /\ d.pump = f.pump /\ d.progress = f.progress
        /\ d.pos = f.pos /\ d.completed = f.completed /\ d.crash = f.crash
        /\ d.wire = wire /\ d.short = short /\ d.out = out
    BY <2>3 DEF IsClient, Fields
  <2>6. len < NBS /\ k < len => short
    BY <1>4, <2>2
  <2> QED
    BY <1>1, <1>7, <2>1, <2>2, <2>4, <2>5, <2>6 DEF Written
<1> QED
  BY <1>2, <1>5, <1>6, <1>7

Kept(f, d) ==
    /\ Placed(d.wire) /\ Headed(d) /\ Queued(d) /\ Reading(d) /\ Completing(d)
    /\ Heads(d.wire) = Heads(f.wire) /\ \A i \in Heads(f.wire) : d.wire[i] = f.wire[i]
    /\ Own(d.wire) => Own(f.wire) /\ Since(d.wire) >= Since(f.wire) /\ Due(d.wire) = Due(f.wire)
    /\ Since(f.wire) \in Nat /\ Since(d.wire) \in Nat

\* Units that go out move what is left of the buffer to the place where the wire ends.
LEMMA BlockKeeps ==
    ASSUME NEW n \in Nat, NEW f, IsClient(f, n), Headed(f), Queued(f), Reading(f), Closing(f),
           Placed(f.wire), ~reset, f.crash => Completing(f), NEW d, Written(f, d, n)
    PROVE  Kept(f, d)
<1>1. PICK w \in Wire(n), out \in Seq(Unit(n)) : w = f.wire /\ out = f.out
  BY DEF IsClient
<1>2. PICK len \in Nat, since \in Nat : len = Len(out) /\ since = Since(w)
  BY SinceNat
<1>3. CASE d = f /\ (f.crash \/ f.out = <<>>)
  <2>1. Completing(f)
    <3>1. CASE f.out = <<>>
      BY <3>1 DEF Closing, Completing
    <3> QED
      BY <1>3, <3>1
  <2> QED
    BY <1>1, <1>2, <1>3, <2>1 DEF Kept
<1>4. ASSUME NEW k \in 1..Len(f.out),
             d.wire = f.wire \o SubSeq(f.out, 1, k), d.out = SubSeq(f.out, k + 1, Len(f.out)),
             Len(f.out) < NBS /\ k < Len(f.out) => d.short
      PROVE  Kept(f, d)
  <2>1. PICK u, v, rest : u = SubSeq(out, 1, k) /\ v = w \o u /\ rest = SubSeq(out, k + 1, len)
    OBVIOUS
  <2>2. d.wire = v /\ d.out = rest
    BY <1>1, <1>2, <1>4, <2>1
  <2>3. /\ u \in Seq(Unit(n)) /\ Len(u) = k /\ (\A i \in 1..k : u[i] = out[i])
        /\ rest \in Seq(Unit(n)) /\ Len(rest) = len - k
        /\ \A i \in 1 .. len - k : rest[i] = out[k + i]
        /\ k \in 1..len
    <3>1. k \in 1..len
      BY <1>1, <1>2, <1>4
    <3>2. u \in Seq(Unit(n)) /\ Len(u) = k /\ (\A i \in 1..k : u[i] = out[i])
      BY <1>2, <2>1, <3>1
    <3>3. rest \in Seq(Unit(n)) /\ Len(rest) = len - k
      BY <1>2, <2>1, <3>1
    <3>4. \A i \in 1 .. len - k : rest[i] = out[k + i]
      BY <1>2, <2>1, <3>1
    <3> QED
      BY <3>1, <3>2, <3>3, <3>4
  <2>4. /\ v \in Wire(n) /\ Since(v) = since + k
        /\ Own(v) <=> Own(w)
        /\ LastHead(w) # 0 => v[LastHead(w)] = w[LastHead(w)]
        /\ LastHead(v) = LastHead(w) /\ Heads(v) = Heads(w)
        /\ Own(w) => Due(v) = Due(w)
    <3>1. u \in Seq(Unit(n)) /\ v = w \o u
      BY <2>1, <2>3
    <3>2. Follows(n, w, u, v)
      BY <3>1, UnitsFollow, Zenon
    <3> QED
      BY <1>2, <2>3, <3>2 DEF Follows
  <2>5. GoesOn(n, w, u, v)
    BY <2>1, <2>3, UnitsHeads
  <2>6. \A i \in Heads(w) : v[i] = w[i]
    <3>1. Heads(w) \subseteq 1..Len(w)
      BY DEF Heads
    <3> QED
      BY <2>5, <3>1 DEF GoesOn
  <2>7. LastHead(w) # 0
    BY <1>1, <1>2, <2>3 DEF Headed
  <2>8. Own(w) => \A i \in 1..len : out[i][1] = "file" =>
                     out[i] = <<"file", w[LastHead(w)][2], since + i>>
    BY <1>1, <1>2 DEF Queued
  <2>9. Placed(v)
    <3>1. \A i \in 1..Len(u) : u[i][1] = "file" =>
             /\ LastHead(w) # 0
             /\ Own(w) => u[i] = <<"file", w[LastHead(w)][2], Since(w) + i>>
      BY <1>2, <2>3, <2>7, <2>8, SMTT(60)
    <3>2. u \in Seq(Unit(n)) /\ v = w \o u /\ Placed(w)
      BY <1>1, <2>1, <2>3
    <3> QED
      BY <3>1, <3>2, UnitsPlaced, Zenon
  <2>10. d.outh = f.outh /\ d.pump = f.pump /\ d.pos = f.pos /\ d.completed = f.completed
         /\ d.active = f.active
    BY DEF Written
  <2>11. Headed(d)
    BY <1>1, <1>2, <2>2, <2>3, <2>4, <2>7, <2>10, SMTT(60) DEF Headed
  <2>12. Queued(d)
    <3> SUFFICES ASSUME Own(w), NEW i \in 1..Len(rest), rest[i][1] = "file"
                 PROVE  rest[i] = <<"file", w[LastHead(w)][2], (since + k) + i>>
      BY <2>2, <2>4, <2>7 DEF Queued
    <3>1. k + i \in 1..len /\ rest[i] = out[k + i]
      BY <2>3
    <3>2. since + (k + i) = (since + k) + i
      BY <2>3
    <3> QED
      BY <2>8, <3>1, <3>2
  <2>13. Reading(d)
    <3> SUFFICES ASSUME Own(w), f.pump # 0
                 PROVE  /\ w[LastHead(w)][2] = f.pump /\ Due(w) = sent[f.pump].size
                        /\ f.pos <= sent[f.pump].size /\ (since + k) + (len - k) = f.pos
      BY <2>2, <2>3, <2>4, <2>7, <2>10 DEF Reading
    <3>1. (since + k) + (len - k) = since + len
      BY <2>3
    <3>2. out # <<>>
      BY <1>2, <2>3
    <3> QED
      BY <1>1, <1>2, <3>1, <3>2 DEF Reading
  <2>14. Completing(d)
    <3> SUFFICES ASSUME ~fin, f.completed
                 PROVE  /\ f.active => f.pump # 0
                        /\ Own(w) /\ f.pump # 0 =>
                              /\ (since + k) + (len - k) >= Due(w)
                              /\ rest # <<>> => d.short /\ len - k < NBS
      BY <2>2, <2>3, <2>4, <2>10 DEF Completing
    <3>1. f.active => f.pump # 0
      BY DEF Closing
    <3>2. ASSUME Own(w), f.pump # 0
          PROVE  /\ (since + k) + (len - k) >= Due(w)
                 /\ rest # <<>> => d.short /\ len - k < NBS
      <4>1. since + len >= Due(w) /\ len < NBS
        BY <1>1, <1>2, <3>2 DEF Closing
      <4>2. (since + k) + (len - k) = since + len
        BY <2>3
      <4>3. rest # <<>> => k < len
        BY <2>3, NoLength
      <4>4. len - k < NBS
        BY <2>3, <4>1, ConnectionAssumption
      <4> QED
        BY <1>1, <1>2, <1>4, <4>1, <4>2, <4>3, <4>4
    <3> QED
      BY <3>1, <3>2
  <2>15. since + k >= since /\ since + k \in Nat
    BY <2>3
  <2> QED
    BY <1>1, <1>2, <2>2, <2>4, <2>6, <2>9, <2>11, <2>12, <2>13, <2>14, <2>15 DEF Kept
<1> QED
  BY <1>3, <1>4 DEF Written

LEMMA HandleOutDelivers ==
    ASSUME IInv, DeliveryInv, NEW killed \in BOOLEAN, NEW taken \in 1..NBS, HandleOut(killed, taken)
    PROVE  DeliveryInv'
<1>1. PICK n, c, d : n \in Nat /\ n = Len(sent) /\ c = client /\ d = client'
  BY DEF IInv
<1>2. /\ IsClient(c, n) /\ UNCHANGED <<sent, half, net, fin, reset>> /\ revents' = {} /\ pc' = "build"
      /\ d = PlainTransferSend(c, killed, taken)
      /\ ~c.crash /\ sent \in Seq(Requests) /\ c.active /\ (~c.open => ~c.active)
  BY <1>1 DEF IInv, DeliveryInv, Events, HandleOut, Running, peerVars
<1>3. Exchange(c, net, half, n) /\ Distinctly(c.wire) /\ Orderly(c) /\ Appends(c, net, half)
  BY <1>1 DEF DeliveryInv
<1>4. PICK f : f = FillFromFile(c)
  OBVIOUS
<1>5. IsClient(f, n)
  BY <1>1, <1>2, <1>4, FillFromFileSilent DEF Silent
<1>6. PICK size \in Nat : c.pump # 0 => size = sent[c.pump].size
  <2>1. CASE c.pump # 0
    <3>1. sent[c.pump] \in Request
      BY <1>1, <1>2, <2>1, ConnectionAssumption DEF IsClient
    <3> QED
      BY <3>1 DEF Request
  <2>2. CASE c.pump = 0
    BY <2>2
  <2> QED
    BY <2>1, <2>2
<1>7. Filled(c, f, size)
  BY <1>1, <1>2, <1>4, <1>6, FillFills
<1>8. Written(f, d, n)
  BY <1>1, <1>2, <1>4, <1>5, SendWrites
<1>9. /\ d.active = c.active /\ d.open = c.open /\ d.cut = c.cut /\ d.in = c.in
      /\ d.pump = c.pump /\ d.progress = c.progress /\ f.wire = c.wire
      /\ d.pos \in Nat /\ d.pos >= c.pos
  <2>1. f.pos \in Nat /\ f.pos >= c.pos
    <3>1. c.pos \in Nat
      BY <1>2 DEF IsClient
    <3> QED
      BY <1>7, <3>1 DEF Filled
  <2> QED
    BY <1>7, <1>8, <2>1 DEF Filled, Written
<1>10. /\ Placed(d.wire)
       /\ ~reset => Headed(d) /\ Queued(d) /\ Reading(d) /\ Completing(d)
       /\ Heads(d.wire) = Heads(c.wire) /\ \A i \in Heads(c.wire) : d.wire[i] = c.wire[i]
       /\ Own(d.wire) => Own(c.wire) /\ Since(d.wire) >= Since(c.wire) /\ Due(d.wire) = Due(c.wire)
       /\ Since(c.wire) \in Nat /\ Since(d.wire) \in Nat
  <2>1. Placed(f.wire)
    BY <1>3, <1>9 DEF Orderly
  <2>2. CASE reset
    <3>1. d.wire = c.wire
      BY <1>8, <1>9, <2>2 DEF Written
    <3>2. Since(c.wire) \in Nat
      BY <1>1, <1>2, SinceNat DEF IsClient
    <3> QED
      BY <1>9, <2>1, <2>2, <3>1, <3>2
  <2>3. CASE ~reset
    <3>1. Headed(f) /\ Queued(f) /\ Reading(f) /\ Closing(f) /\ (f.crash => Completing(f))
      BY <1>1, <1>2, <1>3, <1>6, <1>7, <2>3, FillKeeps
    <3>2. Kept(f, d)
      BY <1>1, <1>5, <1>8, <2>1, <2>3, <3>1, BlockKeeps
    <3> QED
      BY <1>9, <3>2 DEF Kept
  <2> QED
    BY <2>2, <2>3
<1>11. Heard(d) => Heard(c)
  BY <1>2, <1>9 DEF Heard
<1>12. Exchange(d, net, half, n) /\ Distinctly(d.wire)
  BY <1>3, <1>9, <1>10, <1>11, QuietExchange
<1>13. Orderly(d)
  BY <1>2, <1>3, <1>9, <1>10 DEF Orderly, Delivered
<1>14. Appends(d, net, half)
  <2> SUFFICES ASSUME c.pump # 0, Own(d.wire), half \/ net # <<>> \/ c.in # <<>>
               PROVE  Since(d.wire) >= Due(d.wire) /\ d.pos >= sent[c.pump].size
    BY <1>9 DEF Appends
  <2>1. Since(c.wire) >= Due(c.wire) /\ c.pos >= size
    BY <1>3, <1>6, <1>10 DEF Appends
  <2>2. Due(c.wire) \in Nat /\ c.pos \in Nat
    BY <1>1, <1>2, <1>10, DueNat DEF IsClient, Own
  <2>3. Since(d.wire) >= Due(c.wire)
    BY <1>10, <2>1, <2>2
  <2>4. d.pos >= size
    BY <1>9, <2>1, <2>2
  <2> QED
    BY <1>6, <1>10, <2>3, <2>4
<1>15. Events'
  BY <1>1, <1>2, <1>9 DEF Events
<1> QED
  BY <1>1, <1>2, <1>12, <1>13, <1>14, <1>15, ServerDelivers

-----------------------------------------------------------------------------
(* The peer. *)

\* A peer that has its answer has all of it, and nothing of its own is on the way.
LEMMA AnsweredRests ==
    ASSUME NEW n \in Nat, n = Len(sent), NEW c, c = client, IsClient(c, n),
           Exchange(c, net, half, n), Answered
    PROVE  /\ Resting(c, net, half, n)
           /\ n # 0 => Since(c.wire) >= Due(c.wire)
<1>1. PICK w \in Wire(n) : w = c.wire
  BY DEF IsClient
<1>2. Cardinality(Heads(w)) \in Nat
  BY HeadsFinite DEF Wire
<1>3. \/ n = 0
      \/ Cardinality(Heads(w)) = n /\ Since(w) >= Due(w)
  <2>1. sent = <<>> => n = 0
    OBVIOUS
  <2> QED
    BY <1>1, <2>1 DEF Answered, Since, Due
<1>4. Resting(c, net, half, n)
  <2>1. Cardinality(Heads(w)) + 1 # n
    BY <1>2, <1>3
  <2> QED
    BY <1>1, <2>1 DEF Exchange, Asking
<1> QED
  BY <1>1, <1>3, <1>4

\* Of the requests that were sent nothing is forgotten.
LEMMA StillReading ==
    ASSUME NEW n \in Nat, NEW c, IsClient(c, n), n = Len(sent),
           \A i \in 1..n : sent'[i] = sent[i], UNCHANGED <<client, fin, reset>>, client = c, Orderly(c)
    PROVE  Orderly(client)'
<1>1. c.pump # 0 => c.pump \in 1..n
  BY DEF IsClient
<1>2. ~reset => Reading(client)'
  BY <1>1 DEF Orderly, Reading
<1> QED
  BY <1>2 DEF Orderly, Delivered, Headed, Queued, Completing

LEMMA PeerSendDelivers ==
    ASSUME Patient, IInv, DeliveryInv, NEW r \in Requests, NEW whole \in BOOLEAN, PeerSend(r, whole)
    PROVE  DeliveryInv'
<1>1. PICK n, c : n \in Nat /\ n = Len(sent) /\ c = client
  BY DEF IInv
<1>2. /\ IsClient(c, n) /\ Exchange(c, net, half, n) /\ Distinctly(c.wire) /\ Orderly(c) /\ Events
      /\ client' = c /\ UNCHANGED <<client, fin, reset, pc, revents>>
      /\ sent \in Seq(Requests) /\ sent' = Append(sent, r)
      /\ Answered /\ ~reset
  BY <1>1 DEF IInv, DeliveryInv, PeerSend, Patient
<1>3. Resting(c, net, half, n) /\ (n # 0 => Since(c.wire) >= Due(c.wire))
  BY <1>1, <1>2, AnsweredRests
<1>4. PICK piece : piece = [req |-> n + 1, part |-> IF whole THEN "whole" ELSE "begin"]
  OBVIOUS
<1>5. half' = ~whole /\ net' = <<piece>> /\ Len(sent') = n + 1 /\ \A i \in 1..n : sent'[i] = sent[i]
  <2>1. net = <<>> /\ half' = ~whole /\ net' = Append(net, piece)
    BY <1>1, <1>3, <1>4 DEF PeerSend, Resting
  <2>2. net' = <<piece>>
    BY <2>1
  <2> QED
    BY <1>1, <1>2, <2>1, <2>2
<1>6. Flying(<<piece>>, ~whole, n + 1)
  <2>1. \A i \in 1..Len(<<piece>>) : i = Len(<<piece>>) /\ <<piece>>[i] = piece
    OBVIOUS
  <2>2. piece.req = n + 1 /\ (~whole => piece.part = "begin")
    BY <1>4
  <2> QED
    BY <2>1, <2>2 DEF Flying
<1>7. Asking(c, <<piece>>, ~whole, n + 1)
  <2>1. n + 1 - 1 = n
    BY <1>1
  <2>2. Heard(c) => Waiting(c.in, <<piece>>, ~whole, n + 1)
    <3>1. \A i \in 1..Len(<<>>) : FALSE
      OBVIOUS
    <3>2. Heard(c) => c.in = <<>>
      BY <1>3 DEF Resting
    <3> QED
      BY <3>1, <3>2 DEF Waiting
  <2> QED
    BY <1>1, <1>3, <1>6, <2>1, <2>2 DEF Asking, Resting
<1>8. Exchange(client', net', half', Len(sent')) /\ Distinctly(client'.wire)
  BY <1>2, <1>5, <1>7 DEF Exchange
<1>9. Orderly(client)'
  BY <1>1, <1>2, <1>5, StillReading
<1>10. Appends(client, net, half)'
  <2> SUFFICES ASSUME c.pump # 0, Own(c.wire)
               PROVE  Since(c.wire) >= Due(c.wire) /\ c.pos >= sent'[c.pump].size
    BY <1>2 DEF Appends
  <2>1. c.pump \in 1..n /\ n # 0
    BY <1>1, <1>2 DEF IsClient
  <2>2. Since(c.wire) >= Due(c.wire) /\ Reading(c)
    BY <1>2, <1>3, <2>1 DEF Orderly
  <2>3. c.pos >= sent[c.pump].size
    BY <1>1, <1>2, <2>2, ReadToTheEnd
  <2> QED
    BY <1>5, <2>1, <2>2, <2>3
<1>11. Events'
  BY <1>1, <1>2, <1>5 DEF Events
<1> QED
  BY <1>8, <1>9, <1>10, <1>11 DEF DeliveryInv

LEMMA PeerSendRestDelivers ==
    ASSUME IInv, DeliveryInv, PeerSendRest
    PROVE  DeliveryInv'
<1>1. PICK n, c, flight : n \in Nat /\ n = Len(sent) /\ c = client /\ flight = net
  BY DEF IInv
<1>2. PICK piece : piece = [req |-> n, part |-> "rest"]
  OBVIOUS
<1>3. /\ flight \in Seq(Piece(n)) /\ Exchange(c, flight, half, n) /\ half = TRUE
      /\ IsClient(c, n) /\ Orderly(c) /\ Appends(c, flight, half) /\ Distinctly(c.wire)
      /\ UNCHANGED <<client, sent, fin, reset, pc, revents>> /\ client' = c
      /\ half' = FALSE /\ net' = Append(flight, piece)
  BY <1>1, <1>2 DEF IInv, DeliveryInv, PeerSendRest
<1>4. Asking(c, flight, TRUE, n)
  BY <1>3 DEF Exchange, Resting
<1>5. PICK longer : longer = Append(flight, piece)
  OBVIOUS
<1>6. Flying(longer, FALSE, n) /\ longer # <<>>
  <2>1. PICK len \in Nat : len = Len(flight)
    BY <1>3
  <2>2. /\ Len(longer) = len + 1 /\ longer[len + 1] = piece
        /\ \A i \in 1..len : longer[i] = flight[i]
    BY <1>3, <1>5, <2>1
  <2>3. Flying(flight, TRUE, n)
    BY <1>4 DEF Asking
  <2>4. ASSUME NEW i \in 1..Len(longer)
        PROVE  longer[i].req = n /\ (i < Len(longer) => longer[i].part = "begin")
    <3>1. CASE i \in 1..len
      BY <2>1, <2>2, <2>3, <3>1 DEF Flying
    <3>2. CASE i = len + 1
      BY <1>2, <2>1, <2>2, <3>2
    <3> QED
      BY <2>1, <2>2, <2>4, <3>1, <3>2
  <2> QED
    BY <1>3, <1>5, <2>4 DEF Flying
<1>7. Asking(c, longer, FALSE, n)
  <2>1. Waiting(c.in, flight, TRUE, n) => Waiting(c.in, longer, FALSE, n)
    BY DEF Waiting
  <2> QED
    BY <1>4, <1>6, <2>1 DEF Asking
<1>8. Exchange(client', net', half', Len(sent')) /\ Distinctly(client'.wire)
  BY <1>1, <1>3, <1>5, <1>7 DEF Exchange
<1>9. Orderly(client)'
  BY <1>1, <1>3, StillReading
<1>10. Appends(client, net, half)'
  BY <1>1, <1>3 DEF Appends
<1>11. Events'
  <2>1. net' # <<>>
    BY <1>3
  <2> QED
    BY <1>3, <2>1 DEF DeliveryInv, Events
<1> QED
  BY <1>8, <1>9, <1>10, <1>11 DEF DeliveryInv

\* Less is owed to a peer that has shut down its side or gone away.
LEMMA PeerLeavesDelivers ==
    ASSUME DeliveryInv, PeerFin \/ PeerReset
    PROVE  DeliveryInv'
<1>1. /\ UNCHANGED <<client, sent, half, net, pc, revents>>
      /\ fin => fin'
      /\ reset => reset'
  BY DEF PeerFin, PeerReset
<1>2. Exchange(client, net, half, Len(sent))' /\ Appends(client, net, half)'
  BY <1>1 DEF DeliveryInv, Appends
<1>3. Orderly(client)'
  BY <1>1 DEF DeliveryInv, Orderly, Delivered, Headed, Queued, Reading, Completing
<1>4. Events'
  BY <1>1 DEF DeliveryInv, Events
<1> QED
  BY <1>1, <1>2, <1>3, <1>4 DEF DeliveryInv

-----------------------------------------------------------------------------
(* The theorems. *)

LEMMA InitDelivers ==
    ASSUME Init
    PROVE  DeliveryInv
<1>1. /\ client.wire = <<>> /\ client.out = <<>> /\ client.in = <<>> /\ client.outh = <<>>
      /\ client.pump = 0 /\ client.active = TRUE /\ client.open = TRUE /\ client.completed = FALSE
      /\ sent = <<>> /\ net = <<>> /\ half = FALSE /\ revents = {}
  BY DEF Init, NewClient
<1>2. \A i \in 1..Len(<<>>) : FALSE
  OBVIOUS
<1>3. Heads(<<>>) = {}
  BY <1>2 DEF Heads
<1>4. Cardinality(Heads(client.wire)) = 0
  BY <1>1, <1>3, FS_EmptySet
<1>5. Len(sent) = 0
  BY <1>1
<1>6. Exchange(client, net, half, Len(sent)) /\ Distinctly(client.wire)
  BY <1>1, <1>3, <1>4, <1>5 DEF Exchange, Resting, Reach, Distinctly
<1>7. Orderly(client) /\ Appends(client, net, half)
  BY <1>1, <1>2 DEF Orderly, Placed, Delivered, Headed, Queued, Reading, Completing, Appends
<1> QED
  BY <1>1, <1>6, <1>7 DEF DeliveryInv, Events

LEMMA NextDelivers ==
    ASSUME Patient, IInv, DeliveryInv, [Next]_vars
    PROVE  DeliveryInv'
<1>1. CASE UNCHANGED vars
  <2>1. UNCHANGED <<client, sent, half, net, fin, reset, pc, revents>>
    BY <1>1 DEF vars, peerVars
  <2>2. Orderly(client)' /\ Appends(client, net, half)'
    BY <2>1 DEF DeliveryInv, Orderly, Delivered, Headed, Queued, Reading, Completing, Appends
  <2> QED
    BY <2>1, <2>2 DEF DeliveryInv, Events
<1>2. CASE Peer
  <2>1. CASE \E r \in Requests, whole \in BOOLEAN : PeerSend(r, whole)
    BY <2>1, PeerSendDelivers
  <2>2. CASE PeerSendRest
    BY <2>2, PeerSendRestDelivers
  <2>3. CASE PeerFin \/ PeerReset
    BY <2>3, PeerLeavesDelivers
  <2> QED
    BY <1>2, <2>1, <2>2, <2>3 DEF Peer
<1>3. CASE ServiceThread
  <2>1. CASE FinishTransfer
    BY <2>1, FinishDelivers
  <2>2. CASE \E behind \in Behind, header \in {"short", "nohttp"}, wild \in BOOLEAN :
                Service(behind, header, wild)
    BY <2>2, ServiceDelivers
  <2>3. CASE \E writable \in BOOLEAN : Poll(writable)
    BY <2>3, PollDelivers
  <2>4. CASE HandleHup
    BY <2>4, HandleHupDelivers
  <2>5. CASE \E k \in 0..Len(net) : HandleIn(k)
    BY <2>5, HandleInDelivers
  <2>6. CASE \E killed \in BOOLEAN, taken \in 1..NBS : HandleOut(killed, taken)
    BY <2>6, HandleOutDelivers
  <2> QED
    BY <1>3, <2>1, <2>2, <2>3, <2>4, <2>5, <2>6 DEF ServiceThread
<1>4. CASE DeleteClient
  BY <1>4, DeleteDelivers
<1> QED
  BY <1>1, <1>2, <1>3, <1>4 DEF Next

\* With a patient peer the invariant holds in every state, of any number of requests.
THEOREM Delivery ==
    ASSUME Patient
    PROVE  Spec => []DeliveryInv
<1>1. Init => DeliveryInv
  BY InitDelivers
<1>2. IInv /\ DeliveryInv /\ [Next]_vars => DeliveryInv'
  BY NextDelivers
<1>3. Spec => []IInv
  BY Inductive
<1> QED
  BY <1>1, <1>2, <1>3, PTL DEF Spec

\* plain_transfer_send: the file's units reach such a peer in order, without a gap, right
\* behind the head of their response, through every pass of service_clients and however
\* little of a block send takes.
THEOREM FilesArriveInOrder ==
    ASSUME Patient
    PROVE  Spec => []BodyInOrder
<1>1. DeliveryInv => BodyInOrder
  BY DEF DeliveryInv, Orderly, Placed, BodyInOrder
<1> QED
  BY <1>1, Delivery, PTL

\* service_clients and dispatch_request: the server gives such a peer's connection up only
\* when all that its last response announced is written, but for what send left of a block.
THEOREM NothingIsCutShort ==
    ASSUME Patient
    PROVE  Spec => []ClosedOnlyWhenDelivered
<1>1. DeliveryInv => ClosedOnlyWhenDelivered
  <2> SUFFICES ASSUME DeliveryInv, ~client.active, ~client.crash, ~fin, ~reset, Own(client.wire)
               PROVE  Since(client.wire) + (IF client.short THEN NBS - 1 ELSE 0) >= Due(client.wire)
    BY DEF Own, Since, Due, ClosedOnlyWhenDelivered
  <2> QED
    BY DEF DeliveryInv, Orderly, Delivered
<1> QED
  BY <1>1, Delivery, PTL

\* plain_transfer_recv writes what arrives to the file that is open: what such a peer sends
\* finds the file read to its end, makes it longer, and overwrites nothing of it.
THEOREM FilesOnlyGrow ==
    ASSUME Patient
    PROVE  Spec => []UploadsOnlyAppend
<1>1. DeliveryInv => UploadsOnlyAppend
  BY DEF DeliveryInv, Appends, Own, UploadsOnlyAppend
<1> QED
  BY <1>1, Delivery, PTL

\* parse_request: it never finds a request again that dispatch_request has answered.
THEOREM NoSecondAnswer ==
    ASSUME Patient
    PROVE  Spec => []AnsweredOnce
<1>1. IInv /\ DeliveryInv => AnsweredOnce
  <2> SUFFICES ASSUME IInv, DeliveryInv,
                      NEW i \in Heads(client.wire), NEW j \in Heads(client.wire),
                      client.wire[i][2] = client.wire[j][2]
               PROVE  i = j
    BY DEF AnsweredOnce
  <2>1. PICK n, w : n \in Nat /\ n = Len(sent) /\ w = client.wire
    BY DEF IInv
  <2>2. w \in Wire(n) /\ Distinctly(w)
    BY <2>1 DEF IInv, IsClient, DeliveryInv
  <2>3. w \in Seq(Unit(n) \cup HeadOf(n))
    BY <2>2 DEF Wire
  <2>4. /\ i \in Nat /\ j \in Nat
        /\ w[i] \in Unit(n) \cup HeadOf(n) /\ IsHead(w[i])
        /\ w[j] \in Unit(n) \cup HeadOf(n) /\ IsHead(w[j])
    BY <2>1, <2>3 DEF Heads
  <2>5. \A x \in Unit(n) \cup HeadOf(n) : IsHead(x) => x[2] \in Nat
    BY DEF Unit, HeadOf, IsHead
  <2>6. w[i][2] \in Nat /\ w[j][2] \in Nat
    BY <2>4, <2>5
  <2>7. ~(i < j) /\ ~(j < i)
    BY <2>1, <2>2, <2>6 DEF Distinctly
  <2> QED
    BY <2>4, <2>7
<1>2. Spec => []IInv
  BY Inductive
<1> QED
  BY <1>1, <1>2, Delivery, PTL
=============================================================================
