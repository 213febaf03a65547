---------------------------- MODULE PercentProofs ----------------------------
(***************************************************************************)
(* percent_decode stays behind its own reading and inside its buffer, for  *)
(* every alphabet and every URI.                                           *)
(***************************************************************************)
EXTENDS Percent, FiniteSetTheorems, TLAPS

\* How far ll can be from the length of the URI.
LengthInv ==
    \/ ll = Len(original)
    \/ build = "beside" /\ ll = 0
    \/ build = "beside" /\ NegativeEscape(original)

\* The length is lost only where a number is stored.
StoredInv == ll # Len(original) => t \in Bytes

IInv == TypeOK /\ WritesBehindReads /\ LengthInv /\ StoredInv /\ StaysInside

\* A number that sscanf stores fits an int, and has a minus sign if it is negative.
LEMMA ScannedNumbers ==
    ASSUME NEW a \in Bytes, NEW b \in Bytes, NEW n \in Scanned(a, b)
    PROVE  /\ n \in -15..255
           /\ n < 0 => a = Minus /\ b \in HexDigits
<1>1. \A c \in HexDigits : HexValue(c) \in 0..15
  BY DEF HexDigits, HexValue
<1>2. CASE a \in HexDigits
  <2>1. CASE b \in HexDigits
    <3>1. n = 16 * HexValue(a) + HexValue(b)
      BY <1>2, <2>1 DEF Scanned
    <3> QED BY <1>1, <1>2, <2>1, <3>1
  <2>2. CASE b \notin HexDigits
    BY <1>1, <1>2, <2>2 DEF Scanned
  <2> QED BY <2>1, <2>2
<1>3. CASE a \notin HexDigits /\ b \in HexDigits /\ a = Plus
  BY <1>1, <1>3 DEF Scanned
<1>4. CASE a \notin HexDigits /\ b \in HexDigits /\ a = Minus
  BY <1>1, <1>4 DEF Scanned, Plus, Minus
<1>5. CASE a \notin HexDigits /\ ~(b \in HexDigits /\ (a = Plus \/ a = Minus))
  BY <1>5 DEF Scanned
<1> QED BY <1>2, <1>3, <1>4, <1>5

\* A character of the buffer is a byte, behind its end too.
LEMMA AtBytes ==
    ASSUME uri \in Seq(Bytes), NEW k \in Nat
    PROVE  At(k) \in Bytes
<1>1. NUL \in Bytes
  BY DEF NUL, Bytes
<1>2. CASE k < Len(uri)
  <2>1. k + 1 \in 1..Len(uri)
    BY <1>2
  <2>2. uri[k + 1] \in Bytes
    BY <2>1
  <2> QED BY <1>2, <2>2 DEF At
<1>3. CASE ~(k < Len(uri))
  BY <1>1, <1>3 DEF At
<1> QED BY <1>2, <1>3

\* What lands on ll is a length.
LEMMA UpperBytesLength ==
    ASSUME NEW n \in Int
    PROVE  /\ UpperBytes(n) \in Nat
           /\ n >= 0 => UpperBytes(n) = 0
BY SMT DEF UpperBytes

LEMMA InitInv == Init => IInv
<1> SUFFICES ASSUME Init PROVE IInv
  OBVIOUS
<1>1. PICK n \in 0..MaxUri : original \in [1..n -> Alphabet]
  BY DEF Init
<1>2. PICK s : s = original
  OBVIOUS
<1>3. /\ n \in Nat
      /\ s \in [1..n -> Alphabet]
  BY <1>1, <1>2, PercentAssumption
<1>4. s \in Seq(Alphabet) /\ s \in [1..n -> Bytes]
  <2>1. Alphabet \subseteq Bytes
    BY PercentAssumption DEF Bytes
  <2>2. s \in Seq(Alphabet)
    BY <1>3
  <2>3. s \in [1..n -> Bytes]
    BY <1>3, <2>1
  <2> QED BY <2>2, <2>3
<1>5. s \in Seq(Bytes)
  BY <1>3, <1>4
<1> QED BY <1>2, <1>4, <1>5 DEF Init, IInv, TypeOK, WritesBehindReads, LengthInv, StoredInv, StaysInside

LEMMA LiteralInv == IInv /\ Literal => IInv'
<1> SUFFICES ASSUME IInv, Literal PROVE IInv'
  OBVIOUS
<1>1. /\ o \in Nat
      /\ o + 1 \in 1..Len(uri)
      /\ At(i) \in Bytes
  BY AtBytes DEF IInv, TypeOK, WritesBehindReads, Literal, Turn
<1>2. /\ uri' \in Seq(Bytes)
      /\ Len(uri') = Len(uri)
      /\ \A k \in 1..Len(uri) : k # o + 1 => uri'[k] = uri[k]
  BY <1>1 DEF IInv, TypeOK, Literal
<1>3. TypeOK'
  BY <1>1, <1>2 DEF IInv, TypeOK, Literal
<1>4. WritesBehindReads'
  BY <1>1, <1>2 DEF IInv, TypeOK, WritesBehindReads, Literal
<1>5. LengthInv' /\ StoredInv' /\ StaysInside'
  BY DEF IInv, LengthInv, StoredInv, StaysInside, NegativeEscape, Literal, Turn
<1> QED BY <1>3, <1>4, <1>5 DEF IInv

LEMMA DecodeInv == IInv /\ Decode => IInv'
<1> SUFFICES ASSUME IInv, Decode PROVE IInv'
  OBVIOUS
<1>1. PICK n \in Numbers :
         /\ t' = n % 256
         /\ uri' = [uri EXCEPT ![o + 1] = n % 256]
         /\ ll' = IF build = "beside" THEN UpperBytes(n) ELSE ll
  BY DEF Decode
<1>2. /\ ll >= i + 2
      /\ n \in Scanned(At(i + 1), At(i + 2))
  BY DEF Numbers, Scans
<1>3. /\ o \in Nat
      /\ i \in Nat
      /\ o + 1 \in 1..Len(uri)
      /\ At(i + 1) \in Bytes
      /\ At(i + 2) \in Bytes
  BY AtBytes DEF IInv, TypeOK, WritesBehindReads, Decode, Turn
<1>4. /\ n \in -15..255
      /\ n < 0 => At(i + 1) = Minus /\ At(i + 2) \in HexDigits
  BY <1>2, <1>3, ScannedNumbers
<1>5. n % 256 \in Bytes
  BY <1>4 DEF Bytes
<1>6. /\ uri' \in Seq(Bytes)
      /\ Len(uri') = Len(uri)
      /\ \A k \in 1..Len(uri) : k # o + 1 => uri'[k] = uri[k]
  BY <1>1, <1>3, <1>5 DEF IInv, TypeOK
<1>7. TypeOK'
  <2>1. ll' \in Nat
    BY <1>1, <1>4, UpperBytesLength DEF IInv, TypeOK
  <2> QED BY <1>1, <1>3, <1>5, <1>6, <2>1 DEF IInv, TypeOK, Decode
<1>8. WritesBehindReads'
  BY <1>3, <1>6 DEF IInv, TypeOK, WritesBehindReads, Decode
<1>9. LengthInv'
  <2>1. CASE build # "beside"
    BY <1>1, <2>1 DEF IInv, LengthInv, NegativeEscape, Decode
  <2>2. CASE build = "beside" /\ n >= 0
    BY <1>1, <1>4, <2>2, UpperBytesLength DEF LengthInv, Decode
  <2>3. CASE build = "beside" /\ n < 0
    <3>1. i + 2 < Len(uri)
      BY <1>3, <1>4, <2>3 DEF At, NUL, HexDigits, IInv, TypeOK
    <3>2. /\ uri[i + 1] = Percent
          /\ uri[i + 2] = Minus
          /\ uri[i + 3] \in HexDigits
      BY <1>3, <1>4, <2>3, <3>1 DEF At, Decode, IInv, TypeOK
    <3>3. /\ original[i + 1] = Percent
          /\ original[i + 2] = Minus
          /\ original[i + 3] \in HexDigits
      BY <1>3, <3>1, <3>2 DEF IInv, TypeOK, WritesBehindReads
    <3>4. /\ i + 1 \in 1..(Len(original) - 2)
          /\ i + 2 = (i + 1) + 1
          /\ i + 3 = (i + 1) + 2
      BY <1>3, <3>1 DEF IInv, TypeOK
    <3>5. NegativeEscape(original)
      BY <3>3, <3>4 DEF NegativeEscape
    <3> QED BY <2>3, <3>5 DEF LengthInv, NegativeEscape, Decode
  <2> QED BY <1>4, <2>1, <2>2, <2>3
<1>10. StaysInside'
  BY DEF StaysInside, Decode, Turn
<1>11. StoredInv'
  BY <1>1, <1>5 DEF StoredInv
<1> QED BY <1>7, <1>8, <1>9, <1>10, <1>11 DEF IInv

LEMMA RepeatInv == IInv /\ Repeat => IInv'
<1> SUFFICES ASSUME IInv, Repeat PROVE IInv'
  OBVIOUS
<1>1. /\ uri \in Seq(Bytes) /\ Len(uri) = Len(original) /\ Len(uri) \in Nat /\ i \in Nat
      /\ original \in Seq(Alphabet) /\ i < Len(uri) /\ ll \in Nat /\ ll >= i + 2
      /\ o \in Nat /\ o <= i
  BY DEF IInv, TypeOK, WritesBehindReads, Repeat, Turn, StringEnds, Scans
<1>2. ~(i + 1 < Len(uri))
  <2> SUFFICES ASSUME i + 1 < Len(uri) PROVE FALSE
    OBVIOUS
  <2>1. i + 2 \in 1..Len(original) /\ i + 2 > i
    BY <1>1
  <2>2. uri[i + 2] = original[i + 2] /\ original[i + 2] \in Alphabet
    BY <1>1, <2>1 DEF IInv, WritesBehindReads
  <2>3. At(i + 1) = uri[i + 2]
    BY <1>1 DEF At
  <2> QED BY <2>2, <2>3, PercentAssumption DEF Repeat, StringEnds, NUL
<1>3. t \in Bytes
  BY <1>1, <1>2 DEF IInv, StoredInv
<1>4. /\ uri' \in Seq(Bytes)
      /\ Len(uri') = Len(uri)
      /\ \A k \in 1..Len(uri) : k # o + 1 => uri'[k] = uri[k]
  BY <1>1, <1>3 DEF Repeat
<1>5. TypeOK'
  BY <1>1, <1>4 DEF IInv, TypeOK, Repeat
<1>6. WritesBehindReads'
  BY <1>1, <1>4 DEF IInv, WritesBehindReads, Repeat
<1>7. LengthInv' /\ StoredInv' /\ StaysInside'
  BY DEF IInv, LengthInv, StoredInv, StaysInside, NegativeEscape, Repeat, Turn
<1> QED BY <1>5, <1>6, <1>7 DEF IInv

LEMMA SinkInv == IInv /\ Sink => IInv'
BY DEF IInv, TypeOK, WritesBehindReads, LengthInv, StoredInv, StaysInside, NegativeEscape, Sink, Turn

LEMMA AstrayInv == IInv /\ Astray => IInv'
<1> SUFFICES ASSUME IInv, Astray PROVE IInv'
  OBVIOUS
<1>1. build = "beside" /\ NegativeEscape(original)
  BY DEF IInv, TypeOK, LengthInv, Astray, More
<1> QED BY <1>1 DEF IInv, TypeOK, WritesBehindReads, LengthInv, StoredInv, StaysInside, NegativeEscape, Astray

LEMMA EndInv == IInv /\ End => IInv'
BY DEF IInv, TypeOK, WritesBehindReads, LengthInv, StoredInv, StaysInside, NegativeEscape, End

LEMMA StepInv == IInv /\ [Next]_percentVars => IInv'
<1> SUFFICES ASSUME IInv, [Next]_percentVars PROVE IInv'
  OBVIOUS
<1>1. CASE UNCHANGED percentVars
  BY <1>1 DEF percentVars, IInv, TypeOK, WritesBehindReads, LengthInv, StoredInv, StaysInside, NegativeEscape
<1> QED BY <1>1, LiteralInv, DecodeInv, RepeatInv, SinkInv, AstrayInv, EndInv DEF Next

LEMMA Always == Spec => []IInv
BY InitInv, StepInv, PTL DEF Spec

\* For every URI, percent_decode never writes over what it has still to read.
THEOREM InPlaceDecodingIsSound == Spec => []WritesBehindReads
<1>1. IInv => WritesBehindReads
  BY DEF IInv
<1> QED BY <1>1, Always, PTL

\* For every URI, percent_decode leaves its buffer only after an escape with a minus sign.
THEOREM DecodingStaysInside == Spec => []StaysInside
<1>1. IInv => StaysInside
  BY DEF IInv
<1> QED BY <1>1, Always, PTL

\* For every URI, the buffer keeps its length and holds bytes.
THEOREM PercentTypes == Spec => []TypeOK
<1>1. IInv => TypeOK
  BY DEF IInv
<1> QED BY <1>1, Always, PTL

-----------------------------------------------------------------------------
(* What is decoded is what was meant. *)

\* Of what begins in R, u holds in p characters what is meant by all of it up to m.
Decoded(R, s, u, p, m) ==
    /\ p = Cardinality(Upto(R, m))
    /\ \A k \in Upto(R, m) : u[Cardinality(Upto(R, k))] = Meaning(s, k)

\* As far as the loop has come, everything is decoded; it stands between two things of the
\* URI, and ll is as it was unless the first escape of the layout "beside" is behind it.
MeaningInv ==
    /\ Decoded(Reached, original, uri, o, i)
    /\ \/ /\ ll = Len(original)
          /\ i \notin Escapes(original) /\ i - 1 \notin Escapes(original)
          /\ build = "beside" => \A j \in Escapes(original) : i < j
       \/ ll = 0 /\ i > 0 /\ Reached \subseteq Upto(Reached, i)
    /\ pc = "done" => i >= ll

ClearInv == Clear(original) => MeaningInv

\* The positions of a URI are a finite set, and so are those that have been read.
LEMMA UptoFinite ==
    ASSUME NEW n \in Nat, NEW R, R \subseteq 1..n, NEW k \in Nat
    PROVE  IsFiniteSet(Upto(R, k)) /\ Cardinality(Upto(R, k)) \in Nat
<1>1. IsFiniteSet(1..n)
  BY FS_Interval
<1>2. Upto(R, k) \in SUBSET (1..n)
  BY DEF Upto
<1>3. IsFiniteSet(Upto(R, k))
  BY <1>1, <1>2, FS_Subset
<1> QED
  BY <1>3, FS_CardinalityType

\* Writing what the next thing stands for behind what was written before.
LEMMA OneMoreMeant ==
    ASSUME NEW n \in Nat, NEW R, R \subseteq 1..n, NEW s, NEW u \in Seq(Bytes),
           NEW m \in Nat, NEW w \in Nat, m + 1 \in R, m < w,
           Upto(R, w) = Upto(R, m) \cup {m + 1},
           NEW p \in Nat, p + 1 \in 1..Len(u), Decoded(R, s, u, p, m),
           NEW v, v = [u EXCEPT ![p + 1] = Meaning(s, m + 1)]
    PROVE  Decoded(R, s, v, p + 1, w)
<1>0. \A k \in R : k \in Nat
  OBVIOUS
<1>1. IsFiniteSet(Upto(R, m)) /\ m + 1 \notin Upto(R, m)
  <2>1. IsFiniteSet(Upto(R, m))
    BY UptoFinite
  <2> QED
    BY <1>0, <2>1 DEF Upto
<1>2. Cardinality(Upto(R, m) \cup {m + 1}) = p + 1
  BY <1>1, FS_AddElement DEF Decoded
<1>3. Upto(R, m + 1) = Upto(R, m) \cup {m + 1}
  <2>1. \A k \in R : k <= m + 1 <=> k <= m \/ k = m + 1
    BY <1>0
  <2> QED
    BY <2>1 DEF Upto
<1>4. ASSUME NEW k \in Upto(R, m)
      PROVE  v[Cardinality(Upto(R, k))] = Meaning(s, k)
  <2>1. k \in 1..n /\ k \in Nat /\ k <= m /\ k \in Upto(R, k)
    BY DEF Upto
  <2>2. Upto(R, k) \subseteq Upto(R, m)
    <3>1. \A j \in R : j <= k => j <= m
      BY <1>0, <2>1
    <3> QED
      BY <3>1 DEF Upto
  <2>3. IsFiniteSet(Upto(R, k)) /\ Cardinality(Upto(R, k)) \in Nat
    BY <2>1, UptoFinite
  <2>4. Cardinality(Upto(R, k)) <= p
    BY <1>1, <2>2, FS_Subset DEF Decoded
  <2>5. Cardinality(Upto(R, k)) # 0
    BY <2>1, <2>3, FS_EmptySet
  <2>6. PICK q : q = Cardinality(Upto(R, k))
    OBVIOUS
  <2>7. q \in 1..Len(u) /\ q # p + 1
    BY <2>3, <2>4, <2>5, <2>6
  <2>8. v[q] = u[q]
    BY <2>7
  <2> QED
    BY <1>4, <2>6, <2>8 DEF Decoded
<1>5. v[p + 1] = Meaning(s, m + 1)
  OBVIOUS
<1> QED
  BY <1>2, <1>3, <1>4, <1>5 DEF Decoded

\* Digits are no percent signs, and not behind the end.
LEMMA DigitsOfEscapes ==
    ASSUME NEW s \in Seq(Bytes), NEW k \in Escapes(s)
    PROVE  /\ k \in 1..Len(s) /\ k + 2 <= Len(s) /\ s[k] = Percent
           /\ s[k + 1] \in HexDigits /\ s[k + 2] \in HexDigits
           /\ k + 1 \notin Escapes(s) /\ k + 2 \notin Escapes(s)
<1>1. k \in 1..Len(s) /\ Char(s, k + 1) \in HexDigits /\ Char(s, k + 2) \in HexDigits
      /\ s[k] = Percent
  BY DEF Escapes
<1>2. NUL \notin HexDigits /\ Percent \notin HexDigits
  BY DEF NUL, Percent, HexDigits
<1>3. k + 2 <= Len(s)
  BY <1>1, <1>2 DEF Char
<1>4. s[k + 1] \in HexDigits /\ s[k + 2] \in HexDigits
  BY <1>1, <1>3 DEF Char
<1> QED
  BY <1>1, <1>2, <1>3, <1>4 DEF Escapes

\* The number of an escape is read as it is meant; a percent sign that is plainly none, not
\* at all.
LEMMA ScannedAsMeant ==
    ASSUME NEW a \in Bytes, NEW b \in Bytes
    PROVE  /\ a \in HexDigits /\ b \in HexDigits =>
                  /\ Scanned(a, b) = {16 * HexValue(a) + HexValue(b)}
                  /\ 16 * HexValue(a) + HexValue(b) \in 0..255
           /\ a \notin HexDigits \cup {Plus, Minus} => Scanned(a, b) = {}
<1>1. \A c \in HexDigits : HexValue(c) \in 0..15
  BY DEF HexDigits, HexValue
<1>2. ASSUME a \in HexDigits, b \in HexDigits
      PROVE  16 * HexValue(a) + HexValue(b) \in 0..255
  BY <1>1, <1>2
<1> QED
  BY <1>2 DEF Scanned


\* At a turn, with the URI clear, ll is still its length.
LEMMA AtTurn ==
    ASSUME IInv, MeaningInv, Turn
    PROVE  /\ original \in Seq(Bytes) /\ uri \in Seq(Bytes) /\ Len(original) \in Nat
           /\ Len(uri) = Len(original) /\ ll = Len(original)
           /\ i \in Nat /\ o \in Nat /\ i + 1 \in 1..Len(original) /\ o + 1 \in 1..Len(uri)
           /\ Reached \subseteq 1..Len(original)
           /\ \A k \in Nat : k >= i => At(k) = Char(original, k + 1) /\ At(k) \in Bytes
<1>1. original \in Seq(Bytes)
  <2>1. Alphabet \subseteq Bytes
    BY PercentAssumption DEF Bytes
  <2>2. original \in Seq(Alphabet)
    BY DEF IInv, TypeOK
  <2> QED
    BY <2>1, <2>2
<1>2. /\ uri \in Seq(Bytes) /\ Len(original) \in Nat /\ Len(uri) = Len(original)
      /\ i \in Nat /\ o \in Nat /\ i < Len(uri) /\ i < ll /\ o <= i
      /\ \A k \in 1..Len(original) : k > i => uri[k] = original[k]
  BY DEF IInv, TypeOK, WritesBehindReads, Turn, More
<1>3. ll = Len(original)
  BY <1>2 DEF MeaningInv
<1>4. Reached \subseteq 1..Len(original)
  BY DEF Reached, Begins
<1>5. ASSUME NEW k \in Nat, k >= i
      PROVE  At(k) = Char(original, k + 1) /\ At(k) \in Bytes
  <2>1. At(k) \in Bytes
    BY <1>2, AtBytes
  <2>2. CASE k < Len(uri)
    <3>1. k + 1 \in 1..Len(original) /\ k + 1 > i /\ k + 1 <= Len(original)
      BY <1>2, <1>5, <2>2
    <3> QED
      BY <1>2, <2>1, <2>2, <3>1 DEF At, Char
  <2>3. CASE ~(k < Len(uri))
    <3>1. ~(k + 1 <= Len(original))
      BY <1>2, <2>3
    <3> QED
      BY <2>1, <2>3, <3>1 DEF At, Char
  <2> QED
    BY <2>2, <2>3
<1>6. i + 1 \in 1..Len(original) /\ o + 1 \in 1..Len(uri)
  BY <1>2
<1> QED
  BY <1>1, <1>2, <1>3, <1>4, <1>5, <1>6

LEMMA LiteralMeans ==
    ASSUME IInv, MeaningInv, Literal
    PROVE  MeaningInv'
<1>0. PICK m \in Nat, p \in Nat, n \in Nat : m = i /\ p = o /\ n = Len(original)
  BY AtTurn DEF Literal
<1>1. PICK s, u, R : s = original /\ u = uri /\ R = Reached
  OBVIOUS
<1>2. /\ s \in Seq(Bytes) /\ u \in Seq(Bytes) /\ n = Len(s) /\ Len(u) = n /\ ll = n
      /\ m + 1 \in 1..n /\ p + 1 \in 1..Len(u)
      /\ R \subseteq 1..n
  BY <1>0, <1>1, AtTurn DEF Literal
<1>3. /\ Decoded(R, s, u, p, m)
      /\ m \notin Escapes(s) /\ m - 1 \notin Escapes(s)
      /\ build = "beside" => \A j \in Escapes(s) : m < j
  <2>1. ~(ll = 0 /\ i > 0 /\ Reached \subseteq Upto(Reached, i))
    BY <1>0, <1>1, <1>2
  <2> QED
    BY <1>0, <1>1, <2>1 DEF MeaningInv
<1>4. At(m) = s[m + 1] /\ s[m + 1] # Percent /\ m + 1 \notin Escapes(s)
  <2>1. At(m) = Char(s, m + 1)
    BY <1>0, <1>1, AtTurn DEF Literal
  <2>2. At(m) # Percent /\ m + 1 <= Len(s)
    BY <1>0, <1>1, <1>2 DEF Literal
  <2> QED
    BY <2>1, <2>2 DEF Char, Escapes
<1>5. m + 1 \in Begins(s)
  <2>1. m + 1 - 1 = m /\ m + 1 - 2 = m - 1
    BY <1>2
  <2> QED
    BY <1>2, <1>3, <1>4, <2>1 DEF Begins
<1>6. \A j \in Escapes(s) : m < j => m + 1 < j /\ m + 1 <= j
  <2>1. \A j \in Escapes(s) : j \in Nat /\ j # m + 1
    BY <1>4 DEF Escapes
  <2> QED
    BY <1>2, <2>1
<1>7. m + 1 \in R
  BY <1>0, <1>1, <1>3, <1>5, <1>6 DEF Reached
<1>8. Upto(R, m + 1) = Upto(R, m) \cup {m + 1}
  <2>1. \A k \in R : k <= m + 1 <=> k <= m \/ k = m + 1
    BY <1>2
  <2> QED
    BY <1>7, <2>1 DEF Upto
<1>9. PICK v : v = [u EXCEPT ![p + 1] = Meaning(s, m + 1)]
  OBVIOUS
<1>10. /\ uri' = v /\ o' = p + 1 /\ i' = m + 1
       /\ UNCHANGED <<original, ll, build, pc>> /\ pc = "decode"
  BY <1>0, <1>1, <1>4, <1>9 DEF Literal, Turn, Meaning
<1>11. Decoded(R, s, v, p + 1, m + 1)
  <2>1. m + 1 \in Nat /\ m < m + 1
    BY <1>2
  <2> QED
    BY <1>2, <1>3, <1>7, <1>8, <1>9, <2>1, OneMoreMeant
<1>12. Reached' = R
  BY <1>0, <1>1, <1>10 DEF Reached
<1>13. m + 1 \notin Escapes(s) /\ m + 1 - 1 \notin Escapes(s)
  <2>1. m + 1 - 1 = m
    BY <1>2
  <2> QED
    BY <1>3, <1>4, <2>1
<1> QED
  BY <1>0, <1>1, <1>2, <1>3, <1>6, <1>10, <1>11, <1>12, <1>13 DEF MeaningInv

LEMMA DecodeMeans ==
    ASSUME IInv, MeaningInv, Clear(original), Decode
    PROVE  MeaningInv'
<1>0. PICK m \in Nat, p \in Nat, n \in Nat : m = i /\ p = o /\ n = Len(original)
  BY AtTurn DEF Decode
<1>1. PICK s, u, R : s = original /\ u = uri /\ R = Reached
  OBVIOUS
<1>2. /\ s \in Seq(Bytes) /\ u \in Seq(Bytes) /\ n = Len(s) /\ Len(u) = n /\ ll = n
      /\ m + 1 \in 1..n /\ p + 1 \in 1..Len(u)
      /\ R \subseteq 1..n
  BY <1>0, <1>1, AtTurn DEF Decode
<1>3. /\ Decoded(R, s, u, p, m)
      /\ m \notin Escapes(s) /\ m - 1 \notin Escapes(s)
      /\ build = "beside" => \A j \in Escapes(s) : m < j
  <2>1. ~(ll = 0 /\ i > 0 /\ Reached \subseteq Upto(Reached, i))
    BY <1>0, <1>1, <1>2
  <2> QED
    BY <1>0, <1>1, <2>1 DEF MeaningInv
<1>4. /\ At(m) = s[m + 1] /\ s[m + 1] = Percent
      /\ At(m + 1) = Char(s, m + 2) /\ At(m + 1) \in Bytes
      /\ At(m + 2) = Char(s, m + 3) /\ At(m + 2) \in Bytes
  <2>1. /\ m >= m /\ m + 1 \in Nat /\ m + 1 >= m /\ m + 2 \in Nat /\ m + 2 >= m
        /\ (m + 1) + 1 = m + 2 /\ (m + 2) + 1 = m + 3
    OBVIOUS
  <2>2. \A k \in Nat : k >= m => At(k) = Char(s, k + 1) /\ At(k) \in Bytes
    BY <1>0, <1>1, AtTurn DEF Decode
  <2>3. At(m) = Char(s, m + 1) /\ At(m) = Percent
    BY <1>0, <2>1, <2>2 DEF Decode
  <2>4. Char(s, m + 1) = s[m + 1]
    BY <1>2 DEF Char
  <2>5. At(m + 1) = Char(s, m + 2) /\ At(m + 1) \in Bytes
    BY <2>1, <2>2
  <2>6. At(m + 2) = Char(s, m + 3) /\ At(m + 2) \in Bytes
    BY <2>1, <2>2
  <2> QED
    BY <2>3, <2>4, <2>5, <2>6
<1>5. PICK e \in Nat : e = m + 1
  OBVIOUS
<1>6. e + 1 = m + 2 /\ e + 2 = m + 3 /\ e \in 1..n /\ e - 1 = m /\ e - 2 = m - 1 /\ m < e
  BY <1>2, <1>5
<1>7. PICK x \in Numbers :
         /\ uri' = [u EXCEPT ![p + 1] = x % 256]
         /\ ll' = IF build = "beside" THEN UpperBytes(x) ELSE ll
  BY <1>0, <1>1 DEF Decode
<1>8. x \in Scanned(At(m + 1), At(m + 2))
  BY <1>0, <1>1 DEF Numbers, Scans
<1>9. e \in Escapes(s)
  <2>1. e \notin Escapes(s) => At(m + 1) \notin HexDigits \cup {Plus, Minus}
    BY <1>0, <1>1, <1>4, <1>5, <1>6 DEF Clear
  <2> QED
    BY <1>4, <1>8, <2>1, ScannedAsMeant
<1>10. /\ e + 2 <= n /\ e + 1 \notin Escapes(s) /\ e + 2 \notin Escapes(s)
       /\ At(m + 1) = s[e + 1] /\ s[e + 1] \in HexDigits
       /\ At(m + 2) = s[e + 2] /\ s[e + 2] \in HexDigits
  <2>1. /\ e + 2 <= n /\ e + 1 \notin Escapes(s) /\ e + 2 \notin Escapes(s)
        /\ s[e + 1] \in HexDigits /\ s[e + 2] \in HexDigits
    BY <1>2, <1>9, DigitsOfEscapes
  <2>2. Char(s, e + 1) = s[e + 1] /\ Char(s, e + 2) = s[e + 2]
    BY <1>2, <1>6, <2>1 DEF Char
  <2> QED
    BY <1>4, <1>6, <2>1, <2>2
<1>11. x = Meaning(s, e) /\ x \in 0..255
  <2>1. /\ Scanned(At(m + 1), At(m + 2)) = {16 * HexValue(s[e + 1]) + HexValue(s[e + 2])}
        /\ 16 * HexValue(s[e + 1]) + HexValue(s[e + 2]) \in 0..255
    BY <1>4, <1>10, ScannedAsMeant
  <2> QED
    BY <1>8, <1>9, <2>1 DEF Meaning
<1>12. e \in R
  <2>1. e \in Begins(s)
    BY <1>2, <1>3, <1>6, <1>9 DEF Begins
  <2>2. \A j \in Escapes(s) : m < j => e <= j
    <3>1. \A j \in Escapes(s) : j \in Nat
      BY DEF Escapes
    <3> QED
      BY <1>2, <1>5, <3>1
  <2> QED
    BY <1>0, <1>1, <1>3, <2>1, <2>2 DEF Reached
<1>13. e + 1 \notin R /\ e + 2 \notin R
  <2>1. e + 1 - 1 = e /\ e + 2 - 2 = e
    BY <1>6
  <2>2. \A k \in Begins(s) : k - 1 \notin Escapes(s) /\ k - 2 \notin Escapes(s)
    BY DEF Begins
  <2>3. e + 1 \notin Begins(s) /\ e + 2 \notin Begins(s)
    BY <1>9, <2>1, <2>2
  <2> QED
    BY <1>0, <1>1, <2>3 DEF Reached
<1>14. Upto(R, m + 3) = Upto(R, m) \cup {m + 1}
  <2>1. \A k \in R : k <= m + 3 <=> k <= m \/ k = m + 1
    <3>1. \A k \in R : k \in Nat
      BY <1>2
    <3>2. \A k \in R : k # m + 2 /\ k # m + 3
      BY <1>6, <1>13
    <3>3. ASSUME NEW k \in R
          PROVE  k <= m + 3 <=> k <= m \/ k = m + 1
      <4>1. k \in Nat /\ k # m + 2 /\ k # m + 3
        BY <3>1, <3>2
      <4> QED
        BY <1>2, <4>1
    <3> QED
      BY <3>3
  <2> QED
    BY <1>5, <1>12, <2>1 DEF Upto
<1>15. PICK v : v = [u EXCEPT ![p + 1] = Meaning(s, m + 1)]
  OBVIOUS
<1>16. /\ uri' = v /\ o' = p + 1 /\ i' = m + 3
       /\ UNCHANGED <<original, build, pc>> /\ pc = "decode"
       /\ ll' = IF build = "beside" THEN 0 ELSE n
  <2>1. x % 256 = Meaning(s, m + 1)
    BY <1>5, <1>11
  <2>2. UpperBytes(x) = 0
    <3>1. x \in Int /\ x >= 0
      BY <1>11
    <3> QED
      BY <3>1, UpperBytesLength
  <2> QED
    BY <1>0, <1>1, <1>2, <1>7, <1>15, <2>1, <2>2, ZenonT(60) DEF Decode, Turn
<1>17. Decoded(R, s, v, p + 1, m + 3)
  <2>1. m + 3 \in Nat /\ m < m + 3 /\ m + 1 \in R
    BY <1>2, <1>5, <1>12
  <2> QED
    BY <1>2, <1>3, <1>14, <1>15, <2>1, OneMoreMeant
<1>18. Reached' = R
  BY <1>0, <1>1, <1>16 DEF Reached
<1>19. m + 3 \notin Escapes(s) /\ m + 3 - 1 \notin Escapes(s) /\ m + 3 > 0
  <2>1. m + 3 - 1 = e + 1
    BY <1>2, <1>5
  <2> QED
    BY <1>2, <1>6, <1>10, <2>1
<1>20. build = "beside" => R \subseteq Upto(R, m + 3)
  <2>1. build = "beside" => \A k \in R : k <= e
    BY <1>0, <1>1, <1>9 DEF Reached
  <2>2. \A k \in R : k <= e => k <= m + 3
    BY <1>2, <1>5
  <2> QED
    BY <2>1, <2>2 DEF Upto
<1> QED
  BY <1>0, <1>1, <1>16, <1>17, <1>18, <1>19, <1>20 DEF MeaningInv

\* With its length right, a string does not end within its length.
LEMMA RepeatMeans ==
    ASSUME IInv, MeaningInv, Repeat
    PROVE  FALSE
<1>1. /\ ll = Len(original) /\ Len(uri) = ll /\ ll \in Nat /\ i \in Nat
      /\ uri \in Seq(Bytes) /\ original \in Seq(Bytes)
      /\ \A k \in Nat : k >= i => At(k) = Char(original, k + 1)
  BY AtTurn DEF Repeat
<1>2. i + 2 <= ll /\ At(i + 1) = NUL
  BY <1>1 DEF Repeat, StringEnds, Scans
<1>3. At(i + 1) = original[i + 2] /\ i + 2 \in 1..Len(original)
  BY <1>1, <1>2 DEF Char
<1>4. original[i + 2] \in Alphabet
  BY <1>3 DEF IInv, TypeOK
<1> QED
  BY <1>2, <1>3, <1>4, PercentAssumption DEF NUL

LEMMA SinkMeans ==
    ASSUME IInv, MeaningInv, Clear(original), Sink
    PROVE  MeaningInv'
<1>0. PICK m \in Nat, n \in Nat : m = i /\ n = Len(original)
  BY AtTurn DEF Sink
<1>1. PICK s, R : s = original /\ R = Reached
  OBVIOUS
<1>2. /\ s \in Seq(Bytes) /\ n = Len(s) /\ ll = n
      /\ m + 1 \in 1..n /\ R \subseteq 1..n
  BY <1>0, <1>1, AtTurn DEF Sink
<1>3. /\ m \notin Escapes(s) /\ m - 1 \notin Escapes(s)
      /\ build = "beside" => \A j \in Escapes(s) : m < j
  <2>1. ~(ll = 0 /\ i > 0 /\ Reached \subseteq Upto(Reached, i))
    BY <1>0, <1>1, <1>2
  <2> QED
    BY <1>0, <1>1, <2>1 DEF MeaningInv
<1>4. At(m) = Percent /\ Numbers = {}
  BY <1>0, <1>1 DEF Sink
<1>5. /\ At(m) = Char(s, m + 1)
      /\ At(m + 1) = Char(s, m + 2) /\ At(m + 1) \in Bytes
      /\ At(m + 2) = Char(s, m + 3) /\ At(m + 2) \in Bytes
  <2>1. /\ m >= m /\ m + 1 \in Nat /\ m + 1 >= m /\ m + 2 \in Nat /\ m + 2 >= m
        /\ (m + 1) + 1 = m + 2 /\ (m + 2) + 1 = m + 3
    OBVIOUS
  <2>2. \A k \in Nat : k >= m => At(k) = Char(s, k + 1) /\ At(k) \in Bytes
    BY <1>0, <1>1, AtTurn DEF Sink
  <2> QED
    BY <2>1, <2>2
<1>6. m + 1 \notin Escapes(s)
  <2> SUFFICES ASSUME m + 1 \in Escapes(s) PROVE FALSE
    OBVIOUS
  <2>1. PICK e \in Escapes(s) : e = m + 1
    OBVIOUS
  <2>2. e + 2 <= n /\ s[e + 1] \in HexDigits /\ s[e + 2] \in HexDigits
    BY <1>2, DigitsOfEscapes
  <2>3. e + 1 = m + 2 /\ e + 2 = m + 3 /\ e + 1 <= n
    BY <1>2, <2>1, <2>2
  <2>4. At(m + 1) \in HexDigits /\ At(m + 2) \in HexDigits
    BY <1>2, <1>5, <2>2, <2>3 DEF Char
  <2>5. Scanned(At(m + 1), At(m + 2)) # {}
    BY <1>5, <2>4, ScannedAsMeant
  <2>6. ll >= m + 2
    BY <1>2, <2>2, <2>3
  <2> QED
    BY <1>0, <1>1, <1>4, <2>5, <2>6 DEF Numbers, Scans
<1>7. m + 1 \notin R
  <2>1. s[m + 1] = Percent
    BY <1>2, <1>4, <1>5 DEF Char
  <2> QED
    BY <1>0, <1>1, <1>6, <2>1 DEF Reached, Begins
<1>8. Upto(R, m + 1) = Upto(R, m)
  <2>1. ASSUME NEW k \in R
        PROVE  k <= m + 1 <=> k <= m
    <3>1. k \in Nat /\ k # m + 1
      BY <1>2, <1>7
    <3> QED
      BY <1>2, <3>1
  <2> QED
    BY <2>1 DEF Upto
<1>9. /\ i' = m + 1 /\ UNCHANGED <<original, uri, o, ll, build, pc>> /\ pc = "decode"
      /\ Reached' = R
  BY <1>0, <1>1 DEF Sink, Turn, Reached
<1>10. m + 1 - 1 \notin Escapes(s)
  <2>1. m + 1 - 1 = m
    BY <1>2
  <2> QED
    BY <1>3, <2>1
<1>11. \A j \in Escapes(s) : m < j => m + 1 < j
  <2>1. \A j \in Escapes(s) : j \in Nat /\ j # m + 1
    BY <1>6 DEF Escapes
  <2> QED
    BY <1>2, <2>1
<1>12. Decoded(R, s, uri, o, m + 1)
  BY <1>0, <1>1, <1>8 DEF MeaningInv, Decoded
<1> QED
  BY <1>0, <1>1, <1>2, <1>3, <1>6, <1>9, <1>10, <1>11, <1>12 DEF MeaningInv

LEMMA StopMeans ==
    ASSUME IInv, MeaningInv, Astray \/ End \/ UNCHANGED percentVars
    PROVE  MeaningInv'
<1>1. UNCHANGED <<original, uri, i, o, ll, build>> /\ Reached' = Reached
  BY DEF Astray, End, percentVars, Reached
<1>2. pc' = "done" => i >= ll
  <2>1. i \in Nat /\ ll \in Nat
    BY DEF IInv, TypeOK
  <2> QED
    BY <2>1 DEF MeaningInv, Astray, End, More, percentVars
<1> QED
  BY <1>1, <1>2 DEF MeaningInv

LEMMA InitMeans ==
    ASSUME Init
    PROVE  MeaningInv
<1>1. TypeOK /\ i = 0 /\ o = 0 /\ ll = Len(original) /\ pc = "decode"
  BY InitInv DEF Init, IInv
<1>2. \A k \in Reached : k \in Nat /\ k > 0
  BY DEF Reached, Begins
<1>3. Upto(Reached, i) = {}
  BY <1>1, <1>2 DEF Upto
<1>4. \A j \in Escapes(original) : j \in Nat /\ j > 0
  BY DEF Escapes
<1>5. i \notin Escapes(original) /\ i - 1 \notin Escapes(original)
  BY <1>1, <1>4
<1>6. Cardinality(Upto(Reached, i)) = 0
  BY <1>3, FS_EmptySet
<1> QED
  BY <1>1, <1>3, <1>4, <1>5, <1>6 DEF MeaningInv, Decoded

\* For every URI whose percent signs are all clear, percent_decode returns what it means, or
\* the part up to the first escape where sscanf's int falls on ll.
THEOREM ClearUrisAreDecoded == Spec => []DecodedAsMeant
<1>1. Init => ClearInv
  BY InitMeans DEF ClearInv
<1>2. IInv /\ ClearInv /\ [Next]_percentVars => ClearInv'
  <2> SUFFICES ASSUME IInv, ClearInv, [Next]_percentVars, Clear(original)'
               PROVE  MeaningInv'
    BY DEF ClearInv
  <2>1. original' = original
    BY DEF Next, Literal, Decode, Repeat, Sink, Astray, End, percentVars
  <2>2. MeaningInv /\ Clear(original)
    BY <2>1 DEF ClearInv
  <2> QED
    BY <2>2, LiteralMeans, DecodeMeans, RepeatMeans, SinkMeans, StopMeans DEF Next
<1>3. IInv /\ ClearInv => DecodedAsMeant
  <2> SUFFICES ASSUME IInv, MeaningInv, pc = "done"
               PROVE  /\ o = Cardinality(Reached)
                      /\ \A k \in Reached :
                            uri[Cardinality(Upto(Reached, k))] = Meaning(original, k)
    BY DEF ClearInv, DecodedAsMeant
  <2>1. Reached \subseteq Upto(Reached, i)
    <3>1. i \in Nat /\ Len(original) \in Nat /\ \A k \in Reached : k \in 1..Len(original)
      BY DEF IInv, TypeOK, Reached, Begins
    <3>2. CASE i >= Len(original)
      <4>1. \A k \in Reached : k <= i
        BY <3>1, <3>2
      <4> QED
        BY <4>1 DEF Upto
    <3> QED
      BY <3>2 DEF MeaningInv
  <2>2. Upto(Reached, i) = Reached
    BY <2>1 DEF Upto
  <2> QED
    BY <2>2 DEF MeaningInv, Decoded
<1> QED
  BY <1>1, <1>2, <1>3, Always, PTL DEF Spec
=============================================================================
