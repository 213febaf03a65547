-------------------------- MODULE ConfigFileProofs --------------------------
(***************************************************************************)
(* ConfigFile for every alphabet, every set of names, every file and every *)
(* size of the arrays.                                                     *)
(***************************************************************************)
EXTENDS ConfigFile, SequenceTheorems, FiniteSetTheorems, TLAPS

StringOf == Characters \cup {"garbage"}

\* Writing one character and the NUL behind it needs two places from `at` on.
LEMMA PutFits ==
    ASSUME NEW string \in Seq(StringOf), NEW at \in Nat, at <= Len(string), NEW c \in Characters
    PROVE  Put(string, at, c) \in Seq(StringOf) /\ Len(Put(string, at, c)) = at + 1
<1>1. SubSeq(string, 1, at) \in Seq(StringOf) /\ Len(SubSeq(string, 1, at)) = at
  <2>1. \A j \in 1..at : string[j] \in StringOf
    BY ElementOfSeq
  <2> QED
    BY <2>1, SubSeqProperties
<1>2. <<c>> \in Seq(StringOf) /\ Len(<<c>>) = 1
  BY DEF StringOf
<1> QED
  BY <1>1, <1>2, ConcatProperties DEF Put

LEMMA PutHolds ==
    ASSUME NEW string \in Seq(StringOf), NEW at \in Nat, at <= Len(string), NEW c \in Characters
    PROVE  LET new == Put(string, at, c)
           IN  /\ new \in Seq(StringOf) /\ Len(new) = at + 1
               /\ new[at + 1] = c /\ \A k \in 1..at : new[k] = string[k]
<1>1. PICK new : new = Put(string, at, c)
  OBVIOUS
<1>2. Len(new) = at + 1 /\ new[at + 1] = c /\ \A k \in 1..at : new[k] = string[k]
  <2>1. PICK front : front = SubSeq(string, 1, at)
    OBVIOUS
  <2>2. \A j \in 1..at : string[j] \in StringOf
    BY ElementOfSeq
  <2>3. front \in Seq(StringOf) /\ Len(front) = at /\ \A k \in 1..at : front[k] = string[k]
    BY <2>1, <2>2, SubSeqProperties
  <2>4. new = front \o <<c>> /\ <<c>> \in Seq(StringOf) /\ Len(<<c>>) = 1 /\ <<c>>[1] = c
    BY <1>1, <2>1 DEF Put, StringOf
  <2>5. at + 1 \in 1..(at + 1) /\ at + 1 > at /\ (at + 1) - at = 1
        /\ \A k \in 1..at : k \in 1..(at + 1) /\ k <= at
    OBVIOUS
  <2>6. PICK last : last = <<c>>
    OBVIOUS
  <2>7. /\ Len(front \o last) = Len(front) + Len(last)
        /\ \A j \in 1..(Len(front) + Len(last)) :
              (front \o last)[j] = IF j <= Len(front) THEN front[j] ELSE last[j - Len(front)]
    BY <2>3, <2>4, <2>6, ConcatProperties
  <2> QED
    BY <2>3, <2>4, <2>5, <2>6, <2>7
<1> QED
  BY <1>1, <1>2, PutFits

LEMMA TypeInit == Init => TypeOK
<1>1. Garbage \in Seq(StringOf) /\ Len(Garbage) = 1
  BY DEF Garbage, StringOf
<1> QED
  BY <1>1, ConfigAssumption DEF Init, TypeOK, StringOf

LEMMA TypeNext == TypeOK /\ [Next]_configVars => TypeOK'
<1> SUFFICES ASSUME TypeOK, [Next]_configVars PROVE TypeOK'
  OBVIOUS
<1> USE ConfigAssumption
<1>0. ASSUME NEW c \in Characters, Read(c) PROVE file' \in Seq(Characters)
  BY <1>0 DEF TypeOK, Read
<1>1. CASE EndName
  <2>1. file' \in Seq(Characters)
    BY <1>0, <1>1 DEF EndName, Characters
  <2> QED
    BY <1>1, <2>1 DEF EndName, TypeOK
<1>2. CASE ValueReturn
  <2>1. file' \in Seq(Characters)
    BY <1>0, <1>2 DEF ValueReturn, Characters
  <2> QED
    BY <1>2, <2>1 DEF ValueReturn, TypeOK
<1>3. CASE EndOfFile
  BY <1>3 DEF EndOfFile, TypeOK
<1>4. ASSUME NEW c \in Characters, NameChar(c) PROVE TypeOK'
  <2>1. file' \in Seq(Characters)
    BY <1>0, <1>4 DEF NameChar
  <2>2. i \in Nat /\ i <= Len(varname) /\ varname \in Seq(StringOf)
    BY <1>4 DEF NameChar, TypeOK, StringOf
  <2>3. Put(varname, i, c) \in Seq(StringOf) /\ Len(Put(varname, i, c)) = i + 1
    BY <2>2, PutFits
  <2>4. varname' \in Seq(StringOf) /\ Len(varname') = i + 1 /\ i' = i + 1 /\ i + 1 < MAX_VAR_NAME_LENGTH
    BY <1>4, <2>2, <2>3 DEF NameChar
  <2> QED
    BY <1>4, <2>1, <2>2, <2>4 DEF NameChar, TypeOK, StringOf
<1>5. ASSUME NEW c \in Characters, ValueChar(c) PROVE TypeOK'
  <2>1. file' \in Seq(Characters)
    BY <1>0, <1>5 DEF ValueChar
  <2>2. i \in Nat /\ i <= Len(varval) /\ varval \in Seq(StringOf)
    BY <1>5 DEF ValueChar, TypeOK, StringOf
  <2>3. Put(varval, i, c) \in Seq(StringOf) /\ Len(Put(varval, i, c)) = i + 1
    BY <2>2, PutFits
  <2>4. varval' \in Seq(StringOf) /\ Len(varval') = i + 1 /\ i' = i + 1 /\ i + 1 < MAX_VAR_VALUE_LENGTH
    BY <1>5, <2>2, <2>3 DEF ValueChar
  <2> QED
    BY <1>5, <2>1, <2>2, <2>4 DEF ValueChar, TypeOK, StringOf
<1>6. ASSUME NEW c \in Characters, TooLong(c) PROVE TypeOK'
  <2>1. file' \in Seq(Characters)
    BY <1>0, <1>6 DEF TooLong
  <2> QED
    BY <1>6, <2>1 DEF TooLong, TypeOK
<1>7. ASSUME NEW ok \in BOOLEAN, EndValue(ok) PROVE TypeOK'
  <2>1. file' \in Seq(Characters)
    BY <1>0, <1>7 DEF EndValue, Characters
  <2>2. varname \in Known =>
            Append(calls, [name |-> varname, val |-> varval, ok |-> ok])
                \in Seq([name : Known, val : Seq(Characters \cup {"garbage"}), ok : BOOLEAN])
    BY DEF TypeOK
  <2>3. calls' \in Seq([name : Known, val : Seq(Characters \cup {"garbage"}), ok : BOOLEAN])
    BY <1>7, <2>2 DEF EndValue, TypeOK
  <2>4. /\ (sm' = 0 /\ i' = 0) \/ UNCHANGED <<sm, i>>
        /\ result' \in {"refused", result}
        /\ UNCHANGED <<varname, varval>>
    BY <1>7 DEF EndValue
  <2> QED
    BY <2>1, <2>3, <2>4 DEF TypeOK
<1>8. CASE UNCHANGED configVars
  BY <1>8 DEF configVars, TypeOK
<1> QED
  BY <1>1, <1>2, <1>3, <1>4, <1>5, <1>6, <1>7, <1>8 DEF Next

\* Whatever the file holds, varname and varval (config.c 9-10) are written inside their
\* bounds, with room for the NUL.
THEOREM BuffersFit == Spec => []TypeOK
  BY TypeInit, TypeNext, PTL DEF Spec

\* config_load_callbackable_config reports a callback's refusal and calls nothing after it.
THEOREM RefusalEndsTheLoad == Spec => []RefusalIsLast
<1> DEFINE Inv == /\ TypeOK
                  /\ \A k \in 1..Len(calls) : ~calls[k].ok => k = Len(calls) /\ result = "refused"
<1>1. Init => Inv
  BY TypeInit DEF Init
<1>2. Inv /\ [Next]_configVars => Inv'
  <2> SUFFICES ASSUME Inv, [Next]_configVars PROVE Inv'
    OBVIOUS
  <2>1. TypeOK'
    BY TypeNext
  <2>2. CASE UNCHANGED <<calls, result>>
    BY <2>1, <2>2
  <2>3. CASE UNCHANGED calls /\ result = "none"
    BY <2>1, <2>3
  <2>4. ASSUME NEW ok \in BOOLEAN, EndValue(ok),
               calls' = Append(calls, [name |-> varname, val |-> varval, ok |-> ok])
        PROVE  Inv'
    <3>1. result = "none" /\ (~ok => result' = "refused")
      BY <2>1, <2>4 DEF EndValue, Read, TypeOK
    <3>2. Len(calls') = Len(calls) + 1 /\ Len(calls) \in Nat
      BY <2>4 DEF TypeOK
    <3>3. \A k \in 1..Len(calls) : calls'[k] = calls[k] /\ calls[k].ok
      BY <2>4, <3>1 DEF TypeOK
    <3>4. calls'[Len(calls) + 1].ok = ok
      BY <2>4 DEF TypeOK
    <3> QED
      BY <2>1, <3>1, <3>2, <3>3, <3>4
  <2>5. \A ok \in BOOLEAN : EndValue(ok) =>
            \/ UNCHANGED <<calls, result>>
            \/ calls' = Append(calls, [name |-> varname, val |-> varval, ok |-> ok])
    BY DEF EndValue
  <2>6. \/ UNCHANGED <<calls, result>>
        \/ UNCHANGED calls /\ result = "none"
        \/ \E ok \in BOOLEAN : EndValue(ok)
    BY DEF Next, configVars, EndName, ValueReturn, EndOfFile, NameChar, ValueChar, TooLong, Read
  <2> QED
    BY <2>2, <2>3, <2>4, <2>5, <2>6
<1>3. Inv => RefusalIsLast
  BY DEF RefusalIsLast
<1> QED
  BY <1>1, <1>2, <1>3, PTL DEF Spec

-----------------------------------------------------------------------------
(* A file that grows by a character. *)

\* Positions are finite sets; the last of them has the highest rank, and each has one.
LEMMA Ranks ==
    ASSUME NEW n \in Nat, NEW S, S \subseteq 1..n
    PROVE  /\ IsFiniteSet(S) /\ Cardinality(S) \in Nat /\ (S # {} => Cardinality(S) > 0)
           /\ Cardinality(S \cup {n + 1}) = Cardinality(S) + 1
           /\ Upto(S \cup {n + 1}, n + 1) = S \cup {n + 1}
           /\ \A k \in S : /\ Upto(S \cup {n + 1}, k) = Upto(S, k)
                           /\ Cardinality(Upto(S, k)) \in 1..Cardinality(S)
<1>1. IsFiniteSet(1..n)
  BY FS_Interval
<1>2. IsFiniteSet(S)
  BY <1>1, FS_Subset
<1>3. \A k \in S : k \in Nat /\ k <= n
  OBVIOUS
<1>4. Cardinality(S) \in Nat /\ (S # {} => Cardinality(S) > 0)
  BY <1>2, FS_CardinalityType, FS_EmptySet
<1>5. Cardinality(S \cup {n + 1}) = Cardinality(S) + 1
  <2>1. n + 1 \notin S
    BY <1>3
  <2> QED
    BY <1>2, <2>1, FS_AddElement
<1>6. Upto(S \cup {n + 1}, n + 1) = S \cup {n + 1}
  <2>1. \A k \in S \cup {n + 1} : k <= n + 1
    BY <1>3
  <2> QED
    BY <2>1 DEF Upto
<1>7. ASSUME NEW k \in S
      PROVE  /\ Upto(S \cup {n + 1}, k) = Upto(S, k)
             /\ Cardinality(Upto(S, k)) \in 1..Cardinality(S)
  <2>1. ~(n + 1 <= k)
    BY <1>3
  <2>2. Upto(S \cup {n + 1}, k) = Upto(S, k)
    BY <2>1 DEF Upto
  <2>3. Upto(S, k) \subseteq S /\ k \in Upto(S, k)
    BY <1>3 DEF Upto
  <2>4. IsFiniteSet(Upto(S, k)) /\ Cardinality(Upto(S, k)) <= Cardinality(S)
    BY <1>2, <2>3, FS_Subset
  <2>5. Cardinality(Upto(S, k)) \in Nat /\ Cardinality(Upto(S, k)) # 0
    BY <2>3, <2>4, FS_CardinalityType, FS_EmptySet
  <2> QED
    BY <1>4, <2>2, <2>4, <2>5
<1> QED
  BY <1>2, <1>4, <1>5, <1>6, <1>7

\* g is f and one character more.
More(f, g, n) ==
    /\ n \in Nat /\ Len(f) = n /\ Len(g) = n + 1
    /\ \A k \in 1..n : g[k] = f[k]

LEMMA Appended ==
    ASSUME NEW f \in Seq(Characters), NEW c \in Characters, NEW n, n = Len(f)
    PROVE  /\ More(f, Append(f, c), n) /\ Append(f, c)[n + 1] = c
           /\ Append(f, c) \in Seq(Characters)
  BY DEF More

\* What was read before stays what it was.
LEMMA EndsStay ==
    ASSUME NEW f, NEW g, NEW n, More(f, g, n)
    PROVE  /\ \A k \in 1..n : k \in LineEnds(g) <=> k \in LineEnds(f)
           /\ \A k \in LineEnds(f) : k \in 1..n
           /\ \A k \in LineEnds(g) : k \in 1..n \/ k = n + 1
           /\ n + 1 \in LineEnds(g) <=> g[n + 1] = "\n"
<1>1. \A k \in 1..(n + 1) : k # n + 1 => k \in 1..n
  BY DEF More
<1>2. n + 1 \in 1..(n + 1) /\ \A k \in 1..n : k \in 1..(n + 1)
  BY DEF More
<1> QED
  BY <1>1, <1>2 DEF LineEnds, More

LEMMA LineStays ==
    ASSUME NEW f, NEW g, NEW n, More(f, g, n),
           NEW b \in Nat, NEW q \in Nat, NEW e \in 1..n
    PROVE  IsLine(g, b, q, e) <=> IsLine(f, b, q, e)
<1>1. n \in Nat /\ \A k \in 1..n : g[k] = f[k]
  BY DEF More
<1>2. CASE ~(q \in (b + 1)..(e - 1))
  BY <1>2 DEF IsLine
<1>3. CASE q \in (b + 1)..(e - 1)
  <2>1. /\ \A k \in (b + 1)..(e - 1) : k \in 1..n
        /\ \A k \in (b + 1)..(q - 1) : k \in 1..n
        /\ q \in 1..n /\ b \in 0..n
    BY <1>1, <1>3
  <2>2. b \in LineEnds(g) \cup {0} <=> b \in LineEnds(f) \cup {0}
    <3>1. b = 0 \/ b \in 1..n
      BY <2>1
    <3> QED
      BY <3>1, EndsStay
  <2>3. e \in LineEnds(g) <=> e \in LineEnds(f)
    BY EndsStay
  <2>4. /\ (\A k \in (b + 1)..(e - 1) : g[k] # "\n") <=> (\A k \in (b + 1)..(e - 1) : f[k] # "\n")
        /\ (\A k \in (b + 1)..(q - 1) : g[k] # "=") <=> (\A k \in (b + 1)..(q - 1) : f[k] # "=")
        /\ g[q] = f[q]
    BY <1>1, <2>1
  <2> QED
    BY <2>2, <2>3, <2>4 DEF IsLine
<1> QED
  BY <1>2, <1>3

LEMMA NameStays ==
    ASSUME NEW f, NEW g, NEW n, More(f, g, n), NEW b \in Nat, NEW q \in 1..(n + 1)
    PROVE  Name(g, b, q) = Name(f, b, q)
<1>1. n \in Nat /\ \A k \in 1..n : g[k] = f[k]
  BY DEF More
<1>2. \A k \in 1..(q - 1 - (b + 1) + 1) : (b + 1) + k - 1 \in 1..n
  BY <1>1
<1>3. \A k \in 1..(q - 1 - (b + 1) + 1) : g[(b + 1) + k - 1] = f[(b + 1) + k - 1]
  BY <1>1, <1>2
<1> QED
  BY <1>3 DEF Name

LEMMA ShownStays ==
    ASSUME NEW f, NEW g, NEW n, More(f, g, n), NEW q \in Nat, NEW e \in 1..(n + 1)
    PROVE  Shown(g, q, e) = Shown(f, q, e) /\ Shown(f, q, e) \subseteq 1..n
<1>1. n \in Nat /\ \A k \in 1..n : g[k] = f[k]
  BY DEF More
<1>2. \A k \in (q + 1)..(e - 1) : k \in 1..n
  BY <1>1
<1> QED
  BY <1>1, <1>2 DEF Shown

\* The bounds of a line.
LEMMA LineSpans ==
    ASSUME NEW f, NEW n \in Nat, NEW b \in Nat, NEW q \in Nat, NEW e \in 1..n, IsLine(f, b, q, e)
    PROVE  b \in 0..n /\ q \in 1..n
  BY DEF IsLine

LEMMA AskingStays ==
    ASSUME NEW f, NEW g, NEW n, More(f, g, n), NEW e \in 1..n
    PROVE  (e \in Asking(g) <=> e \in Asking(f)) /\ (IsProper(g, e) <=> IsProper(f, e))
<1>1. n \in Nat /\ Len(f) = n /\ Len(g) = n + 1
  BY DEF More
<1>2. \A k \in 0..n : k \in Nat /\ k \in 0..(n + 1)
  BY <1>1
<1>3. \A k \in 0..(n + 1) : k \in Nat
  BY <1>1
<1>4. \A b, q \in Nat : IsLine(g, b, q, e) <=> IsLine(f, b, q, e)
  BY LineStays
<1>5. \A b, q \in Nat : IsLine(f, b, q, e) => b \in 0..n /\ q \in 0..n /\ q \in 1..(n + 1)
  <2>1. \A k \in 1..n : k \in 0..n /\ k \in 1..(n + 1)
    BY <1>1
  <2> QED
    BY <1>1, <2>1, LineSpans
<1>6. /\ \A b \in Nat, q \in 1..(n + 1) : Name(g, b, q) = Name(f, b, q)
      /\ \A q \in Nat : Shown(g, q, e) = Shown(f, q, e)
  <2>1. e \in 1..(n + 1)
    BY <1>1
  <2> QED
    BY <2>1, NameStays, ShownStays
<1>7. e \in LineEnds(g) <=> e \in LineEnds(f)
  BY EndsStay
<1> QED
  BY <1>1, <1>2, <1>3, <1>4, <1>5, <1>6, <1>7 DEF Asking, IsProper

\* A line is determined by its end.
LEMMA OneLine ==
    ASSUME NEW f, NEW b \in Nat, NEW q \in Nat, NEW e \in Nat, IsLine(f, b, q, e),
           NEW b2 \in Nat, NEW q2 \in Nat, IsLine(f, b2, q2, e)
    PROVE  b2 = b /\ q2 = q
<1>1. /\ q \in (b + 1)..(e - 1) /\ (b = 0 \/ f[b] = "\n")
      /\ \A k \in (b + 1)..(e - 1) : f[k] # "\n"
      /\ f[q] = "=" /\ \A k \in (b + 1)..(q - 1) : f[k] # "="
  BY DEF IsLine, LineEnds
<1>2. /\ q2 \in (b2 + 1)..(e - 1) /\ (b2 = 0 \/ f[b2] = "\n")
      /\ \A k \in (b2 + 1)..(e - 1) : f[k] # "\n"
      /\ f[q2] = "=" /\ \A k \in (b2 + 1)..(q2 - 1) : f[k] # "="
  BY DEF IsLine, LineEnds
<1>3. b2 = b
  <2>1. ~(b < b2)
    <3>1. b < b2 => b2 \in (b + 1)..(e - 1) /\ b2 # 0
      BY <1>2
    <3> QED
      BY <1>1, <1>2, <3>1
  <2>2. ~(b2 < b)
    <3>1. b2 < b => b \in (b2 + 1)..(e - 1) /\ b # 0
      BY <1>1
    <3> QED
      BY <1>1, <1>2, <3>1
  <2> QED
    BY <2>1, <2>2
<1>4. q2 = q
  <2>1. ~(q < q2)
    <3>1. q < q2 => q \in (b2 + 1)..(q2 - 1)
      BY <1>1, <1>2, <1>3
    <3> QED
      BY <1>1, <1>2, <3>1
  <2>2. ~(q2 < q)
    <3>1. q2 < q => q2 \in (b + 1)..(q - 1)
      BY <1>1, <1>2, <1>3
    <3> QED
      BY <1>1, <1>2, <3>1
  <2> QED
    BY <2>1, <2>2
<1> QED
  BY <1>3, <1>4

\* A setting is read from the longer text as from the shorter.
LEMMA SettingsStay ==
    ASSUME NEW f, NEW g, NEW n, More(f, g, n), NEW q \in Nat, NEW e \in 1..(n + 1), NEW val,
           Copies(val, f, Shown(f, q, e))
    PROVE  Copies(val, g, Shown(g, q, e))
<1>1. PICK S : S = Shown(f, q, e)
  OBVIOUS
<1>2. Shown(g, q, e) = S /\ S \subseteq 1..n
  BY <1>1, ShownStays
<1>3. \A k \in 1..n : g[k] = f[k]
  BY DEF More
<1>4. Copies(val, f, S)
  BY <1>1
<1>5. Copies(val, g, S)
  BY <1>2, <1>3, <1>4 DEF Copies
<1> QED
  BY <1>2, <1>5

\* A line that ended asks for the same call.
LEMMA CallStays ==
    ASSUME NEW f, NEW g, NEW n, More(f, g, n), NEW cs, AreCallsOf(cs, f),
           NEW e \in Asking(f), NEW b \in Nat, NEW q \in Nat, IsLine(g, b, q, e),
           NEW call, call = cs[Cardinality(Upto(Asking(f), e))]
    PROVE  call.name = Name(g, b, q) /\ Copies(call.val, g, Shown(g, q, e))
<1>1. n \in Nat /\ Len(f) = n
  BY DEF More
<1>2. e \in 1..n /\ e \in 1..(n + 1)
  <2>1. e \in 1..n
    BY <1>1 DEF Asking, LineEnds
  <2> QED
    BY <1>1, <2>1
<1>3. IsLine(f, b, q, e)
  BY <1>2, LineStays
<1>4. b \in 0..n /\ q \in 1..n
  BY <1>1, <1>2, <1>3, LineSpans
<1>5. q \in 0..n /\ q \in 1..(n + 1)
  BY <1>1, <1>4
<1>6. call.name = Name(f, b, q) /\ Copies(call.val, f, Shown(f, q, e))
  BY <1>1, <1>3, <1>4, <1>5 DEF AreCallsOf
<1>7. Name(g, b, q) = Name(f, b, q)
  BY <1>5, NameStays
<1>8. PICK val : val = call.val
  OBVIOUS
<1>9. Copies(val, g, Shown(g, q, e))
  BY <1>2, <1>6, <1>8, SettingsStay
<1> QED
  BY <1>6, <1>7, <1>8, <1>9

\* A character that ends no asking line asks for no call.
LEMMA CallsStay ==
    ASSUME NEW f, NEW g, NEW n, More(f, g, n), n + 1 \notin Asking(g), NEW cs, AreCallsOf(cs, f)
    PROVE  AreCallsOf(cs, g)
<1>1. Asking(g) = Asking(f)
  <2>1. \A e \in Asking(g) : e \in 1..n
    BY EndsStay DEF Asking
  <2>2. \A e \in Asking(f) : e \in 1..n
    BY EndsStay DEF Asking
  <2>3. \A e \in 1..n : e \in Asking(g) <=> e \in Asking(f)
    BY AskingStays
  <2> QED
    BY <2>1, <2>2, <2>3
<1>2. \A k \in 0..Len(g) : k \in Nat
  BY DEF More
<1>3. ASSUME NEW e \in Asking(g), NEW b \in 0..Len(g), NEW q \in 0..Len(g), IsLine(g, b, q, e),
             NEW call, call = cs[Cardinality(Upto(Asking(g), e))]
      PROVE  call.name = Name(g, b, q) /\ Copies(call.val, g, Shown(g, q, e))
  <2>1. e \in Asking(f) /\ call = cs[Cardinality(Upto(Asking(f), e))] /\ b \in Nat /\ q \in Nat
    BY <1>1, <1>2, <1>3
  <2> QED
    BY <1>3, <2>1, CallStays
<1> QED
  BY <1>1, <1>3 DEF AreCallsOf

LEMMA CallsGrow ==
    ASSUME NEW f, NEW g, NEW n, More(f, g, n), NEW S, NEW cs \in Seq(S), AreCallsOf(cs, f),
           NEW b \in Nat, NEW q \in Nat, IsLine(g, b, q, n + 1), Name(g, b, q) \in Known,
           NEW call \in S, call.name = Name(g, b, q), Copies(call.val, g, Shown(g, q, n + 1)),
           NEW more, more = Append(cs, call)
    PROVE  AreCallsOf(more, g)
<1>0. n \in Nat /\ Len(f) = n /\ Len(g) = n + 1
  BY DEF More
<1>1. PICK A : A = Asking(f)
  OBVIOUS
<1>2. A \subseteq 1..n
  BY <1>0, <1>1 DEF Asking, LineEnds
<1>3. Asking(g) = A \cup {n + 1}
  <2>1. n + 1 \in Asking(g)
    <3>1. b \in 0..Len(g) /\ q \in 0..Len(g)
      BY <1>0 DEF IsLine
    <3> QED
      BY <3>1 DEF Asking, IsLine
  <2>2. \A e \in Asking(g) : e \in 1..n \/ e = n + 1
    BY EndsStay DEF Asking
  <2>3. \A e \in 1..n : e \in Asking(g) <=> e \in A
    BY <1>1, AskingStays
  <2> QED
    BY <1>2, <2>1, <2>2, <2>3
<1>4. PICK m \in Nat : m = Len(cs) /\ m = Cardinality(A)
  BY <1>1 DEF AreCallsOf
<1>5. Cardinality(A \cup {n + 1}) = m + 1 /\ Upto(A \cup {n + 1}, n + 1) = A \cup {n + 1}
  BY <1>0, <1>2, <1>4, Ranks
<1>6. \A k \in A : Upto(A \cup {n + 1}, k) = Upto(A, k) /\ Cardinality(Upto(A, k)) \in 1..m
  BY <1>0, <1>2, <1>4, Ranks, ZenonT(60)
<1>7. Len(more) = m + 1 /\ more[m + 1] = call /\ \A k \in 1..m : more[k] = cs[k]
  <2>1. /\ Len(more) = Len(cs) + 1 /\ more[Len(cs) + 1] = call
        /\ \A k \in 1..Len(cs) : more[k] = cs[k]
    <3>1. more[Len(cs) + 1] = call
      BY AppendProperties, Zenon
    <3>2. Len(more) = Len(cs) + 1
      BY AppendProperties, Zenon
    <3> QED
      BY <3>1, <3>2, AppendProperties
  <2> QED
    BY <1>4, <2>1
<1>8. ASSUME NEW e \in Asking(g), NEW b2 \in 0..Len(g), NEW q2 \in 0..Len(g),
             IsLine(g, b2, q2, e), NEW x, x = more[Cardinality(Upto(Asking(g), e))]
      PROVE  x.name = Name(g, b2, q2) /\ Copies(x.val, g, Shown(g, q2, e))
  <2>0. n + 1 \in Nat /\ b2 \in Nat /\ q2 \in Nat
    BY <1>0
  <2>1. CASE e = n + 1
    <3>1. b2 = b /\ q2 = q
      BY <1>8, <2>0, <2>1, OneLine
    <3>2. x = call
      BY <1>3, <1>5, <1>7, <1>8, <2>1
    <3> QED
      BY <2>1, <3>1, <3>2
  <2>2. CASE e # n + 1
    <3>1. e \in A
      BY <1>3, <2>2
    <3>2. x = cs[Cardinality(Upto(A, e))]
      BY <1>3, <1>6, <1>7, <1>8, <3>1
    <3> QED
      BY <1>1, <1>8, <2>0, <3>1, <3>2, CallStays
  <2> QED
    BY <2>1, <2>2
<1>9. Len(more) = Cardinality(Asking(g))
  BY <1>3, <1>5, <1>7
<1> QED
  BY <1>8, <1>9 DEF AreCallsOf

\* A character that is put into an array, behind the copy of others.
LEMMA CopiesGrow ==
    ASSUME NEW f, NEW g, NEW n, More(f, g, n), NEW S, S \subseteq 1..n,
           NEW val \in Seq(StringOf), S # {} => Copies(val, f, S),
           NEW c \in Characters, g[n + 1] = c, NEW new, new = Put(val, Cardinality(S), c)
    PROVE  Copies(new, g, S \cup {n + 1})
<1>0. n \in Nat /\ \A k \in 1..n : g[k] = f[k]
  BY DEF More
<1>1. PICK m \in Nat : m = Cardinality(S)
  BY <1>0, Ranks
<1>2. m <= Len(val)
  <2>1. S = {} => m = 0
    BY <1>1, FS_EmptySet
  <2> QED
    BY <1>1, <2>1 DEF Copies
<1>3. Len(new) = m + 1 /\ new[m + 1] = c /\ \A k \in 1..m : new[k] = val[k]
  BY <1>1, <1>2, PutHolds
<1>4. Cardinality(S \cup {n + 1}) = m + 1 /\ Upto(S \cup {n + 1}, n + 1) = S \cup {n + 1}
  BY <1>0, <1>1, Ranks
<1>5. \A k \in S : Upto(S \cup {n + 1}, k) = Upto(S, k) /\ Cardinality(Upto(S, k)) \in 1..m
  BY <1>0, <1>1, Ranks
<1>6. ASSUME NEW k \in S
      PROVE  new[Cardinality(Upto(S \cup {n + 1}, k))] = g[k]
  <2>1. PICK r \in 1..m : r = Cardinality(Upto(S, k))
    BY <1>5
  <2>2. val[r] = f[k]
    BY <2>1 DEF Copies
  <2> QED
    BY <1>0, <1>3, <1>5, <2>1, <2>2
<1>7. new[Cardinality(Upto(S \cup {n + 1}, n + 1))] = g[n + 1]
  BY <1>3, <1>4
<1> QED
  BY <1>3, <1>4, <1>6, <1>7 DEF Copies

-----------------------------------------------------------------------------
(* The line that is being read. *)

\* The line behind b has no end yet.
Open(text, b) ==
    /\ b \in LineEnds(text) \cup {0}
    /\ \A k \in (b + 1)..Len(text) : text[k] # "\n"

\* The text ends in the name of that line: string holds its `at` characters.
InName(text, b, string, at) ==
    /\ at = Len(text) - b
    /\ \A k \in (b + 1)..Len(text) : text[k] # "="
    /\ at > 0 => string = Name(text, b, Len(text) + 1)

\* It ends in its value, of which `at` characters are in string.  An array that got no
\* character of the line holds what it held.
InValue(text, b, q, name, string, at) ==
    /\ q \in (b + 1)..Len(text) /\ text[q] = "="
    /\ \A k \in (b + 1)..(q - 1) : text[k] # "="
    /\ q > b + 1 => name = Name(text, b, q)
    /\ at = Cardinality(Shown(text, q, Len(text) + 1))
    /\ Shown(text, q, Len(text) + 1) # {} => Copies(string, text, Shown(text, q, Len(text) + 1))

AllProper(text) == \A e \in LineEnds(text) : IsProper(text, e)

LEMMA ProperBefore ==
    ASSUME NEW f, NEW g, NEW n, More(f, g, n), AllProper(g)
    PROVE  AllProper(f)
<1>1. \A e \in LineEnds(f) : e \in 1..n /\ e \in LineEnds(g)
  BY EndsStay
<1> QED
  BY <1>1, AskingStays DEF AllProper

LEMMA OpenStays ==
    ASSUME NEW f, NEW g, NEW n, More(f, g, n), g[n + 1] # "\n", NEW b \in 0..n, Open(f, b)
    PROVE  Open(g, b) /\ b \in 0..(n + 1)
<1>1. n \in Nat /\ Len(f) = n /\ Len(g) = n + 1 /\ \A k \in 1..n : g[k] = f[k]
  BY DEF More
<1>2. \A k \in (b + 1)..(n + 1) : k = n + 1 \/ (k \in (b + 1)..n /\ k \in 1..n)
  BY <1>1
<1>3. b \in LineEnds(g) \cup {0}
  BY EndsStay DEF Open
<1> QED
  BY <1>1, <1>2, <1>3 DEF Open

\* A line end opens the next line.
LEMMA OpenNext ==
    ASSUME NEW f, NEW g, NEW n, More(f, g, n), g[n + 1] = "\n", NEW string
    PROVE  /\ n + 1 \in 0..(n + 1) /\ Open(g, n + 1)
           /\ InName(g, n + 1, string, 0)
<1>1. n \in Nat /\ Len(g) = n + 1
  BY DEF More
<1>2. (n + 1 + 1)..(n + 1) = {}
  BY <1>1
<1>3. n + 1 \in LineEnds(g)
  BY EndsStay
<1> QED
  BY <1>1, <1>2, <1>3 DEF Open, InName

\* The line that a proper file ends now is the one that was open.
LEMMA Ended ==
    ASSUME NEW f, NEW g, NEW n, More(f, g, n), g[n + 1] = "\n", NEW b \in 0..n, Open(f, b),
           AllProper(g)
    PROVE  \E q \in Nat : IsLine(g, b, q, n + 1) /\ q > b + 1 /\ Shown(g, q, n + 1) # {}
<1>1. n \in Nat /\ Len(f) = n /\ Len(g) = n + 1 /\ \A k \in 1..n : g[k] = f[k]
  BY DEF More
<1>2. IsProper(g, n + 1)
  BY EndsStay DEF AllProper
<1>3. PICK b2 \in 0..(n + 1), q \in 0..(n + 1) :
          IsLine(g, b2, q, n + 1) /\ q > b2 + 1 /\ Shown(g, q, n + 1) # {}
  BY <1>1, <1>2 DEF IsProper
<1>4. /\ q \in (b2 + 1)..n /\ (b2 = 0 \/ g[b2] = "\n")
      /\ \A k \in (b2 + 1)..n : g[k] # "\n"
  BY <1>1, <1>3 DEF IsLine, LineEnds
<1>5. (b = 0 \/ f[b] = "\n") /\ \A k \in (b + 1)..n : f[k] # "\n"
  BY <1>1 DEF Open, LineEnds
<1>6. ~(b < b2)
  <2>1. b < b2 => b2 \in (b + 1)..n /\ b2 \in 1..n /\ b2 # 0
    BY <1>1, <1>4
  <2> QED
    BY <1>1, <1>4, <1>5, <2>1
<1>7. ~(b2 < b)
  <2>1. b2 < b => b \in (b2 + 1)..n /\ b \in 1..n /\ b # 0
    BY <1>1
  <2> QED
    BY <1>1, <1>4, <1>5, <2>1
<1>8. b2 = b
  BY <1>6, <1>7
<1> QED
  BY <1>3, <1>8

\* No proper line ends in its name.
LEMMA NameNotEnded ==
    ASSUME NEW f, NEW g, NEW n, More(f, g, n), NEW b \in 0..n, Open(f, b),
           NEW string, NEW at, InName(f, b, string, at), AllProper(g)
    PROVE  g[n + 1] # "\n"
<1> SUFFICES ASSUME g[n + 1] = "\n" PROVE FALSE
  OBVIOUS
<1>1. n \in Nat /\ Len(f) = n /\ \A k \in 1..n : g[k] = f[k]
  BY DEF More
<1>2. PICK q \in Nat : IsLine(g, b, q, n + 1)
  BY Ended
<1>3. q \in (b + 1)..n /\ q \in 1..n /\ g[q] = "="
  BY <1>1, <1>2 DEF IsLine
<1> QED
  BY <1>1, <1>3 DEF InName

\* One that ends in its value has its name and its value in the arrays.
LEMMA ValueEnded ==
    ASSUME NEW f, NEW g, NEW n, More(f, g, n), NEW b \in 0..n, Open(f, b), NEW q \in 0..n,
           NEW name, NEW string, NEW at, InValue(f, b, q, name, string, at), AllProper(g),
           g[n + 1] = "\n"
    PROVE  /\ IsLine(g, b, q, n + 1) /\ name = Name(g, b, q)
           /\ Copies(string, g, Shown(g, q, n + 1))
<1>1. n \in Nat /\ Len(f) = n /\ \A k \in 1..n : g[k] = f[k]
  BY DEF More
<1>2. PICK q2 \in Nat : IsLine(g, b, q2, n + 1) /\ q2 > b + 1 /\ Shown(g, q2, n + 1) # {}
  BY Ended
<1>3. /\ q2 \in (b + 1)..n /\ q2 \in 1..n /\ g[q2] = "="
      /\ \A k \in (b + 1)..(q2 - 1) : g[k] # "="
  BY <1>1, <1>2 DEF IsLine
<1>4. /\ q \in (b + 1)..n /\ q \in 1..n /\ g[q] = "="
      /\ \A k \in (b + 1)..(q - 1) : f[k] # "="
  BY <1>1 DEF InValue
<1>5. ~(q < q2)
  <2>1. q < q2 => q \in (b + 1)..(q2 - 1)
    BY <1>3, <1>4
  <2> QED
    BY <1>3, <1>4, <2>1
<1>6. ~(q2 < q)
  <2>1. q2 < q => q2 \in (b + 1)..(q - 1)
    BY <1>3, <1>4
  <2> QED
    BY <1>1, <1>3, <1>4, <2>1
<1>7. q2 = q
  BY <1>5, <1>6
<1>8. q \in Nat /\ q \in 1..(n + 1) /\ n + 1 \in 1..(n + 1)
  BY <1>1, <1>4
<1>9. Shown(g, q, n + 1) = Shown(f, q, n + 1) /\ Name(g, b, q) = Name(f, b, q)
  BY <1>8, ShownStays, NameStays
<1>10. name = Name(f, b, q) /\ Copies(string, f, Shown(f, q, n + 1))
  BY <1>1, <1>2, <1>7, <1>9 DEF InValue
<1>11. Copies(string, g, Shown(g, q, n + 1))
  BY <1>8, <1>10, SettingsStay
<1> QED
  BY <1>2, <1>7, <1>9, <1>10, <1>11

-----------------------------------------------------------------------------
(* What a character does to the line. *)

LEMMA NameGoesOn ==
    ASSUME NEW f \in Seq(Characters), NEW g, NEW n, More(f, g, n), NEW b \in 0..n,
           NEW string \in Seq(StringOf), NEW at \in Nat, at <= Len(string),
           InName(f, b, string, at),
           NEW c \in Characters, c # "=", g \in Seq(Characters), g[n + 1] = c
    PROVE  InName(g, b, Put(string, at, c), at + 1)
<1>1. n \in Nat /\ Len(f) = n /\ Len(g) = n + 1 /\ \A k \in 1..n : g[k] = f[k]
  BY DEF More
<1>2. at = n - b
  BY <1>1 DEF InName
<1>3. \A k \in (b + 1)..(n + 1) : g[k] # "="
  <2>1. \A k \in (b + 1)..(n + 1) : k = n + 1 \/ (k \in (b + 1)..n /\ k \in 1..n)
    BY <1>1
  <2> QED
    BY <1>1, <2>1 DEF InName
<1>4. PICK new : new = Put(string, at, c)
  OBVIOUS
<1>5. new \in Seq(StringOf) /\ Len(new) = at + 1
  BY <1>4, PutFits
<1>6. new[at + 1] = c /\ \A k \in 1..at : new[k] = string[k]
  BY <1>4, PutHolds
<1>7. \A k \in 1..at : string[k] = f[b + k]
  <2>1. at > 0 => string = SubSeq(f, b + 1, n)
    BY <1>1 DEF InName, Name
  <2>2. \A k \in 1..at : at > 0 /\ k \in 1..(n - (b + 1) + 1) /\ (b + 1) + k - 1 = b + k
    BY <1>1, <1>2
  <2> QED
    BY <1>1, <2>1, <2>2
<1>8. Name(g, b, n + 2) = new
  <2>1. PICK piece : piece = SubSeq(g, b + 1, n + 1)
    OBVIOUS
  <2>2. \A j \in (b + 1)..(n + 1) : g[j] \in StringOf
    <3>1. \A j \in (b + 1)..(n + 1) : j \in 1..Len(g)
      BY <1>1
    <3> QED
      BY <3>1, ElementOfSeq DEF StringOf
  <2>3. b + 1 \in Int /\ n + 1 \in Int /\ (n + 1) - (b + 1) + 1 = at + 1 /\ b + 1 <= n + 1 + 1
    BY <1>1, <1>2
  <2>4. piece \in Seq(StringOf) /\ Len(piece) = at + 1
    BY <1>1, <1>2, <2>1, <2>2, SubSeqProperties
  <2>5. \A k \in 1..(at + 1) : piece[k] = g[b + k]
    BY <1>1, <1>2, <2>1
  <2>6. \A k \in 1..(at + 1) : piece[k] = new[k]
    <3>1. \A k \in 1..(at + 1) : k \in 1..at \/ (k = at + 1 /\ b + k = n + 1)
      BY <1>1, <1>2
    <3>2. \A k \in 1..at : b + k \in 1..n
      BY <1>1, <1>2
    <3> QED
      BY <1>1, <1>6, <1>7, <2>5, <3>1, <3>2
  <2>7. piece = new
    BY <1>5, <2>4, <2>6, SeqEqual
  <2>8. n + 2 - 1 = n + 1
    BY <1>1
  <2> QED
    BY <1>1, <2>1, <2>7, <2>8 DEF Name
<1>9. at + 1 = (n + 1) - b /\ (n + 1) + 1 = n + 2
  BY <1>1, <1>2
<1> QED
  BY <1>1, <1>3, <1>4, <1>8, <1>9 DEF InName

LEMMA NameEnds ==
    ASSUME NEW f, NEW g, NEW n, More(f, g, n), NEW b \in 0..n, NEW name, NEW at,
           InName(f, b, name, at), g[n + 1] = "=", NEW string
    PROVE  InValue(g, b, n + 1, name, string, 0)
<1>1. n \in Nat /\ Len(f) = n /\ Len(g) = n + 1 /\ \A k \in 1..n : g[k] = f[k]
  BY DEF More
<1>2. n + 1 \in (b + 1)..(n + 1)
  BY <1>1
<1>3. \A k \in (b + 1)..(n + 1 - 1) : g[k] # "="
  <2>1. \A k \in (b + 1)..(n + 1 - 1) : k \in (b + 1)..n /\ k \in 1..n
    BY <1>1
  <2> QED
    BY <1>1, <2>1 DEF InName
<1>4. n + 1 > b + 1 => name = Name(g, b, n + 1)
  <2>1. at = n - b /\ (at > 0 => name = Name(f, b, n + 1))
    BY <1>1 DEF InName
  <2>2. n + 1 \in 1..(n + 1) /\ b \in Nat
    BY <1>1
  <2>3. Name(g, b, n + 1) = Name(f, b, n + 1)
    BY <2>2, NameStays
  <2> QED
    BY <1>1, <2>1, <2>3
<1>5. Shown(g, n + 1, n + 1 + 1) = {}
  BY <1>1 DEF Shown
<1>6. Cardinality(Shown(g, n + 1, n + 1 + 1)) = 0
  BY <1>5, FS_EmptySet
<1> QED
  BY <1>1, <1>2, <1>3, <1>4, <1>5, <1>6 DEF InValue

\* The parts of InValue that say where the line is do not change when the text grows.
LEMMA ValueStands ==
    ASSUME NEW f, NEW g, NEW n, More(f, g, n), NEW b \in 0..n, NEW q \in 0..n,
           NEW name, NEW string, NEW at, InValue(f, b, q, name, string, at)
    PROVE  /\ q \in (b + 1)..(n + 1) /\ q \in 0..(n + 1) /\ g[q] = "="
           /\ \A k \in (b + 1)..(q - 1) : g[k] # "="
           /\ q > b + 1 => name = Name(g, b, q)
           /\ Shown(g, q, n + 2) = Shown(f, q, n + 1) \cup (IF g[n + 1] = "\r" THEN {} ELSE {n + 1})
           /\ Shown(f, q, n + 1) \subseteq 1..n
<1>1. n \in Nat /\ Len(f) = n /\ Len(g) = n + 1 /\ \A k \in 1..n : g[k] = f[k]
  BY DEF More
<1>2. q \in (b + 1)..n /\ f[q] = "=" /\ \A k \in (b + 1)..(q - 1) : f[k] # "="
  BY <1>1 DEF InValue
<1>3. q \in (b + 1)..(n + 1) /\ q \in 0..(n + 1) /\ g[q] = "="
  BY <1>1, <1>2
<1>4. \A k \in (b + 1)..(q - 1) : g[k] # "="
  <2>1. \A k \in (b + 1)..(q - 1) : k \in 1..n
    BY <1>1
  <2> QED
    BY <1>1, <1>2, <2>1
<1>5. q > b + 1 => name = Name(g, b, q)
  <2>1. b \in Nat /\ q \in 1..(n + 1)
    BY <1>1, <1>2
  <2> QED
    BY <1>1, <2>1, NameStays DEF InValue
<1>6. q \in Nat /\ n + 1 \in 1..(n + 1)
  BY <1>1
<1>7. Shown(g, q, n + 1) = Shown(f, q, n + 1) /\ Shown(f, q, n + 1) \subseteq 1..n
  BY <1>6, ShownStays
<1>8. Shown(g, q, n + 2) = Shown(g, q, n + 1) \cup (IF g[n + 1] = "\r" THEN {} ELSE {n + 1})
  <2>1. (q + 1)..(n + 2 - 1) = (q + 1)..(n + 1 - 1) \cup {n + 1}
    BY <1>1, <1>2
  <2>2. \A k : k \in Shown(g, q, n + 2) <=> k \in (q + 1)..(n + 2 - 1) /\ g[k] # "\r"
    BY <1>1, <1>6 DEF Shown
  <2>3. \A k : k \in Shown(g, q, n + 1) <=> k \in (q + 1)..(n + 1 - 1) /\ g[k] # "\r"
    BY <1>1, <1>6 DEF Shown
  <2> QED
    BY <2>1, <2>2, <2>3
<1> QED
  BY <1>3, <1>4, <1>5, <1>7, <1>8

LEMMA ValueGoesOn ==
    ASSUME NEW f, NEW g, NEW n, More(f, g, n), NEW b \in 0..n, NEW q \in 0..n,
           NEW name, NEW string \in Seq(StringOf), NEW at \in Nat,
           InValue(f, b, q, name, string, at), NEW c \in Characters, c # "\r", g[n + 1] = c
    PROVE  InValue(g, b, q, name, Put(string, at, c), at + 1)
<1>1. n \in Nat /\ Len(f) = n /\ Len(g) = n + 1
  BY DEF More
<1>2. PICK S : S = Shown(f, q, n + 1)
  OBVIOUS
<1>3. Shown(g, q, n + 2) = S \cup {n + 1} /\ S \subseteq 1..n
  BY <1>2, ValueStands
<1>4. at = Cardinality(S) /\ (S # {} => Copies(string, f, S))
  BY <1>1, <1>2 DEF InValue
<1>5. Copies(Put(string, at, c), g, S \cup {n + 1})
  BY <1>3, <1>4, CopiesGrow
<1>6. Cardinality(S \cup {n + 1}) = at + 1
  BY <1>1, <1>3, <1>4, Ranks
<1>7. /\ q \in (b + 1)..(n + 1) /\ g[q] = "="
      /\ \A k \in (b + 1)..(q - 1) : g[k] # "="
      /\ q > b + 1 => name = Name(g, b, q)
  BY ValueStands
<1>8. n + 1 + 1 = n + 2
  BY <1>1
<1> QED
  BY <1>1, <1>3, <1>5, <1>6, <1>7, <1>8 DEF InValue

LEMMA ValueSkips ==
    ASSUME NEW f, NEW g, NEW n, More(f, g, n), NEW b \in 0..n, NEW q \in 0..n,
           NEW name, NEW string, NEW at, InValue(f, b, q, name, string, at), g[n + 1] = "\r"
    PROVE  InValue(g, b, q, name, string, at)
<1>1. n \in Nat /\ Len(f) = n /\ Len(g) = n + 1
  BY DEF More
<1>2. PICK S : S = Shown(f, q, n + 1)
  OBVIOUS
<1>3. Shown(g, q, n + 2) = S
  BY <1>2, ValueStands
<1>4. at = Cardinality(S) /\ (S # {} => Copies(string, f, S))
  BY <1>1, <1>2 DEF InValue
<1>5. S # {} => Copies(string, g, S)
  <2>1. q \in Nat /\ n + 1 \in 1..(n + 1)
    BY <1>1
  <2>2. Shown(g, q, n + 1) = S
    BY <1>2, <2>1, ShownStays
  <2> QED
    BY <1>2, <1>4, <2>1, <2>2, SettingsStay
<1>6. /\ q \in (b + 1)..(n + 1) /\ g[q] = "="
      /\ \A k \in (b + 1)..(q - 1) : g[k] # "="
      /\ q > b + 1 => name = Name(g, b, q)
  BY ValueStands
<1>7. n + 1 + 1 = n + 2
  BY <1>1
<1> QED
  BY <1>1, <1>3, <1>4, <1>5, <1>6, <1>7 DEF InValue

-----------------------------------------------------------------------------
(* The settings of a proper file. *)

LineInv ==
    \E b, q \in 0..Len(file) :
        /\ Open(file, b)
        /\ \/ sm = 0 /\ InName(file, b, varname, i)
           \/ sm = 1 /\ InValue(file, b, q, varname, varval, i)

SettingsInv ==
    AllProper(file) => AreCallsOf(calls, file) /\ (result = "none" => LineInv)

LEMMA ReadIsMore ==
    ASSUME TypeOK, NEW c \in Characters, Read(c)
    PROVE  /\ More(file, file', Len(file)) /\ file'[Len(file) + 1] = c
           /\ file' \in Seq(Characters) /\ Len(file) \in Nat /\ Len(file') = Len(file) + 1
           /\ result = "none"
<1>1. file \in Seq(Characters) /\ file' = Append(file, c) /\ result = "none"
  BY DEF Read, TypeOK
<1> QED
  BY <1>1, Appended DEF More

\* Inside a line there is no call.
LEMMA ReadInLine ==
    ASSUME TypeOK, SettingsInv, NEW c \in Characters, Read(c), c # "\n", UNCHANGED calls,
           AllProper(file')
    PROVE  AreCallsOf(calls', file') /\ LineInv
<1>1. PICK f, g, n : f = file /\ g = file' /\ n = Len(file)
  OBVIOUS
<1>2. More(f, g, n) /\ g[n + 1] = c /\ result = "none"
  BY <1>1, ReadIsMore
<1>3. AllProper(f)
  BY <1>1, <1>2, ProperBefore
<1>4. AreCallsOf(calls, f) /\ LineInv
  BY <1>1, <1>2, <1>3 DEF SettingsInv
<1>5. n + 1 \notin Asking(g)
  BY <1>2, EndsStay DEF Asking
<1>6. AreCallsOf(calls, g)
  BY <1>2, <1>4, <1>5, CallsStay
<1> QED
  BY <1>1, <1>4, <1>6

\* Nothing in a name ends a line of a proper file.
LEMMA InNameNoEnd ==
    ASSUME TypeOK, SettingsInv, sm = 0, NEW c \in Characters, Read(c), AllProper(file')
    PROVE  c # "\n"
<1>1. PICK f, g, n : f = file /\ g = file' /\ n = Len(file)
  OBVIOUS
<1>2. More(f, g, n) /\ g[n + 1] = c /\ result = "none"
  BY <1>1, ReadIsMore
<1>3. AllProper(f)
  BY <1>1, <1>2, ProperBefore
<1>4. PICK b \in 0..n : Open(f, b) /\ InName(f, b, varname, i)
  BY <1>1, <1>2, <1>3 DEF SettingsInv, LineInv
<1>5. g[n + 1] # "\n"
  BY <1>1, <1>2, <1>4, NameNotEnded
<1> QED
  BY <1>2, <1>5

LEMMA SettingsInit == Init => SettingsInv
<1> SUFFICES ASSUME Init PROVE SettingsInv
  OBVIOUS
<1>1. file = <<>> /\ calls = <<>> /\ sm = 0 /\ i = 0 /\ Len(file) = 0 /\ Len(calls) = 0
  BY DEF Init
<1>2. LineEnds(file) = {} /\ Asking(file) = {}
  BY <1>1 DEF LineEnds, Asking
<1>3. AreCallsOf(calls, file)
  BY <1>1, <1>2, FS_EmptySet DEF AreCallsOf
<1>4. Open(file, 0) /\ InName(file, 0, varname, i)
  BY <1>1 DEF Open, InName
<1>5. 0 \in 0..Len(file)
  BY <1>1
<1> QED
  BY <1>1, <1>3, <1>4, <1>5 DEF SettingsInv, LineInv

LEMMA SettingsEndName == TypeOK /\ SettingsInv /\ EndName => SettingsInv'
<1> SUFFICES ASSUME TypeOK, SettingsInv, EndName, AllProper(file')
             PROVE  AreCallsOf(calls', file') /\ LineInv'
  BY DEF SettingsInv
<1>1. Read("=") /\ sm = 0 /\ sm' = 1 /\ i' = 0 /\ UNCHANGED <<varname, varval, calls>>
      /\ "=" \in Characters
  BY DEF EndName, Characters
<1>2. AreCallsOf(calls', file') /\ LineInv
  BY <1>1, ReadInLine
<1>3. PICK f, g, n : f = file /\ g = file' /\ n = Len(file)
  OBVIOUS
<1>4. /\ More(f, g, n) /\ g[n + 1] = "="
      /\ n \in Nat /\ Len(g) = n + 1
  BY <1>1, <1>3, ReadIsMore
<1>5. PICK b \in 0..n : Open(f, b) /\ InName(f, b, varname, i)
  BY <1>1, <1>2, <1>3 DEF LineInv
<1>6. Open(g, b) /\ b \in 0..(n + 1)
  BY <1>4, <1>5, OpenStays
<1>7. InValue(g, b, n + 1, varname, varval, 0)
  BY <1>4, <1>5, NameEnds
<1>8. n + 1 \in 0..(n + 1)
  BY <1>4
<1> QED
  BY <1>1, <1>2, <1>3, <1>4, <1>6, <1>7, <1>8 DEF LineInv

LEMMA SettingsNameChar ==
    ASSUME NEW c \in Characters
    PROVE  TypeOK /\ SettingsInv /\ NameChar(c) => SettingsInv'
<1> SUFFICES ASSUME TypeOK, SettingsInv, NameChar(c), AllProper(file')
             PROVE  AreCallsOf(calls', file') /\ LineInv'
  BY DEF SettingsInv
<1>1. /\ Read(c) /\ sm = 0 /\ c # "=" /\ sm' = 0
      /\ varname' = Put(varname, i, c) /\ i' = i + 1 /\ UNCHANGED calls
  BY DEF NameChar
<1>0. c # "\n"
  BY <1>1, InNameNoEnd
<1>2. AreCallsOf(calls', file') /\ LineInv
  BY <1>0, <1>1, ReadInLine
<1>3. PICK f, g, n : f = file /\ g = file' /\ n = Len(file)
  OBVIOUS
<1>4. /\ More(f, g, n) /\ g[n + 1] = c /\ f \in Seq(Characters) /\ g \in Seq(Characters)
      /\ n \in Nat /\ Len(g) = n + 1
  BY <1>1, <1>3, ReadIsMore DEF TypeOK
<1>5. PICK b \in 0..n : Open(f, b) /\ InName(f, b, varname, i)
  BY <1>1, <1>2, <1>3 DEF LineInv
<1>6. Open(g, b) /\ b \in 0..(n + 1)
  BY <1>0, <1>4, <1>5, OpenStays
<1>7. varname \in Seq(StringOf) /\ i \in Nat /\ i <= Len(varname)
  BY <1>1 DEF TypeOK, StringOf
<1>8. InName(g, b, Put(varname, i, c), i + 1)
  BY <1>1, <1>4, <1>5, <1>7, NameGoesOn
<1> QED
  BY <1>1, <1>2, <1>3, <1>4, <1>6, <1>8 DEF LineInv

LEMMA SettingsValueChar ==
    ASSUME NEW c \in Characters
    PROVE  TypeOK /\ SettingsInv /\ ValueChar(c) => SettingsInv'
<1> SUFFICES ASSUME TypeOK, SettingsInv, ValueChar(c), AllProper(file')
             PROVE  AreCallsOf(calls', file') /\ LineInv'
  BY DEF SettingsInv
<1>1. /\ Read(c) /\ sm = 1 /\ c # "\n" /\ c # "\r" /\ sm' = 1
      /\ varval' = Put(varval, i, c) /\ i' = i + 1 /\ UNCHANGED <<varname, calls>>
  BY DEF ValueChar
<1>2. AreCallsOf(calls', file') /\ LineInv
  BY <1>1, ReadInLine
<1>3. PICK f, g, n : f = file /\ g = file' /\ n = Len(file)
  OBVIOUS
<1>4. More(f, g, n) /\ g[n + 1] = c /\ n \in Nat /\ Len(g) = n + 1
  BY <1>1, <1>3, ReadIsMore
<1>5. PICK b \in 0..n, q \in 0..n : Open(f, b) /\ InValue(f, b, q, varname, varval, i)
  BY <1>1, <1>2, <1>3 DEF LineInv
<1>6. Open(g, b) /\ b \in 0..(n + 1) /\ q \in 0..(n + 1)
  BY <1>1, <1>4, <1>5, OpenStays
<1>7. varval \in Seq(StringOf) /\ i \in Nat
  BY DEF TypeOK, StringOf
<1>8. InValue(g, b, q, varname, Put(varval, i, c), i + 1)
  BY <1>1, <1>4, <1>5, <1>7, ValueGoesOn
<1> QED
  BY <1>1, <1>2, <1>3, <1>4, <1>6, <1>8 DEF LineInv

LEMMA SettingsValueReturn == TypeOK /\ SettingsInv /\ ValueReturn => SettingsInv'
<1> SUFFICES ASSUME TypeOK, SettingsInv, ValueReturn, AllProper(file')
             PROVE  AreCallsOf(calls', file') /\ LineInv'
  BY DEF SettingsInv
<1>1. /\ Read("\r") /\ sm = 1 /\ UNCHANGED <<sm, i, varname, varval, calls>>
      /\ "\r" \in Characters
  BY DEF ValueReturn, Characters
<1>2. AreCallsOf(calls', file') /\ LineInv
  BY <1>1, ReadInLine
<1>3. PICK f, g, n : f = file /\ g = file' /\ n = Len(file)
  OBVIOUS
<1>4. More(f, g, n) /\ g[n + 1] = "\r" /\ n \in Nat /\ Len(g) = n + 1
  BY <1>1, <1>3, ReadIsMore
<1>5. PICK b \in 0..n, q \in 0..n : Open(f, b) /\ InValue(f, b, q, varname, varval, i)
  BY <1>1, <1>2, <1>3 DEF LineInv
<1>6. Open(g, b) /\ b \in 0..(n + 1) /\ q \in 0..(n + 1)
  BY <1>4, <1>5, OpenStays
<1>7. InValue(g, b, q, varname, varval, i)
  BY <1>4, <1>5, ValueSkips
<1> QED
  BY <1>1, <1>2, <1>3, <1>4, <1>6, <1>7 DEF LineInv

LEMMA SettingsTooLong ==
    ASSUME NEW c \in Characters
    PROVE  TypeOK /\ SettingsInv /\ TooLong(c) => SettingsInv'
<1> SUFFICES ASSUME TypeOK, SettingsInv, TooLong(c), AllProper(file')
             PROVE  AreCallsOf(calls', file')
  BY DEF SettingsInv, TooLong
<1>1. Read(c) /\ UNCHANGED calls
  BY DEF TooLong
<1>2. c # "\n"
  BY <1>1, InNameNoEnd DEF TooLong
<1> QED
  BY <1>1, <1>2, ReadInLine

LEMMA SettingsEndValue ==
    ASSUME NEW ok \in BOOLEAN
    PROVE  TypeOK /\ SettingsInv /\ EndValue(ok) => SettingsInv'
<1> SUFFICES ASSUME TypeOK, SettingsInv, EndValue(ok), AllProper(file')
             PROVE  AreCallsOf(calls', file') /\ (result' = "none" => LineInv')
  BY DEF SettingsInv
<1>1. Read("\n") /\ sm = 1 /\ "\n" \in Characters
  BY DEF EndValue, Characters
<1>2. PICK f, g, n : f = file /\ g = file' /\ n = Len(file)
  OBVIOUS
<1>3. /\ More(f, g, n) /\ g[n + 1] = "\n" /\ n \in Nat /\ Len(g) = n + 1
      /\ result = "none"
  BY <1>1, <1>2, ReadIsMore
<1>4. AllProper(f)
  BY <1>2, <1>3, ProperBefore
<1>5. AreCallsOf(calls, f)
  BY <1>2, <1>4 DEF SettingsInv
<1>6. PICK b \in 0..n, q \in 0..n : Open(f, b) /\ InValue(f, b, q, varname, varval, i)
  BY <1>1, <1>2, <1>3, <1>4 DEF SettingsInv, LineInv
<1>7. /\ IsLine(g, b, q, n + 1) /\ varname = Name(g, b, q)
      /\ Copies(varval, g, Shown(g, q, n + 1))
  BY <1>2, <1>3, <1>6, ValueEnded
<1>8. b \in Nat /\ q \in Nat
  BY <1>3
<1>9. AreCallsOf(calls', g)
  <2>1. CASE varname \in Known
    <3>1. PICK call, S : /\ call = [name |-> varname, val |-> varval, ok |-> ok]
                         /\ S = [name : Known, val : Seq(StringOf), ok : BOOLEAN]
      OBVIOUS
    <3>2. call \in S /\ call.name = varname /\ call.val = varval
      BY <2>1, <3>1 DEF TypeOK, StringOf
    <3>3. calls \in Seq(S)
      BY <3>1 DEF TypeOK, StringOf
    <3>4. calls' = Append(calls, call)
      BY <2>1, <3>1 DEF EndValue
    <3>5. /\ call.name = Name(g, b, q) /\ Name(g, b, q) \in Known
          /\ Copies(call.val, g, Shown(g, q, n + 1))
      BY <1>7, <2>1, <3>2
    <3> QED
      BY <1>3, <1>5, <1>7, <1>8, <3>2, <3>3, <3>4, <3>5, CallsGrow, ZenonT(30)
  <2>2. CASE varname \notin Known
    <3>1. n + 1 \notin Asking(g)
      <4> SUFFICES ASSUME n + 1 \in Asking(g) PROVE FALSE
        OBVIOUS
      <4>1. PICK b2 \in 0..(n + 1), q2 \in 0..(n + 1) :
                IsLine(g, b2, q2, n + 1) /\ Name(g, b2, q2) \in Known
        BY <1>3 DEF Asking
      <4>2. b2 \in Nat /\ q2 \in Nat /\ n + 1 \in Nat
        BY <1>3
      <4>3. b2 = b /\ q2 = q
        BY <1>7, <1>8, <4>1, <4>2, OneLine
      <4> QED
        BY <1>7, <2>2, <4>1, <4>3
    <3>2. calls' = calls
      BY <2>2 DEF EndValue
    <3> QED
      BY <1>3, <1>5, <3>1, <3>2, CallsStay
  <2> QED
    BY <2>1, <2>2
<1>10. result' = "none" => LineInv'
  <2>1. result' = "none" => sm' = 0 /\ i' = 0
    BY <1>3 DEF EndValue
  <2>2. n + 1 \in 0..(n + 1) /\ Open(g, n + 1) /\ InName(g, n + 1, varname', 0)
    BY <1>3, OpenNext
  <2> QED
    BY <1>2, <1>3, <2>1, <2>2 DEF LineInv
<1> QED
  BY <1>2, <1>9, <1>10

\* config_load_callbackable_config calls the callbacks that a file of proper lines asks for, in
\* the order of its lines, each with the value of its own line.
THEOREM SettingsAreRead == Spec => []SettingsAreLines
<1>1. TypeOK /\ SettingsInv /\ [Next]_configVars => SettingsInv'
  <2> SUFFICES ASSUME TypeOK, SettingsInv, [Next]_configVars PROVE SettingsInv'
    OBVIOUS
  <2>1. CASE EndOfFile
    BY <2>1 DEF EndOfFile, SettingsInv
  <2>2. CASE UNCHANGED configVars
    BY <2>2 DEF configVars, SettingsInv, LineInv
  <2> QED
    BY <2>1, <2>2, SettingsEndName, SettingsNameChar, SettingsValueChar, SettingsValueReturn,
       SettingsTooLong, SettingsEndValue DEF Next
<1>2. SettingsInv => SettingsAreLines
  BY DEF SettingsInv, AllProper, SettingsAreLines
<1> QED
  BY <1>1, <1>2, BuffersFit, SettingsInit, PTL DEF Spec
=============================================================================
