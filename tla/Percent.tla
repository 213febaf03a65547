------------------------------- MODULE Percent -------------------------------
(***************************************************************************)
(* percent_decode (percent.c) as parse_request calls it (main.c 567-573):  *)
(* the URI is decoded into its own buffer.  One action is one turn of the  *)
(* loop.  Characters are their codes; indices count from 0, as in the      *)
(* code.                                                                   *)
(*                                                                         *)
(* sscanf is told to store an int and is given the address of the char t.  *)
(* What the other three bytes fall on is the compiler's choice: nothing    *)
(* that matters ("apart"), or the low bytes of ll ("beside", as gcc does   *)
(* with the options of the Makefile).                                      *)
(***************************************************************************)
EXTENDS Integers, Sequences, FiniteSets

CONSTANTS
    Alphabet, \* the characters of URIs; white space and '?' never get here
    MaxUri,   \* bound: how long a URI is (1024 in the code)
    Builds    \* where t may lie

ASSUME PercentAssumption ==
    /\ Alphabet \subseteq 1..255
    /\ MaxUri \in Nat
    /\ Builds \subseteq {"apart", "beside"}

VARIABLES
    original, \* the URI as it came
    uri,      \* the buffer, without the NUL behind it
    i, o, ll, \* percent_decode's variables
    t,        \*   and the low byte of the number stored last
    build,
    pc        \* "decode", "done", or "astray": the loop has left the string

percentVars == <<original, uri, i, o, ll, t, build, pc>>

NUL == 0
Percent == 37
Plus == 43
Minus == 45

Bytes == 0..255

\* What t holds before a number is stored: anything.
Unset == -1

HexDigits == (48..57) \cup (65..70) \cup (97..102)

HexValue(c) == IF c <= 57 THEN c - 48 ELSE IF c <= 70 THEN c - 55 ELSE c - 87

\* What sscanf("%02x") stores for a string that begins with a and b, if anything.  One
\* digit is enough, and a sign may stand before it.
Scanned(a, b) ==
    IF a \in HexDigits
    THEN {IF b \in HexDigits THEN 16 * HexValue(a) + HexValue(b) ELSE HexValue(a)}
    ELSE IF b \in HexDigits /\ a = Plus THEN {HexValue(b)}
    ELSE IF b \in HexDigits /\ a = Minus THEN {-HexValue(b)}
    ELSE {}

\* The upper three bytes of the number, read as the low bytes of a length.
UpperBytes(n) == IF n < 0 THEN 16777215 ELSE 0

Init ==
    /\ original \in UNION {[1..n -> Alphabet] : n \in 0..MaxUri}
    /\ uri = original
    /\ i = 0
    /\ o = 0
    /\ ll = Len(original)
    /\ t = Unset
    /\ build \in Builds
    /\ pc = "decode"

At(k) == IF k < Len(uri) THEN uri[k + 1] ELSE NUL

MoreInclusive == i <= ll

More == i < ll

\* The next turn works on a character of the string.
Turn ==
    /\ pc = "decode"
    /\ More
    /\ i < Len(uri)

Literal ==
    /\ Turn
    /\ At(i) # Percent
    /\ uri' = [uri EXCEPT ![o + 1] = At(i)]
    /\ o' = o + 1
    /\ i' = i + 1
    /\ UNCHANGED <<original, ll, t, build, pc>>

\* The length allows for two more characters; it may be wrong by then.
Scans == ll >= i + 2

Numbers == IF Scans THEN Scanned(At(i + 1), At(i + 2)) ELSE {}

\* The second digit is read again.
DecodeTooShort ==
    /\ Turn
    /\ At(i) = Percent
    /\ \E n \in Numbers :
          /\ t' = n % 256
          /\ uri' = [uri EXCEPT ![o + 1] = n % 256]
          /\ ll' = IF build = "beside" THEN UpperBytes(n) ELSE ll
    /\ o' = o + 1
    /\ i' = i + 2
    /\ UNCHANGED <<original, build, pc>>

\* The number is kept as it is.
DecodeSigned ==
    /\ Turn
    /\ At(i) = Percent
    /\ \E n \in Numbers :
          /\ t' = n
          /\ uri' = [uri EXCEPT ![o + 1] = n]
          /\ ll' = IF build = "beside" THEN UpperBytes(n) ELSE ll
    /\ o' = o + 1
    /\ i' = i + 3
    /\ UNCHANGED <<original, build, pc>>

Decode ==
    /\ Turn
    /\ At(i) = Percent
    /\ \E n \in Numbers :
          /\ t' = n % 256
          /\ uri' = [uri EXCEPT ![o + 1] = n % 256]
          /\ ll' = IF build = "beside" THEN UpperBytes(n) ELSE ll
    /\ o' = o + 1
    /\ i' = i + 3
    /\ UNCHANGED <<original, build, pc>>

\* Nothing is left to scan: sscanf stores nothing and says EOF, which is not zero.
StringEnds == Scans /\ At(i + 1) = NUL

\* The number before is written again.
Repeat ==
    /\ Turn
    /\ At(i) = Percent
    /\ StringEnds
    /\ uri' = [uri EXCEPT ![o + 1] = t]
    /\ o' = o + 1
    /\ i' = i + 3
    /\ UNCHANGED <<original, ll, t, build, pc>>

\* A bad character is kept, with the sign escaped.
SinkEscaped ==
    /\ Turn
    /\ At(i) = Percent
    /\ Numbers = {} /\ ~StringEnds
    /\ i' = i + 1
    /\ o' = o + 3
    /\ uri' = [k \in 1..(IF Len(uri) < o + 3 THEN o + 3 ELSE Len(uri)) |->
                 IF k = o + 1 THEN Percent
                 ELSE IF k = o + 2 THEN 50
                 ELSE IF k = o + 3 THEN 53
                 ELSE uri[k]]
    /\ UNCHANGED <<original, ll, t, build, pc>>

\* "bad character, sink it and move on"
Sink ==
    /\ Turn
    /\ At(i) = Percent
    /\ Numbers = {} /\ ~StringEnds
    /\ i' = i + 1
    /\ UNCHANGED <<original, uri, o, ll, t, build, pc>>

\* The loop goes on behind the string, over whatever lies there.
Astray ==
    /\ pc = "decode"
    /\ More
    /\ i >= Len(uri)
    /\ pc' = "astray"
    /\ UNCHANGED <<original, uri, i, o, ll, t, build>>

End ==
    /\ pc = "decode"
    /\ ~More
    /\ pc' = "done"
    /\ UNCHANGED <<original, uri, i, o, ll, t, build>>

Next == Literal \/ Decode \/ Repeat \/ Sink \/ Astray \/ End

Spec == Init /\ [][Next]_percentVars

-----------------------------------------------------------------------------
\* The variables have their types; o is an index of the buffer or the end of it, and what is
\* written there is a byte: t is not used before a number is stored.
TypeOK ==
    /\ original \in Seq(Alphabet)
    /\ uri \in Seq(Bytes)
    /\ Len(uri) = Len(original)
    /\ i \in Nat
    /\ o \in 0..Len(original)
    /\ ll \in Nat
    /\ t \in Bytes \cup {Unset}
    /\ build \in Builds
    /\ pc \in {"decode", "done", "astray"}

\* Decoding a URI into its own buffer is sound: nothing is written that is still to be
\* read (percent.c 15, 19; main.c 571 passes uri twice).
WritesBehindReads ==
    /\ o <= i
    /\ \A k \in 1..Len(original) : k > i => uri[k] = original[k]

NegativeEscape(s) ==
    \E k \in 1..(Len(s) - 2) :
       s[k] = Percent /\ s[k + 1] = Minus /\ s[k + 2] \in HexDigits

\* The loop leaves the string only when the number of an escape with a minus sign has been
\* stored over the length (percent.c 14): every other URI is decoded within its buffer.
StaysInside ==
    pc = "astray" => build = "beside" /\ NegativeEscape(original)

\* What a URI means, told by position.  Char is NUL behind the end.
Char(s, k) == IF k <= Len(s) THEN s[k] ELSE NUL

Escapes(s) ==
    {k \in 1..Len(s) : /\ s[k] = Percent
                       /\ Char(s, k + 1) \in HexDigits /\ Char(s, k + 2) \in HexDigits}

\* Every percent sign begins an escape, or is plainly none.
Clear(s) ==
    \A k \in 1..Len(s) \ Escapes(s) :
        s[k] = Percent => Char(s, k + 1) \notin HexDigits \cup {Plus, Minus}

\* Where something begins that stands for one character, an escape or the character itself;
\* and what it stands for.
Begins(s) ==
    {k \in 1..Len(s) : /\ s[k] # Percent \/ k \in Escapes(s)
                       /\ k - 1 \notin Escapes(s) /\ k - 2 \notin Escapes(s)}

Meaning(s, k) ==
    IF k \in Escapes(s) THEN 16 * HexValue(s[k + 1]) + HexValue(s[k + 2]) ELSE s[k]

\* What is decoded: all of it where t lies apart from ll; otherwise, ll being lost with the
\* first escape, as far as that escape.
Reached == {k \in Begins(original) : build = "beside" => \A j \in Escapes(original) : k <= j}

Upto(S, k) == {j \in S : j <= k}

\* A URI whose percent signs are all clear is decoded to what it means (percent.c 7-23): the
\* n-th character of the result is what the n-th thing in the URI stands for, and there is
\* nothing else in it.
DecodedAsMeant ==
    pc = "done" /\ Clear(original) =>
        /\ o = Cardinality(Reached)
        /\ \A k \in Reached : uri[Cardinality(Upto(Reached, k))] = Meaning(original, k)
=============================================================================
