----------------------------- MODULE ConfigFile -----------------------------
(***************************************************************************)
(* config_load_callbackable_config (config.c): one configuration file is   *)
(* read a character at a time and each "name=value" line is given to the   *)
(* callback registered for its name.                                       *)
(*                                                                         *)
(* The file is chosen as it is read.  A file that cannot be opened is an   *)
(* empty one: open's -1 passes the test `if((f = open(...)))`, and the     *)
(* first read fails.  varname and varval are uninitialized arrays, written *)
(* from the front and terminated behind each character: a line that brings *)
(* no character leaves the string as it was.                               *)
(***************************************************************************)
EXTENDS Integers, Sequences, FiniteSets

CONSTANTS Letters,               \* the ordinary characters
          Known,                 \* the names that have a callback
          MAX_VAR_NAME_LENGTH,   \* size of varname
          MAX_VAR_VALUE_LENGTH,  \* size of varval
          MaxFile                \* bound: length of the file

Characters == Letters \cup {"=", "\n", "\r"}

\* What an array holds before it is written.
Garbage == <<"garbage">>

ASSUME ConfigAssumption ==
    /\ Letters \cap {"=", "\n", "\r", "garbage"} = {}
    /\ Known \subseteq Seq(Letters)
    /\ MAX_VAR_NAME_LENGTH \in Nat /\ MAX_VAR_NAME_LENGTH > 1
    /\ MAX_VAR_VALUE_LENGTH \in Nat /\ MAX_VAR_VALUE_LENGTH > 1
    /\ MaxFile \in Nat

VARIABLES
    file,     \* what has been read of the file
    sm,       \* 0: in a name, 1: in a value
    i,        \* where the next character goes
    varname, varval,
    calls,    \* history: the calls of callbacks, and what they returned
    result    \* what the function returned: 1 is "accepted", 0 "refused"

configVars == <<file, sm, i, varname, varval, calls, result>>

Init ==
    /\ file = <<>> /\ calls = <<>> /\ result = "none"
    /\ sm = 0 /\ i = 0
    /\ varname = Garbage /\ varval = Garbage

-----------------------------------------------------------------------------
\* The string in an array after a character went to position `at` and a NUL behind it.
Put(string, at, c) == SubSeq(string, 1, at) \o <<c>>

Read(c) ==
    /\ result = "none" /\ Len(file) < MaxFile
    /\ file' = Append(file, c)

EndName ==
    /\ Read("=") /\ sm = 0
    /\ sm' = 1 /\ i' = 0
    /\ UNCHANGED <<varname, varval, calls, result>>

\* Variant: the NUL is forgotten.
NameCharNoRoomForNul(c) ==
    /\ Read(c) /\ sm = 0 /\ c # "="
    /\ i <= MAX_VAR_NAME_LENGTH - 1
    /\ varname' = Put(varname, i, c) /\ i' = i + 1
    /\ UNCHANGED <<sm, varval, calls, result>>

\* Line ends are characters of a name like any other.
NameChar(c) ==
    /\ Read(c) /\ sm = 0 /\ c # "="
    /\ i < MAX_VAR_NAME_LENGTH - 1
    /\ varname' = Put(varname, i, c) /\ i' = i + 1
    /\ UNCHANGED <<sm, varval, calls, result>>

ValueChar(c) ==
    /\ Read(c) /\ sm = 1 /\ c \notin {"\n", "\r"}
    /\ i < MAX_VAR_VALUE_LENGTH - 1
    /\ varval' = Put(varval, i, c) /\ i' = i + 1
    /\ UNCHANGED <<sm, varname, calls, result>>

ValueReturn ==
    /\ Read("\r") /\ sm = 1
    /\ UNCHANGED <<sm, i, varname, varval, calls, result>>

\* A name or a value with no room left ends the function.
TooLong(c) ==
    /\ Read(c)
    /\ \/ sm = 0 /\ c # "=" /\ i >= MAX_VAR_NAME_LENGTH - 1
       \/ sm = 1 /\ c \notin {"\n", "\r"} /\ i >= MAX_VAR_VALUE_LENGTH - 1
    /\ result' = "refused"
    /\ UNCHANGED <<sm, i, varname, varval, calls>>

\* Variant: the next name goes behind the value's length.
EndValueKeepsIndex(ok) ==
    /\ Read("\n") /\ sm = 1
    /\ IF varname \in Known
         THEN /\ calls' = Append(calls, [name |-> varname, val |-> varval, ok |-> ok])
              /\ IF ok THEN sm' = 0 /\ UNCHANGED <<i, result>>
                       ELSE result' = "refused" /\ UNCHANGED <<sm, i>>
         ELSE sm' = 0 /\ UNCHANGED <<i, calls, result>>
    /\ UNCHANGED <<varname, varval>>

\* Variant: a refusal is not passed on.
EndValueGoesOn(ok) ==
    /\ Read("\n") /\ sm = 1
    /\ calls' = IF varname \in Known
                  THEN Append(calls, [name |-> varname, val |-> varval, ok |-> ok])
                  ELSE calls
    /\ sm' = 0 /\ i' = 0
    /\ UNCHANGED <<varname, varval, result>>

\* The end of a line: the callback for the name, if there is one, gets the value, and
\* ends the function if it refuses it.
EndValue(ok) ==
    /\ Read("\n") /\ sm = 1
    /\ IF varname \in Known
         THEN /\ calls' = Append(calls, [name |-> varname, val |-> varval, ok |-> ok])
              /\ IF ok THEN sm' = 0 /\ i' = 0 /\ UNCHANGED result
                       ELSE result' = "refused" /\ UNCHANGED <<sm, i>>
         ELSE sm' = 0 /\ i' = 0 /\ UNCHANGED <<calls, result>>
    /\ UNCHANGED <<varname, varval>>

EndOfFile ==
    /\ result = "none"
    /\ result' = "accepted"
    /\ UNCHANGED <<file, sm, i, varname, varval, calls>>

Next ==
    \/ EndName \/ ValueReturn \/ EndOfFile
    \/ \E c \in Characters : NameChar(c) \/ ValueChar(c) \/ TooLong(c)
    \/ \E ok \in BOOLEAN : EndValue(ok)

Spec == Init /\ [][Next]_configVars

-----------------------------------------------------------------------------
(* Properties. *)

\* Every variable holds a value of its kind, and a terminated string fits its array: with
\* its NUL it is never longer than MAX_VAR_NAME_LENGTH or MAX_VAR_VALUE_LENGTH.
TypeOK ==
    /\ file \in Seq(Characters)
    /\ sm \in {0, 1} /\ i \in Nat
    /\ varname \in Seq(Characters \cup {"garbage"}) /\ Len(varname) < MAX_VAR_NAME_LENGTH
    /\ varval \in Seq(Characters \cup {"garbage"}) /\ Len(varval) < MAX_VAR_VALUE_LENGTH
    /\ sm = 0 => i <= Len(varname)
    /\ sm = 1 => i <= Len(varval)
    /\ calls \in Seq([name : Known, val : Seq(Characters \cup {"garbage"}), ok : BOOLEAN])
    /\ result \in {"none", "accepted", "refused"}

\* The function returns 1 only if every callback took its value, and calls none after one
\* that did not.
RefusalIsLast ==
    \A k \in 1..Len(calls) : ~calls[k].ok => k = Len(calls) /\ result = "refused"

\* What a file asks for, told by position: where its lines end, and a line that begins behind
\* b, has its first equal sign at q and ends at e.
LineEnds(text) == {k \in 1..Len(text) : text[k] = "\n"}

IsLine(text, b, q, e) ==
    /\ e \in LineEnds(text) /\ b \in LineEnds(text) \cup {0} /\ q \in (b + 1)..(e - 1)
    /\ \A k \in (b + 1)..(e - 1) : text[k] # "\n"
    /\ text[q] = "=" /\ \A k \in (b + 1)..(q - 1) : text[k] # "="

Name(text, b, q) == SubSeq(text, b + 1, q - 1)

\* Where the characters of a value are; a return is not one.
Shown(text, q, e) == {k \in (q + 1)..(e - 1) : text[k] # "\r"}

\* A line as the configuration files of the repository have them: nothing left out.
IsProper(text, e) ==
    \E b, q \in 0..Len(text) : IsLine(text, b, q, e) /\ q > b + 1 /\ Shown(text, q, e) # {}

\* The lines that ask for a call, by their ends.
Asking(text) ==
    {e \in LineEnds(text) :
        \E b, q \in 0..Len(text) : IsLine(text, b, q, e) /\ Name(text, b, q) \in Known}

Upto(S, k) == {j \in S : j <= k}

\* The characters of a string are those of the text at the positions in S.
Copies(string, text, S) ==
    /\ Len(string) = Cardinality(S)
    /\ \A k \in S : string[Cardinality(Upto(S, k))] = text[k]

\* The calls that a text asks for, and no other, in their order.
AreCallsOf(made, text) ==
    /\ Len(made) = Cardinality(Asking(text))
    /\ \A e \in Asking(text), b, q \in 0..Len(text) :
          IsLine(text, b, q, e) =>
              LET call == made[Cardinality(Upto(Asking(text), e))]
              IN  call.name = Name(text, b, q) /\ Copies(call.val, text, Shown(text, q, e))

\* A file of proper lines makes the calls its lines ask for, each with its own line's value
\* and nothing left over from another (config.c 13-62); a file that is refused, those of what
\* was read of it.
SettingsAreLines ==
    (\A e \in LineEnds(file) : IsProper(file, e)) => AreCallsOf(calls, file)
=============================================================================
