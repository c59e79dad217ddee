---------------------------- MODULE ConfigReader ----------------------------
(***************************************************************************)
(* read_config.c: one call of fgets and what is done with the line per     *)
(* step.  A line is a sequence of characters; "k" stands for the one key   *)
(* the program knows, server_ip.  Nothing checks that a value fits: where  *)
(* a buffer is written over or left without an end, the program's          *)
(* behaviour is undefined, and the model stops in "overrun".               *)
(***************************************************************************)
EXTENDS Integers, Sequences

CONSTANTS
  LineSize, KvSize,   \* LINE_SIZE, KV_SIZE
  SipSize,            \* the size of portal_sip
  Default,            \* 192.168.1.111
  Files               \* the files read: sequences of lines

VARIABLES pc,      \* idle, read, done, overrun
          file, rest, portal_sip

vars == <<pc, file, rest, portal_sip>>

\* portal_sip is global, so zero: the empty string.
Init == pc = "idle" /\ file = <<>> /\ rest = <<>> /\ portal_sip = <<>>

Open(f) == /\ pc = "idle" /\ pc' = "read"
           /\ file' = f /\ rest' = f
           /\ UNCHANGED portal_sip

-----------------------------------------------------------------------------
IsSpace(c) == c \in {" ", "\n"}
Solid(s) == {x \in DOMAIN s : ~IsSpace(s[x])}
FirstSolid(s) == CHOOSE x \in Solid(s) : \A y \in Solid(s) : x <= y
LastSolid(s) == CHOOSE x \in Solid(s) : \A y \in Solid(s) : y <= x

\* mytrim
Trim(s) == IF Solid(s) = {} THEN <<>> ELSE SubSeq(s, FirstSolid(s), LastSolid(s))

\* set_key_value: the value is copied without an end of its own, so what was
\* there of a longer one stays behind it.
SetKeyValue(key, value) ==
  portal_sip' = IF key = <<"k">>
                THEN value \o SubSeq(portal_sip, Len(value) + 1, Len(portal_sip))
                ELSE portal_sip

\* Mutant of Separator: the last = of the line separates.
LastSeparator(s) == LET Eqs == {x \in DOMAIN s : s[x] = "="}
                    IN IF Eqs = {} THEN 0 ELSE CHOOSE x \in Eqs : \A y \in Eqs : y <= x

Separator(s) == LET Eqs == {x \in DOMAIN s : s[x] = "="}
                IN IF Eqs = {} THEN 0 ELSE CHOOSE x \in Eqs : \A y \in Eqs : x <= y

\* What is before the first = of a line, and what is behind it.
Key(s) == SubSeq(s, 1, Separator(s) - 1)
Given(s) == SubSeq(s, Separator(s) + 1, Len(s))

\* A line without =, with nothing behind it or with a key that is too long is
\* passed over.
Passed(s) == Separator(s) \in {0, Len(s)} \/ Len(Key(s)) > KvSize

\* Mutant of Overruns: a value that leaves portal_sip without an end is taken.
OverrunsBehind(s) ==
  \/ Len(Key(s)) >= KvSize \/ Len(Given(s)) >= KvSize
  \/ Trim(Key(s)) = <<"k">> /\ Len(Trim(Given(s))) > SipSize

\* A key or value that fills its buffer has no end for mytrim, and a value of
\* the size of portal_sip none for check_args; longer ones are written behind.
Overruns(s) ==
  \/ Len(Key(s)) >= KvSize \/ Len(Given(s)) >= KvSize
  \/ Trim(Key(s)) = <<"k">> /\ Len(Trim(Given(s))) >= SipSize

\* parse_line_data
ParseLineData(s) ==
  IF Passed(s) THEN UNCHANGED <<pc, portal_sip>>
  ELSE IF Overruns(s) THEN pc' = "overrun" /\ UNCHANGED portal_sip
  ELSE SetKeyValue(Trim(Key(s)), Trim(Given(s))) /\ UNCHANGED pc

\* fgets takes no more than LineSize - 1 characters of a line; the rest of it is
\* the next line.
Fgets == IF Len(rest[1]) < LineSize THEN rest[1] ELSE SubSeq(rest[1], 1, LineSize - 1)
AfterFgets == IF Len(rest[1]) < LineSize THEN Tail(rest)
              ELSE <<SubSeq(rest[1], LineSize, Len(rest[1]))>> \o Tail(rest)

Read ==
  /\ pc = "read" /\ rest # <<>>
  /\ rest' = AfterFgets
  /\ IF Solid(Fgets) = {} THEN UNCHANGED <<pc, portal_sip>>
     ELSE LET index == SubSeq(Fgets, FirstSolid(Fgets), Len(Fgets)) IN
            IF index[1] = "#" THEN UNCHANGED <<pc, portal_sip>> ELSE ParseLineData(index)
  /\ UNCHANGED file

\* check_args
CheckArgs ==
  /\ pc = "read" /\ rest = <<>>
  /\ portal_sip' = IF portal_sip = <<>> THEN Default ELSE portal_sip
  /\ pc' = "done"
  /\ UNCHANGED <<file, rest>>

Next == Read \/ CheckArgs \/ \E f \in Files : Open(f)

Spec == Init /\ [][Next]_vars /\ WF_vars(Read \/ CheckArgs)

-----------------------------------------------------------------------------
\* A line that names the key: blanks, k, blanks, =, the value; what is before =
\* is shorter than the buffer of the key.
Names(s) == \E x \in DOMAIN s : /\ s[x] = "k" /\ \A y \in 1 .. x - 1 : IsSpace(s[y])
                                /\ \E z \in DOMAIN s : /\ x < z /\ z < x + KvSize /\ s[z] = "="
                                                       /\ \A y \in x + 1 .. z - 1 : IsSpace(s[y])
ValueOf(s) == LET z == CHOOSE z \in DOMAIN s : s[z] = "=" /\ \A y \in 1 .. z - 1 : s[y] # "="
              IN Trim(SubSeq(s, z + 1, Len(s)))

\* The lines of the file that name the key, and their values.
Named == {x \in DOMAIN file : Names(file[x])}
Value(x) == ValueOf(file[x])

(***************************************************************************)
(* read_config.c:52, 128, 156: of a file without over-long lines, each     *)
(* character of the setting is that of the last value long enough to have  *)
(* it, so the setting is the last value if none before it was longer; and  *)
(* it is the default if and only if no value was given.  This is so unless *)
(* a value has no room in portal_sip, which is not cut: then, or if a line *)
(* is longer than the buffers of keys and values, the call may overrun     *)
(* one of these, and only then.                                            *)
(***************************************************************************)
Longest == CHOOSE x \in Named : \A y \in Named : Len(Value(y)) <= Len(Value(x))
LastWith(n) == CHOOSE x \in Named : /\ Len(Value(x)) >= n
                                    /\ \A y \in Named : y > x => Len(Value(y)) < n
TooLong(x) == \/ x \in Named /\ Len(Value(x)) >= SipSize
              \/ Len(file[x]) > KvSize
Overlaid ==
  (\A x \in DOMAIN file : Len(file[x]) < LineSize) =>
    /\ pc = "done" =>
         /\ \A x \in Named : Len(Value(x)) < SipSize
         /\ portal_sip = IF \A x \in Named : Value(x) = <<>> THEN Default
                         ELSE [n \in 1 .. Len(Value(Longest)) |-> Value(LastWith(n))[n]]
    /\ pc = "overrun" => \E x \in DOMAIN file : TooLong(x)

=============================================================================
