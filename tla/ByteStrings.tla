----------------------------- MODULE ByteStrings -----------------------------
(***************************************************************************)
(* What users of messages rely on: a message is a value of its own.  It is *)
(* made from integers, from a C string or from another message, and no     *)
(* operation on one message is seen in another.                            *)
(***************************************************************************)
EXTENDS Integers, Sequences

CONSTANTS
  Objects,  \* the messages of a program
  Vectors   \* what messages are made from: sequences of integers

VARIABLES live, value

stringVars == <<live, value>>

Byte(v) == v % 256

\* The length of a C string.
IsLength(n, s) ==
  /\ \A i \in 1..n : s[i] # 0
  /\ n < Len(s) => s[n + 1] = 0

Init == live = {} /\ value = [o \in Objects |-> <<>>]

Made(o, s) ==
  /\ o \notin live
  /\ live' = live \cup {o}
  /\ value' = [value EXCEPT ![o] = s]

MakeFromInts(o) == \E v \in Vectors : Made(o, [i \in DOMAIN v |-> Byte(v[i])])

MakeFromCString(o) ==
  \E v \in Vectors : \E n \in 0..Len(v) :
    LET s == [i \in DOMAIN v |-> Byte(v[i])] IN
    IsLength(n, s) /\ Made(o, SubSeq(s, 1, n))

MakeFrom(o, p) == p \in live /\ Made(o, value[p])

\* A message that is assigned to itself is empty afterwards.
Assign(o, p) ==
  /\ {o, p} \subseteq live
  /\ value' = [value EXCEPT ![o] = IF o = p THEN <<>> ELSE value[p]]
  /\ UNCHANGED live

SetByte(o, i, v) ==
  /\ o \in live /\ i \in 1..Len(value[o])
  /\ value' = [value EXCEPT ![o] = [value[o] EXCEPT ![i] = Byte(v)]]
  /\ UNCHANGED live

Destroy(o) ==
  /\ o \in live
  /\ live' = live \ {o}
  /\ value' = [value EXCEPT ![o] = <<>>]

Ints == UNION {{v[i] : i \in DOMAIN v} : v \in Vectors}

Next ==
  \E o \in Objects :
    \/ MakeFromInts(o) \/ MakeFromCString(o) \/ Destroy(o)
    \/ \E p \in Objects : MakeFrom(o, p) \/ Assign(o, p)
    \/ \E v \in Ints : \E i \in 1..Len(value[o]) : SetByte(o, i, v)

Spec == Init /\ [][Next]_stringVars
=============================================================================
