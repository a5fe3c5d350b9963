------------------------------ MODULE Messages -------------------------------
(***************************************************************************)
(* Messages (message.h) and the heap their bytes are in: every constructor *)
(* and operator allocates, copies and frees, and a block that was freed    *)
(* may be handed out again at once.  Bytes are stored as char, which is    *)
(* signed, and come out as integers.                                       *)
(***************************************************************************)
EXTENDS Integers, Sequences

CONSTANTS
  Objects, Vectors,
  Blocks, NULL     \* what malloc() may return, and nullptr

Chars == -128..127

ASSUME MessagesAssumption ==
  /\ NULL \notin Blocks
  /\ Vectors \subseteq Seq(Int)

VARIABLES
  live,     \* objects between their construction and their destruction
  content,  \* member content
  length,   \* member length
  heap      \* the bytes of each block; a block that is not in use has none

messagesVars == <<live, content, length, heap>>

\* Types: whatever integers and strings a message is made from, its bytes are
\* stored as chars.
MessagesTypeOK ==
  /\ live \subseteq Objects
  /\ content \in [Objects -> Blocks \cup {NULL}]
  /\ length \in [Objects -> Nat]
  /\ heap \in [Blocks -> Seq(Chars)]

MessagesInit ==
  /\ live = {}
  /\ content = [o \in Objects |-> NULL] /\ length = [o \in Objects |-> 0]
  /\ heap = [b \in Blocks |-> <<>>]

-----------------------------------------------------------------------------
(* Conversions.                                                            *)

\* Mutant: an integer is kept as it is.
CharOf_Unsigned(v) == v % 256

\* (char) v.
CharOf(v) == ((v + 128) % 256) - 128

\* Mutant: a char is read as the signed number it is.
ByteOf_Signed(c) == c

\* ((int) c + 256) % 256, as operator[], toBytes() and bytesDumpString() do.
ByteOf(c) == (c + 256) % 256

\* The C string of a std::string ends at its first NUL, if not before.
IsStrLen(n, s) ==
  /\ \A i \in 1..n : s[i] # 0
  /\ n < Len(s) => s[n + 1] = 0

-----------------------------------------------------------------------------
(* Operations.                                                             *)

\* importData() of an object, on the heap at that moment: nothing is allocated
\* for no bytes.
Imported(o, bytes, memory) ==
  /\ length' = [length EXCEPT ![o] = Len(bytes)]
  /\ \/ /\ bytes = <<>>
        /\ content' = [content EXCEPT ![o] = NULL]
        /\ heap' = memory
     \/ /\ bytes # <<>>
        /\ \E b \in {b \in Blocks : memory[b] = <<>>} :
             /\ content' = [content EXCEPT ![o] = b]
             /\ heap' = [memory EXCEPT ![b] = bytes]

Construct(o, bytes) ==
  /\ o \notin live
  /\ live' = live \cup {o}
  /\ Imported(o, bytes, heap)

\* Message(std::vector<int>), and Message(const char*, const int).
ConstructFromInts(o) ==
  \E v \in Vectors : Construct(o, [i \in DOMAIN v |-> CharOf(v[i])])

\* Message(std::string) and Message(const char* ).
ConstructFromCString(o) ==
  \E v \in Vectors : \E n \in 0..Len(v) :
    LET s == [i \in DOMAIN v |-> CharOf(v[i])] IN
    IsStrLen(n, s) /\ Construct(o, SubSeq(s, 1, n))

\* The bytes that content and length of an object name.
BytesOf(o) == IF content[o] = NULL THEN <<>> ELSE SubSeq(heap[content[o]], 1, length[o])

\* Mutant: a copy has the block of the original.
ConstructFrom_Shallow(o, p) ==
  /\ p \in live /\ o \notin live
  /\ live' = live \cup {o}
  /\ content' = [content EXCEPT ![o] = content[p]]
  /\ length' = [length EXCEPT ![o] = length[p]]
  /\ UNCHANGED heap

\* Message(const Message&).
ConstructFrom(o, p) == p \in live /\ Construct(o, BytesOf(p))

\* Mutant: the block of the old bytes is not freed.
Freed_Never(o) == heap

\* free(), which takes a null pointer as well.
Freed(o) ==
  IF content[o] = NULL THEN heap ELSE [heap EXCEPT ![content[o]] = <<>>]

\* operator=(): the old bytes are freed first.  If the other object is the same
\* one, its content is null by then.
Assign(o, p) ==
  /\ {o, p} \subseteq live
  /\ Imported(o, IF o = p THEN <<>> ELSE BytesOf(p), Freed(o))
  /\ UNCHANGED live

\* setByte() does nothing outside the message.
SetByte(o, index, v) ==
  /\ o \in live
  /\ 0 <= index /\ index < length[o]
  /\ heap' = [heap EXCEPT ![content[o]] = [@ EXCEPT ![index + 1] = CharOf(v)]]
  /\ UNCHANGED <<live, content, length>>

\* ~Message().
Destroy(o) ==
  /\ o \in live
  /\ live' = live \ {o}
  /\ heap' = Freed(o)
  /\ content' = [content EXCEPT ![o] = NULL]
  /\ length' = [length EXCEPT ![o] = 0]

Ints == UNION {{v[i] : i \in DOMAIN v} : v \in Vectors}

MessagesNext ==
  \E o \in Objects :
    \/ ConstructFromInts(o) \/ ConstructFromCString(o) \/ Destroy(o)
    \/ \E p \in Objects : ConstructFrom(o, p) \/ Assign(o, p)
    \/ \E v \in Ints : \E index \in 0..length[o] - 1 : SetByte(o, index, v)

MessagesSpec == MessagesInit /\ [][MessagesNext]_messagesVars

-----------------------------------------------------------------------------
(* What the code guarantees.                                               *)

\* Every block in use belongs to one object, which is live and knows its size,
\* and no object has a block that is not in use: nothing leaks, nothing is
\* freed twice, and nobody reads what was freed.
BlocksOwnedOnce ==
  /\ {b \in Blocks : heap[b] # <<>>} = {content[o] : o \in live} \ {NULL}
  /\ \A o, p \in live : content[o] = content[p] /\ content[o] # NULL => o = p
  /\ \A o \in Objects :
       length[o] = IF content[o] = NULL THEN 0 ELSE Len(heap[content[o]])

\* toBytes() of every object.
Bytes == [o \in Objects |-> [i \in 1..Len(BytesOf(o)) |-> ByteOf(BytesOf(o)[i])]]

\* Messages are values: what one operation does to a message no other message
\* shows, and bytes come out as they went in, modulo 256.
Values == INSTANCE ByteStrings WITH value <- Bytes

MessagesAreValues == Values!Spec
=============================================================================
