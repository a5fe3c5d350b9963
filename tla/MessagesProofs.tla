--------------------------- MODULE MessagesProofs ----------------------------
(***************************************************************************)
(* Proofs about Messages, for any number of objects, any heap and any      *)
(* integers: types, the ownership of blocks, and that messages are values. *)
(***************************************************************************)
EXTENDS Messages, SequenceTheorems, TLAPS

-----------------------------------------------------------------------------
(* Bytes.                                                                  *)

\* A char that was made from an integer comes out as the integer modulo 256.
LEMMA BytesComeOut ==
  ASSUME NEW v \in Int
  PROVE  CharOf(v) \in Chars /\ ByteOf(CharOf(v)) = Values!Byte(v)
BY DEF CharOf, ByteOf, Chars, Values!Byte

\* Only the NUL comes out as 0.
LEMMA NulComesOut ==
  ASSUME NEW v \in Int
  PROVE  CharOf(v) = 0 <=> Values!Byte(v) = 0
BY DEF CharOf, Values!Byte

\* The chars of a vector, and what comes out of them.
CharsOf(v) == [i \in DOMAIN v |-> CharOf(v[i])]
ValuesOf(v) == [i \in DOMAIN v |-> Values!Byte(v[i])]

LEMMA CharsOfVector ==
  ASSUME NEW v \in Vectors
  PROVE  /\ v \in Seq(Int) /\ Len(v) \in Nat /\ DOMAIN v = 1..Len(v)
         /\ CharsOf(v) \in Seq(Chars) /\ Len(CharsOf(v)) = Len(v)
         /\ ValuesOf(v) \in Seq(Int) /\ Len(ValuesOf(v)) = Len(v)
         /\ \A i \in 1..Len(v) :
              /\ v[i] \in Int
              /\ CharsOf(v)[i] = CharOf(v[i])
              /\ ByteOf(CharsOf(v)[i]) = ValuesOf(v)[i]
              /\ CharsOf(v)[i] = 0 <=> ValuesOf(v)[i] = 0
<1>1. v \in Seq(Int)
  BY MessagesAssumption
<1>2. Len(v) \in Nat /\ DOMAIN v = 1..Len(v) /\ \A i \in 1..Len(v) : v[i] \in Int
  BY <1>1
<1>3. \A i \in 1..Len(v) : CharOf(v[i]) \in Chars
  BY <1>2, BytesComeOut
<1>4. \A i \in 1..Len(v) : Values!Byte(v[i]) \in Int
  BY <1>2 DEF Values!Byte
<1>5. CharsOf(v) \in Seq(Chars) /\ Len(CharsOf(v)) = Len(v)
  BY <1>2, <1>3 DEF CharsOf
<1>6. ValuesOf(v) \in Seq(Int) /\ Len(ValuesOf(v)) = Len(v)
  BY <1>2, <1>4 DEF ValuesOf
<1>7. \A i \in 1..Len(v) :
        CharsOf(v)[i] = CharOf(v[i]) /\ ValuesOf(v)[i] = Values!Byte(v[i])
  BY <1>2 DEF CharsOf, ValuesOf
<1>8. \A i \in 1..Len(v) :
        /\ ByteOf(CharsOf(v)[i]) = ValuesOf(v)[i]
        /\ CharsOf(v)[i] = 0 <=> ValuesOf(v)[i] = 0
  BY <1>2, <1>7, BytesComeOut, NulComesOut
<1> QED
  BY <1>1, <1>2, <1>5, <1>6, <1>7, <1>8

\* What is read of a sequence of chars.
Read(s) == [i \in DOMAIN s |-> ByteOf(s[i])]

-----------------------------------------------------------------------------
(* The invariant.                                                          *)

\* Ownership, block by block and object by object; an object that is not live
\* has no block.
MessagesInv ==
  /\ MessagesTypeOK
  /\ \A b \in Blocks : heap[b] # <<>> => \E o \in live : content[o] = b
  /\ \A o \in live : content[o] # NULL => heap[content[o]] # <<>>
  /\ \A o, p \in live : content[o] = content[p] /\ content[o] # NULL => o = p
  /\ \A o \in Objects :
       length[o] = IF content[o] = NULL THEN 0 ELSE Len(heap[content[o]])
  /\ \A o \in Objects \ live : content[o] = NULL

LEMMA InvOwns == MessagesInv => BlocksOwnedOnce
<1> SUFFICES ASSUME MessagesInv PROVE BlocksOwnedOnce
  OBVIOUS
<1>1. ASSUME NEW o \in live
      PROVE  content[o] \in Blocks \cup {NULL}
  BY DEF MessagesInv, MessagesTypeOK
<1>2. {b \in Blocks : heap[b] # <<>>} = {content[o] : o \in live} \ {NULL}
  BY <1>1, MessagesAssumption DEF MessagesInv
<1> QED
  BY <1>2 DEF BlocksOwnedOnce, MessagesInv

\* The bytes of an object are those of its block.
BytesShown ==
  \A o \in Objects :
    /\ BytesOf(o) = IF content[o] = NULL THEN <<>> ELSE heap[content[o]]
    /\ BytesOf(o) \in Seq(Chars)
    /\ Bytes[o] = Read(BytesOf(o))

LEMMA BytesAreTheBlock == MessagesInv => BytesShown
<1> SUFFICES ASSUME MessagesInv, NEW o \in Objects
             PROVE  /\ BytesOf(o) = IF content[o] = NULL THEN <<>> ELSE heap[content[o]]
                    /\ BytesOf(o) \in Seq(Chars)
                    /\ Bytes[o] = Read(BytesOf(o))
  BY DEF BytesShown
<1>1. content[o] # NULL =>
        /\ content[o] \in Blocks
        /\ heap[content[o]] \in Seq(Chars)
        /\ length[o] = Len(heap[content[o]])
  BY DEF MessagesInv, MessagesTypeOK
<1>2. content[o] # NULL =>
        SubSeq(heap[content[o]], 1, Len(heap[content[o]])) = heap[content[o]]
  BY <1>1, SubSeqFull
<1>3. BytesOf(o) = IF content[o] = NULL THEN <<>> ELSE heap[content[o]]
  BY <1>1, <1>2 DEF BytesOf
<1>4. BytesOf(o) \in Seq(Chars)
  <2>1. CASE content[o] = NULL
    BY <1>3, <2>1
  <2>2. CASE content[o] # NULL
    BY <1>1, <1>3, <2>2
  <2> QED
    BY <2>1, <2>2
<1>5. DOMAIN BytesOf(o) = 1..Len(BytesOf(o))
  BY <1>4
<1> QED
  BY <1>3, <1>4, <1>5 DEF Bytes, Read

LEMMA BytesAreTheBlockNext == MessagesInv' => BytesShown'
BY BytesAreTheBlock, PTL

-----------------------------------------------------------------------------
(* Importing.                                                              *)

\* An object that imports bytes, on a heap where only the other objects' blocks
\* are in use, shows these bytes afterwards, and nothing else has changed.
LEMMA ImportKeeps ==
  ASSUME MessagesInv, NEW o \in Objects, NEW s \in Seq(Chars),
         NEW memory \in [Blocks -> Seq(Chars)],
         \A p \in live \ {o} : content[p] # NULL => memory[content[p]] = heap[content[p]],
         \A b \in Blocks : memory[b] # <<>> => \E p \in live \ {o} : content[p] = b,
         Imported(o, s, memory),
         live' = live \cup {o}
  PROVE  MessagesInv' /\ Bytes' = [Bytes EXCEPT ![o] = Read(s)]
<1> DEFINE c == content'[o]
<1>1. /\ c \in Blocks \cup {NULL}
      /\ content' = [content EXCEPT ![o] = c]
      /\ length' = [length EXCEPT ![o] = Len(s)]
      /\ c = NULL <=> s = <<>>
      /\ c = NULL => heap' = memory
      /\ c # NULL => memory[c] = <<>> /\ heap' = [memory EXCEPT ![c] = s]
  <2>1. CASE s = <<>>
    BY <2>1 DEF Imported, MessagesInv, MessagesTypeOK
  <2>2. CASE s # <<>>
    BY <2>2, MessagesAssumption DEF Imported, MessagesInv, MessagesTypeOK
  <2> QED
    BY <2>1, <2>2
<1> HIDE DEF c
<1>2. content'[o] = c /\ \A p \in Objects \ {o} : content'[p] = content[p]
  BY <1>1 DEF MessagesInv, MessagesTypeOK
<1>3. MessagesTypeOK'
  <2>1. Len(s) \in Nat
    OBVIOUS
  <2>2. heap' \in [Blocks -> Seq(Chars)]
    BY <1>1
  <2> QED
    BY <1>1, <2>1, <2>2 DEF MessagesInv, MessagesTypeOK
<1>4. ASSUME NEW p \in live \ {o}, content[p] # NULL
      PROVE  content[p] # c /\ heap'[content[p]] = heap[content[p]]
  <2>1. memory[content[p]] = heap[content[p]]
    BY <1>4
  <2>2. content[p] \in Blocks /\ heap[content[p]] # <<>>
    BY <1>4 DEF MessagesInv, MessagesTypeOK
  <2>3. content[p] # c
    BY <1>1, <2>1, <2>2, <1>4
  <2>4. CASE c = NULL
    BY <1>1, <2>1, <2>4, <2>3
  <2>5. CASE c # NULL
    <3>1. heap' = [memory EXCEPT ![c] = s]
      BY <1>1, <2>5
    <3> QED
      BY <2>1, <2>2, <2>3, <3>1
  <2> QED
    BY <2>4, <2>5
<1>5. \A b \in Blocks : heap'[b] # <<>> => \E p \in live' : content'[p] = b
  <2> SUFFICES ASSUME NEW b \in Blocks, heap'[b] # <<>>
               PROVE  \E p \in live' : content'[p] = b
    OBVIOUS
  <2>1. CASE b = c
    BY <2>1, <1>2
  <2>2. CASE b # c
    <3>1. memory[b] # <<>>
      BY <1>1, <2>2
    <3>2. PICK p \in live \ {o} : content[p] = b
      BY <3>1
    <3> QED
      BY <3>2, <1>2 DEF MessagesInv, MessagesTypeOK
  <2> QED
    BY <2>1, <2>2
<1>6. \A p \in live' : content'[p] # NULL => heap'[content'[p]] # <<>>
  <2> SUFFICES ASSUME NEW p \in live', content'[p] # NULL
               PROVE  heap'[content'[p]] # <<>>
    OBVIOUS
  <2>1. CASE p = o
    BY <2>1, <1>1, <1>2
  <2>2. CASE p # o
    BY <2>2, <1>2, <1>4 DEF MessagesInv, MessagesTypeOK
  <2> QED
    BY <2>1, <2>2
<1>7. \A p, q \in live' : content'[p] = content'[q] /\ content'[p] # NULL => p = q
  BY <1>2, <1>4 DEF MessagesInv, MessagesTypeOK
<1>8. \A p \in Objects :
        length'[p] = IF content'[p] = NULL THEN 0 ELSE Len(heap'[content'[p]])
  <2> SUFFICES ASSUME NEW p \in Objects
               PROVE  length'[p] = IF content'[p] = NULL THEN 0 ELSE Len(heap'[content'[p]])
    OBVIOUS
  <2>1. CASE p = o
    <3>1. length'[p] = Len(s)
      BY <1>1, <2>1 DEF MessagesInv, MessagesTypeOK
    <3>2. c # NULL => heap'[c] = s
      BY <1>1
    <3> QED
      BY <1>1, <1>2, <2>1, <3>1, <3>2
  <2>2. CASE p # o
    BY <2>2, <1>1, <1>2, <1>4 DEF MessagesInv, MessagesTypeOK
  <2> QED
    BY <2>1, <2>2
<1>9. \A p \in Objects \ live' : content'[p] = NULL
  BY <1>2 DEF MessagesInv
<1>10. MessagesInv'
  BY <1>3, <1>5, <1>6, <1>7, <1>8, <1>9 DEF MessagesInv
<1>11. ASSUME NEW p \in Objects
       PROVE  Bytes'[p] = [Bytes EXCEPT ![o] = Read(s)][p]
  <2>1. Bytes'[p] = Read(BytesOf(p)') /\ Bytes[p] = Read(BytesOf(p))
    BY <1>10, BytesAreTheBlock, BytesAreTheBlockNext DEF BytesShown
  <2>2. CASE p = o
    <3>1. BytesOf(p)' = s
      BY <1>1, <1>2, <1>10, <2>2, BytesAreTheBlockNext DEF BytesShown
    <3> QED
      BY <2>1, <2>2, <3>1 DEF Bytes
  <2>3. CASE p # o
    <3>1. /\ BytesOf(p) = IF content[p] = NULL THEN <<>> ELSE heap[content[p]]
          /\ BytesOf(p)' = IF content'[p] = NULL THEN <<>> ELSE heap'[content'[p]]
      BY <1>10, BytesAreTheBlock, BytesAreTheBlockNext DEF BytesShown
    <3>2. content'[p] = content[p]
      BY <1>2, <2>3
    <3>3. content[p] # NULL => p \in live \ {o}
      BY <2>3 DEF MessagesInv
    <3>4. BytesOf(p)' = BytesOf(p)
      BY <1>4, <3>1, <3>2, <3>3
    <3> QED
      BY <2>1, <2>3, <3>4 DEF Bytes
  <2> QED
    BY <2>2, <2>3
<1> QED
  BY <1>10, <1>11 DEF Bytes
-----------------------------------------------------------------------------
(* Each operation, and the operation on values that it is.                 *)

LEMMA ConstructKeeps ==
  ASSUME MessagesInv, NEW o \in Objects, NEW s \in Seq(Chars), Construct(o, s)
  PROVE  MessagesInv' /\ Values!Made(o, Read(s))
<1>1. heap \in [Blocks -> Seq(Chars)]
  BY DEF MessagesInv, MessagesTypeOK
<1>2. \A b \in Blocks : heap[b] # <<>> => \E p \in live \ {o} : content[p] = b
  BY DEF MessagesInv, Construct
<1>3. Imported(o, s, heap) /\ live' = live \cup {o}
  BY DEF Construct
<1>4. MessagesInv' /\ Bytes' = [Bytes EXCEPT ![o] = Read(s)]
  BY <1>1, <1>2, <1>3, ImportKeeps
<1> QED
  BY <1>4 DEF Construct, Values!Made

\* Without its own block, the heap of an object is that of the others.
LEMMA FreedHeap ==
  ASSUME MessagesInv, NEW o \in live
  PROVE  /\ Freed(o) \in [Blocks -> Seq(Chars)]
         /\ \A p \in live \ {o} :
              content[p] # NULL => Freed(o)[content[p]] = heap[content[p]]
         /\ \A b \in Blocks :
              Freed(o)[b] # <<>> => \E p \in live \ {o} : content[p] = b
<1>1. /\ o \in Objects
      /\ content[o] # NULL => content[o] \in Blocks
      /\ heap \in [Blocks -> Seq(Chars)]
  BY DEF MessagesInv, MessagesTypeOK
<1>2. CASE content[o] = NULL
  <2>1. Freed(o) = heap
    BY <1>2 DEF Freed
  <2>2. ASSUME NEW b \in Blocks, heap[b] # <<>>
        PROVE  \E p \in live \ {o} : content[p] = b
    BY <1>2, <2>2, MessagesAssumption DEF MessagesInv
  <2> QED
    BY <1>1, <2>1, <2>2
<1>3. CASE content[o] # NULL
  <2>1. Freed(o) = [heap EXCEPT ![content[o]] = <<>>]
    BY <1>3 DEF Freed
  <2>2. Freed(o) \in [Blocks -> Seq(Chars)]
    BY <1>1, <1>3, <2>1
  <2>3. ASSUME NEW p \in live \ {o}, content[p] # NULL
        PROVE  Freed(o)[content[p]] = heap[content[p]]
    <3>1. content[p] # content[o] /\ content[p] \in Blocks
      BY <2>3 DEF MessagesInv, MessagesTypeOK
    <3> QED
      BY <1>1, <2>1, <3>1
  <2>4. ASSUME NEW b \in Blocks, Freed(o)[b] # <<>>
        PROVE  \E p \in live \ {o} : content[p] = b
    <3>1. b # content[o] /\ heap[b] # <<>>
      BY <1>1, <1>3, <2>1, <2>4
    <3> QED
      BY <3>1 DEF MessagesInv
  <2> QED
    BY <2>2, <2>3, <2>4
<1> QED
  BY <1>2, <1>3

LEMMA AssignKeeps ==
  ASSUME MessagesInv, NEW o \in Objects, NEW p \in Objects, Assign(o, p)
  PROVE  MessagesInv' /\ Values!Assign(o, p)
<1> DEFINE s == IF o = p THEN <<>> ELSE BytesOf(p)
<1>1. o \in live /\ p \in live /\ live' = live /\ Imported(o, s, Freed(o))
  BY DEF Assign
<1>2. s \in Seq(Chars) /\ Bytes[p] = Read(BytesOf(p))
  BY BytesAreTheBlock DEF BytesShown
<1>3. Read(s) = IF o = p THEN <<>> ELSE Bytes[p]
  BY <1>2 DEF Read
<1>4. live' = live \cup {o}
  BY <1>1
<1> HIDE DEF s
<1>5. MessagesInv' /\ Bytes' = [Bytes EXCEPT ![o] = Read(s)]
  BY <1>1, <1>2, <1>4, FreedHeap, ImportKeeps
<1> QED
  BY <1>1, <1>3, <1>5 DEF Values!Assign

LEMMA SetByteKeeps ==
  ASSUME MessagesInv, NEW o \in Objects, NEW v \in Int,
         NEW index \in 0..length[o] - 1, SetByte(o, index, v)
  PROVE  MessagesInv' /\ Values!SetByte(o, index + 1, v)
<1> DEFINE c == content[o]
           s == [heap[c] EXCEPT ![index + 1] = CharOf(v)]
<1>1. /\ o \in live /\ live' = live /\ content' = content /\ length' = length
      /\ heap' = [heap EXCEPT ![c] = s]
      /\ index \in Nat /\ index < length[o]
  BY DEF SetByte, MessagesInv, MessagesTypeOK
<1>2. c \in Blocks /\ c # NULL
      /\ heap[c] \in Seq(Chars) /\ length[o] = Len(heap[c]) /\ index + 1 \in 1..Len(heap[c])
  BY <1>1 DEF MessagesInv, MessagesTypeOK
<1>3. s \in Seq(Chars) /\ Len(s) = Len(heap[c]) /\ s # <<>> /\ DOMAIN s = 1..Len(heap[c])
  BY <1>2, BytesComeOut
<1> HIDE DEF s
<1>4. heap'[c] = s /\ \A b \in Blocks \ {c} : heap'[b] = heap[b]
  BY <1>1, <1>2 DEF MessagesInv, MessagesTypeOK
<1>5. MessagesTypeOK'
  BY <1>1, <1>2, <1>3 DEF MessagesInv, MessagesTypeOK
<1>6. \A b \in Blocks : heap'[b] # <<>> <=> heap[b] # <<>>
  BY <1>1, <1>2, <1>3, <1>4 DEF MessagesInv
<1>7. \A p \in Objects :
        content[p] # NULL => content[p] \in Blocks /\ Len(heap'[content[p]]) = Len(heap[content[p]])
  BY <1>2, <1>3, <1>4 DEF MessagesInv, MessagesTypeOK
<1>8. MessagesInv'
  BY <1>1, <1>5, <1>6, <1>7 DEF MessagesInv, MessagesTypeOK
<1>9. /\ Bytes[o] = Read(heap[c]) /\ Bytes'[o] = Read(s)
      /\ \A p \in Objects \ {o} : Bytes'[p] = Bytes[p]
  <2>1. Bytes[o] = Read(heap[c])
    BY <1>2, BytesAreTheBlock DEF BytesShown
  <2>2. BytesOf(o)' = s /\ Bytes'[o] = Read(BytesOf(o)')
    BY <1>1, <1>2, <1>4, <1>8, BytesAreTheBlockNext DEF BytesShown
  <2>3. Bytes'[o] = Read(s)
    BY <2>2 DEF Bytes
  <2>4. ASSUME NEW p \in Objects \ {o}
        PROVE  Bytes'[p] = Bytes[p]
    <3>1. content[p] # NULL => content[p] \in Blocks /\ content[p] # c
      BY <1>1, <1>2 DEF MessagesInv, MessagesTypeOK
    <3>2. content[p] # NULL => heap'[content[p]] = heap[content[p]]
      BY <1>4, <3>1
    <3>3. BytesOf(p)' = BytesOf(p)
      BY <1>1, <1>8, <3>2, BytesAreTheBlock, BytesAreTheBlockNext DEF BytesShown
    <3>4. Bytes[p] = Read(BytesOf(p)) /\ Bytes'[p] = Read(BytesOf(p)')
      BY <1>8, BytesAreTheBlock, BytesAreTheBlockNext DEF BytesShown
    <3> QED
      BY <3>3, <3>4 DEF Bytes
  <2> QED
    BY <2>1, <2>3, <2>4
<1>10. Read(s) = [Read(heap[c]) EXCEPT ![index + 1] = Values!Byte(v)]
  <2>1. \A i \in 1..Len(heap[c]) :
          s[i] = IF i = index + 1 THEN CharOf(v) ELSE heap[c][i]
    BY <1>2 DEF s
  <2>2. /\ DOMAIN Read(s) = 1..Len(heap[c])
        /\ DOMAIN Read(heap[c]) = 1..Len(heap[c])
        /\ \A i \in 1..Len(heap[c]) :
             Read(s)[i] = IF i = index + 1 THEN Values!Byte(v) ELSE Read(heap[c])[i]
    BY <1>2, <1>3, <2>1, BytesComeOut DEF Read
  <2> DEFINE r == Read(s)
             q == Read(heap[c])
  <2>3. r = [i \in 1..Len(heap[c]) |-> r[i]] /\ q = [i \in 1..Len(heap[c]) |-> q[i]]
    BY <2>2 DEF Read
  <2> HIDE DEF r, q
  <2>4. r = [q EXCEPT ![index + 1] = Values!Byte(v)]
    BY <2>2, <2>3 DEF r, q
  <2> QED
    BY <2>4 DEF r, q
<1>11. Bytes' = [Bytes EXCEPT ![o] = [Bytes[o] EXCEPT ![index + 1] = Values!Byte(v)]]
  BY <1>9, <1>10 DEF Bytes
<1>12. index + 1 \in 1..Len(Bytes[o])
  BY <1>2, <1>9 DEF Read
<1> QED
  BY <1>1, <1>8, <1>11, <1>12 DEF Values!SetByte

LEMMA DestroyKeeps ==
  ASSUME MessagesInv, NEW o \in Objects, Destroy(o)
  PROVE  MessagesInv' /\ Values!Destroy(o)
<1>1. /\ o \in live /\ live' = live \ {o} /\ heap' = Freed(o)
      /\ content' = [content EXCEPT ![o] = NULL] /\ length' = [length EXCEPT ![o] = 0]
  BY DEF Destroy
<1>2. /\ content'[o] = NULL /\ length'[o] = 0
      /\ \A p \in Objects \ {o} : content'[p] = content[p] /\ length'[p] = length[p]
  BY <1>1 DEF MessagesInv, MessagesTypeOK
<1>3. MessagesTypeOK'
  BY <1>1, FreedHeap DEF MessagesInv, MessagesTypeOK
<1>4. \A p \in live' : p \in Objects /\ p \in live \ {o}
  BY <1>1 DEF MessagesInv, MessagesTypeOK
<1>5. \A p \in Objects \ {o} : content[p] # NULL => heap'[content[p]] = heap[content[p]]
  BY <1>1, FreedHeap DEF MessagesInv
<1>6. \A b \in Blocks : heap'[b] # <<>> => \E p \in live' : content'[p] = b
  BY <1>1, <1>2, <1>4, FreedHeap
<1>7. /\ \A p \in live' : content'[p] # NULL => heap'[content'[p]] # <<>>
      /\ \A p, q \in live' : content'[p] = content'[q] /\ content'[p] # NULL => p = q
  BY <1>2, <1>4, <1>5 DEF MessagesInv
<1>8. \A p \in Objects :
        length'[p] = IF content'[p] = NULL THEN 0 ELSE Len(heap'[content'[p]])
  BY <1>2, <1>5 DEF MessagesInv
<1>9. MessagesInv'
  BY <1>1, <1>2, <1>3, <1>6, <1>7, <1>8 DEF MessagesInv
<1>10. ASSUME NEW p \in Objects
       PROVE  Bytes'[p] = IF p = o THEN <<>> ELSE Bytes[p]
  <2>1. Bytes'[p] = Read(BytesOf(p)') /\ Bytes[p] = Read(BytesOf(p))
    BY <1>9, BytesAreTheBlock, BytesAreTheBlockNext DEF BytesShown
  <2>2. BytesOf(p)' = IF p = o THEN <<>> ELSE BytesOf(p)
    BY <1>2, <1>5, <1>9, BytesAreTheBlock, BytesAreTheBlockNext DEF BytesShown
  <2> QED
    BY <2>1, <2>2 DEF Read, Bytes
<1>11. Bytes' = [Bytes EXCEPT ![o] = <<>>]
  BY <1>10 DEF Bytes
<1> QED
  BY <1>1, <1>9, <1>11 DEF Values!Destroy

LEMMA FromIntsKeeps ==
  ASSUME MessagesInv, NEW o \in Objects, ConstructFromInts(o)
  PROVE  MessagesInv' /\ Values!MakeFromInts(o)
<1>1. PICK v \in Vectors : Construct(o, CharsOf(v))
  BY DEF ConstructFromInts, CharsOf
<1>2. Read(CharsOf(v)) = ValuesOf(v)
  <2>1. /\ DOMAIN CharsOf(v) = 1..Len(v)
        /\ ValuesOf(v) = [i \in 1..Len(v) |-> ValuesOf(v)[i]]
    BY CharsOfVector DEF CharsOf, ValuesOf
  <2> QED
    BY <2>1, CharsOfVector DEF Read
<1>3. MessagesInv' /\ Values!Made(o, Read(CharsOf(v)))
  BY <1>1, CharsOfVector, ConstructKeeps
<1> QED
  BY <1>2, <1>3 DEF Values!MakeFromInts, ValuesOf

LEMMA FromCStringKeeps ==
  ASSUME MessagesInv, NEW o \in Objects, ConstructFromCString(o)
  PROVE  MessagesInv' /\ Values!MakeFromCString(o)
<1>1. PICK v \in Vectors : \E n \in 0..Len(v) :
        IsStrLen(n, CharsOf(v)) /\ Construct(o, SubSeq(CharsOf(v), 1, n))
  BY DEF ConstructFromCString, CharsOf
<1>2. PICK n \in 0..Len(v) :
        IsStrLen(n, CharsOf(v)) /\ Construct(o, SubSeq(CharsOf(v), 1, n))
  BY <1>1
<1> DEFINE s == SubSeq(CharsOf(v), 1, n)
           t == SubSeq(ValuesOf(v), 1, n)
<1>3. n \in Nat /\ n <= Len(v) /\ Len(v) \in Nat
  BY CharsOfVector
<1>4. s \in Seq(Chars) /\ DOMAIN s = 1..n /\ \A i \in 1..n : s[i] = CharsOf(v)[i]
  BY <1>3, CharsOfVector
<1>5. t = [i \in 1..n |-> ValuesOf(v)[i]]
  BY <1>3, CharsOfVector
<1>6. Read(s) = t
  <2>1. \A i \in 1..n : ByteOf(s[i]) = ValuesOf(v)[i]
    BY <1>3, <1>4, CharsOfVector
  <2> HIDE DEF s, t
  <2> QED
    BY <1>4, <1>5, <2>1 DEF Read
<1>7. Values!IsLength(n, ValuesOf(v))
  BY <1>2, <1>3, CharsOfVector DEF IsStrLen, Values!IsLength
<1>8. MessagesInv' /\ Values!Made(o, Read(s))
  BY <1>2, <1>4, ConstructKeeps
<1> QED
  BY <1>6, <1>7, <1>8 DEF Values!MakeFromCString, ValuesOf

LEMMA FromKeeps ==
  ASSUME MessagesInv, NEW o \in Objects, NEW p \in Objects, ConstructFrom(o, p)
  PROVE  MessagesInv' /\ Values!MakeFrom(o, p)
<1>1. BytesOf(p) \in Seq(Chars) /\ Bytes[p] = Read(BytesOf(p))
  BY BytesAreTheBlock DEF BytesShown
<1>2. p \in live /\ Construct(o, BytesOf(p))
  BY DEF ConstructFrom
<1>3. MessagesInv' /\ Values!Made(o, Read(BytesOf(p)))
  BY <1>1, <1>2, ConstructKeeps
<1> QED
  BY <1>1, <1>2, <1>3 DEF Values!MakeFrom

-----------------------------------------------------------------------------
(* The theorems.                                                           *)

LEMMA InitHolds == MessagesInit => MessagesInv /\ Values!Init
<1> SUFFICES ASSUME MessagesInit PROVE MessagesInv /\ Values!Init
  OBVIOUS
<1>1. MessagesInv
  BY DEF MessagesInit, MessagesInv, MessagesTypeOK
<1>2. \A o \in Objects : Bytes[o] = <<>>
  <2>1. \A o \in Objects : BytesOf(o) = <<>>
    BY DEF MessagesInit, BytesOf
  <2>2. \A o \in Objects : Bytes[o] = Read(BytesOf(o))
    BY <1>1, BytesAreTheBlock DEF BytesShown
  <2>3. Read(<<>>) = <<>>
    BY DEF Read
  <2> QED
    BY <2>1, <2>2, <2>3
<1>3. Bytes = [o \in Objects |-> <<>>]
  BY <1>2 DEF Bytes
<1> QED
  BY <1>1, <1>3 DEF Values!Init, MessagesInit

\* Every operation keeps the invariant and is the operation on values of the
\* same name.
LEMMA StepKeeps ==
  MessagesInv /\ [MessagesNext]_messagesVars
    => MessagesInv' /\ [Values!Next]_(Values!stringVars)
<1> SUFFICES ASSUME MessagesInv, [MessagesNext]_messagesVars
             PROVE  MessagesInv' /\ [Values!Next]_(Values!stringVars)
  OBVIOUS
<1>1. CASE UNCHANGED messagesVars
  <2>1. UNCHANGED <<live, content, length, heap>>
    BY <1>1 DEF messagesVars
  <2>2. MessagesInv'
    BY <2>1 DEF MessagesInv, MessagesTypeOK
  <2>3. Bytes' = Bytes
    BY <2>1 DEF Bytes, BytesOf
  <2> QED
    BY <2>1, <2>2, <2>3 DEF Values!stringVars
<1>2. CASE MessagesNext
  <2>1. PICK o \in Objects :
          \/ ConstructFromInts(o) \/ ConstructFromCString(o) \/ Destroy(o)
          \/ \E p \in Objects : ConstructFrom(o, p) \/ Assign(o, p)
          \/ \E v \in Ints : \E index \in 0..length[o] - 1 : SetByte(o, index, v)
    BY <1>2 DEF MessagesNext
  <2>2. CASE ConstructFromInts(o)
    BY <2>2, FromIntsKeeps DEF Values!Next
  <2>3. CASE ConstructFromCString(o)
    BY <2>3, FromCStringKeeps DEF Values!Next
  <2>4. CASE Destroy(o)
    BY <2>4, DestroyKeeps DEF Values!Next
  <2>5. CASE \E p \in Objects : ConstructFrom(o, p) \/ Assign(o, p)
    BY <2>5, FromKeeps, AssignKeeps DEF Values!Next
  <2>6. CASE \E v \in Ints : \E index \in 0..length[o] - 1 : SetByte(o, index, v)
    <3>1. PICK v \in Ints, index \in 0..length[o] - 1 : SetByte(o, index, v)
      BY <2>6
    <3>2. v \in Int /\ v \in Values!Ints
      <4>1. PICK w \in Vectors : v \in {w[i] : i \in DOMAIN w}
        BY DEF Ints
      <4>2. v \in Int
        BY <4>1, CharsOfVector
      <4> QED
        BY <4>2 DEF Ints, Values!Ints
    <3>3. MessagesInv' /\ Values!SetByte(o, index + 1, v)
      BY <3>1, <3>2, SetByteKeeps
    <3>4. index + 1 \in 1..Len(Bytes[o])
      BY <3>3 DEF Values!SetByte
    <3> QED
      BY <3>2, <3>3, <3>4 DEF Values!Next
  <2> QED
    BY <2>1, <2>2, <2>3, <2>4, <2>5, <2>6
<1> QED
  BY <1>1, <1>2

\* Types: every message names a block of the heap or none, and blocks hold
\* signed chars, whatever integers messages are made from.
THEOREM MessagesTypeCorrect == MessagesSpec => []MessagesTypeOK
<1>1. MessagesInv => MessagesTypeOK
  BY DEF MessagesInv
<1> QED
  BY <1>1, InitHolds, StepKeeps, PTL DEF MessagesSpec

\* No operation leaks a block, frees one twice, or leaves two messages with one
\* block, self-assignment included.
THEOREM BlocksAreOwnedOnce == MessagesSpec => []BlocksOwnedOnce
<1> QED
  BY InvOwns, InitHolds, StepKeeps, PTL DEF MessagesSpec

\* The heap of blocks implements values: what is done to one message shows in
\* no other, and integers come out as they went in, modulo 256.
THEOREM MessagesImplementValues == MessagesSpec => MessagesAreValues
<1> QED
  BY InitHolds, StepKeeps, PTL DEF MessagesSpec, MessagesAreValues, Values!Spec
=============================================================================
