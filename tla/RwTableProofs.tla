--------------------------- MODULE RwTableProofs ---------------------------
(***************************************************************************)
(* Proofs about the RW circuit table.                                      *)
(*                                                                         *)
(*   1. The columns: the order of operator< is the order of the vector     *)
(*      sorting, chunk by chunk, and where two rows first differ tells     *)
(*      whether they belong to one group.                                  *)
(*   2. Sorting: sort() returns the operations of a trace in that order.   *)
(*   3. Traces: what a handler appends to a trace.                         *)
(*   4. The loop of process_rw_operations.                                 *)
(*   5. The theorems.                                                      *)
(***************************************************************************)
EXTENDS RwTable, FiniteSetTheorems, SequenceTheorems, TLAPS

-----------------------------------------------------------------------------
(* 1. The columns.                                                         *)

\* The value of a place of a chunked number.
Place(n) == ChunkBase ^ n

\* The numbers of chunks that occur.
ChunkNumbers == 1..NumberChunks + AddressChunks + KeyChunks

\* The constants are what they are in the code, as numbers.
LEMMA Constants ==
    /\ ChunkBase \in Nat /\ ChunkBase > 1
    /\ NumberChunks = 2 /\ AddressChunks \in Nat \ {0} /\ KeyChunks \in Nat \ {0}
    /\ {NumberChunks, AddressChunks, KeyChunks} \subseteq ChunkNumbers
    /\ SortingSize = GroupColumns + NumberChunks /\ GroupColumns \in Nat
    /\ GroupColumns = 1 + NumberChunks + AddressChunks + 1 + KeyChunks
  BY ChunkAssumption DEF NumberChunks, SortingSize, GroupColumns, ChunkNumbers

\* Every place is worth ChunkBase times the one below it.
LEMMA Places ==
    /\ Place(0) = 1
    /\ \A n \in 0..NumberChunks + AddressChunks + KeyChunks : 
          Place(n) \in Nat \ {0} /\ Place(n + 1) = ChunkBase * Place(n)
  BY PlaceValues DEF Place

\* A set of naturals that is not empty has a least member.
LEMMA LeastNatural ==
    ASSUME NEW S \in SUBSET Nat, S # {}
    PROVE  \E m \in S : \A k \in S : m <= k
  <1> DEFINE smaller == OpToRel(<, Nat)
  <1>1. smaller = {pair \in Nat \X Nat : pair[1] < pair[2]}
    BY Zenon DEF OpToRel
  <1>2. PICK m \in S : \A k \in S : ~ (<<k, m>> \in smaller)
    BY NatLessThanWellFounded, WFMin
  <1>3. ASSUME NEW k \in S, ~ (m <= k) PROVE FALSE
    <2> HIDE DEF smaller
    <2>1. <<k, m>> \in Nat \X Nat /\ k < m
      BY <1>3
    <2> QED  BY <1>1, <1>2, <2>1
  <1> QED  BY <1>3

\* Division rounds down.
LEMMA Division ==
    ASSUME NEW a \in Nat, NEW b \in Nat \ {0}
    PROVE  /\ a \div b \in Nat /\ a % b \in 0..b - 1
           /\ a = b * (a \div b) + (a % b)
  OBVIOUS

\* A quotient is known by the interval its dividend lies in.
LEMMA Quotient ==
    ASSUME NEW a \in Nat, NEW b \in Nat \ {0}, NEW q \in Nat, b * q <= a, a < b * q + b
    PROVE  a \div b = q
  <1> DEFINE p == a \div b
  <1>1. p \in Nat /\ b * p <= a /\ a < b * p + b
    BY Division
  <1> HIDE DEF p
  <1>2. CASE p < q
    <2>1. b * q = b * p + b * (q - p) /\ b * (q - p) >= b
      BY <1>1, <1>2
    <2> QED  BY <1>1, <2>1
  <1>3. CASE q < p
    <2>1. b * p = b * q + b * (p - q) /\ b * (p - q) >= b
      BY <1>1, <1>3
    <2> QED  BY <1>1, <2>1
  <1>4. p = q
    BY <1>1, <1>2, <1>3
  <1> QED  BY <1>4 DEF p

\* Dividing by base * place takes the digit at place off the quotient by place.
LEMMA DigitSplit ==
    ASSUME NEW x \in Nat, NEW base \in Nat \ {0}, NEW place \in Nat \ {0}
    PROVE  x \div place = base * (x \div (base * place)) + ((x \div place) % base)
  <1> DEFINE s == x \div place
             u == s \div base
             v == s % base
  <1>1. s \in Nat /\ place * s <= x /\ x < place * s + place
    BY Division
  <1>2. u \in Nat /\ v \in 0..base - 1 /\ s = base * u + v
    BY <1>1, Division
  <1> HIDE DEF s, u, v
  <1>3. place * s = (base * place) * u + place * v
    BY <1>2
  <1>4. place * v >= 0 /\ place * v + place <= base * place
    <2>1. v + 1 <= base /\ place * (v + 1) <= place * base
      BY <1>2
    <2> QED  BY <1>2, <2>1
  <1>5. base * place \in Nat \ {0}
    OBVIOUS
  <1>6. (base * place) * u <= x /\ x < (base * place) * u + base * place
    <2>1. (base * place) * u \in Nat /\ place * v \in Nat /\ base * place \in Nat
      BY <1>2
    <2> QED  BY <1>1, <1>3, <1>4, <2>1
  <1>7. x \div (base * place) = u
    BY <1>2, <1>5, <1>6, Quotient
  <1> QED  BY <1>2, <1>7 DEF s, u, v

\* The rows are compared as sequences of columns: the first column in which they
\* differ decides.
LexLess(s, t) ==
    \E d \in 0..Len(s) - 1 : (\A k \in 1..d : s[k] = t[k]) /\ s[d + 1] < t[d + 1]

\* The columns of two sequences one after the other.
LEMMA Concat ==
    \A s, t \in Seq(Int) :
        /\ s \o t \in Seq(Int) /\ Len(s \o t) = Len(s) + Len(t)
        /\ \A k \in 1..Len(s) + Len(t) :
              (s \o t)[k] = IF k <= Len(s) THEN s[k] ELSE t[k - Len(s)]
  BY ConcatProperties

\* A difference in the front columns decides.
LEMMA LexHead ==
    ASSUME NEW s \in Seq(Int), NEW t \in Seq(Int), Len(s) = Len(t), LexLess(s, t),
           NEW u \in Seq(Int), NEW v \in Seq(Int)
    PROVE  LexLess(s \o u, t \o v)
  <1>1. PICK d \in 0..Len(s) - 1 : (\A k \in 1..d : s[k] = t[k]) /\ s[d + 1] < t[d + 1]
    BY DEF LexLess
  <1>2. Len(s) \in Nat /\ Len(u) \in Nat /\ Len(v) \in Nat
    BY LenProperties
  <1>3. \A k \in 1..Len(s) : (s \o u)[k] = s[k] /\ (t \o v)[k] = t[k]
    BY <1>2, ConcatProperties
  <1>4. Len(s \o u) = Len(s) + Len(u)
    BY ConcatProperties
  <1>5. d \in 0..Len(s \o u) - 1 /\ d + 1 \in 1..Len(s) /\ \A k \in 1..d : k \in 1..Len(s)
    BY <1>1, <1>2, <1>4
  <1> QED  BY <1>1, <1>3, <1>5 DEF LexLess

\* Equal columns in front change nothing.
LEMMA LexTail ==
    ASSUME NEW s \in Seq(Int), NEW u \in Seq(Int), NEW v \in Seq(Int),
           Len(u) = Len(v), LexLess(u, v)
    PROVE  LexLess(s \o u, s \o v)
  <1>1. PICK d \in 0..Len(u) - 1 : (\A k \in 1..d : u[k] = v[k]) /\ u[d + 1] < v[d + 1]
    BY DEF LexLess
  <1>2. Len(s) \in Nat /\ Len(u) \in Nat
    BY LenProperties
  <1>3. /\ Len(s \o u) = Len(s) + Len(u)
        /\ \A k \in 1..Len(s) + Len(u) :
              (s \o u)[k] = IF k <= Len(s) THEN s[k] ELSE u[k - Len(s)]
    BY ConcatProperties
  <1>4. \A k \in 1..Len(s) + Len(u) :
              (s \o v)[k] = IF k <= Len(s) THEN s[k] ELSE v[k - Len(s)]
    BY ConcatProperties
  <1>5. \A k \in 1..Len(s) + d : (s \o u)[k] = (s \o v)[k]
    <2> TAKE k \in 1..Len(s) + d
    <2>1. k \in 1..Len(s) + Len(u) /\ (~ (k <= Len(s)) => k - Len(s) \in 1..d)
      BY <1>1, <1>2
    <2> QED  BY <1>1, <1>3, <1>4, <2>1
  <1>6. (s \o u)[Len(s) + d + 1] = u[d + 1] /\ (s \o v)[Len(s) + d + 1] = v[d + 1]
    BY <1>1, <1>2, <1>3, <1>4
  <1>7. Len(s) + d \in 0..Len(s \o u) - 1
    BY <1>1, <1>2, <1>3
  <1> QED  BY <1>1, <1>5, <1>6, <1>7 DEF LexLess

\* s comes before t, column by column, and they have the same columns.
Before(s, t) ==
    s \in Seq(Int) /\ t \in Seq(Int) /\ Len(s) = Len(t) /\ LexLess(s, t)

\* More columns behind change nothing.
LEMMA BeforeHead ==
    ASSUME NEW s, NEW t, Before(s, t), NEW u \in Seq(Int), NEW v \in Seq(Int), Len(u) = Len(v)
    PROVE  Before(s \o u, t \o v)
  <1>1. LexLess(s \o u, t \o v)
    BY LexHead DEF Before
  <1>2. /\ s \o u \in Seq(Int) /\ t \o v \in Seq(Int) /\ Len(s \o u) = Len(t \o v)
    <2>1. s \in Seq(Int) /\ t \in Seq(Int) /\ Len(s) = Len(t)
      BY DEF Before
    <2>2. s \o u \in Seq(Int) /\ Len(s \o u) = Len(s) + Len(u)
      BY <2>1, Concat
    <2>3. t \o v \in Seq(Int) /\ Len(t \o v) = Len(t) + Len(v)
      BY <2>1, Concat
    <2> QED  BY <2>1, <2>2, <2>3
  <1> QED  BY <1>1, <1>2 DEF Before

\* Equal columns in front change nothing.
LEMMA BeforeTail ==
    ASSUME NEW s \in Seq(Int), NEW u, NEW v, Before(u, v)
    PROVE  Before(s \o u, s \o v)
  <1>1. LexLess(s \o u, s \o v)
    BY LexTail DEF Before
  <1>2. /\ s \o u \in Seq(Int) /\ s \o v \in Seq(Int) /\ Len(s \o u) = Len(s \o v)
    <2>1. u \in Seq(Int) /\ v \in Seq(Int) /\ Len(u) = Len(v)
      BY DEF Before
    <2>2. s \o u \in Seq(Int) /\ Len(s \o u) = Len(s) + Len(u)
      BY <2>1, Concat
    <2>3. s \o v \in Seq(Int) /\ Len(s \o v) = Len(s) + Len(v)
      BY <2>1, Concat
    <2> QED  BY <2>1, <2>2, <2>3
  <1> QED  BY <1>1, <1>2 DEF Before

\* Column values are numbers, one for each chunk.
LEMMA ChunksType ==
    ASSUME NEW n \in ChunkNumbers, NEW x \in Nat
    PROVE  /\ Chunks(x, n) \in Seq(Int) /\ Len(Chunks(x, n)) = n
           /\ \A j \in 1..n : Chunks(x, n)[j] = (x \div Place(n - j)) % ChunkBase
  <1>1. n \in Nat /\ n >= 1
    BY Constants DEF ChunkNumbers
  <1>2. ASSUME NEW j \in 1..n PROVE (x \div Place(n - j)) % ChunkBase \in Int
    <2>1. n - j \in 0..NumberChunks + AddressChunks + KeyChunks
      BY <1>1, Constants DEF ChunkNumbers
    <2>2. Place(n - j) \in Nat \ {0} /\ ChunkBase \in Nat \ {0}
      BY <2>1, Places, Constants
    <2>3. x \div Place(n - j) \in Nat
      BY <2>2, Division
    <2> QED  BY <2>2, <2>3, Division
  <1>3. Chunks(x, n) = [j \in 1..n |-> (x \div Place(n - j)) % ChunkBase]
    BY DEF Chunks, Place
  <1>4. Chunks(x, n) \in [1..n -> Int]
    BY <1>2, <1>3
  <1> QED  BY <1>1, <1>3, <1>4

\* Of two numbers the chunks of the smaller one come first.
LEMMA ChunksLess ==
    ASSUME NEW n \in ChunkNumbers, NEW x \in 0..Place(n) - 1, NEW y \in 0..Place(n) - 1, x < y
    PROVE  Before(Chunks(x, n), Chunks(y, n))
  <1> DEFINE X(j) == x \div Place(n - j)
             Y(j) == y \div Place(n - j)
             apart == {j \in 0..n : X(j) # Y(j)}
  <1>1. n \in Nat /\ n >= 1 /\ ChunkBase \in Nat \ {0}
    BY Constants DEF ChunkNumbers
  <1>2. ASSUME NEW j \in 0..n PROVE n - j \in 0..NumberChunks + AddressChunks + KeyChunks
    BY <1>1, Constants DEF ChunkNumbers
  <1>3. Place(n) \in Nat \ {0} /\ x \in Nat /\ y \in Nat
    <2>1. Place(n) \in Nat \ {0}
      BY <1>2, <1>1, Places, n - 0 = n
    <2> QED  BY <2>1
  <1>4. ASSUME NEW j \in 0..n
        PROVE  /\ Place(n - j) \in Nat \ {0} /\ X(j) \in Nat /\ Y(j) \in Nat
               /\ X(j) <= Y(j)
    <2>1. Place(n - j) \in Nat \ {0}
      BY <1>2, Places
    <2>2. X(j) \in Nat /\ Y(j) \in Nat
      BY <1>3, <2>1, Division
    <2>3. /\ Place(n - j) * X(j) <= x /\ y < Place(n - j) * Y(j) + Place(n - j)
      <3>1. /\ x = Place(n - j) * X(j) + (x % Place(n - j)) /\ x % Place(n - j) \in 0..Place(n - j) - 1
            /\ y = Place(n - j) * Y(j) + (y % Place(n - j)) /\ y % Place(n - j) \in 0..Place(n - j) - 1
        BY <1>3, <2>1, Division
      <3> HIDE DEF X, Y
      <3> QED  BY <2>1, <2>2, <3>1
    <2>4. X(j) <= Y(j)
      <3> HIDE DEF X, Y
      <3> DEFINE p == Place(n - j)
                 a == X(j)
                 b == Y(j)
      <3>1. p \in Nat \ {0} /\ a \in Nat /\ b \in Nat /\ p * a < p * b + p
        BY <1>3, <2>1, <2>2, <2>3
      <3> HIDE DEF p, a, b
      <3>2. ASSUME b < a PROVE FALSE
        <4>1. p * a = p * b + p * (a - b) /\ p * (a - b) >= p
          BY <3>1, <3>2
        <4> QED  BY <3>1, <4>1
      <3>3. a <= b
        BY <3>1, <3>2
      <3> QED  BY <3>3 DEF a, b
    <2> QED  BY <2>1, <2>2, <2>4
  <1>5. X(0) = 0 /\ Y(0) = 0
    <2>1. Place(n) * 0 <= x /\ x < Place(n) * 0 + Place(n) /\ Place(n) * 0 <= y /\ y < Place(n) * 0 + Place(n)
      BY <1>3
    <2>2. x \div Place(n) = 0 /\ y \div Place(n) = 0
      BY <1>3, <2>1, Quotient
    <2> QED  BY <1>1, <2>2, n - 0 = n
  <1>6. X(n) = x /\ Y(n) = y
    BY <1>1, <1>3, Places, n - n = 0
  <1>7. ASSUME NEW j \in 1..n
        PROVE  /\ X(j) = ChunkBase * X(j - 1) + (X(j) % ChunkBase)
               /\ Y(j) = ChunkBase * Y(j - 1) + (Y(j) % ChunkBase)
    <2>1. n - (j - 1) = (n - j) + 1 /\ n - j \in 0..NumberChunks + AddressChunks + KeyChunks
      BY <1>1, <1>2
    <2>2. Place(n - (j - 1)) = ChunkBase * Place(n - j) /\ Place(n - j) \in Nat \ {0}
      BY <2>1, Places
    <2> QED  BY <1>1, <1>3, <2>2, DigitSplit, ZenonT(60)
  <1> HIDE DEF X, Y
  <1>8. apart \in SUBSET Nat /\ n \in apart
    BY <1>1, <1>3, <1>6
  <1>9. PICK d \in apart : \A k \in apart : d <= k
    BY <1>8, LeastNatural
  <1>10. d \in 1..n /\ d - 1 \in 0..n /\ \A k \in 0..d - 1 : X(k) = Y(k)
    BY <1>1, <1>5, <1>9
  <1>11. \A k \in 1..n : /\ Chunks(x, n)[k] = X(k) % ChunkBase
                         /\ Chunks(y, n)[k] = Y(k) % ChunkBase
    BY <1>3, ChunksType DEF X, Y
  <1>12. \A k \in 1..d - 1 : Chunks(x, n)[k] = Chunks(y, n)[k]
    BY <1>1, <1>10, <1>11
  <1>13. X(d) < Y(d)
    BY <1>4, <1>9
  <1>14. X(d) % ChunkBase < Y(d) % ChunkBase
    <2>1. /\ X(d) = ChunkBase * X(d - 1) + (X(d) % ChunkBase)
          /\ Y(d) = ChunkBase * X(d - 1) + (Y(d) % ChunkBase)
      BY <1>7, <1>10
    <2>2. X(d) % ChunkBase \in Int /\ Y(d) % ChunkBase \in Int /\ ChunkBase * X(d - 1) \in Int
      BY <1>1, <1>4, <1>10
    <2> QED  BY <1>13, <2>1, <2>2
  <1>15. d - 1 \in 0..Len(Chunks(x, n)) - 1 /\ (d - 1) + 1 = d
    BY <1>1, <1>3, <1>10, ChunksType
  <1>16. LexLess(Chunks(x, n), Chunks(y, n))
    BY <1>10, <1>11, <1>12, <1>14, <1>15 DEF LexLess
  <1> QED  BY <1>3, <1>16, ChunksType DEF Before

\* The operations of a trace: their rw_id fits its columns.
Op == {o \in Operation : o.rw_id < Place(NumberChunks)}

\* The columns of a group: all but those of RW_ID.
GroupOf(o) ==
    <<o.op>> \o Chunks(o.id, NumberChunks) \o Chunks(o.address, AddressChunks)
    \o <<o.field>> \o Chunks(o.storage_key, KeyChunks)

\* The parts of an operation are numbers that fit their columns.
LEMMA OpFacts ==
    ASSUME NEW o \in Op
    PROVE  /\ o \in Operation
           /\ o.op \in Int /\ o.id = 0 /\ o.field = 0
           /\ o.address \in 0..Place(AddressChunks) - 1 /\ o.address \in Nat
           /\ o.storage_key \in 0..Place(KeyChunks) - 1 /\ o.storage_key \in Nat
           /\ o.rw_id \in 0..Place(NumberChunks) - 1 /\ o.rw_id \in Nat
  <1>1. /\ Place(AddressChunks) \in Nat \ {0} /\ Place(KeyChunks) \in Nat \ {0}
        /\ Place(NumberChunks) \in Nat \ {0}
    BY Places, Constants DEF ChunkNumbers
  <1>2. /\ o \in Operation /\ o.rw_id < Place(NumberChunks)
        /\ o.op \in {STACK_OP, MEMORY_OP, STORAGE_OP} /\ o.id = call_id /\ o.field = 0
        /\ o.address \in 0..Place(AddressChunks) - 1
        /\ o.storage_key \in 0..Place(KeyChunks) - 1 /\ o.rw_id \in Nat
    BY DEF Op, Operation, Place
  <1> QED  BY <1>1, <1>2 DEF STACK_OP, MEMORY_OP, STORAGE_OP, call_id

\* The vector sorting is the group followed by the chunks of the rw_id.
LEMMA SortingColumns ==
    ASSUME NEW o \in Op
    PROVE  /\ GroupOf(o) \in Seq(Int) /\ Len(GroupOf(o)) = GroupColumns
           /\ Chunks(o.rw_id, NumberChunks) \in Seq(Int)
           /\ Len(Chunks(o.rw_id, NumberChunks)) = NumberChunks
           /\ sorting(o) = GroupOf(o) \o Chunks(o.rw_id, NumberChunks)
           /\ sorting(o) \in Seq(Int) /\ Len(sorting(o)) = SortingSize
  <1> DEFINE a == <<o.op>>
             b == Chunks(o.id, NumberChunks)
             c == Chunks(o.address, AddressChunks)
             d == <<o.field>>
             e == Chunks(o.storage_key, KeyChunks)
             f == Chunks(o.rw_id, NumberChunks)
  <1>1. a \in Seq(Int) /\ Len(a) = 1 /\ d \in Seq(Int) /\ Len(d) = 1
    BY OpFacts
  <1>2. /\ b \in Seq(Int) /\ Len(b) = NumberChunks
        /\ c \in Seq(Int) /\ Len(c) = AddressChunks
        /\ e \in Seq(Int) /\ Len(e) = KeyChunks
        /\ f \in Seq(Int) /\ Len(f) = NumberChunks
    <2>1. o.id \in Nat
      BY OpFacts
    <2> QED  BY <2>1, OpFacts, Constants, ChunksType
  <1>3. GroupOf(o) = a \o b \o c \o d \o e /\ sorting(o) = GroupOf(o) \o f
    BY DEF GroupOf, sorting
  <1> HIDE DEF a, b, c, d, e, f
  <1>4. a \o b \in Seq(Int) /\ Len(a \o b) = 1 + NumberChunks
    <2>1. /\ a \in Seq(Int) /\ b \in Seq(Int)
          /\ Len(a) = 1 /\ Len(b) = NumberChunks
      BY <1>1, <1>2
    <2> QED  BY <2>1, Concat
  <1>5. a \o b \o c \in Seq(Int) /\ Len(a \o b \o c) = 1 + NumberChunks + AddressChunks
    BY <1>2, <1>4, Concat
  <1>6. a \o b \o c \o d \in Seq(Int) /\ Len(a \o b \o c \o d) = 1 + NumberChunks + AddressChunks + 1
    BY <1>1, <1>5, Concat
  <1>7. /\ a \o b \o c \o d \o e \in Seq(Int)
        /\ Len(a \o b \o c \o d \o e) = 1 + NumberChunks + AddressChunks + 1 + KeyChunks
    BY <1>2, <1>6, Concat
  <1>8. GroupOf(o) \o f \in Seq(Int) /\ Len(GroupOf(o) \o f) = GroupColumns + NumberChunks
    <2>1. GroupOf(o) \in Seq(Int) /\ Len(GroupOf(o)) = GroupColumns
      BY <1>3, <1>7, Constants
    <2> QED  BY <1>2, <2>1, Concat
  <1> QED  BY <1>2, <1>3, <1>7, <1>8, Constants DEF f

\* Operations on one location have the same group columns.
LEMMA SameGroup ==
    ASSUME NEW o \in Op, NEW q \in Op, Location(o) = Location(q)
    PROVE  GroupOf(o) = GroupOf(q)
  <1>1. o.op = q.op /\ o.address = q.address /\ o.storage_key = q.storage_key
    BY DEF Location
  <1>2. o.id = q.id /\ o.field = q.field
    BY OpFacts
  <1> QED  BY <1>1, <1>2 DEF GroupOf

\* Of operations on different locations the group columns are in the order of
\* operator<.
LEMMA GroupLess ==
    ASSUME NEW o \in Op, NEW q \in Op, less(o, q), Location(o) # Location(q)
    PROVE  Before(GroupOf(o), GroupOf(q))
  <1> DEFINE b == Chunks(o.id, NumberChunks)
             c(p) == Chunks(p.address, AddressChunks)
             d == <<o.field>>
             e(p) == Chunks(p.storage_key, KeyChunks)
  <1>1. /\ o.op \in Int /\ q.op \in Int /\ o.id = 0 /\ q.id = 0 /\ o.field = 0 /\ q.field = 0
        /\ o.address \in Nat /\ q.address \in Nat /\ o.storage_key \in Nat /\ q.storage_key \in Nat
    BY OpFacts
  <1>2. <<o.op>> \in Seq(Int) /\ <<q.op>> \in Seq(Int) /\ d \in Seq(Int)
        /\ Len(<<o.op>>) = 1 /\ Len(<<q.op>>) = 1
    BY <1>1
  <1>3. /\ b \in Seq(Int) /\ b = Chunks(q.id, NumberChunks)
        /\ c(o) \in Seq(Int) /\ c(q) \in Seq(Int) /\ Len(c(o)) = Len(c(q))
        /\ e(o) \in Seq(Int) /\ e(q) \in Seq(Int) /\ Len(e(o)) = Len(e(q))
    BY <1>1, Constants, ChunksType
  <1>4. /\ GroupOf(o) = (((<<o.op>> \o b) \o c(o)) \o d) \o e(o)
        /\ GroupOf(q) = (((<<q.op>> \o b) \o c(q)) \o d) \o e(q)
    BY <1>1 DEF GroupOf
  <1> HIDE DEF b, c, d, e
  <1>5. CASE o.op # q.op
    <2>1. o.op < q.op
      BY <1>5 DEF less
    <2>2. LexLess(<<o.op>>, <<q.op>>)
      <3>1. 0 \in 0..Len(<<o.op>>) - 1 /\ <<o.op>>[0 + 1] = o.op /\ <<q.op>>[0 + 1] = q.op
        OBVIOUS
      <3> QED  BY <2>1, <3>1 DEF LexLess
    <2>3. Before(<<o.op>>, <<q.op>>)
      BY <1>2, <2>2 DEF Before
    <2>4. Before(<<o.op>> \o b, <<q.op>> \o b)
      BY <1>3, <2>3, BeforeHead
    <2>5. Before((<<o.op>> \o b) \o c(o), (<<q.op>> \o b) \o c(q))
      BY <1>3, <2>4, BeforeHead
    <2>6. Before(((<<o.op>> \o b) \o c(o)) \o d, ((<<q.op>> \o b) \o c(q)) \o d)
      BY <1>2, <2>5, BeforeHead
    <2> QED  BY <1>3, <1>4, <2>6, BeforeHead
  <1>6. CASE o.op = q.op /\ o.address # q.address
    <2>1. o.address < q.address
      BY <1>6 DEF less
    <2>2. Before(c(o), c(q))
      BY <2>1, OpFacts, Constants, ChunksLess DEF c
    <2>3. <<o.op>> \o b \in Seq(Int)
      BY <1>2, <1>3, Concat
    <2>4. Before((<<o.op>> \o b) \o c(o), (<<o.op>> \o b) \o c(q))
      BY <2>2, <2>3, BeforeTail
    <2>5. Before(((<<o.op>> \o b) \o c(o)) \o d, ((<<o.op>> \o b) \o c(q)) \o d)
      BY <1>2, <2>4, BeforeHead
    <2>6. Before(GroupOf(o), (((<<o.op>> \o b) \o c(q)) \o d) \o e(q))
      BY <1>3, <1>4, <2>5, BeforeHead
    <2> QED  BY <1>4, <1>6, <2>6
  <1>7. CASE o.op = q.op /\ o.address = q.address
    <2>1. o.storage_key # q.storage_key
      BY <1>7 DEF Location
    <2>2. o.storage_key < q.storage_key
      BY <1>1, <1>7, <2>1 DEF less
    <2>3. Before(e(o), e(q))
      BY <2>2, OpFacts, Constants, ChunksLess DEF e
    <2>4. ((<<o.op>> \o b) \o c(o)) \o d \in Seq(Int) /\ c(o) = c(q)
      BY <1>2, <1>3, <1>7, Concat DEF c
    <2> QED  BY <1>4, <1>7, <2>3, <2>4, BeforeTail
  <1> QED  BY <1>5, <1>6, <1>7

\* diff_ind finds the first column that differs.  The row below is greater there,
\* and the column is one of the group exactly if the location differs.
LEMMA DiffInd ==
    ASSUME NEW o \in Op, NEW q \in Op, less(o, q)
    PROVE  /\ diff_ind(o, q) \in 0..SortingSize - 1
           /\ sorting(q)[diff_ind(o, q) + 1] - sorting(o)[diff_ind(o, q) + 1] \in Nat \ {0}
           /\ (diff_ind(o, q) < GroupColumns) <=> (Location(o) # Location(q))
  <1> DEFINE s == sorting(o)
             t == sorting(q)
             Is(d) == /\ \A k \in 1..d : s[k] = t[k]
                      /\ d < SortingSize => s[d + 1] # t[d + 1]
  <1>1. /\ s \in Seq(Int) /\ t \in Seq(Int) /\ Len(s) = SortingSize /\ Len(t) = SortingSize
        /\ SortingSize \in Nat /\ SortingSize = GroupColumns + 2 /\ GroupColumns \in Nat
    BY SortingColumns, Constants
  <1>2. /\ \A k \in 1..GroupColumns : s[k] = GroupOf(o)[k] /\ t[k] = GroupOf(q)[k]
    <2>1. \A k \in 1..GroupColumns : k \in 1..GroupColumns + NumberChunks
      BY Constants
    <2>2. ASSUME NEW p \in Op
          PROVE  \A k \in 1..GroupColumns : sorting(p)[k] = GroupOf(p)[k]
      <3> DEFINE g == GroupOf(p)
                 h == Chunks(p.rw_id, NumberChunks)
      <3>1. /\ g \in Seq(Int) /\ h \in Seq(Int) /\ sorting(p) = g \o h
            /\ Len(g) = GroupColumns /\ Len(h) = NumberChunks
        BY SortingColumns
      <3> HIDE DEF g, h
      <3>2. \A k \in 1..Len(g) + Len(h) : (g \o h)[k] = IF k <= Len(g) THEN g[k] ELSE h[k - Len(g)]
        BY <3>1, Concat
      <3>3. \A k \in 1..GroupColumns : (g \o h)[k] = g[k]
        BY <2>1, <3>1, <3>2
      <3> QED  BY <3>1, <3>3 DEF g
    <2> QED  BY <2>2
  <1>3. PICK d \in 0..SortingSize - 1 :
              /\ \A k \in 1..d : s[k] = t[k]
              /\ s[d + 1] < t[d + 1]
              /\ d < GroupColumns <=> Location(o) # Location(q)
    <2>1. CASE Location(o) # Location(q)
      <3>1. PICK d \in 0..Len(GroupOf(o)) - 1 :
                    /\ \A k \in 1..d : GroupOf(o)[k] = GroupOf(q)[k]
                    /\ GroupOf(o)[d + 1] < GroupOf(q)[d + 1]
        BY <2>1, GroupLess DEF Before, LexLess
      <3>2. d \in 0..GroupColumns - 1
        BY SortingColumns
      <3>3. d + 1 \in 1..GroupColumns /\ \A k \in 1..d : k \in 1..GroupColumns
        BY <1>1, <3>2
      <3>4. d \in 0..SortingSize - 1 /\ d < GroupColumns
        BY <1>1, <3>2
      <3> HIDE DEF s, t
      <3>5. /\ \A k \in 1..d : s[k] = t[k]
            /\ s[d + 1] < t[d + 1]
        BY <1>2, <3>1, <3>3
      <3> QED  BY <2>1, <3>4, <3>5
    <2>2. CASE Location(o) = Location(q)
      <3>1. o.rw_id < q.rw_id
        BY <2>2, OpFacts DEF less, Location
      <3>2. Before(Chunks(o.rw_id, NumberChunks), Chunks(q.rw_id, NumberChunks))
        BY <3>1, OpFacts, Constants, ChunksLess
      <3>3. Before(s, t)
        BY <2>2, <3>2, SameGroup, SortingColumns, BeforeTail
      <3>4. PICK d \in 0..SortingSize - 1 : (\A k \in 1..d : s[k] = t[k]) /\ s[d + 1] < t[d + 1]
        BY <1>1, <3>3 DEF Before, LexLess
      <3>5. ~ (d < GroupColumns)
        <4>1. ASSUME d < GroupColumns PROVE FALSE
          <5>1. d + 1 \in 1..GroupColumns
            BY <1>1, <3>4, <4>1
          <5>2. s[d + 1] = t[d + 1]
            BY <1>2, <2>2, <5>1, SameGroup
          <5>3. d + 1 \in 1..Len(s)
            BY <1>1, <3>4
          <5>4. s[d + 1] \in Int
            BY <1>1, <5>3, ElementOfSeq
          <5> QED  BY <3>4, <5>2, <5>4
        <4> QED  BY <4>1
      <3> QED  BY <2>2, <3>4, <3>5
    <2> QED  BY <2>1, <2>2
  <1>4. d + 1 \in 1..SortingSize /\ s[d + 1] \in Int /\ t[d + 1] \in Int
    <2>1. d + 1 \in 1..SortingSize
      BY <1>1, <1>3
    <2> QED  BY <1>1, <2>1, ElementOfSeq
  <1>5. diff_ind(o, q) = CHOOSE x \in 0..SortingSize : Is(x)
    BY DEF diff_ind
  <1> HIDE DEF s, t
  <1>6. d \in 0..SortingSize /\ Is(d)
    BY <1>1, <1>3, <1>4
  <1>7. ASSUME NEW x \in 0..SortingSize, Is(x) PROVE x = d
    <2>1. CASE x < d
      <3>1. x < SortingSize /\ x + 1 \in 1..d
        BY <1>1, <1>3, <2>1
      <3> QED  BY <1>3, <1>7, <3>1
    <2>2. CASE d < x
      <3>1. d + 1 \in 1..x
        BY <1>1, <1>3, <2>2
      <3> QED  BY <1>3, <1>4, <1>7, <3>1
    <2> QED  BY <1>1, <1>3, <2>1, <2>2
  <1> HIDE DEF Is
  <1>8. diff_ind(o, q) = d
    BY <1>5, <1>6, <1>7
  <1>9. t[d + 1] - s[d + 1] \in Nat \ {0}
    BY <1>3, <1>4
  <1> QED  BY <1>3, <1>8, <1>9 DEF s, t

-----------------------------------------------------------------------------
(* 2. Sorting.                                                             *)

\* A trace: every operation carries its position as rw_id.
Numbered(s) == s \in Seq(Op) /\ \A k \in 1..Len(s) : s[k].rw_id = k - 1

\* The parts of operations that operator< compares.
LEMMA OpNumbers ==
    \A o \in Op : /\ o.op \in Int /\ o.address \in Int /\ o.field \in Int
                  /\ o.storage_key \in Int /\ o.rw_id \in Int
  BY OpFacts

\* operator< is a strict order of the operations of a trace, whose rw_id differ.
LEMMA LessIrreflexive == \A o \in Op : ~ less(o, o)
  BY OpNumbers DEF less

\* It is transitive.
LEMMA LessTransitive == \A o, p, q \in Op : less(o, p) /\ less(p, q) => less(o, q)
  BY OpNumbers DEF less

\* It compares any two.
LEMMA LessTotal == \A o, q \in Op : o.rw_id # q.rw_id => less(o, q) \/ less(q, o)
  BY OpNumbers DEF less

\* The operations that come before the k-th of a trace.
Smaller(s, k) == {j \in 1..Len(s) : less(s[j], s[k])}
Rank(s, k) == Cardinality(Smaller(s, k))

\* The size of an interval.
LEMMA IntervalSize ==
    ASSUME NEW n \in Nat
    PROVE  IsFiniteSet(1..n) /\ Cardinality(1..n) = n
  BY FS_Interval

\* The rank of an operation is a position, and grows with the order.
LEMMA RankFacts ==
    ASSUME NEW s, Numbered(s)
    PROVE  /\ \A k \in 1..Len(s) : Rank(s, k) \in 0..Len(s) - 1
           /\ \A k, m \in 1..Len(s) : less(s[k], s[m]) => Rank(s, k) < Rank(s, m)
  <1>1. Len(s) \in Nat /\ \A k \in 1..Len(s) : s[k] \in Op
    BY DEF Numbered
  <1>2. IsFiniteSet(1..Len(s)) /\ Cardinality(1..Len(s)) = Len(s)
    BY <1>1, IntervalSize
  <1>3. ASSUME NEW k \in 1..Len(s)
        PROVE  /\ IsFiniteSet(Smaller(s, k)) /\ Rank(s, k) \in Nat /\ Rank(s, k) < Len(s)
    <2>1. Smaller(s, k) \in SUBSET (1..Len(s)) /\ k \notin Smaller(s, k)
      BY <1>1, LessIrreflexive DEF Smaller
    <2>2. /\ IsFiniteSet(Smaller(s, k)) /\ Rank(s, k) <= Len(s)
          /\ Rank(s, k) # Len(s)
      <3>1. /\ IsFiniteSet(Smaller(s, k))
            /\ Cardinality(Smaller(s, k)) <= Cardinality(1..Len(s))
            /\ Cardinality(1..Len(s)) = Cardinality(Smaller(s, k)) => 1..Len(s) = Smaller(s, k)
        BY <1>2, <2>1, FS_Subset
      <3> QED  BY <1>2, <2>1, <3>1 DEF Rank
    <2>3. Rank(s, k) \in Nat
      BY <2>2, FS_CardinalityType DEF Rank
    <2> QED  BY <1>1, <2>2, <2>3
  <1>4. ASSUME NEW k \in 1..Len(s), NEW m \in 1..Len(s), less(s[k], s[m])
        PROVE  Rank(s, k) < Rank(s, m)
    <2>1. Smaller(s, k) \in SUBSET Smaller(s, m)
      BY <1>1, <1>4, LessTransitive DEF Smaller
    <2>2. k \in Smaller(s, m) /\ k \notin Smaller(s, k)
      BY <1>1, <1>4, LessIrreflexive DEF Smaller
    <2>3. /\ Cardinality(Smaller(s, k)) <= Cardinality(Smaller(s, m))
          /\ Cardinality(Smaller(s, m)) = Cardinality(Smaller(s, k)) => Smaller(s, m) = Smaller(s, k)
      BY <1>3, <2>1, FS_Subset
    <2>4. Rank(s, k) <= Rank(s, m) /\ Rank(s, k) # Rank(s, m)
      BY <2>2, <2>3 DEF Rank
    <2> QED  BY <1>3, <2>4
  <1>5. \A k \in 1..Len(s) : Rank(s, k) \in 0..Len(s) - 1
    BY <1>1, <1>3
  <1> QED  BY <1>4, <1>5

\* There is exactly one operation for every position.
LEMMA RankOnto ==
    ASSUME NEW s, Numbered(s)
    PROVE  /\ \A n \in 1..Len(s) : \E k \in 1..Len(s) : Rank(s, k) = n - 1
           /\ \A k, m \in 1..Len(s) : Rank(s, k) = Rank(s, m) => k = m
  <1> DEFINE place == [k \in 1..Len(s) |-> Rank(s, k) + 1]
  <1>1. Len(s) \in Nat /\ \A k \in 1..Len(s) : s[k] \in Op /\ s[k].rw_id = k - 1
    BY DEF Numbered
  <1>2. \A k \in 1..Len(s) : Rank(s, k) \in 0..Len(s) - 1
    BY RankFacts
  <1>3. ASSUME NEW k \in 1..Len(s), NEW m \in 1..Len(s), Rank(s, k) = Rank(s, m) PROVE k = m
    <2>1. Rank(s, k) \in Int /\ ~ less(s[k], s[m]) /\ ~ less(s[m], s[k])
      BY <1>2, <1>3, RankFacts
    <2>2. s[k].rw_id = s[m].rw_id
      BY <1>1, <2>1, LessTotal
    <2> QED  BY <1>1, <2>2
  <1>4. place \in [1..Len(s) -> 1..Len(s)]
    BY <1>1, <1>2
  <1>5. \A k, m \in 1..Len(s) : place[k] = place[m] => k = m
    <2>1. \A k, m \in 1..Len(s) : Rank(s, k) + 1 = Rank(s, m) + 1 => Rank(s, k) = Rank(s, m)
      BY <1>1, <1>2
    <2> QED  BY <1>3, <2>1
  <1> HIDE DEF place
  <1>6. place \in Injection(1..Len(s), 1..Len(s))
    BY <1>4, <1>5 DEF Injection, IsInjective
  <1>7. IsFiniteSet(1..Len(s))
    BY <1>1, IntervalSize
  <1>8. place \in Surjection(1..Len(s), 1..Len(s))
    BY <1>6, <1>7, FS_Injection
  <1>9. \A n \in 1..Len(s) : \E k \in 1..Len(s) : place[k] = n
    BY <1>8 DEF Surjection
  <1>10. \A k \in 1..Len(s) : place[k] = Rank(s, k) + 1
    BY DEF place
  <1>11. \A n \in 1..Len(s) : \E k \in 1..Len(s) : Rank(s, k) = n - 1
    <2> TAKE n \in 1..Len(s)
    <2>1. PICK k \in 1..Len(s) : place[k] = n
      BY <1>9
    <2>2. Rank(s, k) = n - 1
      BY <1>2, <1>10, <2>1, SMTT(60)
    <2> QED  BY <2>2
  <1> QED  BY <1>3, <1>11

\* t holds the operations of s in the order of operator<.
Arranged(t, s) ==
    /\ t \in Seq(Op) /\ Len(t) = Len(s)
    /\ \A m, n \in 1..Len(t) : m < n => less(t[m], t[n])
    /\ \A n \in 1..Len(t) : \E k \in 1..Len(s) : t[n] = s[k]
    /\ \A k \in 1..Len(s) : \E n \in 1..Len(t) : t[n] = s[k]

\* sort() arranges a trace.
LEMMA SortArranges ==
    ASSUME NEW s, Numbered(s)
    PROVE  Arranged(sort(s), s)
  <1> DEFINE at(n) == CHOOSE k \in 1..Len(s) : Rank(s, k) = n - 1
             t == sort(s)
  <1>1. Len(s) \in Nat /\ DOMAIN s = 1..Len(s)
        /\ \A k \in 1..Len(s) : s[k] \in Op /\ s[k].rw_id = k - 1
    BY DEF Numbered
  <1>2. t = [n \in 1..Len(s) |-> s[at(n)]]
    BY <1>1 DEF sort, Rank, Smaller
  <1>3. \A n \in 1..Len(s) : at(n) \in 1..Len(s) /\ Rank(s, at(n)) = n - 1
    BY RankOnto
  <1> HIDE DEF at, t
  <1>4. t \in [1..Len(s) -> Op]
    BY <1>1, <1>2, <1>3
  <1>5. t \in Seq(Op) /\ Len(t) = Len(s)
    BY <1>1, <1>4
  <1>6. ASSUME NEW m \in 1..Len(s), NEW n \in 1..Len(s), m < n PROVE less(t[m], t[n])
    <2>1. Rank(s, at(m)) < Rank(s, at(n)) /\ at(m) # at(n)
      BY <1>1, <1>3, <1>6, SMTT(60)
    <2>2. less(s[at(m)], s[at(n)]) \/ less(s[at(n)], s[at(m)])
      <3>1. s[at(m)].rw_id # s[at(n)].rw_id
        BY <1>1, <1>3, <2>1, SMTT(60)
      <3> QED  BY <1>1, <1>3, <3>1, LessTotal
    <2>3. ~ less(s[at(n)], s[at(m)])
      <3>1. less(s[at(n)], s[at(m)]) => Rank(s, at(n)) < Rank(s, at(m))
        BY <1>3, RankFacts
      <3> QED  BY <1>3, <1>6, <3>1
    <2> QED  BY <1>2, <2>2, <2>3
  <1>7. \A n \in 1..Len(s) : t[n] = s[at(n)] /\ at(n) \in 1..Len(s)
    BY <1>2, <1>3
  <1>8. \A k \in 1..Len(s) : \E n \in 1..Len(s) : t[n] = s[k]
    <2> TAKE k \in 1..Len(s)
    <2>1. Rank(s, k) + 1 \in 1..Len(s)
      BY <1>1, RankFacts
    <2>2. PICK n \in 1..Len(s) : n = Rank(s, k) + 1
      BY <2>1
    <2>3. Rank(s, at(n)) = Rank(s, k)
      <3>1. Rank(s, k) \in Int
        BY RankFacts
      <3> QED  BY <1>3, <2>2, <3>1
    <2>4. at(n) = k
      BY <1>3, <2>3, RankOnto
    <2> QED  BY <1>7, <2>4
  <1>9. /\ \A m, n \in 1..Len(t) : m < n => less(t[m], t[n])
        /\ \A n \in 1..Len(t) : \E k \in 1..Len(s) : t[n] = s[k]
        /\ \A k \in 1..Len(s) : \E n \in 1..Len(t) : t[n] = s[k]
    BY <1>5, <1>6, <1>7, <1>8
  <1>10. Arranged(t, s)
    BY <1>5, <1>9 DEF Arranged
  <1> QED  BY <1>10 DEF t

-----------------------------------------------------------------------------
(* 3. The call stack and the traces.                                       *)

\* A frame's trace, cells and number.
FrameOK(d) ==
    /\ Numbered(traces[d]) /\ Len(traces[d]) <= MaxOperations
    /\ frames[d] < next_frame
    /\ \A e \in 1..d - 1 : frames[e] # frames[d]

\* The call stack: every frame has a trace, its cells and a number of its own.
StackInv ==
    /\ phase \in {"run", "process"}
    /\ traces \in Seq(Seq(Op))
    /\ cells \in Seq([LocalLocations -> Values]) /\ Len(cells) = Len(traces)
    /\ frames \in Seq(Nat) /\ Len(frames) = Len(traces)
    /\ storage \in [Stored -> Values]
    /\ next_frame \in Nat \ {0} /\ Len(traces) <= next_frame
    /\ \A d \in 1..Len(traces) : FrameOK(d)

\* The bound on operations is a bound on every trace.
LEMMA TracedBound ==
    ASSUME StackInv, Len(table) \in Nat, depth > 0, Traced < MaxOperations
    PROVE  Len(traces[depth]) < MaxOperations
  <1> DEFINE Part(d) == {d} \X DOMAIN traces[d]
             parts == {Part(d) : d \in 1..depth}
             part == [d \in 1..depth |-> Part(d)]
  <1>1. depth \in Nat /\ depth \in 1..depth
    BY DEF StackInv, depth
  <1>2. ASSUME NEW d \in 1..depth
        PROVE  /\ traces[d] \in Seq(Op) /\ Len(traces[d]) \in Nat
               /\ DOMAIN traces[d] = 1..Len(traces[d])
               /\ IsFiniteSet(Part(d)) /\ Cardinality(Part(d)) = Len(traces[d])
    <2>1. /\ traces[d] \in Seq(Op) /\ Len(traces[d]) \in Nat
          /\ DOMAIN traces[d] = 1..Len(traces[d])
      BY DEF StackInv, depth
    <2>2. /\ IsFiniteSet(1..Len(traces[d])) /\ Cardinality(1..Len(traces[d])) = Len(traces[d])
      BY <2>1, IntervalSize
    <2>3. IsFiniteSet({d}) /\ Cardinality({d}) = 1
      BY FS_Singleton
    <2>4. /\ IsFiniteSet({d} \X (1..Len(traces[d])))
          /\ Cardinality({d} \X (1..Len(traces[d]))) = 1 * Len(traces[d])
      BY <2>2, <2>3, FS_Product, ZenonT(60)
    <2> QED  BY <2>1, <2>4
  <1>3. IsFiniteSet(UNION parts)
    <2>1. part \in Surjection(1..depth, parts)
      BY DEF Surjection
    <2>2. IsFiniteSet(1..depth)
      BY <1>1, IntervalSize
    <2>3. IsFiniteSet(parts)
      BY <2>1, <2>2, FS_Surjection
    <2>4. \A T \in parts : IsFiniteSet(T)
      BY <1>2
    <2> HIDE DEF parts
    <2> QED  BY <2>3, <2>4, FS_UNION
  <1>4. Part(depth) \in SUBSET UNION parts
    BY <1>1
  <1>5. Cardinality(Part(depth)) <= Cardinality(UNION parts)
    <2> HIDE DEF parts, Part
    <2> QED  BY <1>3, <1>4, FS_Subset
  <1>6. Cardinality(UNION parts) \in Nat
    <2> HIDE DEF parts
    <2> QED  BY <1>3, FS_CardinalityType
  <1>7. Traced = Len(table) + Cardinality(UNION parts)
    BY DEF Traced
  <1>8. Len(table) \in Nat
    OBVIOUS
  <1>9. Cardinality(Part(depth)) = Len(traces[depth]) /\ Len(traces[depth]) \in Nat
    BY <1>1, <1>2
  <1> HIDE DEF parts, Part
  <1> QED  BY <1>5, <1>6, <1>7, <1>8, <1>9, BoundAssumption

\* What a handler appends to the trace of the running frame.
Pushed(l, is_write, value, value_prev) ==
    [op |-> l.op, id |-> call_id, address |-> l.address, field |-> 0,
     storage_key |-> l.storage_key, rw_id |-> Len(traces[depth]),
     is_write |-> is_write, value |-> value, value_prev |-> value_prev]

\* It is an operation on the location, and its rw_id is its position.
LEMMA PushedFacts ==
    ASSUME StackInv, depth > 0, Len(traces[depth]) < MaxOperations,
           NEW l \in Locations, NEW w \in BOOLEAN, NEW v \in Values, NEW vp \in Values
    PROVE  /\ Pushed(l, w, v, vp) \in Op /\ Location(Pushed(l, w, v, vp)) = l
           /\ Pushed(l, w, v, vp).rw_id = Len(traces[depth])
           /\ Pushed(l, w, v, vp).op = l.op
           /\ Pushed(l, w, v, vp).is_write = w
           /\ Pushed(l, w, v, vp).value = v /\ Pushed(l, w, v, vp).value_prev = vp
  <1>1. Len(traces[depth]) \in Nat
    <2>1. depth \in 1..Len(traces)
      BY DEF StackInv, depth
    <2>2. traces[depth] \in Seq(Op)
      BY <2>1 DEF StackInv
    <2> QED  BY <2>2
  <1>2. Len(traces[depth]) < Place(NumberChunks)
    <2>1. MaxOperations \in Int /\ Place(NumberChunks) \in Int /\ MaxOperations <= Place(NumberChunks)
      BY BoundAssumption, Places, Constants DEF Place, ChunkNumbers
    <2> QED  BY <1>1, <2>1
  <1>3. /\ l.op \in {STACK_OP, MEMORY_OP, STORAGE_OP}
        /\ l.address \in 0..ChunkBase ^ AddressChunks - 1
        /\ l.storage_key \in 0..ChunkBase ^ KeyChunks - 1
        /\ l = [op |-> l.op, address |-> l.address, storage_key |-> l.storage_key]
    BY LocationAssumption
  <1>4. Pushed(l, w, v, vp) \in Operation
    BY <1>1, <1>3 DEF Pushed, Operation
  <1>5. Pushed(l, w, v, vp) \in Op
    BY <1>2, <1>4 DEF Op, Pushed
  <1>6. Location(Pushed(l, w, v, vp)) = l
    BY <1>3 DEF Pushed, Location
  <1> QED  BY <1>5, <1>6 DEF Pushed

\* The operation o has been appended to the trace of the running frame.
Recorded(o) ==
    /\ Len(traces') = Len(traces)
    /\ traces' \in Seq(Seq(Op))
    /\ traces'[depth] = Append(traces[depth], o)
    /\ \A d \in 1..depth - 1 : traces'[d] = traces[d]

\* Appending keeps the types of the traces.
LEMMA PushBack ==
    ASSUME StackInv, depth > 0, Len(traces[depth]) < MaxOperations,
           NEW l \in Locations, NEW w \in BOOLEAN, NEW v \in Values, NEW vp \in Values,
           push_back(l, w, v, vp)
    PROVE  Recorded(Pushed(l, w, v, vp))
  <1> DEFINE o == Pushed(l, w, v, vp)
  <1>1. o \in Op
    BY PushedFacts
  <1>2. depth \in 1..Len(traces) /\ traces \in Seq(Seq(Op)) /\ depth = Len(traces)
    BY DEF StackInv, depth
  <1>3. traces' = [traces EXCEPT ![depth] = Append(@, o)]
    BY DEF push_back, Pushed
  <1> HIDE DEF o
  <1>4. traces[depth] \in Seq(Op) /\ Append(traces[depth], o) \in Seq(Op)
    BY <1>1, <1>2
  <1>5. /\ traces' \in Seq(Seq(Op)) /\ Len(traces') = Len(traces)
        /\ \A d \in 1..Len(traces) : traces'[d] = IF d = depth THEN Append(traces[depth], o) ELSE traces[d]
    BY <1>2, <1>3, <1>4, ExceptSeq
  <1>6. \A d \in 1..depth - 1 : d \in 1..Len(traces) /\ d # depth
    BY <1>2
  <1> QED  BY <1>2, <1>5, <1>6 DEF o, Recorded

\* A recorded operation keeps the call stack.
LEMMA RecordedStack ==
    ASSUME StackInv, depth > 0, Len(traces[depth]) < MaxOperations,
           NEW o \in Op, o.rw_id = Len(traces[depth]), Recorded(o),
           cells' \in Seq([LocalLocations -> Values]), Len(cells') = Len(cells),
           storage' \in [Stored -> Values], UNCHANGED <<next_frame, frames, phase>>
    PROVE  StackInv'
  <1>1. depth \in 1..Len(traces) /\ depth = Len(traces) /\ Len(traces') = Len(traces)
    BY DEF StackInv, depth, Recorded
  <1>2. traces[depth] \in Seq(Op) /\ Len(traces[depth]) \in Nat
    BY <1>1 DEF StackInv
  <1>3. ASSUME NEW d \in 1..Len(traces) PROVE FrameOK(d)'
    <2>1. CASE d = depth
      <3>1. /\ Append(traces[depth], o) \in Seq(Op)
            /\ Len(Append(traces[depth], o)) = Len(traces[depth]) + 1
            /\ \A k \in 1..Len(traces[depth]) : Append(traces[depth], o)[k] = traces[depth][k]
            /\ Append(traces[depth], o)[Len(traces[depth]) + 1] = o
        BY <1>2
      <3>2. \A k \in 1..Len(traces[depth]) : traces[depth][k].rw_id = k - 1
        BY <1>1 DEF StackInv, FrameOK, Numbered
      <3>3. Numbered(Append(traces[depth], o))
        <4>1. ASSUME NEW k \in 1..Len(Append(traces[depth], o))
              PROVE  Append(traces[depth], o)[k].rw_id = k - 1
          <5>1. k \in 1..Len(traces[depth]) \/ k = Len(traces[depth]) + 1
            BY <1>2, <3>1
          <5> QED  BY <1>2, <3>1, <3>2, <5>1
        <4> QED  BY <3>1, <4>1 DEF Numbered
      <3>4. Len(Append(traces[depth], o)) <= MaxOperations
        BY <1>2, <3>1, BoundAssumption
      <3>5. traces'[d] = Append(traces[depth], o)
        BY <2>1 DEF Recorded
      <3>6. frames[d] < next_frame /\ \A e \in 1..d - 1 : frames[e] # frames[d]
        BY <1>1, <2>1 DEF StackInv, FrameOK
      <3> QED  BY <3>3, <3>4, <3>5, <3>6 DEF FrameOK
    <2>2. CASE d # depth
      <3>1. traces'[d] = traces[d]
        <4>1. d \in 1..depth - 1
          BY <1>1, <2>2
        <4> QED  BY <4>1 DEF Recorded
      <3> QED  BY <3>1 DEF StackInv, FrameOK
    <2> QED  BY <2>1, <2>2
  <1> QED  BY <1>1, <1>3 DEF StackInv, Recorded

\* After the first n operations of t the location l has the value v, which is init
\* if none of them is on l.
Explains(t, n, l, v, init) ==
    \/ \E j \in 1..n : /\ Location(t[j]) = l /\ t[j].value = v
                       /\ \A m \in j + 1..n : Location(t[m]) # l
    \/ v = init /\ \A j \in 1..n : Location(t[j]) # l

\* What an operation does to the value of its location and of the others.
LEMMA AppendExplains ==
    ASSUME NEW t \in Seq(Op), NEW o \in Op
    PROVE  /\ \A n \in 0..Len(t) : \A l, v, init :
                 Explains(t, n, l, v, init) => Explains(Append(t, o), n, l, v, init)
           /\ \A init : Explains(Append(t, o), Len(t) + 1, Location(o), o.value, init)
           /\ \A l, v, init : l # Location(o) /\ Explains(t, Len(t), l, v, init)
                               => Explains(Append(t, o), Len(t) + 1, l, v, init)
  <1> DEFINE u == Append(t, o)
  <1>1. /\ Len(t) \in Nat /\ \A k \in 1..Len(t) : u[k] = t[k]
        /\ u[Len(t) + 1] = o
    OBVIOUS
  <1> HIDE DEF u
  <1>2. ASSUME NEW n \in 0..Len(t), NEW l, NEW v, NEW init, Explains(t, n, l, v, init)
        PROVE  Explains(u, n, l, v, init)
    <2>1. \A k \in 1..n : u[k] = t[k]
      BY <1>1
    <2>2. CASE v = init /\ \A j \in 1..n : Location(t[j]) # l
      BY <2>1, <2>2 DEF Explains
    <2>3. ASSUME NEW j \in 1..n, Location(t[j]) = l, t[j].value = v,
                 \A m \in j + 1..n : Location(t[m]) # l
          PROVE  Explains(u, n, l, v, init)
      <3>1. \A m \in j + 1..n : m \in 1..n
        OBVIOUS
      <3>2. Location(u[j]) = l /\ u[j].value = v /\ \A m \in j + 1..n : Location(u[m]) # l
        BY <2>1, <2>3, <3>1
      <3> QED  BY <3>2 DEF Explains
    <2> QED  BY <1>2, <2>2, <2>3 DEF Explains
  <1>3. ASSUME NEW init PROVE Explains(u, Len(t) + 1, Location(o), o.value, init)
    <2>1. Len(t) + 1 \in 1..Len(t) + 1 /\ \A m \in (Len(t) + 1) + 1..Len(t) + 1 : FALSE
      BY <1>1
    <2> QED  BY <1>1, <2>1 DEF Explains
  <1>4. ASSUME NEW l, NEW v, NEW init, l # Location(o), Explains(t, Len(t), l, v, init)
        PROVE  Explains(u, Len(t) + 1, l, v, init)
    <2>1. Explains(u, Len(t), l, v, init)
      BY <1>1, <1>2, <1>4
    <2>2. Location(u[Len(t) + 1]) # l
      BY <1>1, <1>4
    <2>3. CASE v = init /\ \A j \in 1..Len(t) : Location(u[j]) # l
      <3>1. \A j \in 1..Len(t) + 1 : Location(u[j]) # l
        BY <1>1, <2>2, <2>3
      <3> QED  BY <2>3, <3>1 DEF Explains
    <2>4. ASSUME NEW j \in 1..Len(t), Location(u[j]) = l, u[j].value = v,
                 \A m \in j + 1..Len(t) : Location(u[m]) # l
          PROVE  Explains(u, Len(t) + 1, l, v, init)
      <3>1. j \in 1..Len(t) + 1 /\ \A m \in j + 1..Len(t) + 1 : m \in j + 1..Len(t) \/ m = Len(t) + 1
        BY <1>1
      <3>2. \A m \in j + 1..Len(t) + 1 : Location(u[m]) # l
        BY <2>2, <2>4, <3>1
      <3> QED  BY <2>4, <3>1, <3>2 DEF Explains
    <2> QED  BY <2>1, <2>3, <2>4 DEF Explains
  <1> QED  BY <1>2, <1>3, <1>4 DEF u

\* The one frame of a behaviour without calls, in accounts that have all the keys:
\* only then storage holds what this frame's trace says.
Alone == next_frame = 1 /\ Stored = StorageLocations

\* A trace tells what its frame's cells hold, and its reads agree with it.  It
\* starts with a stack operation.
TraceOK(d) ==
    /\ Len(traces[d]) > 0 => traces[d][1].op = STACK_OP
    /\ \A k \in 1..Len(traces[d]) :
          /\ traces[d][k].op # STORAGE_OP => traces[d][k].value_prev = 0
          /\ ~ traces[d][k].is_write /\ (traces[d][k].op = STORAGE_OP => Alone)
             => Explains(traces[d], k - 1, Location(traces[d][k]), traces[d][k].value,
                         traces[d][k].value_prev)
    /\ \A l \in LocalLocations : Explains(traces[d], Len(traces[d]), l, cells[d][l], 0)
    /\ Alone => \A l \in StorageLocations :
                    Explains(traces[d], Len(traces[d]), l, storage[l], storage[l])

TracesInv == \A d \in 1..Len(traces) : TraceOK(d)

\* The operation o says what happens to the cells and the storage.
Tells(o) ==
    /\ o \in Op /\ (o.op = STACK_OP \/ Len(traces[depth]) > 0)
    /\ o.op # STORAGE_OP => o.value_prev = 0
    /\ ~ o.is_write /\ (o.op = STORAGE_OP => Alone)
       => Explains(traces[depth], Len(traces[depth]), Location(o), o.value, o.value_prev)
    /\ \A d \in 1..depth - 1 : cells'[d] = cells[d]
    /\ \A l \in LocalLocations :
          cells'[depth][l] = IF l = Location(o) THEN o.value ELSE cells[depth][l]
    /\ Alone => \A l \in StorageLocations :
          storage'[l] = IF l = Location(o) THEN o.value ELSE storage[l]

\* Recording such an operation keeps what the traces tell.
LEMMA RecordedTrace ==
    ASSUME StackInv, TracesInv, depth > 0, NEW o, Tells(o), Recorded(o),
           UNCHANGED next_frame
    PROVE  TracesInv'
  <1> DEFINE t == traces[depth]
             u == Append(t, o)
  <1>1. depth \in 1..Len(traces) /\ depth = Len(traces) /\ Len(traces') = Len(traces)
    BY DEF StackInv, depth, Recorded
  <1>2. t \in Seq(Op) /\ Len(t) \in Nat /\ o \in Op
    BY <1>1 DEF StackInv, Tells
  <1>3. /\ Len(u) = Len(t) + 1 /\ u[Len(t) + 1] = o
        /\ \A k \in 1..Len(t) : u[k] = t[k]
    BY <1>2
  <1>4. traces'[depth] = u
    BY DEF Recorded
  <1>5. Alone' <=> Alone
    BY DEF Alone
  <1>6. \A k \in 1..Len(u) : k \in 1..Len(t) \/ k = Len(t) + 1
    BY <1>2, <1>3
  <1>7. TraceOK(depth)
    BY <1>1 DEF TracesInv
  <1> HIDE DEF u
  <1>8. Len(u) > 0 => u[1].op = STACK_OP
    <2>1. CASE Len(t) > 0
      <3>1. 1 \in 1..Len(t)
        BY <1>2, <2>1
      <3> QED  BY <1>3, <1>7, <2>1, <3>1 DEF TraceOK
    <2>2. CASE ~ (Len(t) > 0)
      <3>1. Len(t) = 0
        BY <1>2, <2>2
      <3>2. u[1] = o /\ o.op = STACK_OP
        BY <1>3, <2>2, <3>1 DEF Tells
      <3> QED  BY <3>2
    <2> QED  BY <2>1, <2>2
  <1>9. ASSUME NEW k \in 1..Len(u), u[k].op # STORAGE_OP PROVE u[k].value_prev = 0
    <2>1. CASE k \in 1..Len(t)
      BY <1>3, <1>7, <1>9, <2>1 DEF TraceOK
    <2>2. CASE k = Len(t) + 1
      BY <1>3, <1>9, <2>2 DEF Tells
    <2> QED  BY <1>6, <2>1, <2>2
  <1>10. ASSUME NEW k \in 1..Len(u), ~ u[k].is_write, u[k].op = STORAGE_OP => Alone
         PROVE  Explains(u, k - 1, Location(u[k]), u[k].value, u[k].value_prev)
    <2>1. CASE k \in 1..Len(t)
      <3>1. u[k] = t[k] /\ k - 1 \in 0..Len(t)
        BY <1>2, <1>3, <2>1
      <3>2. Explains(t, k - 1, Location(t[k]), t[k].value, t[k].value_prev)
        BY <1>7, <1>10, <2>1, <3>1 DEF TraceOK
      <3> QED  BY <1>2, <3>1, <3>2, AppendExplains DEF u
    <2>2. CASE k = Len(t) + 1
      <3>1. u[k] = o /\ k - 1 = Len(t) /\ Len(t) \in 0..Len(t)
        BY <1>2, <1>3, <2>2
      <3>2. Explains(t, Len(t), Location(o), o.value, o.value_prev)
        BY <1>10, <3>1 DEF Tells
      <3> QED  BY <1>2, <3>1, <3>2, AppendExplains DEF u
    <2> QED  BY <1>6, <2>1, <2>2
  <1>11. ASSUME NEW l \in LocalLocations PROVE Explains(u, Len(u), l, cells'[depth][l], 0)
    <2>1. CASE l = Location(o)
      <3>1. cells'[depth][l] = o.value
        BY <2>1 DEF Tells
      <3> QED  BY <1>2, <1>3, <2>1, <3>1, AppendExplains DEF u
    <2>2. CASE l # Location(o)
      <3>1. cells'[depth][l] = cells[depth][l] /\ Explains(t, Len(t), l, cells[depth][l], 0)
        BY <1>7, <2>2 DEF Tells, TraceOK
      <3> QED  BY <1>2, <1>3, <2>2, <3>1, AppendExplains DEF u
    <2> QED  BY <2>1, <2>2
  <1>12. ASSUME Alone, NEW l \in StorageLocations
         PROVE  Explains(u, Len(u), l, storage'[l], storage'[l])
    <2>1. CASE l = Location(o)
      <3>1. storage'[l] = o.value
        BY <1>12, <2>1 DEF Tells
      <3> QED  BY <1>2, <1>3, <2>1, <3>1, AppendExplains DEF u
    <2>2. CASE l # Location(o)
      <3>1. storage'[l] = storage[l] /\ Explains(t, Len(t), l, storage[l], storage[l])
        BY <1>7, <1>12, <2>2 DEF Tells, TraceOK
      <3> QED  BY <1>2, <1>3, <2>2, <3>1, AppendExplains DEF u
    <2> QED  BY <2>1, <2>2
  <1> HIDE DEF t
  <1>13. ASSUME NEW d \in 1..Len(traces) PROVE TraceOK(d)'
    <2>1. CASE d = depth
      <3>1. traces'[d] = u /\ cells'[d] = cells'[depth]
        BY <1>4, <2>1
      <3> QED  BY <1>5, <1>8, <1>9, <1>10, <1>11, <1>12, <3>1 DEF TraceOK
    <2>2. CASE d # depth
      <3>1. d \in 1..depth - 1 /\ ~ (Len(traces) = 1)
        BY <1>1, <2>2
      <3>2. traces'[d] = traces[d] /\ cells'[d] = cells[d]
        BY <3>1 DEF Recorded, Tells
      <3>3. ~ Alone
        BY <1>1, <3>1 DEF Alone, StackInv
      <3>4. TraceOK(d)
        BY DEF TracesInv
      <3> QED  BY <1>5, <3>2, <3>3, <3>4 DEF TraceOK
    <2> QED  BY <2>1, <2>2
  <1> QED  BY <1>1, <1>13 DEF TracesInv

\* The two invariants of this section.
FramesInv == StackInv /\ TracesInv

\* What a handler that may trace finds.
LEMMA MayTraceFacts ==
    ASSUME FramesInv, Len(table) \in Nat, NEW l \in Locations, MayTrace, HasOperands(l)
    PROVE  /\ depth > 0 /\ depth = Len(traces) /\ depth \in 1..Len(traces)
           /\ Len(traces[depth]) < MaxOperations
           /\ l.op = STACK_OP \/ Len(traces[depth]) > 0
           /\ cells[depth] \in [LocalLocations -> Values]
           /\ TraceOK(depth)
  <1>1. depth > 0 /\ depth = Len(traces) /\ depth \in 1..Len(traces)
    BY DEF MayTrace, FramesInv, StackInv, depth
  <1>2. Len(traces[depth]) < MaxOperations
    BY <1>1, TracedBound DEF FramesInv, MayTrace
  <1>3. traces[depth] \in Seq(Op) /\ cells[depth] \in [LocalLocations -> Values] /\ TraceOK(depth)
    BY <1>1 DEF FramesInv, StackInv, TracesInv
  <1>4. l.op = STACK_OP \/ Len(traces[depth]) > 0
    BY <1>3 DEF HasOperands
  <1> QED  BY <1>1, <1>2, <1>3, <1>4

\* Locations outside storage are not storage operations.
LEMMA LocalFacts ==
    /\ \A l \in LocalLocations : l \in Locations /\ l.op # STORAGE_OP /\ l \notin StorageLocations
    /\ \A l \in StorageLocations : l \in Locations /\ l.op = STORAGE_OP /\ l \notin LocalLocations
    /\ 0 \in Values /\ STACK_OP # STORAGE_OP
  BY ValueAssumption DEF LocalLocations, StorageLocations, STACK_OP, STORAGE_OP

\* A read of a stack or memory cell.
LEMMA LocalReadFrames ==
    ASSUME FramesInv, Len(table) \in Nat, NEW l \in LocalLocations, TraceLocalRead(l)
    PROVE  FramesInv'
  <1> DEFINE v == cells[depth][l]
             o == Pushed(l, FALSE, v, 0)
  <1>1. l \in Locations /\ l.op # STORAGE_OP
    BY LocalFacts
  <1>2. /\ MayTrace /\ HasOperands(l) /\ push_back(l, FALSE, v, 0)
        /\ UNCHANGED <<cells, storage, next_frame, frames, phase>>
    BY DEF TraceLocalRead
  <1>3. /\ depth > 0 /\ depth \in 1..Len(traces) /\ Len(traces[depth]) < MaxOperations
        /\ l.op = STACK_OP \/ Len(traces[depth]) > 0
        /\ v \in Values /\ TraceOK(depth)
    BY <1>1, <1>2, MayTraceFacts
  <1>4. /\ o \in Op /\ Location(o) = l /\ o.rw_id = Len(traces[depth]) /\ o.op = l.op
        /\ o.is_write = FALSE /\ o.value = v /\ o.value_prev = 0
    <2>1. StackInv /\ 0 \in Values
      BY LocalFacts DEF FramesInv
    <2> HIDE DEF v
    <2>2. ASSUME NEW w \in BOOLEAN
          PROVE  LET p == Pushed(l, w, v, 0)
                 IN  /\ p \in Op /\ Location(p) = l /\ p.rw_id = Len(traces[depth])
                     /\ p.op = l.op /\ p.value = v /\ p.value_prev = 0
      BY <1>1, <1>3, <2>1, PushedFacts
    <2>3. o.is_write = FALSE
      BY DEF Pushed
    <2> QED  BY <2>2, <2>3
  <1>5. Recorded(o)
    BY <1>1, <1>2, <1>3, LocalFacts, PushBack DEF FramesInv
  <1>6. Explains(traces[depth], Len(traces[depth]), l, v, 0)
    BY <1>3 DEF TraceOK
  <1>7. Tells(o)
    <2>1. \A x \in LocalLocations : cells'[depth][x] = IF x = Location(o) THEN o.value ELSE cells[depth][x]
      BY <1>2, <1>4
    <2>2. \A x \in StorageLocations : storage'[x] = storage[x] /\ x # Location(o)
      BY <1>2, <1>4, LocalFacts
    <2> HIDE DEF o
    <2> QED  BY <1>1, <1>2, <1>3, <1>4, <1>6, <2>1, <2>2 DEF Tells
  <1> HIDE DEF o
  <1>8. StackInv'
    BY <1>2, <1>3, <1>4, <1>5, RecordedStack DEF FramesInv, StackInv
  <1>9. TracesInv'
    BY <1>2, <1>3, <1>5, <1>7, RecordedTrace DEF FramesInv
  <1> QED  BY <1>8, <1>9 DEF FramesInv

\* A write of a stack or memory cell.
LEMMA LocalWriteFrames ==
    ASSUME FramesInv, Len(table) \in Nat, NEW l \in LocalLocations, NEW v \in Values,
           TraceLocalWrite(l, v)
    PROVE  FramesInv'
  <1> DEFINE o == Pushed(l, TRUE, v, 0)
  <1>1. l \in Locations /\ l.op # STORAGE_OP
    BY LocalFacts
  <1>2. /\ MayTrace /\ HasOperands(l) /\ push_back(l, TRUE, v, 0)
        /\ cells' = [cells EXCEPT ![depth][l] = v]
        /\ UNCHANGED <<storage, next_frame, frames, phase>>
    BY DEF TraceLocalWrite
  <1>3. /\ depth > 0 /\ depth = Len(traces) /\ depth \in 1..Len(traces)
        /\ Len(traces[depth]) < MaxOperations
        /\ l.op = STACK_OP \/ Len(traces[depth]) > 0
        /\ cells[depth] \in [LocalLocations -> Values]
    BY <1>1, <1>2, MayTraceFacts
  <1>4. /\ o \in Op /\ Location(o) = l /\ o.rw_id = Len(traces[depth]) /\ o.op = l.op
        /\ o.is_write = TRUE /\ o.value = v /\ o.value_prev = 0
    <2>1. StackInv /\ 0 \in Values
      BY LocalFacts DEF FramesInv
    <2>2. ASSUME NEW w \in BOOLEAN
          PROVE  LET p == Pushed(l, w, v, 0)
                 IN  /\ p \in Op /\ Location(p) = l /\ p.rw_id = Len(traces[depth])
                     /\ p.op = l.op /\ p.value = v /\ p.value_prev = 0
      BY <1>1, <1>3, <2>1, PushedFacts
    <2>3. o.is_write = TRUE
      BY DEF Pushed
    <2> QED  BY <2>2, <2>3
  <1>5. Recorded(o)
    BY <1>1, <1>2, <1>3, LocalFacts, PushBack DEF FramesInv
  <1>6. /\ cells' \in Seq([LocalLocations -> Values]) /\ Len(cells') = Len(cells)
        /\ \A d \in 1..depth - 1 : cells'[d] = cells[d]
        /\ cells'[depth] = [cells[depth] EXCEPT ![l] = v]
    <2>1. cells \in Seq([LocalLocations -> Values]) /\ depth \in 1..Len(cells)
      BY <1>3 DEF FramesInv, StackInv
    <2>2. cells' = [cells EXCEPT ![depth] = [cells[depth] EXCEPT ![l] = v]]
      BY <1>2
    <2>3. [cells[depth] EXCEPT ![l] = v] \in [LocalLocations -> Values]
      BY <1>3
    <2>4. /\ cells' \in Seq([LocalLocations -> Values]) /\ Len(cells') = Len(cells)
          /\ \A d \in 1..Len(cells) :
                cells'[d] = IF d = depth THEN [cells[depth] EXCEPT ![l] = v] ELSE cells[d]
      BY <2>1, <2>2, <2>3, ExceptSeq
    <2>5. \A d \in 1..depth - 1 : d \in 1..Len(cells) /\ d # depth
      BY <2>1
    <2> QED  BY <2>1, <2>4, <2>5
  <1>7. Tells(o)
    <2>1. \A x \in LocalLocations : cells'[depth][x] = IF x = Location(o) THEN o.value ELSE cells[depth][x]
      BY <1>3, <1>4, <1>6
    <2>2. \A x \in StorageLocations : storage'[x] = storage[x] /\ x # Location(o)
      BY <1>2, <1>4, LocalFacts
    <2> HIDE DEF o
    <2> QED  BY <1>1, <1>3, <1>4, <1>6, <2>1, <2>2 DEF Tells
  <1> HIDE DEF o
  <1>8. StackInv'
    BY <1>2, <1>3, <1>4, <1>5, <1>6, RecordedStack DEF FramesInv, StackInv
  <1>9. TracesInv'
    BY <1>2, <1>3, <1>5, <1>7, RecordedTrace DEF FramesInv
  <1> QED  BY <1>8, <1>9 DEF FramesInv

\* What get_storage returns is a word.
LEMMA StorageWord ==
    ASSUME storage \in [Stored -> Values], NEW l
    PROVE  get_storage(l) \in Values
  BY ValueAssumption DEF get_storage

\* SLOAD.
LEMMA StorageReadFrames ==
    ASSUME FramesInv, Len(table) \in Nat, NEW l \in StorageLocations, TraceStorageRead(l)
    PROVE  FramesInv'
  <1> DEFINE v == get_storage(l)
             o == Pushed(l, FALSE, v, v)
  <1>1. l \in Locations /\ l.op = STORAGE_OP /\ v \in Values
    BY LocalFacts, StorageWord DEF FramesInv, StackInv
  <1>2. /\ MayTrace /\ HasOperands(l) /\ push_back(l, FALSE, v, v)
        /\ UNCHANGED <<cells, storage, next_frame, frames, phase>>
    BY DEF TraceStorageRead
  <1> HIDE DEF v
  <1>3. /\ depth > 0 /\ depth \in 1..Len(traces) /\ Len(traces[depth]) < MaxOperations
        /\ l.op = STACK_OP \/ Len(traces[depth]) > 0
        /\ TraceOK(depth)
    BY <1>1, <1>2, MayTraceFacts
  <1>4. /\ o \in Op /\ Location(o) = l /\ o.rw_id = Len(traces[depth]) /\ o.op = l.op
        /\ o.is_write = FALSE /\ o.value = v /\ o.value_prev = v
    <2>1. StackInv
      BY DEF FramesInv
    <2>2. ASSUME NEW w \in BOOLEAN
          PROVE  LET p == Pushed(l, w, v, v)
                 IN  /\ p \in Op /\ Location(p) = l /\ p.rw_id = Len(traces[depth])
                     /\ p.op = l.op /\ p.value = v /\ p.value_prev = v
      BY <1>1, <1>3, <2>1, PushedFacts
    <2>3. o.is_write = FALSE
      BY DEF Pushed
    <2> QED  BY <2>2, <2>3
  <1>5. Recorded(o)
    BY <1>1, <1>2, <1>3, PushBack DEF FramesInv
  <1>6. Alone => v = storage[l] /\ Explains(traces[depth], Len(traces[depth]), l, v, v)
    <2>1. Alone => v = storage[l]
      BY DEF v, Alone, get_storage, FramesInv, StackInv
    <2> QED  BY <1>3, <2>1 DEF TraceOK
  <1>7. Tells(o)
    <2>1. \A x \in LocalLocations : cells'[depth][x] = cells[depth][x] /\ x # Location(o)
      BY <1>2, <1>4, LocalFacts
    <2>2. Alone => \A x \in StorageLocations :
                      storage'[x] = IF x = Location(o) THEN o.value ELSE storage[x]
      BY <1>2, <1>4, <1>6
    <2> HIDE DEF o
    <2> QED  BY <1>1, <1>2, <1>3, <1>4, <1>6, <2>1, <2>2 DEF Tells
  <1> HIDE DEF o
  <1>8. StackInv'
    BY <1>2, <1>3, <1>4, <1>5, RecordedStack DEF FramesInv, StackInv
  <1>9. TracesInv'
    BY <1>2, <1>3, <1>5, <1>7, RecordedTrace DEF FramesInv
  <1> QED  BY <1>8, <1>9 DEF FramesInv

\* SSTORE.
LEMMA StorageWriteFrames ==
    ASSUME FramesInv, Len(table) \in Nat, NEW l \in StorageLocations, NEW v \in Values,
           TraceStorageWrite(l, v)
    PROVE  FramesInv'
  <1> DEFINE vp == get_storage(l)
             o == Pushed(l, TRUE, v, vp)
  <1>1. l \in Locations /\ l.op = STORAGE_OP /\ vp \in Values
    BY LocalFacts, StorageWord DEF FramesInv, StackInv
  <1>2. /\ MayTrace /\ HasOperands(l) /\ push_back(l, TRUE, v, vp) /\ set_storage(l, v)
        /\ UNCHANGED <<cells, next_frame, frames, phase>>
    BY DEF TraceStorageWrite
  <1> HIDE DEF vp
  <1>3. /\ depth > 0 /\ depth \in 1..Len(traces) /\ Len(traces[depth]) < MaxOperations
        /\ l.op = STACK_OP \/ Len(traces[depth]) > 0
    BY <1>1, <1>2, MayTraceFacts
  <1>4. /\ o \in Op /\ Location(o) = l /\ o.rw_id = Len(traces[depth]) /\ o.op = l.op
        /\ o.is_write = TRUE /\ o.value = v
    <2>1. StackInv
      BY DEF FramesInv
    <2>2. ASSUME NEW w \in BOOLEAN
          PROVE  LET p == Pushed(l, w, v, vp)
                 IN  /\ p \in Op /\ Location(p) = l /\ p.rw_id = Len(traces[depth])
                     /\ p.op = l.op /\ p.value = v /\ p.value_prev = vp
      BY <1>1, <1>3, <2>1, PushedFacts
    <2>3. o.is_write = TRUE
      BY DEF Pushed
    <2> QED  BY <2>2, <2>3
  <1>5. Recorded(o)
    BY <1>1, <1>2, <1>3, PushBack DEF FramesInv
  <1>6. /\ storage' \in [Stored -> Values]
        /\ Alone => \A x \in StorageLocations : storage'[x] = IF x = l THEN v ELSE storage[x]
    BY <1>2 DEF set_storage, FramesInv, StackInv, Alone
  <1>7. Tells(o)
    <2>1. \A x \in LocalLocations : cells'[depth][x] = cells[depth][x] /\ x # Location(o)
      BY <1>2, <1>4, LocalFacts
    <2> HIDE DEF o
    <2> QED  BY <1>1, <1>2, <1>3, <1>4, <1>6, <2>1 DEF Tells
  <1> HIDE DEF o
  <1>8. StackInv'
    BY <1>2, <1>3, <1>4, <1>5, <1>6, RecordedStack DEF FramesInv, StackInv
  <1>9. TracesInv'
    BY <1>2, <1>3, <1>5, <1>7, RecordedTrace DEF FramesInv
  <1> QED  BY <1>8, <1>9 DEF FramesInv

\* A frame that a step leaves alone keeps its trace and its number.
LEMMA FrameKept ==
    ASSUME NEW d \in Nat \ {0}, FrameOK(d), TraceOK(d),
           traces'[d] = traces[d], cells'[d] = cells[d], storage' = storage,
           next_frame \in Nat, next_frame' \in Nat, next_frame <= next_frame', Alone' => Alone,
           frames[d] \in Nat, \A e \in 1..d : frames'[e] = frames[e]
    PROVE  FrameOK(d)' /\ TraceOK(d)'
  <1>1. d \in 1..d /\ \A e \in 1..d - 1 : e \in 1..d
    OBVIOUS
  <1>2. FrameOK(d)'
    BY <1>1 DEF FrameOK
  <1>3. TraceOK(d)'
    BY DEF TraceOK
  <1> QED  BY <1>2, <1>3

\* A nested frame starts with an empty trace and fresh cells.
LEMMA EnterFrames ==
    ASSUME FramesInv, Enter
    PROVE  FramesInv'
  <1>1. /\ phase' = phase /\ storage' = storage /\ next_frame' = next_frame + 1
        /\ traces' = Append(traces, << >>) /\ cells' = Append(cells, FreshCells)
        /\ frames' = Append(frames, next_frame)
    BY DEF Enter
  <1>2. /\ traces \in Seq(Seq(Op)) /\ cells \in Seq([LocalLocations -> Values])
        /\ frames \in Seq(Nat) /\ Len(cells) = Len(traces) /\ Len(frames) = Len(traces)
        /\ next_frame \in Nat \ {0} /\ Len(traces) \in Nat /\ Len(traces) <= next_frame
    BY DEF FramesInv, StackInv
  <1>3. << >> \in Seq(Op) /\ FreshCells \in [LocalLocations -> Values]
    BY LocalFacts DEF FreshCells
  <1>4. /\ traces' \in Seq(Seq(Op)) /\ Len(traces') = Len(traces) + 1
        /\ \A d \in 1..Len(traces) : traces'[d] = traces[d]
        /\ traces'[Len(traces) + 1] = << >>
    BY <1>1, <1>2, <1>3, AppendProperties
  <1>5. /\ cells' \in Seq([LocalLocations -> Values]) /\ Len(cells') = Len(traces) + 1
        /\ \A d \in 1..Len(traces) : cells'[d] = cells[d]
        /\ cells'[Len(traces) + 1] = FreshCells
    BY <1>1, <1>2, <1>3, AppendProperties
  <1>6. /\ frames' \in Seq(Nat) /\ Len(frames') = Len(traces) + 1
        /\ \A d \in 1..Len(traces) : frames'[d] = frames[d] /\ frames[d] \in Nat
        /\ frames'[Len(traces) + 1] = next_frame
    BY <1>1, <1>2, AppendProperties, ElementOfSeq
  <1>7. ~ Alone'
    BY <1>1, <1>2 DEF Alone
  <1>8. \A d \in 1..Len(traces) : FrameOK(d) /\ TraceOK(d)
    BY DEF FramesInv, StackInv, TracesInv
  <1>9. ASSUME NEW d \in 1..Len(traces) PROVE FrameOK(d)' /\ TraceOK(d)'
    <2>1. d \in Nat \ {0} /\ \A e \in 1..d : e \in 1..Len(traces)
      BY <1>2
    <2>2. next_frame' \in Nat /\ next_frame <= next_frame'
      BY <1>1, <1>2
    <2> QED  BY <1>1, <1>2, <1>4, <1>5, <1>6, <1>7, <1>8, <2>1, <2>2, FrameKept
  <1> PICK n \in Nat : n = Len(traces) + 1
    BY <1>2
  <1>10. FrameOK(n)'
    <2>1. \A e \in 1..n - 1 : frames'[e] # next_frame
      <3>1. \A e \in 1..n - 1 : e \in 1..Len(traces)
        BY <1>2
      <3>2. \A e \in 1..Len(traces) : frames[e] < next_frame
        BY <1>8 DEF FrameOK
      <3>3. \A e \in 1..Len(traces) : frames[e] # next_frame
        BY <1>2, <1>6, <3>2
      <3> QED  BY <1>6, <3>1, <3>3
    <2>2. Numbered(<< >>) /\ Len(<< >>) <= MaxOperations
      BY BoundAssumption DEF Numbered
    <2>3. next_frame < next_frame'
      BY <1>1, <1>2
    <2>4. traces'[n] = << >> /\ frames'[n] = next_frame
      BY <1>4, <1>6
    <2>5. Numbered(traces'[n]) /\ Len(traces'[n]) <= MaxOperations
      BY <2>2, <2>4
    <2> QED  BY <2>1, <2>3, <2>4, <2>5 DEF FrameOK
  <1>11. TraceOK(n)'
    <2>1. traces'[n] = << >> /\ cells'[n] = FreshCells
      BY <1>4, <1>5
    <2>2. \A l \in LocalLocations : Explains(<< >>, 0, l, FreshCells[l], 0)
      BY DEF Explains, FreshCells
    <2> QED  BY <1>7, <2>1, <2>2 DEF TraceOK
  <1>12. \A d \in 1..Len(traces') : d \in 1..Len(traces) \/ d = n
    BY <1>2, <1>4
  <1>13. StackInv'
    <2>1. \A d \in 1..Len(traces') : FrameOK(d)'
      BY <1>9, <1>10, <1>12
    <2>2. next_frame' \in Nat \ {0} /\ Len(traces') <= next_frame'
      BY <1>1, <1>2, <1>4
    <2>3. phase' \in {"run", "process"} /\ storage' \in [Stored -> Values]
      BY <1>1 DEF FramesInv, StackInv
    <2> QED  BY <1>4, <1>5, <1>6, <2>1, <2>2, <2>3 DEF StackInv
  <1>14. TracesInv'
    BY <1>9, <1>11, <1>12 DEF TracesInv
  <1> QED  BY <1>13, <1>14 DEF FramesInv

\* Steps that leave the call stack, the cells and the storage alone.
LEMMA SameFrames ==
    ASSUME FramesInv, UNCHANGED <<traces, cells, storage, next_frame, frames>>,
           phase' \in {"run", "process"}
    PROVE  FramesInv'
  BY DEF FramesInv, StackInv, TracesInv, FrameOK, TraceOK, Alone

\* The frame that returns is taken off the stack.
LEMMA ReturnFrames ==
    ASSUME FramesInv, Return, depth > 0
    PROVE  FramesInv'
  <1>1. /\ phase' = "run" /\ storage' = storage /\ next_frame' = next_frame
        /\ traces' = SubSeq(traces, 1, depth - 1) /\ cells' = SubSeq(cells, 1, depth - 1)
        /\ frames' = SubSeq(frames, 1, depth - 1)
    BY DEF Return
  <1>2. /\ traces \in Seq(Seq(Op)) /\ cells \in Seq([LocalLocations -> Values])
        /\ frames \in Seq(Nat) /\ Len(cells) = Len(traces) /\ Len(frames) = Len(traces)
        /\ next_frame \in Nat \ {0} /\ Len(traces) <= next_frame
        /\ depth = Len(traces) /\ depth \in Nat \ {0}
    BY DEF FramesInv, StackInv, depth
  <1>3. \A d \in 1..depth - 1 : /\ d \in 1..Len(traces) /\ traces[d] \in Seq(Op) /\ frames[d] \in Nat
                                /\ cells[d] \in [LocalLocations -> Values]
    <2>1. \A d \in 1..depth - 1 : d \in 1..Len(traces)
      BY <1>2
    <2> QED  BY <1>2, <2>1, ElementOfSeq
  <1>4. /\ traces' \in Seq(Seq(Op)) /\ Len(traces') = depth - 1
        /\ \A d \in 1..depth - 1 : traces'[d] = traces[d]
    BY <1>1, <1>2, <1>3
  <1>5. /\ cells' \in Seq([LocalLocations -> Values]) /\ Len(cells') = depth - 1
        /\ \A d \in 1..depth - 1 : cells'[d] = cells[d]
    <2> DEFINE F == [LocalLocations -> Values]
    <2> HIDE DEF F
    <2>1. \A d \in 1..depth - 1 : cells[d] \in F
      BY <1>3 DEF F
    <2>2. cells' \in Seq(F) /\ Len(cells') = depth - 1 /\ \A d \in 1..depth - 1 : cells'[d] = cells[d]
      BY <1>1, <1>2, <2>1
    <2> QED  BY <2>2 DEF F
  <1>6. /\ frames' \in Seq(Nat) /\ Len(frames') = depth - 1
        /\ \A d \in 1..depth - 1 : frames'[d] = frames[d]
    BY <1>1, <1>2, <1>3
  <1>7. \A d \in 1..depth - 1 : FrameOK(d)' /\ TraceOK(d)'
    <2> TAKE d \in 1..depth - 1
    <2>1. FrameOK(d) /\ TraceOK(d) /\ d \in Nat \ {0} /\ frames[d] \in Nat
      BY <1>3 DEF FramesInv, StackInv, TracesInv
    <2>2. \A e \in 1..d : e \in 1..depth - 1
      BY <1>2
    <2>3. Alone' => Alone
      BY <1>1 DEF Alone
    <2>4. next_frame \in Nat /\ next_frame' \in Nat /\ next_frame <= next_frame'
      BY <1>1, <1>2
    <2> QED  BY <1>1, <1>4, <1>5, <1>6, <2>1, <2>2, <2>3, <2>4, FrameKept
  <1>8. next_frame' \in Nat \ {0} /\ Len(traces') <= next_frame'
    BY <1>1, <1>2, <1>4
  <1>9. StackInv'
    <2>1. phase' \in {"run", "process"} /\ storage' \in [Stored -> Values]
      BY <1>1 DEF FramesInv, StackInv
    <2> QED  BY <1>4, <1>5, <1>6, <1>7, <1>8, <2>1 DEF StackInv
  <1>10. TracesInv'
    BY <1>4, <1>7 DEF TracesInv
  <1> QED  BY <1>9, <1>10 DEF FramesInv

\* The first frame starts like a nested one.
LEMMA InitFrames ==
    ASSUME Init
    PROVE  FramesInv
  <1>1. /\ traces = << << >> >> /\ cells = <<FreshCells>> /\ frames = <<0>> /\ next_frame = 1
        /\ phase = "run" /\ storage \in [Stored -> Values]
    BY DEF Init
  <1>2. FreshCells \in [LocalLocations -> Values] /\ << >> \in Seq(Op)
    BY LocalFacts DEF FreshCells
  <1>3. Len(traces) = 1 /\ traces[1] = << >> /\ cells[1] = FreshCells /\ frames[1] = 0
    BY <1>1
  <1>4. Numbered(<< >>) /\ Len(<< >>) <= MaxOperations
    BY BoundAssumption DEF Numbered
  <1>5. FrameOK(1)
    BY <1>1, <1>3, <1>4 DEF FrameOK
  <1>6. \A l, v : Explains(<< >>, 0, l, v, v)
    BY DEF Explains
  <1>7. \A l \in LocalLocations : Explains(<< >>, 0, l, FreshCells[l], 0)
    BY DEF Explains, FreshCells
  <1>8. TraceOK(1)
    BY <1>3, <1>6, <1>7 DEF TraceOK
  <1>9. /\ traces \in Seq(Seq(Op)) /\ cells \in Seq([LocalLocations -> Values])
        /\ frames \in Seq(Nat) /\ Len(cells) = 1 /\ Len(frames) = 1
    BY <1>1, <1>2
  <1>10. \A d \in 1..Len(traces) : d = 1
    BY <1>3
  <1>11. StackInv
    BY <1>1, <1>3, <1>5, <1>9, <1>10 DEF StackInv
  <1>12. TracesInv
    BY <1>8, <1>10 DEF TracesInv
  <1> QED  BY <1>11, <1>12 DEF FramesInv

-----------------------------------------------------------------------------
(* 4. The loop and the rows.                                               *)

Row == [operation : Op, diff_ind : 0..SortingSize - 1, difference : Int,
        value_before : Values, is_first : {0, 1}, is_last : {0, 1}, frame : Nat]

\* The rows of the frame that is being assigned are the first i operations of
\* sorted, behind the rows of frames that have returned.
Assigning ==
    /\ Len(traces) > 0 /\ Arranged(sorted, traces[Len(traces)])
    /\ Len(table) = start_row_index + i
    /\ \A r \in 1..start_row_index, d \in 1..Len(traces) : table[r].frame # frames[d]
    /\ \A k \in 1..i : /\ table[start_row_index + k].frame = frames[Len(traces)]
                       /\ table[start_row_index + k].operation = sorted[k]
    /\ i > 0 => table[Len(table)].is_last = 0

\* The loop of process_rw_operations.
LoopInv ==
    /\ table \in Seq(Row) /\ \A r \in 1..Len(table) : table[r].frame < next_frame
    /\ sorted \in Seq(Op) /\ i \in 0..Len(sorted) /\ start_row_index \in Nat
    /\ phase = "run" =>
          \A r \in 1..Len(table), d \in 1..Len(traces) : table[r].frame # frames[d]
    /\ phase = "process" => Assigning

\* A row is added behind row n; the row of the frame above it may get its IS_LAST.
RowAdded(n) ==
    /\ table' \in Seq(Row) /\ Len(table) = n /\ Len(table') = n + 1
    /\ \A r \in 1..n : /\ table'[r].operation = table[r].operation
                       /\ table'[r].frame = table[r].frame
                       /\ table'[r].value_before = table[r].value_before
                       /\ table'[r].diff_ind = table[r].diff_ind
                       /\ table'[r].difference = table[r].difference
                       /\ table'[r].is_first = table[r].is_first
    /\ \A r \in 1..n - 1 : table'[r] = table[r]
    /\ table'[n + 1].frame = frames[Len(traces)] /\ table'[n + 1].operation = sorted[i + 1]
    /\ table'[n + 1].is_last = 0

\* The advice columns of the new row.
Advised(n) ==
    LET apart == Location(sorted[i]) # Location(sorted[i + 1])
    IN  /\ table'[n + 1].difference > 0
        /\ table'[n + 1].value_before = IF apart THEN sorted[i + 1].value_prev
                                                 ELSE table[n].value_before
        /\ (table'[n + 1].is_first = 1) <=> apart
        /\ (table'[n].is_last = 1) <=> apart

\* The first operation of a sorted trace is one on the stack.
LEMMA FirstIsStack ==
    ASSUME FramesInv, Assigning, Len(sorted) > 0
    PROVE  sorted[1] \in Op /\ sorted[1].op = STACK_OP
  <1> DEFINE t == traces[Len(traces)]
  <1>1. Len(traces) \in 1..Len(traces) /\ Arranged(sorted, t)
    BY DEF Assigning, FramesInv, StackInv
  <1>2. t \in Seq(Op) /\ TraceOK(Len(traces))
    BY <1>1 DEF FramesInv, StackInv, TracesInv
  <1>3. Len(t) = Len(sorted) /\ Len(t) \in Nat /\ 1 \in 1..Len(t)
    BY <1>1, <1>2 DEF Arranged
  <1>4. t[1].op = STACK_OP
    BY <1>2, <1>3 DEF TraceOK
  <1> HIDE DEF t
  <1>5. PICK n \in 1..Len(sorted) : sorted[n] = t[1]
    BY <1>1, <1>3 DEF Arranged
  <1>6. \A k \in 1..Len(sorted) : sorted[k] \in Op
    BY <1>1 DEF Arranged
  <1>7. CASE n = 1
    BY <1>3, <1>4, <1>5, <1>6, <1>7
  <1>8. CASE n # 1
    <2>1. less(sorted[1], sorted[n]) /\ 1 \in 1..Len(sorted)
      <3>1. 1 \in 1..Len(sorted) /\ 1 < n
        BY <1>3, <1>8
      <3>2. \A j, k \in 1..Len(sorted) : j < k => less(sorted[j], sorted[k])
        BY <1>1 DEF Arranged
      <3> QED  BY <3>1, <3>2
    <2>2. sorted[1].op <= sorted[n].op
      BY <1>6, <2>1, OpNumbers DEF less
    <2>3. sorted[1].op \in {STACK_OP, MEMORY_OP, STORAGE_OP}
      BY <1>6, <2>1 DEF Op, Operation
    <2> QED  BY <1>4, <1>5, <1>6, <2>1, <2>2, <2>3 DEF STACK_OP, MEMORY_OP, STORAGE_OP
  <1> QED  BY <1>7, <1>8

\* Stack operations have no previous value.
LEMMA LocalPrevious ==
    ASSUME FramesInv, Assigning, NEW k \in 1..Len(sorted), sorted[k].op # STORAGE_OP
    PROVE  sorted[k].value_prev = 0
  <1>1. Len(traces) \in 1..Len(traces) /\ Arranged(sorted, traces[Len(traces)])
    BY DEF Assigning, FramesInv, StackInv
  <1>2. TraceOK(Len(traces))
    BY <1>1 DEF FramesInv, TracesInv
  <1>3. PICK m \in 1..Len(traces[Len(traces)]) : sorted[k] = traces[Len(traces)][m]
    BY <1>1 DEF Arranged
  <1> QED  BY <1>2, <1>3 DEF TraceOK

\* A row before its advice columns are set.
LEMMA NewRowType ==
    ASSUME FramesInv, depth > 0, NEW o \in Op
    PROVE  /\ NewRow(o) \in Row /\ NewRow(o).operation = o /\ NewRow(o).frame = frames[Len(traces)]
           /\ NewRow(o).value_before = 0 /\ NewRow(o).is_last = 0
  <1>1. frames[depth] \in Nat /\ depth = Len(traces)
    BY DEF FramesInv, StackInv, depth
  <1>2. 0 \in 0..SortingSize - 1 /\ 0 \in Values
    BY Constants, ValueAssumption
  <1> QED  BY <1>1, <1>2 DEF NewRow, Row

\* The first row of a frame.
LEMMA FirstRowAdded ==
    ASSUME FramesInv, LoopInv, FillFirstRow, NEW n \in Nat, n = Len(table)
    PROVE  /\ RowAdded(n) /\ \A r \in 1..n : table'[r] = table[r]
           /\ table'[n + 1].value_before = 0 /\ table'[n + 1].operation.op = STACK_OP
           /\ table'[n + 1].operation.value_prev = 0
  <1> DEFINE row == NewRow(sorted[1])
  <1>1. /\ i = 0 /\ Assigning /\ table \in Seq(Row) /\ Len(sorted) > 0
        /\ table' = SetRow(table, 1, row)
    BY DEF FillFirstRow, LoopInv
  <1>2. depth > 0 /\ sorted[1] \in Op /\ sorted[1].op = STACK_OP
    BY <1>1, FirstIsStack DEF Assigning, depth
  <1>3. /\ row \in Row /\ row.operation = sorted[1] /\ row.frame = frames[Len(traces)]
        /\ row.value_before = 0 /\ row.is_last = 0
    BY <1>2, NewRowType
  <1>4. sorted[1].value_prev = 0
    <2>1. 1 \in 1..Len(sorted)
      BY <1>1 DEF LoopInv
    <2> QED  BY <1>1, <1>2, <2>1, LocalPrevious DEF STACK_OP, STORAGE_OP
  <1> HIDE DEF row
  <1>5. table' = Append(table, row)
    BY <1>1 DEF SetRow, Assigning, LoopInv
  <1>6. /\ table' \in Seq(Row) /\ Len(table') = n + 1 /\ table'[n + 1] = row
        /\ \A r \in 1..n : table'[r] = table[r]
    BY <1>1, <1>3, <1>5, AppendProperties
  <1>7. i + 1 = 1 /\ \A r \in 1..n - 1 : r \in 1..n
    BY <1>1
  <1>8. RowAdded(n)
    BY <1>3, <1>6, <1>7 DEF RowAdded
  <1> QED  BY <1>2, <1>3, <1>4, <1>6, <1>8

\* A row that is replaced.
LEMMA RowSet ==
    ASSUME NEW rows \in Seq(Row), NEW n \in 1..Len(rows), NEW row \in Row
    PROVE  /\ [rows EXCEPT ![n] = row] \in Seq(Row) /\ Len([rows EXCEPT ![n] = row]) = Len(rows)
           /\ \A r \in 1..Len(rows) :
                 [rows EXCEPT ![n] = row][r] = IF r = n THEN row ELSE rows[r]
  BY ExceptSeq

\* The other rows.
LEMMA RowIsAdded ==
    ASSUME FramesInv, LoopInv, FillRow, NEW n \in Nat, n = Len(table)
    PROVE  RowAdded(n) /\ Advised(n)
  <1> DEFINE above == table[n]
             o     == sorted[i + 1]
             row   == AdviceRow(o, above)
             d     == diff_ind(sorted[i], o)
             mark  == IF ClosesGroup(row.operation, row.diff_ind) THEN 1 ELSE above.is_last
             marked == [above EXCEPT !.is_last = mark]
             rows   == [table EXCEPT ![n] = marked]
  <1>1. /\ Assigning /\ table \in Seq(Row) /\ i \in 0..Len(sorted) /\ i > 0 /\ i < Len(sorted)
        /\ Len(sorted) \in Nat /\ start_row_index \in Nat /\ n = start_row_index + i /\ sorted \in Seq(Op)
    BY DEF FillRow, LoopInv, Assigning
  <1>2. i \in 1..Len(sorted) /\ i + 1 \in 1..Len(sorted) /\ n \in 1..Len(table) /\ i \in 1..i
    BY <1>1
  <1>3. /\ o \in Op /\ sorted[i] \in Op /\ less(sorted[i], o) /\ above \in Row
        /\ above.operation = sorted[i] /\ above.is_last = 0
    <2>1. o \in Op /\ sorted[i] \in Op /\ above \in Row
      BY <1>1, <1>2, ElementOfSeq
    <2>2. less(sorted[i], o)
      <3>1. \A j, k \in 1..Len(sorted) : j < k => less(sorted[j], sorted[k])
        BY <1>1 DEF Assigning, Arranged
      <3>2. i < i + 1
        BY <1>1
      <3> QED  BY <1>2, <3>1, <3>2
    <2>3. above.operation = sorted[i] /\ above.is_last = 0
      BY <1>1, <1>2 DEF Assigning
    <2> QED  BY <2>1, <2>2, <2>3
  <1>4. /\ d \in 0..SortingSize - 1 /\ sorting(o)[d + 1] - sorting(sorted[i])[d + 1] \in Nat \ {0}
        /\ (d < GroupColumns) <=> (Location(sorted[i]) # Location(o))
    BY <1>3, DiffInd
  <1>5. /\ NewRow(o) \in Row /\ NewRow(o).operation = o /\ NewRow(o).frame = frames[Len(traces)]
        /\ NewRow(o).value_before = 0 /\ NewRow(o).is_last = 0
    <2>1. depth > 0
      BY <1>1 DEF Assigning, depth
    <2> QED  BY <1>3, <2>1, NewRowType
  <1>6. o.op \in {STACK_OP, MEMORY_OP, STORAGE_OP} /\ o.value_prev \in Values
    BY <1>3 DEF Op, Operation
  <1>7. row = [NewRow(o) EXCEPT
                  !.diff_ind = d,
                  !.value_before = IF d < GroupColumns THEN o.value_prev ELSE above.value_before,
                  !.is_first = IF OpensGroup(o, d) THEN 1 ELSE 0,
                  !.difference = sorting(o)[d + 1] - sorting(sorted[i])[d + 1]]
    BY <1>3 DEF AdviceRow
  <1>8. table' = SetRow(rows, i + 1, row)
    <2>1. table' = SetRow([table EXCEPT ![n].is_last =
                               IF ClosesGroup(row.operation, row.diff_ind) THEN 1 ELSE @], i + 1, row)
      BY <1>1 DEF FillRow
    <2> HIDE DEF row
    <2>2. [table EXCEPT ![n].is_last = IF ClosesGroup(row.operation, row.diff_ind) THEN 1 ELSE @]
            = rows
      OBVIOUS
    <2> QED  BY <2>1, <2>2
  <1> HIDE DEF d, o, above, row
  <1>9. /\ row \in Row /\ row.operation = o /\ row.frame = frames[Len(traces)] /\ row.is_last = 0
        /\ row.diff_ind = d /\ row.difference > 0
        /\ row.value_before = IF d < GroupColumns THEN o.value_prev ELSE above.value_before
        /\ row.is_first = IF OpensGroup(o, d) THEN 1 ELSE 0
    <2> DEFINE nr == NewRow(o)
               diff == sorting(o)[d + 1] - sorting(sorted[i])[d + 1]
               vb == IF d < GroupColumns THEN o.value_prev ELSE above.value_before
               first == IF OpensGroup(o, d) THEN 1 ELSE 0
    <2>1. diff \in Int /\ diff > 0 /\ vb \in Values /\ first \in {0, 1} /\ nr \in Row
      BY <1>3, <1>4, <1>5, <1>6 DEF Row
    <2>2. row = [nr EXCEPT !.diff_ind = d, !.value_before = vb, !.is_first = first, !.difference = diff]
      BY <1>7
    <2>3. nr.operation = o /\ nr.frame = frames[Len(traces)] /\ nr.is_last = 0
      BY <1>5
    <2> HIDE DEF nr, diff, vb, first
    <2>4. /\ row \in Row /\ row.operation = o /\ row.frame = frames[Len(traces)] /\ row.is_last = 0
          /\ row.diff_ind = d /\ row.difference = diff /\ row.value_before = vb /\ row.is_first = first
      BY <1>4, <2>1, <2>2, <2>3 DEF Row
    <2> QED  BY <2>1, <2>4 DEF vb, first
  <1>10. /\ OpensGroup(o, d) <=> d < GroupColumns
         /\ ClosesGroup(row.operation, row.diff_ind) <=> d < GroupColumns
    BY <1>6, <1>9 DEF OpensGroup, ClosesGroup, STACK_OP, MEMORY_OP, STORAGE_OP, START_OP, PADDING_OP
  <1>11. mark \in {0, 1} /\ (mark = 1 <=> d < GroupColumns)
    BY <1>3, <1>10
  <1> HIDE DEF mark
  <1>12. /\ marked \in Row /\ marked.is_last = mark
         /\ marked.operation = above.operation /\ marked.frame = above.frame
         /\ marked.value_before = above.value_before /\ marked.diff_ind = above.diff_ind
         /\ marked.difference = above.difference /\ marked.is_first = above.is_first
    BY <1>3, <1>11 DEF Row
  <1> HIDE DEF marked
  <1>13. /\ rows \in Seq(Row) /\ Len(rows) = n
         /\ \A r \in 1..n : rows[r] = IF r = n THEN marked ELSE table[r]
    <2>1. /\ rows \in Seq(Row) /\ Len(rows) = Len(table)
          /\ \A r \in 1..Len(table) : rows[r] = IF r = n THEN marked ELSE table[r]
      BY <1>1, <1>2, <1>12, RowSet
    <2> HIDE DEF rows
    <2> QED  BY <2>1
  <1> HIDE DEF rows
  <1>14. table' = Append(rows, row)
    <2>1. start_row_index + (i + 1) = n + 1 /\ ~ (n + 1 <= n)
      BY <1>1
    <2> QED  BY <1>8, <1>13, <2>1 DEF SetRow
  <1>15. /\ table' \in Seq(Row) /\ Len(table') = n + 1 /\ table'[n + 1] = row
         /\ \A r \in 1..n : table'[r] = IF r = n THEN marked ELSE table[r]
    BY <1>9, <1>13, <1>14, AppendProperties
  <1>16. \A r \in 1..n - 1 : r \in 1..n /\ r # n
    OBVIOUS
  <1>17. n \in 1..n
    BY <1>2
  <1>18. RowAdded(n)
    <2>1. \A r \in 1..n : /\ table'[r].operation = table[r].operation
                          /\ table'[r].frame = table[r].frame
                          /\ table'[r].value_before = table[r].value_before
                          /\ table'[r].diff_ind = table[r].diff_ind
                          /\ table'[r].difference = table[r].difference
                          /\ table'[r].is_first = table[r].is_first
      BY <1>12, <1>15 DEF above
    <2>2. \A r \in 1..n - 1 : table'[r] = table[r]
      BY <1>15, <1>16
    <2>3. /\ table'[n + 1].frame = frames[Len(traces)] /\ table'[n + 1].operation = sorted[i + 1]
          /\ table'[n + 1].is_last = 0
      BY <1>9, <1>15 DEF o
    <2> QED  BY <1>15, <2>1, <2>2, <2>3 DEF RowAdded
  <1>19. Advised(n)
    <2>1. table'[n].is_last = mark
      BY <1>12, <1>15, <1>17
    <2>2. /\ (table'[n + 1].is_first = 1) <=> d < GroupColumns
          /\ table'[n + 1].difference > 0
          /\ table'[n + 1].value_before = IF d < GroupColumns THEN o.value_prev ELSE above.value_before
      BY <1>9, <1>10, <1>15
    <2> QED  BY <1>4, <1>11, <2>1, <2>2 DEF Advised, o, above
  <1> QED  BY <1>18, <1>19

\* A location between two operations on one location is that location.
LEMMA Between ==
    ASSUME NEW o \in Op, NEW p \in Op, NEW q \in Op,
           less(o, p) \/ o = p, less(p, q), Location(o) = Location(q)
    PROVE  Location(p) = Location(q)
  <1>1. o.op = q.op /\ o.address = q.address /\ o.field = q.field /\ o.storage_key = q.storage_key
    BY OpFacts DEF Location
  <1>2. p.op = q.op /\ p.address = q.address /\ p.storage_key = q.storage_key
    BY <1>1, OpNumbers DEF less
  <1> QED  BY <1>2 DEF Location

\* On one location the order is that of execution.
LEMMA OneLocation ==
    ASSUME NEW o \in Op, NEW q \in Op, less(o, q), Location(o) = Location(q)
    PROVE  o.rw_id < q.rw_id
  <1>1. o.op = q.op /\ o.address = q.address /\ o.field = q.field /\ o.storage_key = q.storage_key
    BY OpFacts DEF Location
  <1> QED  BY <1>1 DEF less

\* The frame's rows in the table with row n + 1: they are in the order of operator<,
\* and the rows above the first of them are other frames'.
Placed(n) ==
    /\ RowAdded(n) /\ n \in Nat /\ i' = i + 1
    /\ UNCHANGED <<traces, cells, storage, next_frame, frames, sorted, start_row_index, phase>>
    /\ \A r, s \in 1..n + 1 :
          /\ r < s /\ table'[r].frame = table'[s].frame
          /\ table'[s].frame = frames[Len(traces)]
          => less(table'[r].operation, table'[s].operation)
    /\ i = 0 => /\ \A r \in 1..n : table'[r].frame # table'[n + 1].frame
                /\ table'[n + 1].value_before = 0
                /\ table'[n + 1].operation.value_prev = 0
    /\ i > 0 => /\ n > 0 /\ table'[n].frame = table'[n + 1].frame
                /\ table'[n].operation = sorted[i] /\ Advised(n)

\* Both actions of the loop place the new row.
LEMMA RowPlaced ==
    ASSUME FramesInv, LoopInv, FillFirstRow \/ FillRow
    PROVE  Len(table) \in Nat /\ Placed(Len(table))
  <1>1. /\ Assigning /\ table \in Seq(Row) /\ i \in 0..Len(sorted) /\ Len(sorted) \in Nat
        /\ sorted \in Seq(Op) /\ start_row_index \in Nat /\ i < Len(sorted) /\ i' = i + 1
        /\ Len(table) = start_row_index + i
        /\ UNCHANGED <<traces, cells, storage, next_frame, frames, sorted, start_row_index, phase>>
    BY DEF FillFirstRow, FillRow, LoopInv, Assigning
  <1> PICK n \in Nat : n = Len(table)
    BY <1>1
  <1>2. RowAdded(n)
    BY FirstRowAdded, RowIsAdded
  <1>3. /\ \A r \in 1..start_row_index : table'[r].frame # frames[Len(traces)]
        /\ \A k \in 1..i + 1 : /\ table'[start_row_index + k].frame = frames[Len(traces)]
                               /\ table'[start_row_index + k].operation = sorted[k]
    <2>1. Len(traces) \in 1..Len(traces)
      BY <1>1 DEF Assigning, FramesInv, StackInv
    <2>2. /\ \A r \in 1..start_row_index : r \in 1..n
          /\ \A k \in 1..i : start_row_index + k \in 1..n
          /\ \A k \in 1..i + 1 : k \in 1..i \/ k = i + 1
          /\ start_row_index + (i + 1) = n + 1
      BY <1>1
    <2>3. \A r \in 1..start_row_index : table'[r].frame # frames[Len(traces)]
      <3>1. \A r \in 1..n : table'[r].frame = table[r].frame
        BY <1>2 DEF RowAdded
      <3>2. \A r \in 1..start_row_index : table[r].frame # frames[Len(traces)]
        BY <1>1, <2>1 DEF Assigning
      <3> QED  BY <2>2, <3>1, <3>2
    <2>4. \A k \in 1..i : /\ table'[start_row_index + k].frame = frames[Len(traces)]
                          /\ table'[start_row_index + k].operation = sorted[k]
      BY <1>1, <1>2, <2>2 DEF RowAdded, Assigning
    <2>5. /\ table'[start_row_index + (i + 1)].frame = frames[Len(traces)]
          /\ table'[start_row_index + (i + 1)].operation = sorted[i + 1]
      BY <1>2, <2>2 DEF RowAdded
    <2> QED  BY <2>2, <2>3, <2>4, <2>5
  <1>4. ASSUME NEW r \in 1..n + 1, NEW s \in 1..n + 1, r < s, table'[r].frame = table'[s].frame,
               table'[s].frame = frames[Len(traces)]
        PROVE  less(table'[r].operation, table'[s].operation)
    <2>1. r \notin 1..start_row_index /\ s \notin 1..start_row_index
      BY <1>3, <1>4
    <2>2. PICK j \in 1..i + 1, k \in 1..i + 1 :
              r = start_row_index + j /\ s = start_row_index + k /\ j < k
      <3>1. /\ r - start_row_index \in 1..i + 1 /\ s - start_row_index \in 1..i + 1
            /\ r = start_row_index + (r - start_row_index) /\ s = start_row_index + (s - start_row_index)
            /\ r - start_row_index < s - start_row_index
        BY <1>1, <1>4, <2>1
      <3> QED  BY <3>1
    <2>3. j \in 1..Len(sorted) /\ k \in 1..Len(sorted)
      BY <1>1
    <2>4. less(sorted[j], sorted[k])
      <3>1. \A a, b \in 1..Len(sorted) : a < b => less(sorted[a], sorted[b])
        BY <1>1 DEF Assigning, Arranged
      <3> QED  BY <2>2, <2>3, <3>1
    <2> QED  BY <1>3, <2>2, <2>4
  <1>5. ASSUME i = 0
        PROVE  /\ \A r \in 1..n : table'[r].frame # table'[n + 1].frame
               /\ table'[n + 1].value_before = 0 /\ table'[n + 1].operation.value_prev = 0
    <2>1. FillFirstRow /\ n = start_row_index /\ 1 \in 1..i + 1
      BY <1>1, <1>5 DEF FillRow
    <2> QED  BY <1>3, <2>1, FirstRowAdded
  <1>6. ASSUME i > 0
        PROVE  /\ n > 0 /\ table'[n].frame = table'[n + 1].frame
               /\ table'[n].operation = sorted[i] /\ Advised(n)
    <2>1. FillRow /\ i \in 1..i + 1 /\ i + 1 \in 1..i + 1 /\ start_row_index + (i + 1) = n + 1
          /\ n = start_row_index + i /\ n > 0
      BY <1>1, <1>6 DEF FillFirstRow
    <2> QED  BY <1>3, <2>1, RowIsAdded
  <1>7. Placed(n)
    BY <1>1, <1>2, <1>4, <1>5, <1>6 DEF Placed
  <1> QED  BY <1>7

\* The loop goes on to the next operation of sorted.
LEMMA FillLoop ==
    ASSUME FramesInv, LoopInv, FillFirstRow \/ FillRow
    PROVE  LoopInv'
  <1>1. /\ Assigning /\ table \in Seq(Row) /\ i \in 0..Len(sorted) /\ Len(sorted) \in Nat
        /\ sorted \in Seq(Op) /\ start_row_index \in Nat /\ i < Len(sorted)
        /\ Len(table) = start_row_index + i /\ phase = "process"
        /\ \A r \in 1..Len(table) : table[r].frame < next_frame
    BY DEF FillFirstRow, FillRow, LoopInv, Assigning
  <1> PICK n \in Nat : n = Len(table)
    BY <1>1
  <1>2. Placed(n)
    BY RowPlaced
  <1>3. /\ RowAdded(n) /\ i' = i + 1
        /\ UNCHANGED <<traces, next_frame, frames, sorted, start_row_index, phase>>
    BY <1>2 DEF Placed
  <1>4. /\ table' \in Seq(Row) /\ Len(table') = n + 1
        /\ \A r \in 1..n : /\ table'[r].operation = table[r].operation
                           /\ table'[r].frame = table[r].frame
        /\ table'[n + 1].frame = frames[Len(traces)] /\ table'[n + 1].operation = sorted[i + 1]
        /\ table'[n + 1].is_last = 0
    BY <1>3 DEF RowAdded
  <1>5. \A r \in 1..n + 1 : table'[r].frame < next_frame
    <2>1. frames[Len(traces)] < next_frame
      <3>1. Len(traces) \in 1..Len(traces)
        BY <1>1 DEF Assigning, FramesInv, StackInv
      <3> QED  BY <3>1 DEF FramesInv, StackInv, FrameOK
    <2>2. \A r \in 1..n + 1 : r \in 1..n \/ r = n + 1
      OBVIOUS
    <2> QED  BY <1>1, <1>4, <2>1, <2>2
  <1>6. \A r \in 1..start_row_index, d \in 1..Len(traces) : table'[r].frame # frames[d]
    <2>1. \A r \in 1..start_row_index : r \in 1..n
      BY <1>1
    <2> QED  BY <1>1, <1>4, <2>1 DEF Assigning
  <1>7. \A k \in 1..i + 1 : /\ table'[start_row_index + k].frame = frames[Len(traces)]
                            /\ table'[start_row_index + k].operation = sorted[k]
    <2>1. /\ \A k \in 1..i : start_row_index + k \in 1..n
          /\ \A k \in 1..i + 1 : k \in 1..i \/ k = i + 1
          /\ start_row_index + (i + 1) = n + 1
      BY <1>1
    <2>2. \A k \in 1..i : /\ table'[start_row_index + k].frame = frames[Len(traces)]
                          /\ table'[start_row_index + k].operation = sorted[k]
      BY <1>1, <1>4, <2>1 DEF Assigning
    <2> QED  BY <1>4, <2>1, <2>2
  <1>8. n + 1 = start_row_index + (i + 1) /\ i + 1 \in 0..Len(sorted)
    BY <1>1
  <1>9. Len(traces) > 0 /\ Arranged(sorted, traces[Len(traces)])
    BY <1>1 DEF Assigning
  <1>10. Assigning'
    BY <1>3, <1>4, <1>6, <1>7, <1>8, <1>9 DEF Assigning
  <1> QED  BY <1>1, <1>3, <1>4, <1>5, <1>8, <1>10 DEF LoopInv

\* Nothing has been assigned at first.
LEMMA InitLoop ==
    ASSUME Init
    PROVE  LoopInv
  <1>1. table = << >> /\ sorted = << >> /\ i = 0 /\ start_row_index = 0 /\ phase = "run"
    BY DEF Init
  <1>2. << >> \in Seq(Row) /\ << >> \in Seq(Op) /\ Len(<< >>) = 0
    OBVIOUS
  <1> QED  BY <1>1, <1>2 DEF LoopInv

\* Handlers do not touch the table.
LEMMA TraceLoop ==
    ASSUME FramesInv, FramesInv', LoopInv, phase = "run",
           UNCHANGED <<next_frame, frames, sorted, i, start_row_index, phase, table>>
    PROVE  LoopInv'
  <1>1. Len(traces') = Len(traces)
    BY DEF FramesInv, StackInv
  <1> QED  BY <1>1 DEF LoopInv

\* A frame that is entered has no rows.
LEMMA EnterLoop ==
    ASSUME FramesInv, LoopInv, Enter
    PROVE  LoopInv'
  <1>1. /\ phase = "run" /\ UNCHANGED <<sorted, i, start_row_index, phase, table>>
        /\ frames' = Append(frames, next_frame) /\ next_frame' = next_frame + 1
        /\ traces' = Append(traces, << >>)
    BY DEF Enter
  <1>2. /\ frames \in Seq(Nat) /\ Len(frames) = Len(traces) /\ next_frame \in Nat /\ Len(traces) \in Nat
        /\ traces \in Seq(Seq(Op)) /\ << >> \in Seq(Op)
    BY DEF FramesInv, StackInv
  <1>3. /\ Len(traces') = Len(traces) + 1 /\ frames'[Len(traces) + 1] = next_frame
        /\ \A d \in 1..Len(traces) : frames'[d] = frames[d]
    BY <1>1, <1>2, AppendProperties
  <1>4. /\ table \in Seq(Row) /\ \A r \in 1..Len(table) : table[r].frame < next_frame
        /\ \A r \in 1..Len(table), d \in 1..Len(traces) : table[r].frame # frames[d]
        /\ \A r \in 1..Len(table) : table[r].frame \in Nat
    <2>1. \A r \in 1..Len(table) : table[r] \in Row
      BY DEF LoopInv
    <2> QED  BY <1>1, <2>1 DEF LoopInv, Row
  <1>5. ASSUME NEW r \in 1..Len(table), NEW d \in 1..Len(traces) + 1
        PROVE  table[r].frame # frames'[d]
    <2>1. d \in 1..Len(traces) \/ d = Len(traces) + 1
      BY <1>2
    <2>2. table[r].frame # next_frame
      BY <1>2, <1>4
    <2> QED  BY <1>3, <1>4, <2>1, <2>2
  <1>6. \A r \in 1..Len(table) : table[r].frame < next_frame + 1
    BY <1>2, <1>4
  <1> QED  BY <1>1, <1>3, <1>5, <1>6 DEF LoopInv

\* handle_rw starts behind the last row.
LEMMA LeaveLoop ==
    ASSUME FramesInv, LoopInv, Leave
    PROVE  LoopInv'
  <1>1. /\ phase = "run" /\ phase' = "process" /\ sorted' = sort(traces[Len(traces)]) /\ i' = 0
        /\ start_row_index' = Len(table) /\ Len(traces) > 0
        /\ UNCHANGED <<traces, frames, next_frame, table>>
    BY DEF Leave, depth
  <1>2. Numbered(traces[Len(traces)])
    <2>1. Len(traces) \in 1..Len(traces)
      BY <1>1 DEF FramesInv, StackInv
    <2> QED  BY <2>1 DEF FramesInv, StackInv, FrameOK
  <1>3. Arranged(sorted', traces[Len(traces)])
    BY <1>1, <1>2, SortArranges
  <1>4. sorted' \in Seq(Op) /\ 0 \in 0..Len(sorted')
    BY <1>3 DEF Arranged
  <1>5. table \in Seq(Row) /\ Len(table) \in Nat /\ Len(table) = Len(table) + 0
    BY DEF LoopInv
  <1>6. Assigning'
    <2>1. \A r \in 1..Len(table), d \in 1..Len(traces) : table[r].frame # frames[d]
      BY <1>1 DEF LoopInv
    <2> QED  BY <1>1, <1>3, <1>5, <2>1 DEF Assigning
  <1> QED  BY <1>1, <1>4, <1>5, <1>6 DEF LoopInv

\* The rows of the frame that returns are no longer those of a running frame.
LEMMA ReturnLoop ==
    ASSUME FramesInv, LoopInv, Return
    PROVE  LoopInv'
  <1>1. /\ phase = "process" /\ i = Len(sorted) /\ phase' = "run" /\ Assigning
        /\ traces' = SubSeq(traces, 1, Len(traces) - 1) /\ frames' = SubSeq(frames, 1, Len(traces) - 1)
        /\ UNCHANGED <<next_frame, sorted, i, start_row_index, table>>
    BY DEF Return, LoopInv, depth
  <1>2. /\ traces \in Seq(Seq(Op)) /\ frames \in Seq(Nat) /\ Len(frames) = Len(traces)
        /\ Len(traces) \in Nat /\ Len(traces) > 0
    BY <1>1 DEF FramesInv, StackInv, Assigning
  <1>3. /\ Len(traces') = Len(traces) - 1
        /\ \A d \in 1..Len(traces) - 1 : frames'[d] = frames[d]
    BY <1>1, <1>2, SubSeqProperties
  <1>4. \A d \in 1..Len(traces) - 1 : frames[Len(traces)] # frames[d]
    <2>1. Len(traces) \in 1..Len(traces)
      BY <1>2
    <2> QED  BY <2>1 DEF FramesInv, StackInv, FrameOK
  <1>5. ASSUME NEW r \in 1..Len(table), NEW d \in 1..Len(traces) - 1
        PROVE  table[r].frame # frames[d]
    <2>1. i \in Nat /\ start_row_index \in Nat /\ Len(table) = start_row_index + i /\ d \in 1..Len(traces)
      BY <1>1, <1>2 DEF LoopInv, Assigning
    <2>2. CASE r <= start_row_index
      <3>1. r \in 1..start_row_index
        BY <2>1, <2>2
      <3> QED  BY <1>1, <2>1, <3>1 DEF Assigning
    <2>3. CASE r > start_row_index
      <3>1. PICK k \in 1..i : r = start_row_index + k
        <4>1. r - start_row_index \in 1..i /\ r = start_row_index + (r - start_row_index)
          BY <2>1, <2>3
        <4> QED  BY <4>1
      <3>2. table[r].frame = frames[Len(traces)]
        BY <1>1, <3>1 DEF Assigning
      <3> QED  BY <1>4, <3>2
    <2> QED  BY <2>1, <2>2, <2>3
  <1> QED  BY <1>1, <1>3, <1>5 DEF LoopInv

\* The sorted trace agrees with its reads: a read has the value of the operation
\* above it if that is on its location, and its value_prev otherwise.
LEMMA ReadExplained ==
    ASSUME FramesInv, Assigning, NEW k \in 1..Len(sorted), ~ sorted[k].is_write,
           sorted[k].op = STORAGE_OP => Alone
    PROVE  sorted[k].value = IF k > 1 /\ Location(sorted[k - 1]) = Location(sorted[k])
                             THEN sorted[k - 1].value ELSE sorted[k].value_prev
  <1> DEFINE t == traces[Len(traces)]
  <1>1. /\ Len(traces) \in 1..Len(traces) /\ sorted \in Seq(Op) /\ Len(sorted) = Len(t)
        /\ Len(sorted) \in Nat
        /\ \A m, n \in 1..Len(sorted) : m < n => less(sorted[m], sorted[n])
        /\ \A n \in 1..Len(sorted) : \E j \in 1..Len(t) : sorted[n] = t[j]
        /\ \A j \in 1..Len(t) : \E n \in 1..Len(sorted) : sorted[n] = t[j]
    <2>1. Arranged(sorted, t) /\ Len(traces) \in 1..Len(traces)
      BY DEF Assigning, FramesInv, StackInv
    <2> HIDE DEF t
    <2>2. sorted \in Seq(Op) /\ Len(sorted) = Len(t)
      BY <2>1 DEF Arranged
    <2>3. Len(sorted) \in Nat
      BY <2>2
    <2>4. /\ \A m, n \in 1..Len(sorted) : m < n => less(sorted[m], sorted[n])
          /\ \A n \in 1..Len(sorted) : \E j \in 1..Len(t) : sorted[n] = t[j]
          /\ \A j \in 1..Len(t) : \E n \in 1..Len(sorted) : sorted[n] = t[j]
      BY <2>1 DEF Arranged
    <2> QED  BY <2>1, <2>2, <2>3, <2>4
  <1>2. /\ \A j \in 1..Len(t) : t[j].rw_id = j - 1 /\ t[j] \in Op
        /\ TraceOK(Len(traces))
    <2>1. Numbered(t)
      BY <1>1 DEF FramesInv, StackInv, FrameOK
    <2>2. TraceOK(Len(traces))
      BY <1>1 DEF FramesInv, TracesInv
    <2> HIDE DEF t
    <2> QED  BY <2>1, <2>2 DEF Numbered
  <1> DEFINE Expl(j) == Explains(t, j - 1, Location(t[j]), t[j].value, t[j].value_prev)
  <1>3. \A j \in 1..Len(t) : ~ t[j].is_write /\ (t[j].op = STORAGE_OP => Alone) => Expl(j)
    BY <1>2 DEF TraceOK
  <1> HIDE DEF t, Expl
  <1>4. PICK j \in 1..Len(t) : sorted[k] = t[j]
    BY <1>1
  <1>5. Explains(t, j - 1, Location(t[j]), t[j].value, t[j].value_prev)
    BY <1>3, <1>4 DEF Expl
  <1>6. \A n \in 1..Len(sorted) : sorted[n] \in Op
    BY <1>1
  <1>7. Len(t) \in Nat
    BY <1>1
  <1>8. ASSUME NEW m \in 1..j - 1, Location(t[m]) = Location(t[j]),
               t[m].value = t[j].value, \A x \in m + 1..j - 1 : Location(t[x]) # Location(t[j])
        PROVE  k > 1 /\ Location(sorted[k - 1]) = Location(sorted[k])
               /\ sorted[k].value = sorted[k - 1].value
    <2>1. m \in 1..Len(t)
      BY <1>7
    <2>2. PICK n \in 1..Len(sorted) : sorted[n] = t[m]
      BY <1>1, <2>1
    <2>3. t[m].rw_id < t[j].rw_id
      BY <1>2, <2>1
    <2>4. ~ less(sorted[k], sorted[n]) /\ n # k
      <3>1. less(sorted[k], sorted[n]) => sorted[k].rw_id < sorted[n].rw_id
        BY <1>4, <1>6, <1>8, <2>2, OneLocation
      <3>2. sorted[n].rw_id < sorted[k].rw_id /\ sorted[n].rw_id \in Int /\ sorted[k].rw_id \in Int
        BY <1>4, <1>6, <2>2, <2>3, OpNumbers
      <3> QED  BY <3>1, <3>2
    <2>5. n < k
      BY <1>1, <2>4
    <2>6. k - 1 \in 1..Len(sorted) /\ (n < k - 1 \/ n = k - 1) /\ k - 1 < k
      <3>1. Len(sorted) \in Nat
        BY <1>1
      <3> QED  BY <2>5, <3>1
    <2>7. less(sorted[n], sorted[k - 1]) \/ sorted[n] = sorted[k - 1]
      BY <1>1, <2>6
    <2>8. less(sorted[k - 1], sorted[k])
      BY <1>1, <2>6
    <2>9. Location(sorted[k - 1]) = Location(sorted[k])
      BY <1>4, <1>6, <1>8, <2>2, <2>6, <2>7, <2>8, Between
    <2>10. sorted[n] = sorted[k - 1]
      <3>1. SUFFICES ASSUME less(sorted[n], sorted[k - 1]) PROVE FALSE
        BY <2>7
      <3>2. PICK x \in 1..Len(t) : sorted[k - 1] = t[x]
        BY <1>1, <2>6
      <3>3. t[m].rw_id < t[x].rw_id /\ t[x].rw_id < t[j].rw_id
        BY <1>4, <1>6, <1>8, <2>2, <2>6, <2>8, <2>9, <3>1, <3>2, OneLocation
      <3>4. x \in m + 1..j - 1
        BY <1>2, <2>1, <3>3
      <3> QED  BY <1>4, <1>8, <2>9, <3>2, <3>4
    <2> QED  BY <1>1, <1>4, <1>8, <2>2, <2>5, <2>9, <2>10
  <1>9. ASSUME t[j].value = t[j].value_prev, \A m \in 1..j - 1 : Location(t[m]) # Location(t[j])
        PROVE  /\ ~ (k > 1 /\ Location(sorted[k - 1]) = Location(sorted[k]))
               /\ sorted[k].value = sorted[k].value_prev
    <2>1. SUFFICES ASSUME k > 1, Location(sorted[k - 1]) = Location(sorted[k]) PROVE FALSE
      BY <1>4, <1>9
    <2>2. k - 1 \in 1..Len(sorted) /\ less(sorted[k - 1], sorted[k])
      <3>1. Len(sorted) \in Nat
        BY <1>1
      <3>2. k - 1 \in 1..Len(sorted) /\ k - 1 < k
        BY <2>1, <3>1
      <3> QED  BY <1>1, <3>2
    <2>3. PICK x \in 1..Len(t) : sorted[k - 1] = t[x]
      BY <1>1, <2>2
    <2>4. t[x].rw_id < t[j].rw_id
      BY <1>4, <1>6, <2>1, <2>2, <2>3, OneLocation
    <2>5. x \in 1..j - 1
      BY <1>2, <2>4
    <2> QED  BY <1>4, <1>9, <2>1, <2>3, <2>5
  <1>10. CASE \E m \in 1..j - 1 : /\ Location(t[m]) = Location(t[j]) /\ t[m].value = t[j].value
                                  /\ \A x \in m + 1..j - 1 : Location(t[x]) # Location(t[j])
    BY <1>8, <1>10
  <1>11. CASE t[j].value = t[j].value_prev /\ \A m \in 1..j - 1 : Location(t[m]) # Location(t[j])
    BY <1>9, <1>11
  <1> QED  BY <1>5, <1>10, <1>11 DEF Explains

-----------------------------------------------------------------------------
(* 5. The theorems.                                                        *)

\* Every step keeps the invariants of the traces and of the loop, and either leaves
\* the table alone or adds a row.
TableStep ==
    \/ table' = table /\ (next_frame' = next_frame \/ next_frame' # 1)
    \/ (FillFirstRow \/ FillRow) /\ Placed(Len(table))

\* The step lemma of the two invariants.
LEMMA Step ==
    ASSUME FramesInv, LoopInv, [Next]_vars
    PROVE  FramesInv' /\ LoopInv' /\ TableStep
  <1>1. Len(table) \in Nat
    BY DEF LoopInv
  <1>2. ASSUME NEW l \in LocalLocations, TraceLocalRead(l) PROVE FramesInv' /\ LoopInv' /\ TableStep
    <2>1. FramesInv'
      BY <1>1, <1>2, LocalReadFrames
    <2>2. phase = "run" /\ UNCHANGED <<next_frame, frames, sorted, i, start_row_index, phase, table>>
      BY <1>2 DEF TraceLocalRead, MayTrace
    <2> QED  BY <2>1, <2>2, TraceLoop DEF TableStep
  <1>3. ASSUME NEW l \in LocalLocations, NEW v \in Values, TraceLocalWrite(l, v)
        PROVE  FramesInv' /\ LoopInv' /\ TableStep
    <2>1. FramesInv'
      BY <1>1, <1>3, LocalWriteFrames
    <2>2. phase = "run" /\ UNCHANGED <<next_frame, frames, sorted, i, start_row_index, phase, table>>
      BY <1>3 DEF TraceLocalWrite, MayTrace
    <2> QED  BY <2>1, <2>2, TraceLoop DEF TableStep
  <1>4. ASSUME NEW l \in StorageLocations, TraceStorageRead(l) PROVE FramesInv' /\ LoopInv' /\ TableStep
    <2>1. FramesInv'
      BY <1>1, <1>4, StorageReadFrames
    <2>2. phase = "run" /\ UNCHANGED <<next_frame, frames, sorted, i, start_row_index, phase, table>>
      BY <1>4 DEF TraceStorageRead, MayTrace
    <2> QED  BY <2>1, <2>2, TraceLoop DEF TableStep
  <1>5. ASSUME NEW l \in StorageLocations, NEW v \in Values, TraceStorageWrite(l, v)
        PROVE  FramesInv' /\ LoopInv' /\ TableStep
    <2>1. FramesInv'
      BY <1>1, <1>5, StorageWriteFrames
    <2>2. phase = "run" /\ UNCHANGED <<next_frame, frames, sorted, i, start_row_index, phase, table>>
      BY <1>5 DEF TraceStorageWrite, MayTrace
    <2> QED  BY <2>1, <2>2, TraceLoop DEF TableStep
  <1>6. CASE Enter
    <2>1. table' = table /\ next_frame' # 1
      BY <1>6 DEF Enter, FramesInv, StackInv
    <2> QED  BY <1>6, <2>1, EnterFrames, EnterLoop DEF TableStep
  <1>7. CASE Leave
    <2>1. UNCHANGED <<traces, cells, storage, next_frame, frames, table>> /\ phase' \in {"run", "process"}
      BY <1>7 DEF Leave
    <2> QED  BY <1>7, <2>1, SameFrames, LeaveLoop DEF TableStep
  <1>8. CASE FillFirstRow \/ FillRow
    <2>1. UNCHANGED <<traces, cells, storage, next_frame, frames>> /\ phase' \in {"run", "process"}
      BY <1>8 DEF FillFirstRow, FillRow, FramesInv, StackInv
    <2> QED  BY <1>8, <2>1, SameFrames, FillLoop, RowPlaced DEF TableStep
  <1>9. CASE Return
    <2>1. depth > 0 /\ table' = table /\ next_frame' = next_frame
      BY <1>9 DEF Return, LoopInv, Assigning, depth
    <2> QED  BY <1>9, <2>1, ReturnFrames, ReturnLoop DEF TableStep
  <1>10. CASE UNCHANGED vars
    <2>1. /\ UNCHANGED <<traces, cells, storage, next_frame, frames>> /\ phase' \in {"run", "process"}
          /\ table' = table /\ UNCHANGED <<sorted, i, start_row_index, phase>>
      BY <1>10 DEF vars, FramesInv, StackInv
    <2>2. LoopInv'
      BY <2>1 DEF LoopInv, Assigning
    <2> QED  BY <2>1, <2>2, SameFrames DEF TableStep
  <1> QED  BY <1>2, <1>3, <1>4, <1>5, <1>6, <1>7, <1>8, <1>9, <1>10 DEF Next, Done

\* A row of the table that a step leaves has the neighbours it had.
LEMMA SameRows ==
    ASSUME NEW n \in Nat, RowAdded(n), NEW r \in 1..n
    PROVE  (OpensFrame(r)' <=> OpensFrame(r)) /\ (Continues(r)' <=> Continues(r))
  <1>1. r > 1 => r - 1 \in 1..n
    OBVIOUS
  <1>2. /\ table'[r].frame = table[r].frame /\ table'[r].operation = table[r].operation
        /\ r > 1 => /\ table'[r - 1].frame = table[r - 1].frame
                    /\ table'[r - 1].operation = table[r - 1].operation
    BY <1>1 DEF RowAdded
  <1> QED  BY <1>1, <1>2 DEF OpensFrame, Continues, Location

\* The new row opens its frame or follows the operation before it.
LEMMA NewRowOpens ==
    ASSUME NEW n \in Nat, i \in Nat, Placed(n)
    PROVE  /\ OpensFrame(n + 1)' <=> i = 0
           /\ Continues(n + 1)' <=>
                 i > 0 /\ Location(table'[n].operation) = Location(table'[n + 1].operation)
  <1>1. (n + 1) - 1 = n /\ (n + 1 > 1 <=> n > 0) /\ (n + 1 = 1 <=> n = 0)
    OBVIOUS
  <1>2. CASE i = 0
    <2>1. n > 0 => table'[n].frame # table'[n + 1].frame
      BY <1>2 DEF Placed
    <2> QED  BY <1>1, <1>2, <2>1 DEF OpensFrame, Continues
  <1>3. CASE i > 0
    <2>1. n > 0 /\ table'[n].frame = table'[n + 1].frame
      BY <1>3 DEF Placed
    <2> QED  BY <1>1, <1>3, <2>1 DEF OpensFrame, Continues, Location
  <1> QED  BY <1>2, <1>3

\* A property of rows that hold their neighbours is kept by steps that leave the
\* table alone.
LEMMA SameTable ==
    ASSUME table' = table
    PROVE  /\ RowsIncrease => RowsIncrease'
           /\ GroupMarks => GroupMarks'
           /\ ValueBeforeExact => ValueBeforeExact'
  BY DEF RowsIncrease, GroupMarks, ValueBeforeExact, OpensFrame, Continues, Location

\* DIFFERENCE stays positive: the new row is behind a smaller one of its frame.
LEMMA AddedIncreases ==
    ASSUME NEW n \in Nat, i \in Nat, Placed(n), RowsIncrease
    PROVE  RowsIncrease'
  <1>1. RowAdded(n) /\ Len(table') = n + 1 /\ Len(table) = n /\ table' \in Seq(Row)
    BY DEF Placed, RowAdded
  <1>2. \A r \in 1..n + 1 : table'[r].diff_ind < SortingSize
    <2>1. \A r \in 1..n + 1 : table'[r] \in Row
      BY <1>1
    <2> QED  BY <2>1, Constants DEF Row
  <1>3. ASSUME NEW r \in 1..n, ~ OpensFrame(r)' PROVE table'[r].difference > 0
    BY <1>1, <1>3, SameRows DEF RowAdded, RowsIncrease
  <1>4. ~ OpensFrame(n + 1)' => table'[n + 1].difference > 0
    BY NewRowOpens DEF Placed, Advised
  <1>5. \A r \in 1..n + 1 : r \in 1..n \/ r = n + 1
    OBVIOUS
  <1> QED  BY <1>1, <1>2, <1>3, <1>4, <1>5 DEF RowsIncrease

\* The marks of the new row, and of the row above it, are those of its group.
LEMMA AddedMarks ==
    ASSUME NEW n \in Nat, i \in Nat, Placed(n), GroupMarks
    PROVE  GroupMarks'
  <1>1. RowAdded(n) /\ Len(table') = n + 1 /\ Len(table) = n
    BY DEF Placed, RowAdded
  <1>2. ASSUME NEW r \in 2..n, ~ OpensFrame(r)'
        PROVE  /\ (table'[r].is_first = 1) <=> ~ Continues(r)'
               /\ (table'[r - 1].is_last = 1) <=> ~ Continues(r)'
    <2>1. r \in 1..n /\ r - 1 \in 1..n - 1
      OBVIOUS
    <2>2. table'[r].is_first = table[r].is_first /\ table'[r - 1] = table[r - 1]
      BY <1>1, <2>1 DEF RowAdded
    <2> QED  BY <1>1, <1>2, <2>1, <2>2, SameRows DEF GroupMarks
  <1>3. ASSUME ~ OpensFrame(n + 1)'
        PROVE  /\ (table'[n + 1].is_first = 1) <=> ~ Continues(n + 1)'
               /\ (table'[(n + 1) - 1].is_last = 1) <=> ~ Continues(n + 1)'
    <2>1. i > 0 /\ (n + 1) - 1 = n
      BY <1>3, NewRowOpens
    <2>2. Advised(n) /\ table'[n].operation = sorted[i] /\ table'[n + 1].operation = sorted[i + 1]
      BY <2>1 DEF Placed, RowAdded
    <2> QED  BY <2>1, <2>2, NewRowOpens DEF Advised
  <1>4. \A r \in 2..n + 1 : r \in 2..n \/ r = n + 1
    OBVIOUS
  <1> QED  BY <1>1, <1>2, <1>3, <1>4 DEF GroupMarks

\* VALUE_BEFORE of the new row: that of the row above, or its own value_prev if it
\* is the first of its location.
LEMMA AddedValueBefore ==
    ASSUME NEW n \in Nat, i \in Nat, Placed(n), ValueBeforeExact
    PROVE  ValueBeforeExact'
  <1>1. /\ RowAdded(n) /\ Len(table') = n + 1 /\ Len(table) = n /\ table' \in Seq(Row)
        /\ table'[n + 1].frame = frames[Len(traces)]
    BY DEF Placed, RowAdded
  <1>2. /\ \A r \in 1..n + 1 : table'[r].operation \in Op /\ table'[r].operation.rw_id \in Int
        /\ \A r \in 1..n + 1 : r \in 1..n \/ r = n + 1
        /\ \A r \in 1..n : r \in 1..n + 1 /\ r < n + 1
        /\ n + 1 \in 1..n + 1
    <2>1. \A r \in 1..n + 1 : table'[r] \in Row
      BY <1>1
    <2> QED  BY <2>1, OpNumbers DEF Row
  <1> DEFINE S(r, q) == /\ table'[r].frame = table'[q].frame
                        /\ Location(table'[r].operation) = Location(table'[q].operation)
             F(q) == \A p \in 1..n + 1 :
                        S(p, q) => table'[q].operation.rw_id <= table'[p].operation.rw_id
             VB(r, q) == table'[r].value_before = table'[q].operation.value_prev
  <1>3. \A r \in 1..n : S(r, n + 1) => /\ less(table'[r].operation, table'[n + 1].operation)
                                       /\ table'[r].operation.rw_id < table'[n + 1].operation.rw_id
    <2> TAKE r \in 1..n
    <2> HAVE S(r, n + 1)
    <2>1. less(table'[r].operation, table'[n + 1].operation)
      BY <1>1, <1>2 DEF Placed
    <2>2. table'[r].operation.rw_id < table'[n + 1].operation.rw_id
      BY <1>2, <2>1, OneLocation
    <2> QED  BY <2>1, <2>2
  <1>4. ASSUME NEW r \in 1..n, NEW q \in 1..n, S(r, q), F(q) PROVE VB(r, q)
    <2>1. /\ table[r].frame = table[q].frame
          /\ Location(table[r].operation) = Location(table[q].operation)
          /\ \A p \in 1..n :
                /\ table[p].frame = table[q].frame
                /\ Location(table[p].operation) = Location(table[q].operation)
                => table[q].operation.rw_id <= table[p].operation.rw_id
      BY <1>1, <1>2, <1>4 DEF RowAdded
    <2>2. table[r].value_before = table[q].operation.value_prev
      BY <1>1, <2>1 DEF ValueBeforeExact
    <2> QED  BY <1>1, <2>2 DEF RowAdded
  <1>5. ASSUME NEW r \in 1..n, S(r, n + 1), F(n + 1) PROVE FALSE
    <2>1. table'[n + 1].operation.rw_id <= table'[r].operation.rw_id
      BY <1>2, <1>5
    <2> QED  BY <1>2, <1>3, <1>5, <2>1
  <1>6. ASSUME F(n + 1) PROVE VB(n + 1, n + 1)
    <2>1. CASE i = 0
      BY <2>1 DEF Placed
    <2>2. CASE i > 0
      <3>1. n \in 1..n /\ table'[n].frame = table'[n + 1].frame /\ table'[n].operation = sorted[i] /\ Advised(n)
        BY <2>2 DEF Placed
      <3>2. Location(sorted[i]) # Location(sorted[i + 1]) /\ table'[n + 1].operation = sorted[i + 1]
        BY <1>1, <1>5, <1>6, <3>1 DEF RowAdded
      <3> QED  BY <3>1, <3>2 DEF Advised
    <2> QED  BY <2>1, <2>2
  <1>7. ASSUME NEW q \in 1..n, S(n + 1, q), F(q) PROVE VB(n + 1, q)
    <2>1. i > 0
      BY <1>7 DEF Placed
    <2>2. /\ n \in 1..n /\ n > 0 /\ table'[n].frame = table'[n + 1].frame
          /\ table'[n].operation = sorted[i] /\ Advised(n) /\ table'[n + 1].operation = sorted[i + 1]
      BY <1>1, <2>1 DEF Placed, RowAdded
    <2>3. S(q, n + 1) /\ less(table'[q].operation, table'[n + 1].operation)
      BY <1>3, <1>7
    <2>4. less(table'[n].operation, table'[n + 1].operation)
      BY <1>1, <1>2, <2>2 DEF Placed
    <2>5. less(table'[q].operation, table'[n].operation) \/ q = n
      <3>1. q < n \/ q = n
        OBVIOUS
      <3> QED  BY <1>1, <1>2, <2>2, <2>3, <3>1 DEF Placed
    <2>6. Location(table'[n].operation) = Location(table'[n + 1].operation)
      BY <1>2, <2>2, <2>3, <2>4, <2>5, Between
    <2>7. S(n, q)
      BY <2>2, <2>3, <2>6
    <2>8. VB(n, q)
      BY <1>4, <1>7, <2>2, <2>7
    <2>9. table'[n + 1].value_before = table'[n].value_before
      BY <1>1, <2>2, <2>6 DEF Advised, RowAdded
    <2> QED  BY <2>8, <2>9
  <1>8. \A r, q \in 1..n + 1 : S(r, q) /\ F(q) => VB(r, q)
    BY <1>2, <1>4, <1>5, <1>6, <1>7
  <1> QED  BY <1>1, <1>8 DEF ValueBeforeExact

\* The new row agrees with the row above it, or with its value before.
LEMMA AddedReads ==
    ASSUME FramesInv, LoopInv, FillFirstRow \/ FillRow, NEW n \in Nat, n = Len(table), Placed(n),
           Stored = StorageLocations, ReadsAgree
    PROVE  ReadsAgree'
  <1>1. /\ RowAdded(n) /\ Len(table') = n + 1 /\ Len(table) = n /\ next_frame' = next_frame
        /\ table'[n + 1].operation = sorted[i + 1]
    BY DEF Placed, RowAdded
  <1>2. /\ Assigning /\ i \in 0..Len(sorted) /\ i < Len(sorted) /\ Len(sorted) \in Nat
        /\ sorted \in Seq(Op)
    BY DEF FillFirstRow, FillRow, LoopInv
  <1>3. i \in Nat /\ i + 1 \in 1..Len(sorted) /\ (i + 1) - 1 = i /\ (i + 1 > 1 <=> i > 0)
    BY <1>2
  <1> DEFINE Agrees(r) ==
        table[r].operation.value = IF Continues(r) THEN table[r - 1].operation.value
                                   ELSE table[r].value_before
             Read(r) == /\ ~ table[r].operation.is_write
                        /\ table[r].operation.op = STORAGE_OP => next_frame = 1
  <1>4. ASSUME NEW r \in 1..n, Read(r)' PROVE Agrees(r)'
    <2>1. /\ table'[r].operation = table[r].operation
          /\ table'[r].value_before = table[r].value_before
          /\ r > 1 => table'[r - 1].operation = table[r - 1].operation
      <3>1. r > 1 => r - 1 \in 1..n
        OBVIOUS
      <3> QED  BY <1>1, <3>1 DEF RowAdded
    <2>2. Read(r)
      BY <1>1, <1>4, <2>1
    <2>3. Agrees(r)
      BY <1>1, <2>2 DEF ReadsAgree
    <2>4. Continues(r)' <=> Continues(r)
      BY <1>1, SameRows
    <2>5. CASE Continues(r)
      <3>1. r > 1
        BY <2>5 DEF Continues
      <3> QED  BY <2>1, <2>3, <2>4, <2>5, <3>1
    <2>6. CASE ~ Continues(r)
      BY <2>1, <2>3, <2>4, <2>6
    <2> QED  BY <2>5, <2>6
  <1>5. ASSUME Read(n + 1)' PROVE Agrees(n + 1)'
    <2>1. ~ sorted[i + 1].is_write /\ (sorted[i + 1].op = STORAGE_OP => Alone)
      BY <1>1, <1>5 DEF Alone
    <2>2. sorted[i + 1].value = IF i > 0 /\ Location(sorted[i]) = Location(sorted[i + 1])
                                THEN sorted[i].value ELSE sorted[i + 1].value_prev
      BY <1>2, <1>3, <2>1, ReadExplained
    <2>3. Continues(n + 1)' <=>
             i > 0 /\ Location(table'[n].operation) = Location(table'[n + 1].operation)
      BY <1>3, NewRowOpens
    <2>4. (n + 1) - 1 = n
      OBVIOUS
    <2>5. CASE i = 0
      <3>1. table'[n + 1].value_before = 0 /\ table'[n + 1].operation.value_prev = 0
        BY <2>5 DEF Placed
      <3> QED  BY <1>1, <2>2, <2>3, <2>5, <3>1
    <2>6. CASE i > 0
      <3>1. table'[n].operation = sorted[i] /\ Advised(n)
        BY <2>6 DEF Placed
      <3> QED  BY <1>1, <2>2, <2>3, <2>4, <2>6, <3>1 DEF Advised
    <2> QED  BY <1>3, <2>5, <2>6
  <1>6. \A r \in 1..n + 1 : r \in 1..n \/ r = n + 1
    OBVIOUS
  <1>7. \A r \in 1..n + 1 : Read(r)' => Agrees(r)'
    BY <1>4, <1>5, <1>6
  <1> QED  BY <1>1, <1>7 DEF ReadsAgree

\* A step that leaves the table alone keeps the agreement: after Enter it is said of
\* fewer rows.
LEMMA SameReads ==
    ASSUME table' = table, next_frame' = next_frame \/ next_frame' # 1, ReadsAgree
    PROVE  ReadsAgree'
  BY DEF ReadsAgree, Continues, Location

\* The invariant of the traces and of the loop.
TraceInv == FramesInv /\ LoopInv

\* It holds in every state of every behaviour.
LEMMA TraceInvariant == Spec => []TraceInv
  <1>1. Init => TraceInv
    BY InitFrames, InitLoop DEF TraceInv
  <1>2. TraceInv /\ [Next]_vars => TraceInv'
    BY Step DEF TraceInv
  <1> QED  BY <1>1, <1>2, PTL DEF Spec

\* The traces of all frames hold operations that fit the columns of the circuit, the
\* storage and the cells hold words, and every row has a column diff_ind of the vector
\* sorting: whatever process_rw_operations indexes is there.
THEOREM TypeCorrect == Spec => []TypeOK
  <1>1. TraceInv => TypeOK
    <2> SUFFICES ASSUME TraceInv PROVE TypeOK
      OBVIOUS
    <2>1. \A s \in Seq(Op) : s \in Seq(Operation)
      <3>1. \A o \in Op : o \in Operation
        BY DEF Op
      <3> QED  BY <3>1
    <2>2. traces \in Seq(Seq(Operation)) /\ sorted \in Seq(Operation)
      <3>1. traces \in Seq(Seq(Op)) /\ sorted \in Seq(Op)
        BY DEF TraceInv, FramesInv, StackInv, LoopInv
      <3> QED  BY <2>1, <3>1
    <2>3. \A r \in 1..Len(table) :
             /\ table[r].operation \in Operation /\ table[r].diff_ind \in 0..SortingSize - 1
             /\ table[r].is_first \in {0, 1} /\ table[r].is_last \in {0, 1}
      <3>1. \A r \in 1..Len(table) : table[r] \in Row
        BY DEF TraceInv, LoopInv
      <3> QED  BY <3>1 DEF Row, Op
    <2> QED  BY <2>2, <2>3 DEF TypeOK, TraceInv, FramesInv, StackInv, LoopInv
  <1> QED  BY <1>1, TraceInvariant, PTL

\* The order of operator< is the order of the columns of vector sorting: below the
\* first row of a frame DIFFERENCE is positive in the column that diff_ind names, for
\* chunks of any width.
THEOREM DifferencePositive == Spec => []RowsIncrease
  <1>1. Init => RowsIncrease
    BY DEF Init, RowsIncrease
  <1>2. TraceInv /\ RowsIncrease /\ [Next]_vars => RowsIncrease'
    <2> SUFFICES ASSUME TraceInv, RowsIncrease, [Next]_vars PROVE RowsIncrease'
      OBVIOUS
    <2>1. TableStep /\ Len(table) \in Nat /\ i \in Nat
      BY Step DEF TraceInv, LoopInv
    <2> QED  BY <2>1, SameTable, AddedIncreases DEF TableStep
  <1> QED  BY <1>1, <1>2, TraceInvariant, PTL DEF Spec

\* IS_FIRST and IS_LAST mark exactly the boundaries of the groups of a frame, also
\* where the loop sets IS_LAST on a row it has left behind.
THEOREM MarksOfGroups == Spec => []GroupMarks
  <1>1. Init => GroupMarks
    BY DEF Init, GroupMarks
  <1>2. TraceInv /\ GroupMarks /\ [Next]_vars => GroupMarks'
    <2> SUFFICES ASSUME TraceInv, GroupMarks, [Next]_vars PROVE GroupMarks'
      OBVIOUS
    <2>1. TableStep /\ Len(table) \in Nat /\ i \in Nat
      BY Step DEF TraceInv, LoopInv
    <2> QED  BY <2>1, SameTable, AddedMarks DEF TableStep
  <1> QED  BY <1>1, <1>2, TraceInvariant, PTL DEF Spec

\* VALUE_BEFORE is, all over a group, the value_prev of the operation of the group that
\* was executed first, although the loop never sets it on the first row of a frame.
THEOREM ValueBeforeOfGroup == Spec => []ValueBeforeExact
  <1>1. Init => ValueBeforeExact
    BY DEF Init, ValueBeforeExact
  <1>2. TraceInv /\ ValueBeforeExact /\ [Next]_vars => ValueBeforeExact'
    <2> SUFFICES ASSUME TraceInv, ValueBeforeExact, [Next]_vars PROVE ValueBeforeExact'
      OBVIOUS
    <2>1. TableStep /\ Len(table) \in Nat /\ i \in Nat
      BY Step DEF TraceInv, LoopInv
    <2> QED  BY <2>1, SameTable, AddedValueBefore DEF TableStep
  <1> QED  BY <1>1, <1>2, TraceInvariant, PTL DEF Spec

\* Reads agree with the row above them, or with VALUE_BEFORE where they open a group,
\* when every storage key exists in its account: VMHost::set_storage drops a store to a
\* key that does not, and the trace of such a frame tells of a write nobody made.
THEOREM ReadsMatchWrites ==
    ASSUME Stored = StorageLocations
    PROVE  Spec => []ReadsAgree
  <1>1. Init => ReadsAgree
    BY DEF Init, ReadsAgree
  <1>2. TraceInv /\ ReadsAgree /\ [Next]_vars => ReadsAgree'
    <2> SUFFICES ASSUME TraceInv, ReadsAgree, [Next]_vars PROVE ReadsAgree'
      OBVIOUS
    <2>1. TableStep /\ Len(table) \in Nat
      BY Step DEF TraceInv, LoopInv
    <2> QED  BY <2>1, SameReads, AddedReads DEF TableStep, TraceInv
  <1> QED  BY <1>1, <1>2, TraceInvariant, PTL DEF Spec

\* The rows of frames that have returned are final: the loop of another frame writes
\* behind them, and sets IS_LAST on its own rows only.
THEOREM ReturnedRowsFinal == Spec => EarlierFramesKept
  <1> DEFINE Kept == \A r \in 1..Len(table) :
                depth = 0 \/ table[r].frame # frames[depth] => table'[r] = table[r]
  <1>1. TraceInv /\ [Next]_vars => [Kept]_vars
    <2> SUFFICES ASSUME TraceInv, [Next]_vars PROVE Kept
      OBVIOUS
    <2>1. TableStep /\ Len(table) \in Nat
      BY Step DEF TraceInv, LoopInv
    <2>2. CASE table' = table
      BY <2>2
    <2>3. CASE (FillFirstRow \/ FillRow) /\ Placed(Len(table))
      <3> PICK n \in Nat : n = Len(table)
        BY <2>1
      <3>1. Assigning /\ RowAdded(n) /\ depth = Len(traces) /\ depth > 0
        BY <2>3 DEF TraceInv, LoopInv, FillFirstRow, FillRow, Assigning, Placed, depth
      <3>2. ASSUME NEW r \in 1..n, table[r].frame # frames[depth] PROVE table'[r] = table[r]
        <4>1. CASE r \in 1..n - 1
          BY <3>1, <4>1 DEF RowAdded
        <4>2. CASE r = n
          <5>1. i = 0
            <6>1. table'[n].frame = table[n].frame /\ table'[n + 1].frame = frames[depth]
              BY <3>1, <4>2 DEF RowAdded
            <6>2. i \in Nat
              BY DEF TraceInv, LoopInv
            <6> QED  BY <2>3, <3>2, <4>2, <6>1, <6>2 DEF Placed
          <5>2. FillFirstRow
            BY <2>3, <5>1 DEF FillRow
          <5> QED  BY <5>2, FirstRowAdded DEF TraceInv
        <4> QED  BY <4>1, <4>2
      <3> QED  BY <3>1, <3>2
    <2> QED  BY <2>1, <2>2, <2>3 DEF TableStep
  <1>2. [][Kept]_vars => EarlierFramesKept
    BY PTL DEF EarlierFramesKept, Kept
  <1> QED  BY <1>1, <1>2, TraceInvariant, PTL DEF Spec

=============================================================================
