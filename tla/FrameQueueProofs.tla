--------------------------- MODULE FrameQueueProofs ---------------------------
(***************************************************************************)
(* Theorems about FrameQueue for every number and size of buffers, any     *)
(* sizes of fragments and any number of re-initialisations.  The last part *)
(* is the refinement, FrameQueue implements FrameFifo: its steps are those *)
(* of FrameQueue, each matched with the step of FrameFifo it implements.   *)
(***************************************************************************)
EXTENDS FrameQueueProperties, FiniteSetTheorems, FunctionTheorems,
        SequenceTheorems, TLAPS

-----------------------------------------------------------------------------
(* Lists of buffers: what adding and removing one does to a list *)

LEMMA AppendList ==
  ASSUME NEW S, NEW l \in Seq(S), NEW x \in S
  PROVE  /\ Append(l, x) \in Seq(S)
         /\ Append(l, x) # <<>>
         /\ Range(Append(l, x)) = Range(l) \cup {x}
         /\ IsInjective(l) /\ x \notin Range(l) => IsInjective(Append(l, x))
  <1>1. /\ Append(l, x) \in Seq(S)
        /\ Len(Append(l, x)) = Len(l) + 1
        /\ \A i \in 1..Len(l) : Append(l, x)[i] = l[i]
        /\ Append(l, x)[Len(l) + 1] = x
    OBVIOUS
  <1>2. /\ DOMAIN l = 1..Len(l)
        /\ DOMAIN Append(l, x) = 1..(Len(l) + 1)
        /\ Len(l) \in Nat
    BY <1>1, LenProperties
  <1>3. Append(l, x) # <<>>
    BY <1>1, EmptySeq
  <1>4. Range(Append(l, x)) = Range(l) \cup {x}
    <2>1. ASSUME NEW y \in Range(Append(l, x)) PROVE y \in Range(l) \cup {x}
      <3>1. PICK i \in 1..(Len(l) + 1) : Append(l, x)[i] = y
        BY <1>2, <2>1 DEF Range
      <3>2. QED
        BY <1>1, <1>2, <3>1 DEF Range
    <2>2. ASSUME NEW y \in Range(l) \cup {x} PROVE y \in Range(Append(l, x))
      <3>1. \E i \in 1..(Len(l) + 1) : Append(l, x)[i] = y
        BY <1>1, <1>2, <2>2 DEF Range
      <3>2. QED
        BY <1>2, <3>1 DEF Range
    <2>3. QED
      BY <2>1, <2>2
  <1>5. ASSUME IsInjective(l), x \notin Range(l)
        PROVE  IsInjective(Append(l, x))
    <2>1. \A i \in 1..Len(l) : l[i] # x
      BY <1>2, <1>5 DEF Range
    <2>2. \A i, j \in 1..Len(l) : l[i] = l[j] => i = j
      BY <1>2, <1>5 DEF IsInjective
    <2>3. \A i, j \in 1..(Len(l) + 1) :
            Append(l, x)[i] = Append(l, x)[j] => i = j
      BY <1>1, <1>2, <2>1, <2>2
    <2>4. QED
      BY <1>2, <2>3 DEF IsInjective
  <1>6. QED
    BY <1>1, <1>3, <1>4, <1>5

LEMMA TailList ==
  ASSUME NEW S, NEW l \in Seq(S), l # <<>>
  PROVE  /\ Tail(l) \in Seq(S)
         /\ Head(l) \in S
         /\ Range(l) = Range(Tail(l)) \cup {Head(l)}
         /\ IsInjective(l) =>
              IsInjective(Tail(l)) /\ Head(l) \notin Range(Tail(l))
  <1>1. /\ Head(l) \in S
        /\ Tail(l) \in Seq(S)
        /\ Len(Tail(l)) = Len(l) - 1
        /\ \A i \in 1..(Len(l) - 1) : Tail(l)[i] = l[i + 1]
        /\ Head(l) = l[1]
    BY HeadTailProperties
  <1>2. /\ DOMAIN l = 1..Len(l)
        /\ DOMAIN Tail(l) = 1..(Len(l) - 1)
        /\ Len(l) \in Nat \ {0}
    BY <1>1, LenProperties, EmptySeq
  <1>3. Range(l) = Range(Tail(l)) \cup {Head(l)}
    <2>1. ASSUME NEW y \in Range(l) PROVE y \in Range(Tail(l)) \cup {Head(l)}
      <3>1. PICK i \in 1..Len(l) : l[i] = y
        BY <1>2, <2>1 DEF Range
      <3>2. CASE i = 1
        BY <1>1, <3>1, <3>2
      <3>3. CASE i # 1
        <4>1. i - 1 \in 1..(Len(l) - 1) /\ Tail(l)[i - 1] = y
          BY <1>1, <1>2, <3>1, <3>3
        <4>2. QED
          BY <1>2, <4>1 DEF Range
      <3>4. QED
        BY <3>2, <3>3
    <2>2. ASSUME NEW y \in Range(Tail(l)) \cup {Head(l)} PROVE y \in Range(l)
      <3>1. \E i \in 1..Len(l) : l[i] = y
        <4>1. CASE y = Head(l)
          BY <1>1, <1>2, <4>1
        <4>2. CASE y \in Range(Tail(l))
          <5>1. PICK j \in 1..(Len(l) - 1) : Tail(l)[j] = y
            BY <1>2, <4>2 DEF Range
          <5>2. j + 1 \in 1..Len(l) /\ l[j + 1] = y
            BY <1>1, <1>2, <5>1
          <5>3. QED
            BY <5>2
        <4>3. QED
          BY <2>2, <4>1, <4>2
      <3>2. QED
        BY <1>2, <3>1 DEF Range
    <2>3. QED
      BY <2>1, <2>2
  <1>4. ASSUME IsInjective(l)
        PROVE  IsInjective(Tail(l)) /\ Head(l) \notin Range(Tail(l))
    <2>1. \A i, j \in 1..Len(l) : l[i] = l[j] => i = j
      BY <1>2, <1>4 DEF IsInjective
    <2>2. \A i, j \in 1..(Len(l) - 1) : Tail(l)[i] = Tail(l)[j] => i = j
      BY <1>1, <1>2, <2>1
    <2>3. \A j \in 1..(Len(l) - 1) : Tail(l)[j] # Head(l)
      BY <1>1, <1>2, <2>1
    <2>4. QED
      BY <1>2, <2>2, <2>3 DEF IsInjective, Range
  <1>5. QED
    BY <1>1, <1>3, <1>4

(* The part of a list behind its element i.                                 *)
LEMMA ShiftedList ==
  ASSUME NEW S, NEW l \in Seq(S), NEW i \in 1..Len(l), NEW r \in Seq(S),
         Len(r) = Len(l) - i,
         \A j \in 1..(Len(l) - i) : r[j] = l[i + j]
  PROVE  /\ Range(r) = {l[j] : j \in (i + 1)..Len(l)}
         /\ IsInjective(l) => IsInjective(r)
  <1>1. Len(l) \in Nat /\ DOMAIN l = 1..Len(l)
    BY LenProperties
  <1>2. DOMAIN r = 1..(Len(l) - i)
    BY LenProperties
  <1>3. Range(r) = {l[j] : j \in (i + 1)..Len(l)}
    <2>1. ASSUME NEW y \in Range(r)
          PROVE  y \in {l[j] : j \in (i + 1)..Len(l)}
      <3>1. PICK j \in 1..(Len(l) - i) : r[j] = y
        BY <1>2, <2>1 DEF Range
      <3>2. i + j \in (i + 1)..Len(l) /\ l[i + j] = y
        BY <1>1, <3>1
      <3>3. QED
        BY <3>2
    <2>2. ASSUME NEW j \in (i + 1)..Len(l) PROVE l[j] \in Range(r)
      <3>1. j - i \in 1..(Len(l) - i) /\ r[j - i] = l[j]
        BY <1>1
      <3>2. QED
        BY <1>2, <3>1 DEF Range
    <2>3. QED
      BY <2>1, <2>2
  <1>4. ASSUME IsInjective(l) PROVE IsInjective(r)
    <2>1. \A a, b \in 1..Len(l) : l[a] = l[b] => a = b
      BY <1>1, <1>4 DEF IsInjective
    <2>2. \A a, b \in 1..(Len(l) - i) : r[a] = r[b] => a = b
      BY <1>1, <2>1
    <2>3. QED
      BY <1>2, <2>2 DEF IsInjective
  <1>5. QED
    BY <1>3, <1>4

LEMMA SuffixList ==
  ASSUME NEW S, NEW l \in Seq(S), NEW i \in 1..Len(l)
  PROVE  /\ SubSeq(l, i + 1, Len(l)) \in Seq(S)
         /\ Range(SubSeq(l, i + 1, Len(l))) =
              {l[j] : j \in (i + 1)..Len(l)}
         /\ IsInjective(l) => IsInjective(SubSeq(l, i + 1, Len(l)))
  <1>1. Len(l) \in Nat /\ DOMAIN l = 1..Len(l)
    BY LenProperties
  <1>2. \A j \in (i + 1)..Len(l) : l[j] \in S
    BY <1>1, ElementOfSeq
  <1>0. PICK r : r = SubSeq(l, i + 1, Len(l))
    OBVIOUS
  <1>3. /\ r \in Seq(S)
        /\ Len(r) = IF i + 1 <= Len(l) THEN Len(l) - (i + 1) + 1 ELSE 0
        /\ \A j \in 1..(Len(l) - (i + 1) + 1) : r[j] = l[i + 1 + j - 1]
    BY <1>0, <1>1, <1>2, SubSeqProperties
  <1>4. r \in Seq(S)
    BY <1>3
  <1>5. Len(r) = Len(l) - i
    <2>1. Len(r) = IF i + 1 <= Len(l) THEN Len(l) - (i + 1) + 1 ELSE 0
      BY <1>3
    <2>2. i \in Nat /\ i <= Len(l)
      BY <1>1
    <2>3. CASE i + 1 <= Len(l)
      BY <1>1, <2>1, <2>2, <2>3
    <2>4. CASE ~(i + 1 <= Len(l))
      <3>1. i = Len(l)
        <4>1. Len(l) \in Nat
          BY <1>1
        <4>2. QED
          BY <4>1, <2>2, <2>4
      <3>2. Len(r) = 0
        BY <2>1, <2>4
      <3>3. QED
        BY <1>1, <3>1, <3>2
    <2>5. QED
      BY <2>3, <2>4
  <1>6. ASSUME NEW j \in 1..(Len(l) - i) PROVE r[j] = l[i + j]
    <2>1. /\ j \in 1..(Len(l) - (i + 1) + 1)
          /\ i + 1 + j - 1 = i + j
      BY <1>1
    <2>2. QED
      BY <1>3, <2>1
  <1>7. /\ Range(r) = {l[j] : j \in (i + 1)..Len(l)}
        /\ IsInjective(l) => IsInjective(r)
    BY <1>4, <1>5, <1>6, ShiftedList
  <1>8. QED
    BY <1>0, <1>4, <1>7

LEMMA ConcatList ==
  ASSUME NEW S, NEW l \in Seq(S), NEW m \in Seq(S)
  PROVE  /\ l \o m \in Seq(S)
         /\ Range(l \o m) = Range(l) \cup Range(m)
         /\ IsInjective(l) /\ IsInjective(m) /\ Range(l) \cap Range(m) = {}
              => IsInjective(l \o m)
  <1>1. PICK t : t = l \o m
    OBVIOUS
  <1>2. /\ t \in Seq(S)
        /\ Len(t) = Len(l) + Len(m)
        /\ \A i \in 1..(Len(l) + Len(m)) :
             t[i] = IF i <= Len(l) THEN l[i] ELSE m[i - Len(l)]
    BY <1>1, ConcatProperties
  <1>3. /\ DOMAIN l = 1..Len(l) /\ Len(l) \in Nat
        /\ DOMAIN m = 1..Len(m) /\ Len(m) \in Nat
        /\ DOMAIN t = 1..(Len(l) + Len(m))
    BY <1>2, LenProperties
  <1>4. /\ \A i \in 1..Len(l) : i \in DOMAIN t /\ t[i] = l[i]
        /\ \A i \in 1..Len(m) : Len(l) + i \in DOMAIN t /\ t[Len(l) + i] = m[i]
    <2>1. ASSUME NEW i \in 1..Len(l) PROVE i \in DOMAIN t /\ t[i] = l[i]
      <3>1. i \in 1..(Len(l) + Len(m)) /\ i <= Len(l)
        BY <1>3
      <3>2. QED
        BY <1>2, <1>3, <3>1
    <2>2. ASSUME NEW i \in 1..Len(m)
          PROVE  Len(l) + i \in DOMAIN t /\ t[Len(l) + i] = m[i]
      <3>1. PICK k : k = Len(l) + i
        OBVIOUS
      <3>2. /\ k \in 1..(Len(l) + Len(m)) /\ ~(k <= Len(l))
            /\ k - Len(l) = i
        BY <1>3, <3>1
      <3>3. t[k] = m[k - Len(l)] /\ k \in DOMAIN t
        BY <1>2, <1>3, <3>2
      <3>4. QED
        BY <3>1, <3>2, <3>3
    <2>3. QED
      BY <2>1, <2>2
  <1>5. \A i \in DOMAIN t :
          \/ i \in 1..Len(l)
          \/ i - Len(l) \in 1..Len(m) /\ i = Len(l) + (i - Len(l))
    BY <1>3
  <1>6. Range(t) = Range(l) \cup Range(m)
    <2>1. ASSUME NEW y \in Range(t) PROVE y \in Range(l) \cup Range(m)
      <3>1. PICK i \in DOMAIN t : t[i] = y
        BY <2>1 DEF Range
      <3>2. QED
        BY <1>3, <1>4, <1>5, <3>1 DEF Range
    <2>2. ASSUME NEW y \in Range(l) \cup Range(m) PROVE y \in Range(t)
      BY <1>3, <1>4, <2>2 DEF Range
    <2>3. QED
      BY <2>1, <2>2
  <1>7. ASSUME IsInjective(l), IsInjective(m), Range(l) \cap Range(m) = {}
        PROVE  IsInjective(t)
    <2>1. /\ \A i, j \in 1..Len(l) : l[i] = l[j] => i = j
          /\ \A i, j \in 1..Len(m) : m[i] = m[j] => i = j
          /\ \A i \in 1..Len(l), j \in 1..Len(m) : l[i] # m[j]
      <3>1. \A i, j \in 1..Len(l) : l[i] = l[j] => i = j
        BY <1>3, <1>7 DEF IsInjective
      <3>2. \A i, j \in 1..Len(m) : m[i] = m[j] => i = j
        BY <1>3, <1>7 DEF IsInjective
      <3>3. /\ \A i \in 1..Len(l) : l[i] \in Range(l)
            /\ \A j \in 1..Len(m) : m[j] \in Range(m)
        BY <1>3 DEF Range
      <3>4. QED
        BY <1>7, <3>1, <3>2, <3>3
    <2>2. ASSUME NEW i \in DOMAIN t, NEW j \in DOMAIN t, t[i] = t[j]
          PROVE  i = j
      <3>1. i \in Int /\ j \in Int
        BY <1>3
      <3>2. CASE i \in 1..Len(l) /\ j \in 1..Len(l)
        BY <1>4, <2>1, <2>2, <3>2
      <3>3. CASE i \in 1..Len(l) /\ j \notin 1..Len(l)
        BY <1>4, <1>5, <2>1, <2>2, <3>3
      <3>4. CASE i \notin 1..Len(l) /\ j \in 1..Len(l)
        BY <1>4, <1>5, <2>1, <2>2, <3>4
      <3>5. CASE i \notin 1..Len(l) /\ j \notin 1..Len(l)
        <4>1. /\ i - Len(l) \in 1..Len(m) /\ t[i] = m[i - Len(l)]
              /\ j - Len(l) \in 1..Len(m) /\ t[j] = m[j - Len(l)]
          BY <1>4, <1>5, <3>5
        <4>2. i - Len(l) = j - Len(l)
          BY <2>1, <2>2, <4>1
        <4>3. QED
          BY <1>3, <3>1, <4>2
      <3>6. QED
        BY <3>2, <3>3, <3>4, <3>5
    <2>3. QED
      BY <2>2 DEF IsInjective
  <1>8. QED
    BY <1>1, <1>2, <1>6, <1>7

(* A list of n different elements has n elements.                           *)
LEMMA FreshList ==
  ASSUME NEW S, NEW n \in Nat, NEW l \in [1..n -> S], IsInjective(l)
  PROVE  /\ l \in Seq(S)
         /\ Range(l) \subseteq S
         /\ Cardinality(Range(l)) = n
  <1>1. l \in Injection(1..n, S)
    BY DEF Injection
  <1>2. l \in Bijection(1..n, Range(l))
    BY <1>1, Fun_InjMeansBijImage
  <1>3. ExistsBijection(1..n, Range(l))
    BY <1>2, Fun_ExistsBij
  <1>4. Cardinality(Range(l)) = n
    BY <1>3, FS_CountingElements
  <1>5. Range(l) \subseteq S
    BY Fun_RangeProperties
  <1>6. l \in Seq(S)
    BY SeqDef
  <1>7. QED
    BY <1>4, <1>5, <1>6

(* The elements of an empty list and of a list of one.                      *)
LEMMA ShortLists ==
  /\ Range(<<>>) = {}
  /\ IsInjective(<<>>)
  /\ \A x : Range(<<x>>) = {x} /\ IsInjective(<<x>>)
  <1>1. DOMAIN <<>> = {} /\ \A x : DOMAIN <<x>> = {1} /\ <<x>>[1] = x
    OBVIOUS
  <1>2. QED
    BY <1>1 DEF Range, IsInjective

LEMMA FirstOfSeq ==
  ASSUME NEW S, NEW l \in Seq(S), l # <<>>
  PROVE  l[1] \in Range(l)
  <1>1. DOMAIN l = 1..Len(l) /\ Len(l) \in Nat
    BY LenProperties
  <1>2. Len(l) # 0
    BY EmptySeq
  <1>3. 1 \in DOMAIN l
    BY <1>1, <1>2
  <1>4. QED
    BY <1>3 DEF Range

-----------------------------------------------------------------------------
(* Types *)

LEMMA FreshListsTyped ==
  ASSUME NEW used, NEW l \in FreshLists(used)
  PROVE  /\ l \in Seq(Buffers)
         /\ IsInjective(l)
         /\ Range(l) \subseteq Buffers \ used
         /\ Cardinality(Range(l)) = Capacity
  <1>1. /\ Capacity \in Nat
        /\ l \in [1..Capacity -> Buffers \ used]
        /\ IsInjective(l)
    BY SizesAssumption DEF FreshLists
  <1>2. /\ Range(l) \subseteq Buffers \ used
        /\ Cardinality(Range(l)) = Capacity
    BY <1>1, FreshList
  <1>3. l \in [1..Capacity -> Buffers]
    BY <1>1
  <1>4. l \in Seq(Buffers)
    BY <1>1, <1>3, FreshList
  <1>5. QED
    BY <1>1, <1>2, <1>4

LEMMA InitTypeOK == Init => TypeOK
  <1> SUFFICES ASSUME Init PROVE TypeOK
    OBVIOUS
  <1>1. free \in Seq(Buffers)
    BY FreshListsTyped DEF Init
  <1>2. Empty \in Contents
    BY SizesAssumption DEF Empty, Contents
  <1>3. content \in [Buffers -> Contents]
    BY <1>2 DEF Init
  <1>4. reader \in Readers
    BY DEF Init, IdleReader, Readers
  <1>5. queue \in Seq(Buffers) /\ pending \in Seq(Buffers)
    BY DEF Init
  <1>6. heap \subseteq Buffers
    BY <1>1, RangeOfSeq DEF Init
  <1>7. /\ temporary \subseteq Buffers
        /\ event \in BOOLEAN /\ written \in Nat /\ reinits \in Nat
        /\ init = "done" /\ torn = FALSE /\ fault = "none"
    BY DEF Init
  <1>8. QED
    BY <1>1, <1>3, <1>4, <1>5, <1>6, <1>7 DEF TypeOK

(* What an EXCEPT on the reader's program counter leaves.                   *)
LEMMA ReaderMoves ==
  ASSUME TypeOK, NEW pc \in {"idle", "wait", "recheck", "take", "reading"},
         ReaderGoto(pc)
  PROVE  /\ reader' \in Readers
         /\ reader'.pc = pc
         /\ reader'.buffer = reader.buffer
         /\ reader'.frags = reader.frags
  BY DEF TypeOK, Readers, ReaderGoto

(* The buffer that is being put together.                                   *)
LEMMA PendingBuffer ==
  ASSUME TypeOK, pending # <<>>
  PROVE  pending[1] \in Buffers /\ pending[1] \in Range(pending)
  <1>1. pending \in Seq(Buffers)
    BY DEF TypeOK
  <1>2. pending[1] \in Range(pending)
    BY <1>1, FirstOfSeq
  <1>3. Range(pending) \subseteq Buffers
    BY <1>1, RangeOfSeq
  <1>4. QED
    BY <1>2, <1>3

LEMMA DeliveredTyped ==
  ASSUME TypeOK, Delivered
  PROVE  written' \in Nat
  BY DEF TypeOK, Delivered

LEMMA EnqueueTyped ==
  ASSUME TypeOK, NEW b \in Buffers, NEW f \in Fragments, Delivered,
         f.size <= BufferSize, Enqueue(b, f)
  PROVE  /\ content' \in [Buffers -> Contents]
         /\ queue' \in Seq(Buffers)
         /\ pending' \in Seq(Buffers)
         /\ event' \in BOOLEAN
  <1>1. written' \in Nat
    BY DeliveredTyped
  <1>2. f.size \in 0..BufferSize /\ f.end \in BOOLEAN
    <2>1. f.size \in Sizes /\ f.end \in BOOLEAN
      BY DEF Fragments
    <2>2. f.size \in Nat /\ BufferSize \in Nat
      BY <2>1, SizesAssumption
    <2>3. QED
      BY <2>1, <2>2
  <1>3. Copied(f) \in Contents
    BY <1>1, <1>2 DEF Copied, Contents
  <1>4. content' \in [Buffers -> Contents]
    BY <1>3 DEF Enqueue, TypeOK
  <1>5. queue' \in Seq(Buffers) /\ pending' \in Seq(Buffers)
    <2>1. queue \in Seq(Buffers) /\ pending \in Seq(Buffers)
      BY DEF TypeOK
    <2>2. Append(queue, b) \in Seq(Buffers) /\ Append(pending, b) \in Seq(Buffers)
      BY <2>1, AppendList
    <2>3. QED
      BY <2>1, <2>2 DEF Enqueue
  <1>6. event' \in BOOLEAN
    BY DEF Enqueue, TypeOK
  <1>7. QED
    BY <1>4, <1>5, <1>6

LEMMA AppendFragmentTyped ==
  ASSUME TypeOK, NEW f \in Fragments, AppendFragment(f)
  PROVE  /\ content' \in [Buffers -> Contents]
         /\ queue' \in Seq(Buffers)
         /\ pending' \in Seq(Buffers)
         /\ event' \in BOOLEAN
  <1>1. /\ Delivered
        /\ pending # <<>>
        /\ content[pending[1]].size + f.size <= BufferSize
        /\ content' = [content EXCEPT ![pending[1]] =
                         Appended(pending[1], f)]
    BY DEF AppendFragment
  <1>2. pending[1] \in Buffers
    BY <1>1, PendingBuffer
  <1>3. /\ content \in [Buffers -> Contents]
        /\ queue \in Seq(Buffers) /\ pending \in Seq(Buffers)
    BY DEF TypeOK
  <1>4. content[pending[1]].frags \in Seq(Nat)
    BY <1>2, <1>3 DEF Contents
  <1>5. written' \in Nat
    BY <1>1, DeliveredTyped
  <1>6. Append(content[pending[1]].frags, written') \in Seq(Nat)
    BY <1>4, <1>5, AppendList
  <1>7. content[pending[1]].size \in Nat
    BY <1>2, <1>3, SizesAssumption DEF Contents
  <1>8. f.size \in Nat /\ f.end \in BOOLEAN
    BY SizesAssumption DEF Fragments
  <1>9. content[pending[1]].size + f.size \in 0..BufferSize
    BY <1>1, <1>7, <1>8, SizesAssumption
  <1>10. Appended(pending[1], f) \in Contents
    BY <1>6, <1>8, <1>9 DEF Appended, Contents
  <1>11. content' \in [Buffers -> Contents]
    BY <1>1, <1>3, <1>10
  <1>12. Append(queue, pending[1]) \in Seq(Buffers)
    BY <1>2, <1>3, AppendList
  <1>13. /\ queue' \in Seq(Buffers)
         /\ pending' \in Seq(Buffers)
         /\ event' \in BOOLEAN
    <2>1. CASE f.end
      BY <1>12, <2>1 DEF AppendFragment
    <2>2. CASE ~f.end
      BY <2>2 DEF AppendFragment, TypeOK
    <2>3. QED
      BY <2>1, <2>2
  <1>14. QED
    BY <1>11, <1>13

LEMMA FreeBuffer ==
  ASSUME TypeOK, NEW i \in DOMAIN free
  PROVE  /\ i \in 1..Len(free)
         /\ free[i] \in Buffers
         /\ free[i] \in Range(free)
         /\ SubSeq(free, i + 1, Len(free)) \in Seq(Buffers)
  <1>1. free \in Seq(Buffers)
    BY DEF TypeOK
  <1>2. DOMAIN free = 1..Len(free)
    BY <1>1, LenProperties
  <1>3. free[i] \in Buffers
    BY <1>1, <1>2, ElementOfSeq
  <1>4. SubSeq(free, i + 1, Len(free)) \in Seq(Buffers)
    BY <1>1, <1>2, SuffixList
  <1>5. QED
    BY <1>2, <1>3, <1>4 DEF Range

LEMMA WriteBackTyped ==
  ASSUME TypeOK, NEW f \in Fragments, WriteBack(f)
  PROVE  TypeOK'
  <1>1. /\ queue \in Seq(Buffers) /\ free \in Seq(Buffers)
        /\ pending \in Seq(Buffers) /\ temporary \subseteq Buffers
        /\ heap \subseteq Buffers
    BY DEF TypeOK
  <1>2. Delivered
    BY DEF WriteBack, TooLarge, Overflow, AppendFragment, WriteTemporary,
           WriteFree, FreeListRunsOut, WriteDeleted
  <1>3. written' \in Nat
    BY <1>2, DeliveredTyped
  <1>4. CASE TooLarge(f)
    BY <1>3, <1>4 DEF TooLarge, TypeOK, buffers, lists, control
  <1>5. CASE Overflow(f)
    <2>1. pending[1] \in Buffers
      BY <1>5, PendingBuffer DEF Overflow
    <2>2. free' \in Seq(Buffers) /\ pending' \in Seq(Buffers)
      BY <1>1, <1>5, <2>1, AppendList DEF Overflow
    <2>3. QED
      BY <1>3, <1>5, <2>2 DEF Overflow, TypeOK, control
  <1>6. CASE AppendFragment(f)
    <2>1. UNCHANGED <<free, heap, temporary, reader, control>>
      BY <1>6 DEF AppendFragment
    <2>2. QED
      BY <1>3, <1>6, <2>1, AppendFragmentTyped DEF TypeOK, control
  <1>7. CASE WriteTemporary(f)
    <2>1. PICK b \in Buffers : /\ heap' = heap \cup {b}
                               /\ temporary' = temporary \cup {b}
                               /\ Enqueue(b, f)
      BY <1>7 DEF WriteTemporary, Unused
    <2>2. /\ content' \in [Buffers -> Contents]
          /\ queue' \in Seq(Buffers) /\ pending' \in Seq(Buffers)
          /\ event' \in BOOLEAN
      BY <1>2, <1>7, <2>1, EnqueueTyped DEF WriteTemporary
    <2>3. heap' \subseteq Buffers /\ temporary' \subseteq Buffers
      BY <1>1, <2>1
    <2>4. UNCHANGED <<free, reader, control>>
      BY <1>7 DEF WriteTemporary
    <2>5. QED
      BY <1>3, <2>2, <2>3, <2>4 DEF TypeOK, control
  <1>8. CASE WriteFree(f)
    <2>1. PICK i \in DOMAIN free :
            /\ heap' = heap \ {free[j] : j \in 1..(i - 1)}
            /\ temporary' = temporary \ {free[j] : j \in 1..(i - 1)}
            /\ free' = SubSeq(free, i + 1, Len(free))
            /\ Enqueue(free[i], f)
      BY <1>8 DEF WriteFree
    <2>2. free[i] \in Buffers /\ free' \in Seq(Buffers)
      BY <2>1, FreeBuffer
    <2>3. /\ content' \in [Buffers -> Contents]
          /\ queue' \in Seq(Buffers) /\ pending' \in Seq(Buffers)
          /\ event' \in BOOLEAN
      BY <1>2, <1>8, <2>1, <2>2, EnqueueTyped DEF WriteFree
    <2>4. heap' \subseteq Buffers /\ temporary' \subseteq Buffers
      BY <1>1, <2>1
    <2>5. UNCHANGED <<reader, control>>
      BY <1>8 DEF WriteFree
    <2>6. QED
      BY <1>3, <2>2, <2>3, <2>4, <2>5 DEF TypeOK, control
  <1>9. CASE FreeListRunsOut(f) \/ WriteDeleted(f)
    BY <1>3, <1>9 DEF FreeListRunsOut, WriteDeleted, TypeOK, buffers, lists
  <1>10. QED
    BY <1>4, <1>5, <1>6, <1>7, <1>8, <1>9 DEF WriteBack

LEMMA TakeTyped ==
  ASSUME TypeOK, Take
  PROVE  TypeOK'
  <1>1. /\ queue # <<>> /\ queue' = Tail(queue)
        /\ free' = Append(free, Head(queue))
        /\ reader' = [pc |-> "reading", buffer |-> Head(queue),
                      frags |-> content[Head(queue)].frags]
        /\ UNCHANGED <<pending, heap, temporary, content, event, written,
                       reinits, init, fault>>
        /\ torn' = (torn \/ init \in {"clear_free", "delete_queue",
                                      "clear_queue"})
    BY DEF Take
  <1>2. /\ queue \in Seq(Buffers) /\ free \in Seq(Buffers)
        /\ content \in [Buffers -> Contents]
    BY DEF TypeOK
  <1>3. Head(queue) \in Buffers /\ queue' \in Seq(Buffers)
    BY <1>1, <1>2, TailList
  <1>4. free' \in Seq(Buffers)
    BY <1>1, <1>2, <1>3, AppendList
  <1>5. content[Head(queue)].frags \in Seq(Nat)
    BY <1>2, <1>3 DEF Contents
  <1>6. reader' \in Readers
    BY <1>1, <1>3, <1>5 DEF Readers
  <1>7. torn' \in BOOLEAN
    BY <1>1
  <1>8. QED
    BY <1>1, <1>3, <1>4, <1>6, <1>7 DEF TypeOK

LEMMA InitStepTyped ==
  ASSUME TypeOK, InitStep
  PROVE  TypeOK'
  <1>1. /\ UNCHANGED <<content, event, reader, written, torn>>
        /\ temporary' \subseteq temporary
        /\ queue' \in {queue, <<>>} /\ pending' \in {pending, <<>>}
    BY DEF InitStep, Destroy, DeleteFree, ClearFree, DeleteQueue, ClearQueue,
           Refill, lists
  <1>2. /\ init' \in {"done", "delete_free", "clear_free", "delete_queue",
                      "clear_queue", "refill"}
        /\ reinits' \in {reinits, reinits + 1}
        /\ fault' \in {"none", "freed", fault}
    BY DEF InitStep, Destroy, DeleteFree, ClearFree, DeleteQueue, ClearQueue,
           Refill, Delete
  <1>3. heap' \subseteq Buffers /\ free' \in Seq(Buffers)
    <2>1. CASE Refill
      <3>1. PICK fresh \in FreshLists(Buffers \ Unused) :
              free' = free \o fresh /\ heap' = heap \cup Range(fresh)
        BY <2>1 DEF Refill
      <3>2. fresh \in Seq(Buffers) /\ Range(fresh) \subseteq Buffers
        BY <3>1, FreshListsTyped
      <3>3. free \o fresh \in Seq(Buffers)
        BY <3>2, ConcatList DEF TypeOK
      <3>4. QED
        BY <3>1, <3>2, <3>3 DEF TypeOK
    <2>2. CASE ~Refill
      <3>1. free' = free \/ free' = <<>>
        BY <2>2 DEF InitStep, Destroy, DeleteFree, ClearFree, DeleteQueue,
                    ClearQueue, lists
      <3>2. heap' \subseteq heap
        BY <2>2 DEF InitStep, Destroy, DeleteFree, ClearFree, DeleteQueue,
                    ClearQueue, Delete
      <3>3. <<>> \in Seq(Buffers)
        OBVIOUS
      <3>4. QED
        BY <3>1, <3>2, <3>3 DEF TypeOK
    <2>3. QED
      BY <2>1, <2>2
  <1>4. reinits' \in Nat
    BY <1>2 DEF TypeOK
  <1>5. queue' \in Seq(Buffers) /\ pending' \in Seq(Buffers)
    <2>1. <<>> \in Seq(Buffers)
      OBVIOUS
    <2>2. QED
      BY <1>1, <2>1 DEF TypeOK
  <1>6. fault' \in {"none", "free_list", "queue", "freed", "race"}
    BY <1>2 DEF TypeOK
  <1>7. temporary' \subseteq Buffers
    BY <1>1 DEF TypeOK
  <1>8. UNCHANGED <<content, event, reader, written, torn>>
    BY <1>1
  <1>9. QED
    BY <1>2, <1>3, <1>4, <1>5, <1>6, <1>7, <1>8 DEF TypeOK

LEMMA StepTypeOK == TypeOK /\ [Next]_vars => TypeOK'
  <1> SUFFICES ASSUME TypeOK, [Next]_vars PROVE TypeOK'
    OBVIOUS
  <1>1. CASE \E f \in Fragments : WriteBack(f)
    BY <1>1, WriteBackTyped
  <1>2. CASE Poll \/ Woken \/ TimedOut \/ Recheck
    <2>1. reader' \in Readers
      <3>1. \E pc \in {"idle", "wait", "recheck", "take", "reading"} :
              ReaderGoto(pc)
        BY <1>2 DEF Poll, Woken, TimedOut, Recheck
      <3>2. QED
        BY <3>1, ReaderMoves
    <2>2. event' \in BOOLEAN
      BY <1>2 DEF Poll, Woken, TimedOut, Recheck, TypeOK
    <2>3. UNCHANGED <<buffers, written, control>>
      BY <1>2 DEF Poll, Woken, TimedOut, Recheck
    <2>4. QED
      BY <2>1, <2>2, <2>3 DEF TypeOK, buffers, lists, control
  <1>3. CASE Take
    BY <1>3, TakeTyped
  <1>4. CASE Release
    <2>1. IdleReader \in Readers
      BY DEF IdleReader, Readers
    <2>2. QED
      BY <1>4, <2>1 DEF Release, TypeOK, buffers, lists, control
  <1>5. CASE TakeFails \/ UseDeleted
    BY <1>5 DEF TakeFails, UseDeleted, TypeOK, buffers, lists
  <1>6. CASE InitStep
    BY <1>6, InitStepTyped
  <1>7. CASE UNCHANGED vars
    BY <1>7 DEF vars, buffers, lists, control, TypeOK
  <1>8. QED
    BY <1>1, <1>2, <1>3, <1>4, <1>5, <1>6, <1>7 DEF Next, ReaderStep

(* The lists of buffers, their contents and the reader are well-formed in   *)
(* every state of FrameBuffer and FrameQueue.                               *)
THEOREM QueueTypeCorrect == Spec => []TypeOK
  <1>1. QED
    BY InitTypeOK, StepTypeOK, PTL DEF Spec

-----------------------------------------------------------------------------
(* The reader's wakeup *)

LEMMA StepNoLostWakeup ==
  TypeOK /\ NoLostWakeup /\ [Next]_vars => NoLostWakeup'
  <1> SUFFICES ASSUME TypeOK, NoLostWakeup, [Next]_vars PROVE NoLostWakeup'
    OBVIOUS
  <1>1. ASSUME NEW f \in Fragments, WriteBack(f) PROVE NoLostWakeup'
    <2>1. reader' = reader
      BY <1>1 DEF WriteBack, TooLarge, Overflow, AppendFragment,
                  WriteTemporary, WriteFree, FreeListRunsOut, WriteDeleted
    <2>2. event' = TRUE \/ (queue' = queue /\ event' = event)
      BY <1>1 DEF WriteBack, TooLarge, Overflow, AppendFragment,
                  WriteTemporary, WriteFree, FreeListRunsOut, WriteDeleted,
                  Enqueue, buffers, lists
    <2>3. QED
      BY <2>1, <2>2 DEF NoLostWakeup
  <1>2. CASE Poll
    <2>1. (IF queue = <<>> THEN "wait" ELSE "take")
            \in {"idle", "wait", "recheck", "take", "reading"}
      OBVIOUS
    <2>2. reader'.pc = (IF queue = <<>> THEN "wait" ELSE "take")
      BY <1>2, <2>1, ReaderMoves DEF Poll
    <2>3. QED
      BY <1>2, <2>2 DEF Poll, NoLostWakeup, buffers, lists
  <1>3. CASE Woken \/ TimedOut
    <2>1. reader'.pc = "recheck"
      BY <1>3, ReaderMoves DEF Woken, TimedOut
    <2>2. QED
      BY <2>1 DEF NoLostWakeup
  <1>4. CASE Recheck
    <2>1. (IF queue = <<>> THEN "idle" ELSE "take")
            \in {"idle", "wait", "recheck", "take", "reading"}
      OBVIOUS
    <2>2. reader'.pc = (IF queue = <<>> THEN "idle" ELSE "take")
      BY <1>4, <2>1, ReaderMoves DEF Recheck
    <2>3. QED
      BY <2>2 DEF NoLostWakeup
  <1>5. CASE Take
    BY <1>5 DEF Take, ReaderAt, NoLostWakeup
  <1>6. CASE Release
    BY <1>6 DEF Release, IdleReader, NoLostWakeup
  <1>7. CASE TakeFails \/ UseDeleted
    BY <1>7 DEF TakeFails, UseDeleted, NoLostWakeup, buffers, lists
  <1>8. CASE InitStep
    BY <1>8 DEF InitStep, Destroy, DeleteFree, ClearFree, DeleteQueue,
                ClearQueue, Refill, NoLostWakeup, lists
  <1>9. CASE UNCHANGED vars
    BY <1>9 DEF vars, buffers, lists, NoLostWakeup
  <1>10. QED
    BY <1>1, <1>2, <1>3, <1>4, <1>5, <1>6, <1>7, <1>8, <1>9
       DEF Next, ReaderStep

(* The drain thread does not go to sleep on the Event while a frame is      *)
(* queued, though it looks at the queue without the mutex (ReadFront).      *)
THEOREM ReaderIsWoken == Spec => []NoLostWakeup
  <1>1. Init => NoLostWakeup
    BY DEF Init, IdleReader, NoLostWakeup
  <1>2. QED
    BY <1>1, InitTypeOK, StepTypeOK, StepNoLostWakeup, PTL DEF Spec

-----------------------------------------------------------------------------
(* The lists partition the buffers *)

AtMostOne == pending = <<>> \/ \E b \in Buffers : pending = <<b>>

(* What is listed and allocated at each step of Init, unless the reader     *)
(* took a buffer at the wrong moment.                                       *)
Allocated ==
  /\ init = "done" =>
       heap = Live /\ Cardinality(Live \ temporary) = Capacity
  /\ init = "delete_free" => heap = Live
  /\ init = "clear_free" => heap = Range(queue)
  /\ init = "delete_queue" => heap = Range(queue) /\ free = <<>>
  /\ init \in {"clear_queue", "refill"} => heap = {} /\ free = <<>>

(* BufferPartition needs in addition that at most one frame is being put    *)
(* together, none while Init runs, and what Init has got to.                *)
QueueInv ==
  /\ TypeOK
  /\ NoDuplicates
  /\ temporary \subseteq Live
  /\ AtMostOne
  /\ init # "done" => pending = <<>>
  /\ init = "refill" => queue = <<>>
  /\ ~torn => Allocated

(* The lists change, and with them the temporary buffers and what is        *)
(* allocated, but neither are buffers listed twice nor does the set of      *)
(* permanent ones change.                                                   *)
Kept ==
  /\ NoDuplicates'
  /\ AtMostOne'
  /\ temporary' \subseteq Live'
  /\ Live' \ temporary' = Live \ temporary
  /\ heap = Live => heap' = Live'

(* The lists stay, or only their contents change.                           *)
LEMMA SameListsKept ==
  ASSUME QueueInv, UNCHANGED <<lists, heap, temporary>>
  PROVE  Kept
  BY DEF QueueInv, Kept, NoDuplicates, AtMostOne, Live, lists

LEMMA PendingIsOne ==
  ASSUME QueueInv, pending # <<>>
  PROVE  /\ pending[1] \in Buffers
         /\ pending = <<pending[1]>>
         /\ Range(pending) = {pending[1]}
         /\ pending[1] \notin Range(queue)
         /\ pending[1] \notin Range(free)
  <1>1. PICK b \in Buffers : pending = <<b>>
    BY DEF QueueInv, AtMostOne
  <1>2. pending[1] = b
    BY <1>1
  <1>3. Range(pending) = {b}
    BY <1>1, ShortLists
  <1>4. b \notin Range(queue) /\ b \notin Range(free)
    BY <1>3 DEF QueueInv, NoDuplicates
  <1>5. QED
    BY <1>1, <1>2, <1>3, <1>4

LEMMA OverflowKept ==
  ASSUME QueueInv, NEW f \in Fragments, Overflow(f)
  PROVE  Kept
  <1> DEFINE b == pending[1]
  <1>1. pending' = <<>> /\ free' = Append(free, b)
        /\ queue' = queue /\ temporary' = temporary /\ heap' = heap
    BY DEF Overflow
  <1>2. /\ b \in Buffers /\ Range(pending) = {b}
        /\ b \notin Range(queue) /\ b \notin Range(free)
    BY PendingIsOne DEF Overflow
  <1>3. free \in Seq(Buffers) /\ IsInjective(free) /\ IsInjective(queue)
        /\ Range(queue) \cap Range(free) = {}
    BY DEF QueueInv, TypeOK, NoDuplicates
  <1>4. Range(free') = Range(free) \cup {b} /\ IsInjective(free')
    BY <1>1, <1>2, <1>3, AppendList
  <1>5. Range(pending') = {} /\ IsInjective(pending')
    BY <1>1, ShortLists
  <1>6. NoDuplicates'
    BY <1>1, <1>2, <1>3, <1>4, <1>5 DEF NoDuplicates
  <1>7. Live' = Live
    BY <1>1, <1>2, <1>4, <1>5 DEF Live
  <1>8. QED
    BY <1>1, <1>6, <1>7 DEF Kept, AtMostOne, QueueInv

LEMMA AppendFragmentKept ==
  ASSUME QueueInv, NEW f \in Fragments, AppendFragment(f)
  PROVE  Kept
  <1> DEFINE b == pending[1]
  <1>1. CASE ~f.end
    <2>1. UNCHANGED <<lists, heap, temporary>>
      BY <1>1 DEF AppendFragment, lists
    <2>2. QED
      BY <2>1, SameListsKept
  <1>2. CASE f.end
    <2>1. /\ pending' = <<>> /\ queue' = Append(queue, b)
          /\ free' = free /\ temporary' = temporary /\ heap' = heap
      BY <1>2 DEF AppendFragment
    <2>2. /\ b \in Buffers /\ Range(pending) = {b}
          /\ b \notin Range(queue) /\ b \notin Range(free)
      BY PendingIsOne DEF AppendFragment
    <2>3. queue \in Seq(Buffers) /\ IsInjective(free) /\ IsInjective(queue)
          /\ Range(queue) \cap Range(free) = {}
      BY DEF QueueInv, TypeOK, NoDuplicates
    <2>4. Range(queue') = Range(queue) \cup {b} /\ IsInjective(queue')
      BY <2>1, <2>2, <2>3, AppendList
    <2>5. Range(pending') = {} /\ IsInjective(pending')
      BY <2>1, ShortLists
    <2>6. NoDuplicates'
      BY <2>1, <2>2, <2>3, <2>4, <2>5 DEF NoDuplicates
    <2>7. Live' = Live
      BY <2>1, <2>2, <2>4, <2>5 DEF Live
    <2>8. QED
      BY <2>1, <2>6, <2>7 DEF Kept, AtMostOne, QueueInv
  <1>3. QED
    BY <1>1, <1>2

LEMMA EnqueueLists ==
  ASSUME QueueInv, pending = <<>>, NEW b \in Buffers, b \notin Range(queue),
         NEW f \in Fragments, Enqueue(b, f)
  PROVE  /\ Range(queue') \cup Range(pending') = Range(queue) \cup {b}
         /\ Range(queue') \cap Range(pending') = {}
         /\ IsInjective(queue') /\ IsInjective(pending')
         /\ AtMostOne'
  <1>1. queue \in Seq(Buffers) /\ IsInjective(queue)
    BY DEF QueueInv, TypeOK, NoDuplicates
  <1>2. CASE f.config
    <2>1. pending' = <<b>> /\ queue' = queue
      BY <1>2 DEF Enqueue
    <2>2. Range(pending') = {b} /\ IsInjective(pending')
      BY <2>1, ShortLists
    <2>3. QED
      BY <1>1, <2>1, <2>2 DEF AtMostOne
  <1>3. CASE ~f.config
    <2>1. pending' = <<>> /\ queue' = Append(queue, b)
      BY <1>3 DEF Enqueue
    <2>2. Range(queue') = Range(queue) \cup {b} /\ IsInjective(queue')
      BY <1>1, <2>1, AppendList
    <2>3. Range(pending') = {} /\ IsInjective(pending')
      BY <2>1, ShortLists
    <2>4. QED
      BY <2>1, <2>2, <2>3 DEF AtMostOne
  <1>4. QED
    BY <1>2, <1>3

LEMMA WriteTemporaryKept ==
  ASSUME QueueInv, NEW f \in Fragments, WriteTemporary(f)
  PROVE  Kept
  <1>1. /\ pending = <<>> /\ free = <<>> /\ free' = free
        /\ Range(free) = {} /\ Range(pending) = {} /\ IsInjective(free)
    BY ShortLists DEF WriteTemporary
  <1>2. PICK b \in Buffers \ Live : /\ heap' = heap \cup {b}
                                     /\ temporary' = temporary \cup {b}
                                     /\ Enqueue(b, f)
    BY DEF WriteTemporary, Unused
  <1>3. b \notin Range(queue)
    BY <1>2 DEF Live
  <1>4. /\ Range(queue') \cup Range(pending') = Range(queue) \cup {b}
        /\ Range(queue') \cap Range(pending') = {}
        /\ IsInjective(queue') /\ IsInjective(pending')
        /\ AtMostOne'
    BY <1>1, <1>2, <1>3, EnqueueLists
  <1>5. NoDuplicates'
    BY <1>1, <1>4 DEF NoDuplicates
  <1>6. Live' = Live \cup {b}
    BY <1>1, <1>4 DEF Live
  <1>7. temporary \subseteq Live /\ b \notin Live
    BY <1>2 DEF QueueInv
  <1>8. QED
    BY <1>2, <1>4, <1>5, <1>6, <1>7 DEF Kept

(* The free list in three parts: what precedes number i, i, and the rest.   *)
LEMMA FreeListSplit ==
  ASSUME QueueInv, NEW i \in DOMAIN free
  PROVE  LET deleted == {free[j] : j \in 1..(i - 1)}
             rest == SubSeq(free, i + 1, Len(free))
         IN  /\ Range(free) = deleted \cup {free[i]} \cup Range(rest)
             /\ free[i] \notin deleted \cup Range(rest)
             /\ deleted \cap Range(rest) = {}
             /\ IsInjective(rest)
  <1>1. free \in Seq(Buffers) /\ IsInjective(free)
    BY DEF QueueInv, TypeOK, NoDuplicates
  <1>2. DOMAIN free = 1..Len(free) /\ Len(free) \in Nat /\ i \in 1..Len(free)
    BY <1>1, LenProperties
  <1>3. \A j, k \in 1..Len(free) : free[j] = free[k] => j = k
    BY <1>1, <1>2 DEF IsInjective
  <1>4. PICK rest : rest = SubSeq(free, i + 1, Len(free))
    OBVIOUS
  <1>5. PICK deleted : deleted = {free[j] : j \in 1..(i - 1)}
    OBVIOUS
  <1>6. /\ Range(rest) = {free[j] : j \in (i + 1)..Len(free)}
        /\ IsInjective(rest)
    BY <1>1, <1>2, <1>4, SuffixList
  <1>7. Range(free) = {free[j] : j \in 1..Len(free)}
    BY <1>2 DEF Range
  <1>8. Range(free) = deleted \cup {free[i]} \cup Range(rest)
    <2>1. \A j \in 1..Len(free) :
            j \in 1..(i - 1) \/ j = i \/ j \in (i + 1)..Len(free)
      BY <1>2
    <2>2. /\ \A j \in 1..(i - 1) : j \in 1..Len(free)
          /\ \A j \in (i + 1)..Len(free) : j \in 1..Len(free)
      BY <1>2
    <2>3. QED
      BY <1>2, <1>5, <1>6, <1>7, <2>1, <2>2
  <1>9. free[i] \notin deleted \cup Range(rest)
    BY <1>2, <1>3, <1>5, <1>6
  <1>10. deleted \cap Range(rest) = {}
    BY <1>2, <1>3, <1>5, <1>6
  <1>11. QED
    BY <1>4, <1>5, <1>6, <1>8, <1>9, <1>10

LEMMA WriteFreeKept ==
  ASSUME QueueInv, NEW f \in Fragments, WriteFree(f)
  PROVE  Kept
  <1>1. PICK i \in DOMAIN free :
          /\ free[i] \notin temporary
          /\ \A j \in 1..(i - 1) : free[j] \in temporary
          /\ heap' = heap \ {free[j] : j \in 1..(i - 1)}
          /\ temporary' = temporary \ {free[j] : j \in 1..(i - 1)}
          /\ free' = SubSeq(free, i + 1, Len(free))
          /\ Enqueue(free[i], f)
    BY DEF WriteFree
  <1>2. PICK deleted : deleted = {free[j] : j \in 1..(i - 1)}
    OBVIOUS
  <1>3. /\ Range(free) = deleted \cup {free[i]} \cup Range(free')
        /\ free[i] \notin deleted \cup Range(free')
        /\ deleted \cap Range(free') = {}
        /\ IsInjective(free')
    BY <1>1, <1>2, FreeListSplit
  <1>4. pending = <<>> /\ Range(pending) = {}
    BY ShortLists DEF WriteFree
  <1>5. /\ Range(queue) \cap Range(free) = {}
        /\ temporary \subseteq Live
    BY DEF QueueInv, NoDuplicates
  <1>6. free[i] \in Buffers /\ free[i] \notin Range(queue)
    BY <1>1, <1>3, <1>5, FreeBuffer DEF QueueInv
  <1>7. /\ Range(queue') \cup Range(pending') = Range(queue) \cup {free[i]}
        /\ Range(queue') \cap Range(pending') = {}
        /\ IsInjective(queue') /\ IsInjective(pending')
        /\ AtMostOne'
    BY <1>1, <1>4, <1>6, EnqueueLists
  <1>8. NoDuplicates'
    BY <1>3, <1>5, <1>7 DEF NoDuplicates
  <1>9. Live' = Live \ deleted
    BY <1>3, <1>4, <1>5, <1>7 DEF Live
  <1>10. /\ deleted \subseteq temporary /\ temporary' = temporary \ deleted
         /\ heap' = heap \ deleted
    BY <1>1, <1>2
  <1>11. QED
    BY <1>5, <1>7, <1>8, <1>9, <1>10 DEF Kept

LEMMA TakeKept ==
  ASSUME QueueInv, Take
  PROVE  Kept /\ Live' = Live
  <1>1. /\ queue # <<>>
        /\ queue' = Tail(queue) /\ free' = Append(free, Head(queue))
        /\ pending' = pending /\ temporary' = temporary /\ heap' = heap
    BY DEF Take
  <1>2. /\ queue \in Seq(Buffers) /\ free \in Seq(Buffers)
        /\ IsInjective(queue) /\ IsInjective(free) /\ IsInjective(pending)
        /\ Range(queue) \cap Range(free) = {}
        /\ Range(pending) \cap (Range(queue) \cup Range(free)) = {}
    BY DEF QueueInv, TypeOK, NoDuplicates
  <1>3. /\ Head(queue) \in Buffers
        /\ Range(queue) = Range(queue') \cup {Head(queue)}
        /\ IsInjective(queue') /\ Head(queue) \notin Range(queue')
    BY <1>1, <1>2, TailList
  <1>4. Range(free') = Range(free) \cup {Head(queue)} /\ IsInjective(free')
    BY <1>1, <1>2, <1>3, AppendList
  <1>5. NoDuplicates'
    BY <1>1, <1>2, <1>3, <1>4 DEF NoDuplicates
  <1>6. Live' = Live
    BY <1>1, <1>3, <1>4 DEF Live
  <1>7. QED
    BY <1>1, <1>5, <1>6 DEF Kept, AtMostOne, QueueInv

(* The reader may take a buffer while Init runs.                            *)
LEMMA TakeInv ==
  ASSUME QueueInv, TypeOK', Take
  PROVE  QueueInv'
  <1>1. /\ queue # <<>> /\ UNCHANGED <<pending, heap, temporary, init>>
        /\ torn' = (torn \/ init \in {"clear_free", "delete_queue",
                                      "clear_queue"})
    BY DEF Take
  <1>2. Kept /\ Live' = Live
    BY TakeKept
  <1>3. init # "refill"
    BY <1>1 DEF QueueInv
  <1>4. ~torn' => Allocated'
    BY <1>1, <1>2, <1>3 DEF QueueInv, Allocated
  <1>5. QED
    BY <1>1, <1>2, <1>3, <1>4 DEF QueueInv, Kept

(* A step that keeps the permanent buffers, of an encoder that runs.        *)
LEMMA KeptInv ==
  ASSUME QueueInv, TypeOK', Kept, enabled, UNCHANGED <<init, torn>>
  PROVE  QueueInv'
  <1>1. init = "done" /\ init' = "done"
    BY DEF enabled
  <1>2. ~torn' => Allocated'
    BY <1>1 DEF Kept, QueueInv, Allocated
  <1>3. QED
    BY <1>1, <1>2 DEF Kept, QueueInv

LEMMA SameInv ==
  ASSUME QueueInv, TypeOK', UNCHANGED <<lists, heap, temporary, init, torn>>
  PROVE  QueueInv'
  <1>1. UNCHANGED <<queue, free, pending>>
    BY DEF lists
  <1>2. Live' = Live /\ NoDuplicates' /\ AtMostOne'
    BY <1>1 DEF QueueInv, Live, NoDuplicates, AtMostOne
  <1>3. ~torn' => Allocated'
    BY <1>1, <1>2 DEF QueueInv, Allocated
  <1>4. QED
    BY <1>1, <1>2, <1>3 DEF QueueInv

LEMMA WriteBackInv ==
  ASSUME QueueInv, TypeOK', NEW f \in Fragments, WriteBack(f)
  PROVE  QueueInv'
  <1>1. enabled /\ UNCHANGED <<init, torn>>
    BY DEF WriteBack, TooLarge, Overflow, AppendFragment, WriteTemporary,
           WriteFree, FreeListRunsOut, WriteDeleted, Delivered, control
  <1>2. CASE TooLarge(f) \/ FreeListRunsOut(f) \/ WriteDeleted(f)
    <2>1. UNCHANGED <<lists, heap, temporary>>
      BY <1>2 DEF TooLarge, FreeListRunsOut, WriteDeleted, buffers
    <2>2. QED
      BY <1>1, <2>1, SameInv
  <1>3. CASE Overflow(f)
    BY <1>1, <1>3, OverflowKept, KeptInv
  <1>4. CASE AppendFragment(f)
    BY <1>1, <1>4, AppendFragmentKept, KeptInv
  <1>5. CASE WriteTemporary(f)
    BY <1>1, <1>5, WriteTemporaryKept, KeptInv
  <1>6. CASE WriteFree(f)
    BY <1>1, <1>6, WriteFreeKept, KeptInv
  <1>7. QED
    BY <1>2, <1>3, <1>4, <1>5, <1>6 DEF WriteBack

(* The loops of Init that delete a list.                                    *)
LEMMA DeleteInv ==
  ASSUME QueueInv, TypeOK', DeleteFree \/ DeleteQueue
  PROVE  QueueInv'
  <1>1. UNCHANGED <<queue, free, pending, temporary, torn>>
    BY DEF DeleteFree, DeleteQueue, lists
  <1>2. Live' = Live /\ NoDuplicates' /\ AtMostOne'
    BY <1>1 DEF QueueInv, Live, NoDuplicates, AtMostOne
  <1>3. init # "done" /\ pending = <<>> /\ Range(pending) = {}
    BY ShortLists DEF QueueInv, DeleteFree, DeleteQueue, InitAt
  <1>4. CASE DeleteFree
    <2>1. /\ init = "delete_free" /\ init' = "clear_free"
          /\ heap' = heap \ Range(free)
      BY <1>4 DEF DeleteFree, InitAt, Delete
    <2>2. ~torn => heap' = Range(queue)
      BY <1>3, <2>1 DEF QueueInv, Allocated, Live, NoDuplicates
    <2>3. QED
      BY <1>1, <1>2, <1>3, <2>1, <2>2 DEF QueueInv, Allocated
  <1>5. CASE DeleteQueue
    <2>1. /\ init = "delete_queue" /\ init' = "clear_queue"
          /\ heap' = heap \ Range(queue)
      BY <1>5 DEF DeleteQueue, InitAt, Delete
    <2>2. ~torn => heap' = {} /\ free = <<>>
      BY <2>1 DEF QueueInv, Allocated
    <2>3. QED
      BY <1>1, <1>2, <1>3, <2>1, <2>2 DEF QueueInv, Allocated
  <1>6. QED
    BY <1>4, <1>5

(* A list is cleared.                                                       *)
LEMMA ClearInv ==
  ASSUME QueueInv, TypeOK', ClearFree \/ ClearQueue
  PROVE  QueueInv'
  <1>1. UNCHANGED <<pending, heap, torn>>
    BY DEF ClearFree, ClearQueue
  <1>2. init # "done" /\ pending = <<>> /\ Range(pending) = {}
    BY ShortLists DEF QueueInv, ClearFree, ClearQueue, InitAt
  <1>3. CASE ClearFree
    <2>1. /\ init = "clear_free" /\ init' = "delete_queue"
          /\ queue' = queue /\ free' = <<>>
          /\ temporary' = temporary \ Range(free)
      BY <1>3 DEF ClearFree, InitAt
    <2>2. NoDuplicates' /\ AtMostOne' /\ temporary' \subseteq Live'
      BY <1>1, <1>2, <2>1, ShortLists
         DEF QueueInv, NoDuplicates, AtMostOne, Live
    <2>3. ~torn => heap' = Range(queue')
      BY <1>1, <2>1 DEF QueueInv, Allocated
    <2>4. QED
      BY <1>1, <1>2, <2>1, <2>2, <2>3 DEF QueueInv, Allocated
  <1>4. CASE ClearQueue
    <2>1. /\ init = "clear_queue" /\ init' = "refill"
          /\ queue' = <<>> /\ free' = free
          /\ temporary' = temporary \ Range(queue)
      BY <1>4 DEF ClearQueue, InitAt
    <2>2. NoDuplicates' /\ AtMostOne' /\ temporary' \subseteq Live'
      BY <1>1, <1>2, <2>1, ShortLists
         DEF QueueInv, NoDuplicates, AtMostOne, Live
    <2>3. ~torn => heap' = {} /\ free' = <<>>
      BY <1>1, <2>1 DEF QueueInv, Allocated
    <2>4. QED
      BY <1>1, <1>2, <2>1, <2>2, <2>3 DEF QueueInv, Allocated
  <1>5. QED
    BY <1>3, <1>4

LEMMA DestroyInv ==
  ASSUME QueueInv, TypeOK', Destroy
  PROVE  QueueInv'
  <1>1. /\ init = "done" /\ init' = "delete_free"
        /\ heap' = heap \ Range(pending) /\ pending' = <<>>
        /\ temporary' = temporary \ Range(pending)
        /\ UNCHANGED <<queue, free, torn>>
    BY DEF Destroy, Delete, enabled
  <1>2. NoDuplicates' /\ AtMostOne' /\ temporary' \subseteq Live'
    BY <1>1, ShortLists DEF QueueInv, NoDuplicates, AtMostOne, Live
  <1>3. ~torn => heap' = Live'
    BY <1>1, ShortLists DEF QueueInv, Allocated, Live, NoDuplicates
  <1>4. QED
    BY <1>1, <1>2, <1>3 DEF QueueInv, Allocated

LEMMA RefillInv ==
  ASSUME QueueInv, TypeOK', Refill
  PROVE  QueueInv'
  <1>1. /\ init = "refill" /\ init' = "done"
        /\ UNCHANGED <<queue, pending, temporary, torn>>
    BY DEF Refill, InitAt
  <1>2. /\ queue = <<>> /\ pending = <<>>
        /\ Range(queue) = {} /\ Range(pending) = {}
    BY <1>1, ShortLists DEF QueueInv
  <1>3. PICK fresh \in FreshLists(Buffers \ Unused) :
          free' = free \o fresh /\ heap' = heap \cup Range(fresh)
    BY DEF Refill
  <1>4. /\ fresh \in Seq(Buffers) /\ IsInjective(fresh)
        /\ Range(fresh) \cap Live = {}
        /\ Cardinality(Range(fresh)) = Capacity
    BY <1>3, FreshListsTyped DEF Unused
  <1>5. /\ Range(free') = Range(free) \cup Range(fresh)
        /\ IsInjective(free')
    <2>1. free \in Seq(Buffers) /\ IsInjective(free)
      BY DEF QueueInv, TypeOK, NoDuplicates
    <2>2. Range(free) \cap Range(fresh) = {}
      BY <1>4 DEF Live
    <2>3. QED
      BY <1>3, <1>4, <2>1, <2>2, ConcatList
  <1>6. NoDuplicates' /\ AtMostOne' /\ Live' = Live \cup Range(fresh)
    BY <1>1, <1>2, <1>5, ShortLists DEF NoDuplicates, AtMostOne, Live
  <1>7. ASSUME ~torn PROVE heap' = Live' /\ Live' \ temporary' = Range(fresh)
    <2>1. heap = {} /\ free = <<>> /\ Live = {} /\ temporary = {}
      BY <1>1, <1>2, <1>7, ShortLists DEF QueueInv, Allocated, Live
    <2>2. QED
      BY <1>1, <1>3, <1>6, <2>1
  <1>8. ~torn' => Allocated'
    BY <1>1, <1>4, <1>7 DEF Allocated
  <1>9. QED
    BY <1>1, <1>6, <1>8 DEF QueueInv

LEMMA StepQueueInv == QueueInv /\ [Next]_vars => QueueInv'
  <1> SUFFICES ASSUME QueueInv, [Next]_vars PROVE QueueInv'
    OBVIOUS
  <1>1. TypeOK'
    BY StepTypeOK DEF QueueInv
  <1>2. ASSUME NEW f \in Fragments, WriteBack(f) PROVE QueueInv'
    BY <1>1, <1>2, WriteBackInv
  <1>3. CASE \/ Poll \/ Woken \/ TimedOut \/ Recheck
             \/ TakeFails \/ Release \/ UseDeleted
             \/ UNCHANGED vars
    <2>1. UNCHANGED <<lists, heap, temporary, init, torn>>
      BY <1>3 DEF Poll, Woken, TimedOut, Recheck, TakeFails, Release,
                  UseDeleted, vars, buffers, control
    <2>2. QED
      BY <1>1, <2>1, SameInv
  <1>4. CASE Take
    BY <1>1, <1>4, TakeInv
  <1>5. CASE InitStep
    BY <1>1, <1>5, DestroyInv, DeleteInv, ClearInv, RefillInv DEF InitStep
  <1>6. QED
    BY <1>2, <1>3, <1>4, <1>5 DEF Next, ReaderStep

LEMMA InitQueueInv == Init => QueueInv
  <1> SUFFICES ASSUME Init PROVE QueueInv
    OBVIOUS
  <1>1. /\ queue = <<>> /\ pending = <<>> /\ temporary = {}
        /\ heap = Range(free) /\ init = "done"
    BY DEF Init
  <1>2. IsInjective(free) /\ Cardinality(Range(free)) = Capacity
    BY FreshListsTyped DEF Init
  <1>3. Live = Range(free) /\ Live \ temporary = Range(free)
    BY <1>1, ShortLists DEF Live
  <1>4. NoDuplicates
    BY <1>1, <1>2, ShortLists DEF NoDuplicates
  <1>5. Allocated
    BY <1>1, <1>2, <1>3 DEF Allocated
  <1>6. QED
    BY <1>1, <1>4, <1>5, InitTypeOK DEF QueueInv, AtMostOne

LEMMA QueueInvariant == Spec => []QueueInv
  <1>1. QED
    BY InitQueueInv, StepQueueInv, PTL DEF Spec

(* No buffer is listed twice, and those on FrameQueue's lists are those     *)
(* that are allocated, capacity_ of them permanent, until the reader takes  *)
(* a buffer while Init, without the mutex, is between two of its loops.     *)
THEOREM BuffersArePartitioned == Spec => []BufferPartition
  <1>1. QueueInv => BufferPartition
    BY DEF QueueInv, BufferPartition, Allocated, enabled
  <1>2. QED
    BY <1>1, QueueInvariant, PTL

-----------------------------------------------------------------------------
(* Temporary buffers *)

LEMMA StepTemporaryUsedOnce ==
  ASSUME QueueInv, [Next]_vars,
         NEW b \in temporary \cap temporary',
         content'[b].frags # content[b].frags
  PROVE  b \in Range(pending)
  <1>1. /\ content \in [Buffers -> Contents]
        /\ temporary \subseteq Live
        /\ b \in temporary
    BY DEF QueueInv, TypeOK
  <1>2. content' # content
    OBVIOUS
  <1>3. PICK f \in Fragments : AppendFragment(f) \/ WriteTemporary(f)
                               \/ WriteFree(f)
    BY <1>2 DEF Next, WriteBack, TooLarge, Overflow, FreeListRunsOut,
       WriteDeleted, ReaderStep, Poll, Woken, TimedOut, Recheck, Take,
       TakeFails, Release, UseDeleted, InitStep, Destroy, DeleteFree,
       ClearFree, DeleteQueue, ClearQueue, Refill, vars, buffers
  <1>4. CASE AppendFragment(f)
    <2>1. content' = [content EXCEPT ![pending[1]] =
                        Appended(pending[1], f)]
      BY <1>4 DEF AppendFragment
    <2>2. b = pending[1]
      BY <1>1, <2>1
    <2>3. QED
      BY <1>4, <2>2, PendingIsOne DEF AppendFragment
  <1>5. CASE WriteTemporary(f)
    <2>1. PICK c \in Buffers \ Live :
            content' = [content EXCEPT ![c] = Copied(f)]
      BY <1>5 DEF WriteTemporary, Enqueue, Unused
    <2>2. b # c
      BY <1>1, <2>1
    <2>3. QED
      BY <1>1, <2>1, <2>2
  <1>6. CASE WriteFree(f)
    <2>1. PICK i \in DOMAIN free :
            /\ free[i] \notin temporary
            /\ content' = [content EXCEPT ![free[i]] = Copied(f)]
      BY <1>6 DEF WriteFree, Enqueue
    <2>2. b # free[i]
      BY <1>1, <2>1
    <2>3. QED
      BY <1>1, <2>1, <2>2
  <1>7. QED
    BY <1>3, <1>4, <1>5, <1>6

(* A temporary buffer is filled for one frame only: WriteBack deletes those *)
(* at the head of the free list and takes none that is temporary.           *)
THEOREM TemporaryIsUsedOnce == Spec => TemporaryUsedOnce
  <1>1. QueueInv /\ [Next]_vars =>
          [\A b \in temporary \cap temporary' :
             content'[b].frags # content[b].frags => b \in Range(pending)]_vars
    BY StepTemporaryUsedOnce
  <1>2. QED
    BY <1>1, QueueInvariant, PTL DEF Spec, TemporaryUsedOnce

-----------------------------------------------------------------------------
(* What the refinement needs besides the partition of the buffers: a frame *)
(* that is queued or being put together has fragments, and so has the one  *)
(* that the reader works on; else the reader works on none.                *)

Filled ==
  \A b \in Range(queue) \cup Range(pending) : content[b].frags # <<>>
ReaderHasFrame == reader.pc = "reading" <=> reader.frags # <<>>

FifoInv == QueueInv /\ Filled /\ ReaderHasFrame

Frames == FragmentsOf(queue)
Partial == IF pending = <<>> THEN <<>> ELSE content[pending[1]].frags

-----------------------------------------------------------------------------
(* Frames as sequences *)

LEMMA FramesTyped ==
  ASSUME TypeOK
  PROVE  /\ Frames \in Seq(Seq(Nat))
         /\ Len(Frames) = Len(queue)
         /\ \A i \in 1..Len(queue) : Frames[i] = content[queue[i]].frags
  <1>1. /\ queue \in Seq(Buffers)
        /\ content \in [Buffers -> Contents]
    BY DEF TypeOK
  <1>2. /\ DOMAIN queue = 1..Len(queue) /\ Len(queue) \in Nat
        /\ \A i \in 1..Len(queue) : queue[i] \in Buffers
    BY <1>1, LenProperties, ElementOfSeq
  <1>3. \A i \in 1..Len(queue) : content[queue[i]].frags \in Seq(Nat)
    BY <1>1, <1>2 DEF Contents
  <1>4. Frames = [i \in 1..Len(queue) |-> content[queue[i]].frags]
    BY <1>2 DEF Frames, FragmentsOf
  <1>5. Frames \in [1..Len(queue) -> Seq(Nat)]
    BY <1>3, <1>4
  <1>6. Frames \in Seq(Seq(Nat))
    BY <1>2, <1>5, SeqDef
  <1>7. Len(Frames) = Len(queue)
    <2>1. DOMAIN Frames = 1..Len(queue)
      BY <1>4
    <2>2. DOMAIN Frames = 1..Len(Frames) /\ Len(Frames) \in Nat
      BY <1>6, LenProperties
    <2>3. QED
      BY <1>2, <2>1, <2>2
  <1>8. QED
    BY <1>4, <1>6, <1>7

(* The frames stay if the queue does and no buffer of it is written to.     *)
LEMMA FramesSame ==
  ASSUME TypeOK, TypeOK', queue' = queue,
         \A b \in Range(queue) : content'[b].frags = content[b].frags
  PROVE  Frames' = Frames
  <1>1. queue \in Seq(Buffers)
    BY DEF TypeOK
  <1>2. DOMAIN queue = 1..Len(queue)
    BY <1>1, LenProperties
  <1>3. \A i \in 1..Len(queue) : content'[queue[i]].frags =
                                   content[queue[i]].frags
    BY <1>2 DEF Range
  <1>4. QED
    BY <1>2, <1>3 DEF Frames, FragmentsOf

(* A buffer that is queued adds the frame in it.                            *)
LEMMA FramesAppend ==
  ASSUME TypeOK, TypeOK', NEW b \in Buffers, queue' = Append(queue, b),
         \A c \in Range(queue) : content'[c].frags = content[c].frags
  PROVE  Frames' = Append(Frames, content'[b].frags)
  <1>1. /\ Frames \in Seq(Seq(Nat)) /\ Len(Frames) = Len(queue)
        /\ \A i \in 1..Len(queue) : Frames[i] = content[queue[i]].frags
    BY FramesTyped
  <1>2. /\ Frames' \in Seq(Seq(Nat)) /\ Len(Frames') = Len(queue')
        /\ \A i \in 1..Len(queue') : Frames'[i] = content'[queue'[i]].frags
    <2>1. (TypeOK => /\ Frames \in Seq(Seq(Nat))
                     /\ Len(Frames) = Len(queue)
                     /\ \A i \in 1..Len(queue) :
                          Frames[i] = content[queue[i]].frags)'
      BY FramesTyped, PTL
    <2>2. QED
      BY <2>1
  <1>3. queue \in Seq(Buffers) /\ Len(queue) \in Nat
        /\ DOMAIN queue = 1..Len(queue)
    BY LenProperties DEF TypeOK
  <1>4. /\ Len(queue') = Len(queue) + 1
        /\ \A i \in 1..Len(queue) : queue'[i] = queue[i]
        /\ queue'[Len(queue) + 1] = b
    BY <1>3
  <1>5. content'[b].frags \in Seq(Nat)
    BY DEF TypeOK, Contents
  <1>6. PICK t : t = Append(Frames, content'[b].frags)
    OBVIOUS
  <1>7. /\ t \in Seq(Seq(Nat))
        /\ Len(t) = Len(queue) + 1
        /\ \A i \in 1..Len(queue) : t[i] = Frames[i]
        /\ t[Len(queue) + 1] = content'[b].frags
    BY <1>1, <1>5, <1>6
  <1>8. ASSUME NEW i \in 1..(Len(queue) + 1)
        PROVE  Frames'[i] = t[i]
    <2>1. CASE i \in 1..Len(queue)
      <3>1. queue[i] \in Range(queue)
        BY <1>3, <2>1 DEF Range
      <3>2. queue'[i] = queue[i] /\ content'[queue[i]].frags = content[queue[i]].frags
        BY <1>4, <2>1, <3>1
      <3>3. Frames'[i] = content'[queue'[i]].frags
        BY <1>2, <1>3, <1>4, <2>1
      <3>4. t[i] = content[queue[i]].frags
        BY <1>1, <1>7, <2>1
      <3>5. QED
        BY <3>2, <3>3, <3>4
    <2>2. CASE i = Len(queue) + 1
      <3>1. Len(queue') = i /\ i \in 1..Len(queue')
        BY <1>3, <1>4, <2>2
      <3>2. Frames'[i] = content'[queue'[i]].frags
        BY <1>2, <3>1
      <3>3. queue'[i] = b /\ t[i] = content'[b].frags
        BY <1>4, <1>7, <2>2
      <3>4. QED
        BY <3>2, <3>3
    <2>3. QED
      BY <1>3, <2>1, <2>2
  <1>9. Frames' = t
    BY <1>2, <1>4, <1>7, <1>8, SeqEqual
  <1>10. QED
    BY <1>6, <1>9

(* Removing the first buffer removes the first frame.                       *)
LEMMA FramesTail ==
  ASSUME TypeOK, TypeOK', queue # <<>>, queue' = Tail(queue),
         content' = content
  PROVE  /\ Frames # <<>>
         /\ Head(Frames) = content[Head(queue)].frags
         /\ Frames' = Tail(Frames)
  <1>1. /\ Frames \in Seq(Seq(Nat)) /\ Len(Frames) = Len(queue)
        /\ \A i \in 1..Len(queue) : Frames[i] = content[queue[i]].frags
    BY FramesTyped
  <1>2. /\ Frames' \in Seq(Seq(Nat)) /\ Len(Frames') = Len(queue')
        /\ \A i \in 1..Len(queue') : Frames'[i] = content[queue'[i]].frags
    <2>1. (TypeOK => /\ Frames \in Seq(Seq(Nat))
                     /\ Len(Frames) = Len(queue)
                     /\ \A i \in 1..Len(queue) :
                          Frames[i] = content[queue[i]].frags)'
      BY FramesTyped, PTL
    <2>2. QED
      BY <2>1
  <1>3. queue \in Seq(Buffers) /\ Len(queue) \in Nat \ {0}
    BY EmptySeq DEF TypeOK
  <1>4. /\ Len(queue') = Len(queue) - 1
        /\ \A i \in 1..(Len(queue) - 1) : queue'[i] = queue[i + 1]
        /\ Head(queue) = queue[1]
    BY <1>3, HeadTailProperties
  <1>5. Frames # <<>>
    BY <1>1, <1>3, EmptySeq
  <1>6. Head(Frames) = Frames[1] /\ 1 \in 1..Len(queue)
    BY <1>1, <1>3, <1>5
  <1>7. Head(Frames) = content[Head(queue)].frags
    BY <1>1, <1>4, <1>6
  <1>8. PICK t : t = Tail(Frames)
    OBVIOUS
  <1>9. /\ t \in Seq(Seq(Nat))
        /\ Len(t) = Len(queue) - 1
        /\ \A i \in 1..(Len(queue) - 1) : t[i] = Frames[i + 1]
    BY <1>1, <1>5, <1>8, HeadTailProperties
  <1>10. ASSUME NEW i \in 1..(Len(queue) - 1)
         PROVE  Frames'[i] = t[i]
    <2>1. i + 1 \in 1..Len(queue)
      BY <1>3
    <2>2. Frames'[i] = content[queue[i + 1]].frags
      BY <1>2, <1>4
    <2>3. t[i] = content[queue[i + 1]].frags
      BY <1>1, <1>9, <2>1
    <2>4. QED
      BY <2>2, <2>3
  <1>11. Frames' = t
    BY <1>2, <1>4, <1>9, <1>10, SeqEqual
  <1>12. QED
    BY <1>5, <1>7, <1>8, <1>11
-----------------------------------------------------------------------------
(* The steps of WriteBack *)

(* What a fragment is appended to.                                          *)
LEMMA AppendFragmentFrames ==
  ASSUME FifoInv, TypeOK', NEW f \in Fragments, AppendFragment(f)
  PROVE  /\ Fifo!Extend \/ Fifo!Complete
         /\ Filled'
  <1> DEFINE b == pending[1]
             whole == Append(Partial, written')
  <1>1. /\ pending # <<>> /\ Delivered
        /\ content' = [content EXCEPT ![b] = Appended(b, f)]
        /\ reader' = reader
    BY DEF AppendFragment
  <1>2. /\ TypeOK
        /\ b \in Buffers /\ Range(pending) = {b} /\ b \notin Range(queue)
    BY <1>1, PendingIsOne DEF FifoInv, QueueInv
  <1>3. /\ content \in [Buffers -> Contents]
        /\ queue \in Seq(Buffers) /\ Range(queue) \subseteq Buffers
    BY <1>2, RangeOfSeq DEF TypeOK
  <1>4. Partial = content[b].frags /\ Partial \in Seq(Nat)
    BY <1>1, <1>2, <1>3 DEF Partial, Contents
  <1>5. /\ content'[b].frags = whole
        /\ \A c \in Buffers \ {b} : content'[c] = content[c]
    BY <1>1, <1>2, <1>3, <1>4 DEF Appended
  <1>6. written' \in Nat /\ written' = written + 1
    BY <1>1, <1>2, DeliveredTyped DEF Delivered
  <1>7. whole # <<>>
    <2>1. \A s \in Seq(Nat), n \in Nat : Append(s, n) # <<>>
      BY AppendList
    <2>2. QED
      BY <1>4, <1>6, <2>1
  <1>8. \A c \in Range(queue) : content'[c].frags = content[c].frags
    BY <1>2, <1>3, <1>5
  <1>9. \A c \in Range(queue) : content'[c].frags # <<>>
    BY <1>8 DEF FifoInv, Filled
  <1>10. CASE ~f.end
    <2>1. queue' = queue /\ pending' = pending
      BY <1>10 DEF AppendFragment
    <2>2. Frames' = Frames
      BY <1>2, <1>8, <2>1, FramesSame
    <2>3. Partial' = whole
      BY <1>1, <1>5, <2>1 DEF Partial
    <2>4. Fifo!Extend
      BY <1>1, <1>6, <2>2, <2>3 DEF Fifo!Extend, Frames, Partial
    <2>5. Filled'
      BY <1>2, <1>5, <1>7, <1>9, <2>1 DEF Filled
    <2>6. QED
      BY <2>4, <2>5
  <1>11. CASE f.end
    <2>1. queue' = Append(queue, b) /\ pending' = <<>>
      BY <1>11 DEF AppendFragment
    <2>2. Frames' = Append(Frames, whole)
      BY <1>2, <1>5, <1>8, <2>1, FramesAppend
    <2>3. Partial' = <<>>
      BY <2>1 DEF Partial
    <2>4. Fifo!Complete
      BY <1>1, <1>6, <2>2, <2>3 DEF Fifo!Complete, Frames, Partial
    <2>5. Range(queue') = Range(queue) \cup {b} /\ Range(pending') = {}
      BY <1>2, <1>3, <2>1, AppendList, ShortLists
    <2>6. Filled'
      BY <1>5, <1>7, <1>9, <2>5 DEF Filled
    <2>7. QED
      BY <2>4, <2>6
  <1>12. QED
    BY <1>10, <1>11

(* A fragment that starts a frame, in a buffer that is not on the queue.    *)
LEMMA EnqueueFrames ==
  ASSUME FifoInv, TypeOK', NEW f \in Fragments, Delivered, pending = <<>>,
         NEW b \in Buffers, b \notin Range(queue), Enqueue(b, f),
         reader' = reader
  PROVE  /\ Fifo!Extend \/ Fifo!Complete
         /\ Filled'
  <1>1. content' = [content EXCEPT ![b] = Copied(f)]
    BY DEF Enqueue
  <1>2. /\ TypeOK
        /\ content \in [Buffers -> Contents]
        /\ queue \in Seq(Buffers) /\ Range(queue) \subseteq Buffers
    BY RangeOfSeq DEF FifoInv, QueueInv, TypeOK
  <1>3. /\ content'[b].frags = <<written'>>
        /\ \A c \in Buffers \ {b} : content'[c] = content[c]
    BY <1>1, <1>2 DEF Copied
  <1>4. Partial = <<>> /\ <<written'>> = Append(Partial, written')
    BY DEF Partial
  <1>5. written' = written + 1 /\ <<written'>> # <<>>
    BY DEF Delivered
  <1>6. \A c \in Range(queue) : content'[c].frags = content[c].frags
    BY <1>2, <1>3
  <1>7. \A c \in Range(queue) : content'[c].frags # <<>>
    BY <1>6 DEF FifoInv, Filled
  <1>8. CASE f.config
    <2>1. queue' = queue /\ pending' = <<b>>
      BY <1>8 DEF Enqueue
    <2>2. Frames' = Frames
      BY <1>2, <1>6, <2>1, FramesSame
    <2>3. Partial' = <<written'>>
      BY <1>3, <2>1 DEF Partial
    <2>4. Fifo!Extend
      BY <1>4, <1>5, <2>2, <2>3 DEF Fifo!Extend, Frames, Partial
    <2>5. Range(pending') = {b}
      BY <2>1, ShortLists
    <2>6. Filled'
      BY <1>3, <1>5, <1>7, <2>1, <2>5 DEF Filled
    <2>7. QED
      BY <2>4, <2>6
  <1>9. CASE ~f.config
    <2>1. queue' = Append(queue, b) /\ pending' = <<>>
      BY <1>9 DEF Enqueue
    <2>2. Frames' = Append(Frames, <<written'>>)
      BY <1>2, <1>3, <1>6, <2>1, FramesAppend
    <2>3. Partial' = <<>>
      BY <2>1 DEF Partial
    <2>4. Fifo!Complete
      BY <1>4, <1>5, <2>2, <2>3 DEF Fifo!Complete, Frames, Partial
    <2>5. Range(queue') = Range(queue) \cup {b} /\ Range(pending') = {}
      BY <1>2, <2>1, AppendList, ShortLists
    <2>6. Filled'
      BY <1>3, <1>5, <1>7, <2>5 DEF Filled
    <2>7. QED
      BY <2>4, <2>6
  <1>10. QED
    BY <1>8, <1>9

LEMMA WriteBackFrames ==
  ASSUME FifoInv, TypeOK', NEW f \in Fragments, WriteBack(f)
  PROVE  /\ Fifo!Next
         /\ Filled'
         /\ reader' = reader
  <1>1. Delivered /\ written' = written + 1
    BY DEF WriteBack, TooLarge, Overflow, AppendFragment, WriteTemporary,
           WriteFree, FreeListRunsOut, WriteDeleted, Delivered
  <1>2. reader' = reader
    BY DEF WriteBack, TooLarge, Overflow, AppendFragment, WriteTemporary,
           WriteFree, FreeListRunsOut, WriteDeleted
  <1>3. TypeOK /\ QueueInv
    BY DEF FifoInv, QueueInv
  <1>4. CASE TooLarge(f) \/ FreeListRunsOut(f) \/ WriteDeleted(f)
    <2>1. /\ queue' = queue /\ pending' = pending /\ content' = content
      BY <1>4 DEF TooLarge, FreeListRunsOut, WriteDeleted, buffers, lists
    <2>2. Frames' = Frames /\ Partial' = Partial
      BY <2>1 DEF Frames, FragmentsOf, Partial
    <2>3. Fifo!Refuse
      BY <1>1, <1>2, <2>2 DEF Fifo!Refuse, Frames, Partial
    <2>4. Filled'
      BY <2>1 DEF FifoInv, Filled
    <2>5. QED
      BY <1>2, <2>3, <2>4 DEF Fifo!Next
  <1>5. CASE Overflow(f)
    <2>1. /\ queue' = queue /\ pending' = <<>> /\ content' = content
      BY <1>5 DEF Overflow
    <2>2. Frames' = Frames /\ Partial' = <<>>
      BY <2>1 DEF Frames, FragmentsOf, Partial
    <2>3. Fifo!Refuse
      BY <1>1, <1>2, <2>2 DEF Fifo!Refuse, Frames, Partial
    <2>4. Filled'
      BY <2>1, ShortLists DEF FifoInv, Filled
    <2>5. QED
      BY <1>2, <2>3, <2>4 DEF Fifo!Next
  <1>6. CASE AppendFragment(f)
    BY <1>2, <1>6, AppendFragmentFrames DEF Fifo!Next
  <1>7. CASE WriteTemporary(f)
    <2>1. PICK b \in Buffers \ Live : Enqueue(b, f)
      BY <1>7 DEF WriteTemporary, Unused
    <2>2. b \notin Range(queue) /\ pending = <<>>
      BY <1>7, <2>1 DEF Live, WriteTemporary
    <2>3. QED
      BY <1>1, <1>2, <2>1, <2>2, EnqueueFrames DEF Fifo!Next
  <1>8. CASE WriteFree(f)
    <2>1. PICK i \in DOMAIN free : Enqueue(free[i], f)
      BY <1>8 DEF WriteFree
    <2>2. free[i] \in Buffers /\ free[i] \in Range(free)
      BY <1>3, <2>1, FreeBuffer
    <2>3. free[i] \notin Range(queue) /\ pending = <<>>
      BY <1>3, <1>8, <2>2 DEF QueueInv, NoDuplicates, WriteFree
    <2>4. QED
      BY <1>1, <1>2, <2>1, <2>2, <2>3, EnqueueFrames DEF Fifo!Next
  <1>9. QED
    BY <1>4, <1>5, <1>6, <1>7, <1>8 DEF WriteBack

-----------------------------------------------------------------------------
(* The other steps *)

LEMMA TakeFrames ==
  ASSUME FifoInv, TypeOK', Take
  PROVE  Fifo!Next /\ Filled' /\ ReaderHasFrame'
  <1>1. /\ TypeOK /\ pending' = pending /\ content' = content
        /\ written' = written
        /\ queue # <<>> /\ queue' = Tail(queue)
        /\ reader' = [pc |-> "reading", buffer |-> Head(queue),
                      frags |-> content[Head(queue)].frags]
    BY DEF FifoInv, QueueInv, Take
  <1>2. Partial' = Partial
    BY <1>1 DEF Partial
  <1>3. reader.frags = <<>>
    BY DEF Take, ReaderAt, FifoInv, ReaderHasFrame
  <1>4. /\ Frames # <<>>
        /\ Head(Frames) = content[Head(queue)].frags
        /\ Frames' = Tail(Frames)
    BY <1>1, FramesTail
  <1>5. Fifo!Read
    BY <1>1, <1>2, <1>3, <1>4 DEF Fifo!Read, Frames, Partial
  <1>6. queue \in Seq(Buffers)
    BY <1>1 DEF TypeOK
  <1>7. Range(queue) = Range(queue') \cup {Head(queue)}
    BY <1>1, <1>6, TailList
  <1>8. Filled'
    BY <1>1, <1>7 DEF FifoInv, Filled
  <1>9. content[Head(queue)].frags # <<>>
    BY <1>7 DEF FifoInv, Filled
  <1>10. ReaderHasFrame'
    BY <1>1, <1>9 DEF ReaderHasFrame
  <1>11. QED
    BY <1>5, <1>8, <1>10 DEF Fifo!Next

(* Init gives up the frame that is being put together with its first loop   *)
(* and the queued ones with its last.                                       *)
LEMMA FlushFrames ==
  ASSUME FifoInv, TypeOK', Destroy \/ ClearQueue
  PROVE  Fifo!Next /\ Filled' /\ ReaderHasFrame'
  <1>1. content' = content /\ written' = written /\ reader' = reader
    BY DEF Destroy, ClearQueue
  <1>2. /\ queue' = queue \/ queue' = <<>>
        /\ pending' = pending \/ pending' = <<>>
    BY DEF Destroy, ClearQueue
  <1>3. Frames' = Frames \/ Frames' = <<>>
    <2>1. CASE queue' = queue
      BY <1>1, <2>1 DEF Frames, FragmentsOf
    <2>2. CASE queue' = <<>>
      <3>1. DOMAIN queue' = {}
        BY <2>2
      <3>2. Frames' = [i \in {} |-> content'[queue'[i]].frags]
        BY <3>1 DEF Frames, FragmentsOf
      <3>3. QED
        BY <3>2
    <2>3. QED
      BY <1>2, <2>1, <2>2
  <1>4. Partial' = Partial \/ Partial' = <<>>
    BY <1>1, <1>2 DEF Partial
  <1>5. Fifo!Flush
    BY <1>1, <1>3, <1>4 DEF Fifo!Flush, Frames, Partial
  <1>6. Filled' /\ ReaderHasFrame'
    BY <1>1, <1>2, ShortLists DEF FifoInv, Filled, ReaderHasFrame
  <1>7. QED
    BY <1>5, <1>6 DEF Fifo!Next

LEMMA StepFrames ==
  ASSUME FifoInv, TypeOK', [Next]_vars
  PROVE  /\ Fifo!Next \/ UNCHANGED Fifo!fifoVars
         /\ Filled' /\ ReaderHasFrame'
  <1>1. ASSUME NEW f \in Fragments, WriteBack(f)
        PROVE  /\ Fifo!Next
               /\ Filled' /\ ReaderHasFrame'
    BY <1>1, WriteBackFrames DEF FifoInv, ReaderHasFrame
  <1>2. ASSUME UNCHANGED <<queue, pending, content, written>>
        PROVE  Filled' /\ Frames' = Frames /\ Partial' = Partial
    BY <1>2 DEF FifoInv, Filled, Frames, FragmentsOf, Partial
  <1>3. CASE Poll \/ Woken \/ TimedOut \/ Recheck
    <2>1. UNCHANGED <<queue, pending, content, written>>
      BY <1>3 DEF Poll, Woken, TimedOut, Recheck, buffers, lists
    <2>2. reader.pc # "reading"
      BY <1>3 DEF Poll, Woken, TimedOut, Recheck, ReaderAt
    <2>3. PICK pc \in {"idle", "wait", "recheck", "take"} : ReaderGoto(pc)
      BY <1>3 DEF Poll, Woken, TimedOut, Recheck
    <2>4. reader'.pc # "reading" /\ reader'.frags = reader.frags
      BY <2>3, ReaderMoves DEF FifoInv, QueueInv
    <2>5. UNCHANGED Fifo!fifoVars
      BY <1>2, <2>1, <2>4 DEF Fifo!fifoVars, Frames, Partial
    <2>6. ReaderHasFrame'
      BY <2>2, <2>4 DEF FifoInv, ReaderHasFrame
    <2>7. QED
      BY <1>2, <2>1, <2>5, <2>6
  <1>4. CASE Take
    BY <1>4, TakeFrames
  <1>5. CASE Release
    <2>1. UNCHANGED <<queue, pending, content, written>>
      BY <1>5 DEF Release, buffers, lists
    <2>2. reader.frags # <<>>
      BY <1>5 DEF Release, ReaderAt, FifoInv, ReaderHasFrame
    <2>3. reader'.pc = "idle" /\ reader'.frags = <<>>
      BY <1>5 DEF Release, IdleReader
    <2>4. Fifo!Release
      BY <1>2, <2>1, <2>2, <2>3 DEF Fifo!Release, Frames, Partial
    <2>5. QED
      BY <1>2, <2>1, <2>3, <2>4 DEF Fifo!Next, ReaderHasFrame
  <1>6. CASE Destroy \/ ClearQueue
    BY <1>6, FlushFrames
  <1>7. CASE \/ TakeFails \/ UseDeleted
             \/ DeleteFree \/ ClearFree \/ DeleteQueue \/ Refill
             \/ UNCHANGED vars
    <2>1. UNCHANGED <<queue, pending, content, written, reader>>
      BY <1>7 DEF TakeFails, UseDeleted, DeleteFree, ClearFree, DeleteQueue,
                  Refill, vars, buffers, lists
    <2>2. UNCHANGED Fifo!fifoVars
      BY <1>2, <2>1 DEF Fifo!fifoVars, Frames, Partial
    <2>3. QED
      BY <1>2, <2>1, <2>2 DEF FifoInv, ReaderHasFrame
  <1>8. QED
    BY <1>1, <1>3, <1>4, <1>5, <1>6, <1>7 DEF Next, ReaderStep, InitStep

-----------------------------------------------------------------------------
(* Refinement *)

LEMMA InitFrames == Init => Fifo!Init /\ Filled /\ ReaderHasFrame
  <1> SUFFICES ASSUME Init PROVE Fifo!Init /\ Filled /\ ReaderHasFrame
    OBVIOUS
  <1>1. queue = <<>> /\ pending = <<>> /\ written = 0 /\ reader = IdleReader
    BY DEF Init
  <1>2. FragmentsOf(queue) = <<>>
    BY <1>1 DEF FragmentsOf
  <1>3. Fifo!Init
    BY <1>1, <1>2 DEF Fifo!Init, IdleReader
  <1>4. Filled /\ ReaderHasFrame
    BY <1>1, ShortLists DEF Filled, ReaderHasFrame, IdleReader
  <1>5. QED
    BY <1>3, <1>4

(* FrameQueue implements FrameFifo: whatever buffers it has and however its *)
(* reader, writer and the loops of Init interleave, fragments are neither   *)
(* lost, nor repeated, nor reordered, but for the ones it refuses, gives up *)
(* or flushes.  After a fault (a race with Init, a deleted buffer) nothing  *)
(* happens any more.                                                        *)
THEOREM QueueImplementsFifo == Spec => ImplementsFifo
  <1>1. Init => FifoInv /\ Fifo!Init
    BY InitFrames, InitQueueInv DEF FifoInv
  <1>2. FifoInv /\ [Next]_vars => FifoInv'
    <2>1. FifoInv /\ [Next]_vars => QueueInv' /\ TypeOK'
      BY StepQueueInv DEF FifoInv, QueueInv
    <2>2. QED
      BY <2>1, StepFrames DEF FifoInv
  <1>3. FifoInv /\ [Next]_vars => [Fifo!Next]_(Fifo!fifoVars)
    <2>1. FifoInv /\ [Next]_vars => TypeOK'
      BY StepTypeOK DEF FifoInv, QueueInv
    <2>2. QED
      BY <2>1, StepFrames
  <1>4. QED
    BY <1>1, <1>2, <1>3, PTL DEF Spec, Fifo!Spec, ImplementsFifo
=============================================================================
