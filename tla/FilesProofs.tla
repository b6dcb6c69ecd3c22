------------------------------ MODULE FilesProofs ------------------------------
(***************************************************************************)
(* Theorems about the parts that keep data in files, each on its own: the  *)
(* buffer between the frames and the video file, for any sizes of array,   *)
(* frames and chunks, the directory of the recordings, for any limit and   *)
(* any number of recordings and tasks, the log, for any number and size of *)
(* files, any crashes and any failures of a rename, and the configuration, *)
(* for any rows that change together.                                      *)
(***************************************************************************)
EXTENDS WriterBuffer, MotionDirectory, LogRotation, MediaConfig,
        FiniteSetTheorems, SequenceTheorems, WellFoundedInduction, TLAPS

-----------------------------------------------------------------------------
(* WriterBuffer: the bytes that wait for the writer are intact, in order.   *)

BufferInv == BufferTypeOK /\ BufferHoldsRest

LEMMA QuarterType == \A n \in Nat : Quarter(n) \in Nat
  BY DEF Quarter

LEMMA SizesType ==
  /\ FirstSize \in Nat \ {0} /\ Chunk \in Nat \ {0}
  /\ MaxSize \in Nat /\ FirstSize <= MaxSize
  /\ FrameSizes \subseteq Nat \ {0}
  BY WriterBufferAssumption

LEMMA BufferInitInv == BufferInit => BufferInv
PROOF
  <1> SUFFICES ASSUME BufferInit PROVE BufferInv
    OBVIOUS
  <1>1. size \in FirstSize..MaxSize /\ first \in 0..end /\ end \in 0..size
    BY SizesType DEF BufferInit
  <1>2. memory \in [Offsets -> Nat] /\ taken \in Nat
    BY DEF BufferInit
  <1>3. large \in BOOLEAN /\ overrun \in BOOLEAN /\ (overrun => large)
    BY DEF BufferInit
  <1>4. \A k \in first..(end - 1) : memory[k] = taken + (k - first) + 1
    BY DEF BufferInit
  <1> QED
    BY <1>1, <1>2, <1>3, <1>4 DEF BufferInv, BufferTypeOK, BufferHoldsRest

(* Growing the array moves nothing between the offsets.                     *)
LEMMA CopiedKeeps ==
  ASSUME BufferTypeOK
  PROVE  /\ Copied \in [Offsets -> Nat]
         /\ \A k \in Offsets : k \in first..(end - 1) => Copied[k] = memory[k]
  BY DEF BufferTypeOK, Copied

LEMMA WriteBackInv ==
  ASSUME BufferInv, NEW n \in FrameSizes, WriteBack(n)
  PROVE  BufferInv'
PROOF
  <1> DEFINE grows == end + n > size
             room == IF grows THEN size + Quarter(size) ELSE size
             old == IF grows THEN Copied ELSE memory
  <1>1. /\ n \in Nat \ {0} /\ size \in Nat /\ size >= FirstSize
        /\ FirstSize \in Nat /\ MaxSize \in Nat /\ Quarter(size) \in Nat
    BY SizesType, QuarterType DEF BufferInv, BufferTypeOK
  <1>2. /\ ~overrun /\ room <= MaxSize /\ size' = room
        /\ large' = (large \/ n > Quarter(size))
        /\ first' = first /\ taken' = taken
    BY DEF WriteBack
  <1>3. room \in FirstSize..MaxSize /\ size <= room
    BY <1>1, <1>2
  <1>4. /\ old \in [Offsets -> Nat]
        /\ \A k \in Offsets : k \in first..(end - 1) => old[k] = memory[k]
    BY CopiedKeeps DEF BufferInv, BufferTypeOK
  <1>5. CASE end + n > room
    <2>1. overrun' = TRUE /\ memory' = memory /\ end' = end
      BY <1>5 DEF WriteBack
    <2>2. n > Quarter(size)
      BY <1>1, <1>5 DEF BufferInv, BufferTypeOK
    <2>3. large' = TRUE
      BY <1>2, <2>2
    <2>4. end' \in 0..size' /\ first' \in 0..end'
      BY <1>1, <1>2, <1>3, <2>1 DEF BufferInv, BufferTypeOK
    <2>5. BufferTypeOK'
      BY <1>2, <1>3, <2>1, <2>3, <2>4 DEF BufferInv, BufferTypeOK, Offsets
    <2> QED
      BY <2>1, <2>3, <2>5 DEF BufferInv, BufferHoldsRest
  <1>6. CASE ~(end + n > room)
    <2>1. /\ memory' = [k \in Offsets |->
                          IF k \in end..(end + n - 1) THEN taken + (k - first) + 1
                          ELSE old[k]]
          /\ end' = end + n /\ overrun' = overrun
      BY <1>6 DEF WriteBack
    <2>2. /\ first \in Nat /\ end \in Nat /\ first <= end /\ taken \in Nat
          /\ end + n <= MaxSize
      BY <1>1, <1>3, <1>6 DEF BufferInv, BufferTypeOK
    <2>3. memory' \in [Offsets -> Nat]
      BY <1>1, <1>4, <2>1, <2>2 DEF Offsets
    <2>4. ASSUME NEW k \in first..(end + n - 1)
          PROVE  memory'[k] = taken + (k - first) + 1
      <3>1. k \in Offsets
        BY <1>1, <2>2 DEF Offsets
      <3>2. CASE k \in end..(end + n - 1)
        BY <2>1, <3>1, <3>2
      <3>3. CASE k \in first..(end - 1)
        BY <1>2, <1>4, <2>1, <2>2, <3>1, <3>3 DEF BufferInv, BufferHoldsRest
      <3> QED
        BY <1>1, <2>2, <3>2, <3>3
    <2>5. BufferTypeOK'
      BY <1>1, <1>2, <1>3, <1>6, <2>1, <2>2, <2>3 DEF BufferInv, BufferTypeOK
    <2>6. ~overrun'
      BY <1>2, <2>1
    <2>7. \A k \in first'..(end' - 1) : memory'[k] = taken' + (k - first') + 1
      <3>1. first' = first /\ taken' = taken /\ end' = end + n
        BY <1>2, <2>1
      <3> QED
        BY <1>1, <2>2, <2>4, <3>1
    <2>8. BufferHoldsRest'
      BY <2>6, <2>7 DEF BufferHoldsRest
    <2> QED
      BY <2>5, <2>8 DEF BufferInv
  <1> QED
    BY <1>5, <1>6

LEMMA EmptiedInv ==
  ASSUME BufferInv, Emptied, UNCHANGED <<size, memory, large, overrun>>
  PROVE  BufferInv'
PROOF
  <1>1. BufferTypeOK'
    BY SizesType DEF BufferInv, BufferTypeOK, Emptied, Offsets
  <1>2. BufferHoldsRest'
    BY DEF BufferInv, BufferHoldsRest, Emptied
  <1> QED
    BY <1>1, <1>2 DEF BufferInv

LEMMA ReadFrontInv ==
  ASSUME BufferInv, ReadFront
  PROVE  BufferInv'
PROOF
  <1>1. CASE end - first > Chunk
    <2>1. /\ first' = first + Chunk /\ taken' = taken + Chunk /\ end' = end
          /\ UNCHANGED <<size, memory, large, overrun>> /\ ~overrun
      BY <1>1 DEF ReadFront
    <2>2. /\ Chunk \in Nat /\ first \in Nat /\ end \in Nat /\ taken \in Nat
          /\ size \in Nat
      BY SizesType DEF BufferInv, BufferTypeOK
    <2>3. BufferTypeOK'
      BY <1>1, <2>1, <2>2 DEF BufferInv, BufferTypeOK, Offsets
    <2>4. BufferHoldsRest'
      BY <2>1, <2>2 DEF BufferInv, BufferHoldsRest
    <2> QED
      BY <2>3, <2>4 DEF BufferInv
  <1>2. CASE ~(end - first > Chunk)
    BY <1>2, EmptiedInv DEF ReadFront
  <1> QED
    BY <1>1, <1>2

LEMMA BufferInvariant == BufferSpec => []BufferInv
PROOF
  <1>1. BufferInv /\ [BufferNext]_bufferVars => BufferInv'
    <2> SUFFICES ASSUME BufferInv, [BufferNext]_bufferVars
                 PROVE  BufferInv'
      OBVIOUS
    <2>1. CASE ReadFront
      BY <2>1, ReadFrontInv
    <2>2. CASE Clear
      BY <2>2, EmptiedInv DEF Clear
    <2>3. ASSUME NEW n \in FrameSizes, WriteBack(n)
          PROVE  BufferInv'
      BY <2>3, WriteBackInv
    <2>4. CASE UNCHANGED bufferVars
      BY <2>4 DEF bufferVars, BufferInv, BufferTypeOK, BufferHoldsRest, Offsets
    <2> QED
      BY <2>1, <2>2, <2>3, <2>4 DEF BufferNext
  <1> QED
    BY <1>1, BufferInitInv, PTL DEF BufferSpec

(* The offsets stay in order and within the array, which never shrinks      *)
(* below its first size (FileWriterBuffer::WriteBack, ReadFront, clear).    *)
THEOREM BufferTypeCorrect == BufferSpec => []BufferTypeOK
PROOF
  <1>1. BufferInv => BufferTypeOK
    BY DEF BufferInv
  <1> QED
    BY <1>1, BufferInvariant, PTL

(* The bytes that were not taken yet lie between the offsets, in order,     *)
(* however often the array grew; only a frame larger than a quarter of the  *)
(* array can miss it (FileWriterBuffer::WriteBack, Resize, ReadFront).      *)
THEOREM BufferRestHeld == BufferSpec => []BufferHoldsRest
PROOF
  <1>1. BufferInv => BufferHoldsRest
    BY DEF BufferInv
  <1> QED
    BY <1>1, BufferInvariant, PTL

-----------------------------------------------------------------------------
(* MotionDirectory: the total size of a finite set of entries.  FoldSet is  *)
(* a recursive function on the subsets; that it exists, is unique and does  *)
(* not depend on the order is shown by induction on the size of the subset. *)

LEMMA LeastNatural ==
  ASSUME NEW T, T \subseteq Nat, T # {}
  PROVE  \E n \in T : \A m \in T : n <= m
<1> DEFINE R == {ij \in Nat \X Nat : ij[1] < ij[2]}
<1>1. IsWellFoundedOn(R, Nat)
  BY NatLessThanWellFounded DEF OpToRel
<1>2. PICK x \in T : \A y \in T : <<y, x>> \notin R
  <2> HIDE DEF R
  <2> QED BY <1>1, WFMin
<1>3. ASSUME NEW y \in T PROVE x <= y
  <2>1. /\ <<y, x>> \notin R /\ <<y, x>> \in Nat \X Nat
        /\ y \in Nat /\ x \in Nat
    BY <1>2
  <2>2. ~(y < x)
    BY <2>1
  <2> QED BY <2>1, <2>2
<1> QED BY <1>3

LEMMA CardinalityLess ==
  ASSUME NEW S, IsFiniteSet(S), NEW x \in S
  PROVE  /\ IsFiniteSet(S \ {x}) /\ Cardinality(S) \in Nat
         /\ Cardinality(S \ {x}) = Cardinality(S) - 1
BY FS_RemoveElement, FS_CardinalityType

(* Induction over the subsets of a finite set.                              *)
LEMMA SubsetInduction ==
  ASSUME NEW S, IsFiniteSet(S), NEW B, {} \in B,
         \A s \in SUBSET S : s # {} /\ (\A x \in s : s \ {x} \in B) => s \in B
  PROVE  SUBSET S \subseteq B
<1> SUFFICES ASSUME ~(SUBSET S \subseteq B) PROVE FALSE
  OBVIOUS
<1>1. \A s \in SUBSET S : IsFiniteSet(s) /\ Cardinality(s) \in Nat
  BY FS_Subset, FS_CardinalityType
<1> DEFINE Bad == {s \in SUBSET S : s \notin B}
           Sizes == {Cardinality(s) : s \in Bad}
<1>2. Sizes \subseteq Nat /\ Sizes # {}
  BY <1>1
<1>3. PICK n \in Sizes : \A m \in Sizes : n <= m
  <2> HIDE DEF Sizes
  <2> QED BY <1>2, LeastNatural
<1>4. PICK s \in Bad : n = Cardinality(s)
  OBVIOUS
<1>5. ASSUME NEW x \in s PROVE s \ {x} \in B
  <2>1. IsFiniteSet(s) /\ Cardinality(s) \in Nat
    BY <1>1
  <2>2. Cardinality(s \ {x}) = Cardinality(s) - 1
    BY <2>1, CardinalityLess
  <2>3. s \ {x} \in Bad => Cardinality(s \ {x}) \in Sizes
    OBVIOUS
  <2>4. s \ {x} \in Bad => Cardinality(s) <= Cardinality(s) - 1
    BY <1>3, <1>4, <2>2, <2>3
  <2>5. s \ {x} \notin Bad
    BY <2>1, <2>4
  <2> QED BY <2>5
<1> QED BY <1>4, <1>5

Sized(S) == IsFiniteSet(S) /\ \A x \in S : x.size \in Nat

(* FoldSet takes the elements in this order.                                *)
Pick(s) == CHOOSE x \in s : TRUE
Sum(f, s) == IF s = {} THEN 0 ELSE f[s \ {Pick(s)}] + Pick(s).size
SumOn(f, S) == f = [s \in SUBSET S |-> Sum(f, s)]
Sums(S) == CHOOSE f : SumOn(f, S)

LEMMA TotalUnfolds ==
  ASSUME NEW S
  PROVE  Total(S) = Sums(S)[S]
BY DEF Total, FoldSet, MapThenFoldSet, Sums, SumOn, Sum, Pick

LEMMA PickIs == ASSUME NEW s, s # {} PROVE Pick(s) \in s
BY DEF Pick

Small(S, n) == {s \in SUBSET S : Cardinality(s) <= n}

(* The function up to a size of the subset is the one for the next size.    *)
LEMMA SumsUpTo ==
  ASSUME NEW S, Sized(S), NEW n \in Nat
  PROVE  \E f \in [Small(S, n) -> Nat] : \A s \in Small(S, n) : f[s] = Sum(f, s)
<1> DEFINE Has(m) == \E f \in [Small(S, m) -> Nat] :
                       \A s \in Small(S, m) : f[s] = Sum(f, s)
           T == {m \in Nat : ~Has(m)}
<1> SUFFICES ASSUME T # {} PROVE FALSE
  OBVIOUS
<1>0. \A s \in SUBSET S : IsFiniteSet(s) /\ Cardinality(s) \in Nat
  BY FS_Subset, FS_CardinalityType DEF Sized
<1>1. PICK m \in T : \A k \in T : m <= k
  <2>1. T \subseteq Nat
    OBVIOUS
  <2> HIDE DEF T
  <2> QED BY <2>1, LeastNatural
<1>2. m # 0
  <2> SUFFICES ASSUME m = 0 PROVE Has(0)
    BY <1>1
  <2>1. \A s \in Small(S, 0) : s = {}
    BY <1>0, FS_EmptySet DEF Small
  <2> DEFINE f == [s \in Small(S, 0) |-> 0]
  <2>2. f \in [Small(S, 0) -> Nat] /\ \A s \in Small(S, 0) : f[s] = Sum(f, s)
    BY <2>1 DEF Sum
  <2> QED BY <2>2
<1>3. m - 1 \in Nat /\ m \in Nat /\ ~(m <= m - 1)
  BY <1>1, <1>2
<1>4. Has(m - 1)
  BY <1>1, <1>3
<1>5. PICK f \in [Small(S, m - 1) -> Nat] : \A s \in Small(S, m - 1) : f[s] = Sum(f, s)
  BY <1>4
<1> DEFINE h == [s \in Small(S, m) |-> Sum(f, s)]
<1>6. ASSUME NEW s \in Small(S, m), s # {}
      PROVE  s \ {Pick(s)} \in Small(S, m - 1) /\ Pick(s).size \in Nat
  <2>1. s \in SUBSET S /\ Cardinality(s) <= m /\ Pick(s) \in s /\ Cardinality(s) \in Nat
    BY <1>0, <1>6, PickIs DEF Small
  <2>2. Cardinality(s \ {Pick(s)}) = Cardinality(s) - 1
    BY <1>0, <2>1, CardinalityLess
  <2>3. Cardinality(s \ {Pick(s)}) <= m - 1
    BY <1>3, <2>1, <2>2
  <2> QED BY <2>1, <2>3 DEF Small, Sized
<1>7. h \in [Small(S, m) -> Nat]
  <2> SUFFICES ASSUME NEW s \in Small(S, m) PROVE Sum(f, s) \in Nat
    OBVIOUS
  <2>1. CASE s = {}
    BY <2>1 DEF Sum
  <2>2. CASE s # {}
    <3>1. f[s \ {Pick(s)}] \in Nat /\ Pick(s).size \in Nat
      BY <1>6, <2>2
    <3> QED BY <2>2, <3>1 DEF Sum
  <2> QED BY <2>1, <2>2
<1>8. ASSUME NEW s \in Small(S, m) PROVE h[s] = Sum(h, s)
  <2>1. CASE s = {}
    BY <2>1 DEF Sum
  <2>2. CASE s # {}
    <3> DEFINE t == s \ {Pick(s)}
    <3>1. t \in Small(S, m - 1)
      BY <1>6, <2>2
    <3>2. t \in Small(S, m)
      BY <1>0, <1>3, <3>1 DEF Small
    <3>3. h[t] = f[t]
      BY <1>5, <3>1, <3>2
    <3> QED BY <2>2, <3>3 DEF Sum
  <2> QED BY <2>1, <2>2
<1>9. Has(m)
  <2> HIDE DEF h
  <2> QED BY <1>7, <1>8
<1> QED BY <1>1, <1>9

LEMMA SumsIs ==
  ASSUME NEW S, Sized(S)
  PROVE  \A s \in SUBSET S : Sums(S)[s] = Sum(Sums(S), s)
<1> DEFINE n == Cardinality(S)
<1>1. n \in Nat /\ SUBSET S = Small(S, n)
  BY FS_Subset, FS_CardinalityType DEF Sized, Small
<1>2. PICK f \in [SUBSET S -> Nat] : \A s \in SUBSET S : f[s] = Sum(f, s)
  <2> HIDE DEF n
  <2>1. \E f \in [Small(S, n) -> Nat] : \A s \in Small(S, n) : f[s] = Sum(f, s)
    BY <1>1, SumsUpTo, Zenon
  <2> QED BY <1>1, <2>1
<1>3. SumOn(f, S)
  BY <1>2 DEF SumOn
<1>4. SumOn(Sums(S), S)
  BY <1>3 DEF Sums
<1> DEFINE h == Sums(S)
<1> HIDE DEF h
<1>5. h = [s \in SUBSET S |-> Sum(h, s)]
  BY <1>4 DEF SumOn, h
<1>6. \A s \in SUBSET S : h[s] = Sum(h, s)
  BY <1>5
<1> QED BY <1>6 DEF h

(* The sums of a subset are those of the set.                               *)
LEMMA SumsOfSubset ==
  ASSUME NEW S, Sized(S), NEW U \in SUBSET S
  PROVE  \A s \in SUBSET U : Sums(U)[s] = Sums(S)[s] /\ Sums(S)[s] \in Nat
<1>1. Sized(U)
  BY FS_Subset DEF Sized
<1> DEFINE a == Sums(U)
           b == Sums(S)
           B == {s \in SUBSET U : a[s] = b[s] /\ b[s] \in Nat}
<1>2. \A s \in SUBSET U : a[s] = Sum(a, s) /\ b[s] = Sum(b, s)
  BY <1>1, SumsIs
<1> HIDE DEF a, b
<1>3. {} \in B
  BY <1>2 DEF Sum
<1>4. ASSUME NEW s \in SUBSET U, s # {}, \A x \in s : s \ {x} \in B
      PROVE  s \in B
  <2>1. Pick(s) \in s /\ Pick(s).size \in Nat
    BY <1>1, <1>4, PickIs DEF Sized
  <2>2. a[s \ {Pick(s)}] = b[s \ {Pick(s)}] /\ b[s \ {Pick(s)}] \in Nat
    BY <1>4, <2>1
  <2>3. /\ a[s] = a[s \ {Pick(s)}] + Pick(s).size
        /\ b[s] = b[s \ {Pick(s)}] + Pick(s).size
    BY <1>2, <1>4 DEF Sum
  <2> QED BY <2>1, <2>2, <2>3
<1>5. SUBSET U \subseteq B
  <2> HIDE DEF B
  <2> QED BY <1>1, <1>3, <1>4, SubsetInduction DEF Sized
<1> QED BY <1>5 DEF a, b

LEMMA TotalOfSubset ==
  ASSUME NEW S, Sized(S)
  PROVE  /\ \A s \in SUBSET S : Total(s) = Sums(S)[s] /\ Total(s) \in Nat
         /\ \A s \in SUBSET S : s # {} => Total(s) = Total(s \ {Pick(s)}) + Pick(s).size
<1>1. \A s \in SUBSET S : Total(s) = Sums(S)[s] /\ Total(s) \in Nat
  BY TotalUnfolds, SumsOfSubset
<1>2. \A s \in SUBSET S : s # {} => Total(s) = Total(s \ {Pick(s)}) + Pick(s).size
  BY <1>1, SumsIs DEF Sum
<1> QED BY <1>1, <1>2

(* In whatever order.                                                       *)
LEMMA TotalIs ==
  ASSUME NEW S, Sized(S)
  PROVE  /\ Total(S) \in Nat /\ Total({}) = 0
         /\ \A x \in S : Total(S) = Total(S \ {x}) + x.size /\ Total(S \ {x}) \in Nat
<1> DEFINE B == {s \in SUBSET S : \A x \in s : Total(s) = Total(s \ {x}) + x.size}
<1>1. {} \in B
  OBVIOUS
<1>2. ASSUME NEW s \in SUBSET S, s # {}, \A x \in s : s \ {x} \in B
      PROVE  s \in B
  <2> DEFINE p == Pick(s)
  <2>1. p \in s /\ Total(s) = Total(s \ {p}) + p.size
    BY <1>2, PickIs, TotalOfSubset
  <2> HIDE DEF p
  <2> SUFFICES ASSUME NEW x \in s, x # p
               PROVE  Total(s) = Total(s \ {x}) + x.size
    BY <2>1
  <2>2. Total(s \ {p}) = Total((s \ {p}) \ {x}) + x.size
    BY <1>2, <2>1
  <2>3. Total(s \ {x}) = Total((s \ {x}) \ {p}) + p.size
    BY <1>2, <2>1
  <2>4. (s \ {p}) \ {x} = (s \ {x}) \ {p}
    OBVIOUS
  <2>5. Total((s \ {x}) \ {p}) \in Nat /\ p.size \in Nat /\ x.size \in Nat
    <3>1. (s \ {x}) \ {p} \in SUBSET S
      OBVIOUS
    <3> QED BY <2>1, <3>1, TotalOfSubset DEF Sized
  <2>6. Total((s \ {p}) \ {x}) = Total((s \ {x}) \ {p})
    BY <2>4
  <2> DEFINE r == Total((s \ {x}) \ {p})
  <2>7. Total(s) = (r + x.size) + p.size /\ Total(s \ {x}) = r + p.size
    BY <2>1, <2>2, <2>3, <2>6
  <2>8. r \in Nat /\ p.size \in Nat /\ x.size \in Nat
    BY <2>5
  <2> HIDE DEF r
  <2> QED BY <2>7, <2>8
<1>3. SUBSET S \subseteq B
  <2> HIDE DEF B
  <2> QED BY <1>1, <1>2, SubsetInduction DEF Sized
<1>4. \A s \in SUBSET S : Total(s) \in Nat
  BY TotalOfSubset
<1>5. Total({}) = 0
  <2>1. {} \in SUBSET S /\ Sums(S)[{}] = 0
    BY SumsIs DEF Sum
  <2> QED BY <2>1, TotalOfSubset
<1> QED BY <1>3, <1>4, <1>5

-----------------------------------------------------------------------------
(* The invariant of the directory. *)

Last == 2 * recording

(* The files there are: those from lo on.                                   *)
From(lo) == 1 <= lo /\ lo < Last /\ Existing = lo..Last

Kept ==
  /\ recording = 0 => Existing = {}
  /\ recording > 0 => \E lo \in Files : From(lo)
  /\ \A k \in 1..MaxRecordings : 2 * k \in Existing => length[2 * k] <= MaxVectors

(* What a scan holds at any time of the task: when it listed, h was the     *)
(* latest recording, and lo is the oldest file since.                       *)
Listed(h) ==
  /\ \A e \in scan.list : /\ e.file \in Existing /\ e.file <= 2 * h
                          /\ e.file = 2 * h => e.size <= MaxVectors
                          /\ e.file <= 2 * h - 2 => (e.saving <=> e.file \in saving)
  /\ \A f \in Existing : f <= 2 * h => \E e \in scan.list : e.file = f
  /\ \A e, d \in scan.list : e.file = d.file => e = d

Scanned ==
  scan.on => /\ IsFiniteSet(scan.list) /\ scan.total = Total(scan.list)
             /\ \E h \in 0..recording : Listed(h)

Settled == stage = "idle" /\ tasks = 0 /\ ~owed

Entries(S) == {Entry(f) : f \in S}

Limited ==
  Settled => IF scan.on THEN scan.list = Entries(Existing)
             ELSE Existing # {} => Total(Entries(Existing \ {OldestFile})) <= SizeLimit

DirInv == DirTypeOK /\ Kept /\ Scanned /\ Limited

LEMMA Parameters ==
  /\ SizeLimit \in Nat /\ MaxVectors \in Nat /\ MaxRecordings \in Nat
  /\ MaxTasks \in Nat /\ MaxVideo \in Nat /\ MaxVectors <= SizeLimit
BY DirectoryAssumption

LEMMA OldestIs ==
  ASSUME NEW lo \in Files, From(lo), recording \in Nat
  PROVE  /\ OldestFile = lo /\ lo \in Existing /\ Existing # {}
         /\ \A f \in Existing : lo <= f
<1>1. lo \in Existing /\ \A f \in Existing : lo <= f /\ f \in Nat
  BY Parameters DEF From, Last, Files
<1>2. \A f \in Existing : (\A g \in Existing : f <= g) => f = lo
  BY <1>1, Parameters DEF Files
<1>3. OldestFile = lo
  BY <1>1, <1>2 DEF OldestFile
<1> QED BY <1>1, <1>3

LEMMA EntriesFinite ==
  ASSUME NEW S, IsFiniteSet(S), S \subseteq Existing, DirTypeOK
  PROVE  Sized(Entries(S)) /\ Entries(S) \subseteq [file : Files, saving : BOOLEAN, size : Nat]
<1>1. IsFiniteSet(Entries(S))
  <2> DEFINE B == {s \in SUBSET S : IsFiniteSet(Entries(s))}
  <2>1. {} \in B
    BY FS_EmptySet DEF Entries
  <2>2. ASSUME NEW s \in SUBSET S, s # {}, \A x \in s : s \ {x} \in B PROVE s \in B
    <3>1. PICK x \in s : TRUE
      BY <2>2
    <3>2. Entries(s) = Entries(s \ {x}) \cup {Entry(x)}
      BY DEF Entries
    <3> QED BY <2>2, <3>2, FS_AddElement
  <2>3. SUBSET S \subseteq B
    <3> HIDE DEF B
    <3> QED BY <2>1, <2>2, SubsetInduction
  <2> QED BY <2>3
<1>2. ASSUME NEW f \in S PROVE Entry(f) \in [file : Files, saving : BOOLEAN, size : Nat]
  <2>1. f \in Files /\ (f \in saving) \in BOOLEAN /\ length[f] \in Nat
    BY DEF DirTypeOK
  <2> QED BY <2>1 DEF Entry
<1>3. Entries(S) \subseteq [file : Files, saving : BOOLEAN, size : Nat]
  BY <1>2 DEF Entries
<1> QED BY <1>1, <1>3 DEF Sized

LEMMA ExistingFinite == ASSUME DirTypeOK PROVE IsFiniteSet(Existing)
<1>1. 1 \in Int /\ 2 * MaxRecordings \in Int
  BY Parameters
<1>2. IsFiniteSet(Files)
  BY <1>1, FS_Interval DEF Files
<1> QED BY <1>2, FS_Subset DEF DirTypeOK

(* A scan does not notice new files, nor the end of the latest recordings.  *)
LEMMA ListedStays ==
  ASSUME NEW h \in Nat, Listed(h), scan' = scan, Existing \subseteq Existing',
         \A f \in Existing' : f \in Existing \/ f > 2 * h,
         \A f \in Existing : f <= 2 * h - 2 => (f \in saving <=> f \in saving'),
         Existing \subseteq Nat, Existing' \subseteq Nat
  PROVE  Listed(h)'
<1>1. \A e \in scan.list : /\ e.file \in Existing' /\ e.file <= 2 * h
                           /\ e.file = 2 * h => e.size <= MaxVectors
                           /\ e.file <= 2 * h - 2 => (e.saving <=> e.file \in saving')
  BY DEF Listed
<1>2. \A f \in Existing' : f <= 2 * h => \E e \in scan.list : e.file = f
  <2> SUFFICES ASSUME NEW f \in Existing', f <= 2 * h
               PROVE  \E e \in scan.list : e.file = f
    OBVIOUS
  <2>1. f \in Existing
    OBVIOUS
  <2> QED BY <2>1 DEF Listed
<1> QED BY <1>1, <1>2 DEF Listed

EntryType == [file : Files, saving : BOOLEAN, size : Nat]

LEMMA FieldsTyped ==
  ASSUME DirTypeOK
  PROVE  /\ Existing \subseteq Files /\ length \in [Existing -> Nat]
         /\ saving \subseteq Files /\ recording \in 0..MaxRecordings
         /\ recording \in Nat /\ tasks \in 0..MaxTasks /\ tasks \in Nat
         /\ scan.on \in BOOLEAN /\ scan.total \in Nat
         /\ scan.list \subseteq EntryType
         /\ \A f \in Existing : length[f] \in Nat
         /\ Files \subseteq Nat /\ NoScan.on = FALSE
         /\ stage \in {"idle", "recording", "closing", "post"} /\ owed \in BOOLEAN
<1>1. Files \subseteq Nat
  BY Parameters DEF Files
<1>2. recording \in Nat /\ tasks \in Nat
  BY Parameters DEF DirTypeOK
<1> QED BY <1>1, <1>2 DEF DirTypeOK, EntryType, NoScan

LEMMA ScanFinite ==
  ASSUME DirTypeOK, Scanned, scan.on
  PROVE  Sized(scan.list)
BY FieldsTyped DEF Scanned, Sized, EntryType

(* The oldest entry, while the task runs, and what its removal leaves.      *)
LEMMA FrontIs ==
  ASSUME DirTypeOK, scan.on, scan.list # {}, NEW h \in Nat, Listed(h),
         NEW lo \in Files, From(lo)
  PROVE  /\ Front(scan.list) \in scan.list /\ Front(scan.list).file = lo
         /\ \A e \in scan.list : lo <= e.file
<1>0. /\ recording \in Nat /\ lo \in Nat
      /\ \A e \in scan.list : e.file \in Existing /\ e.file \in Nat /\ e.file <= 2 * h
  BY FieldsTyped DEF Listed, EntryType
<1>1. OldestFile = lo /\ lo \in Existing /\ \A f \in Existing : lo <= f
  BY <1>0, OldestIs
<1>2. PICK e \in scan.list : e.file = lo
  <2>1. PICK d \in scan.list : TRUE
    OBVIOUS
  <2>2. lo <= 2 * h
    BY <1>0, <1>1, <2>1
  <2> QED BY <1>1, <2>2 DEF Listed
<1>3. \A o \in scan.list : e.file <= o.file
  BY <1>0, <1>1, <1>2
<1> DEFINE d == Front(scan.list)
<1>4. d \in scan.list /\ \A o \in scan.list : d.file <= o.file
  BY <1>2, <1>3 DEF Front
<1> HIDE DEF d
<1>5. d.file = lo
  BY <1>0, <1>2, <1>3, <1>4
<1> QED BY <1>0, <1>1, <1>4, <1>5 DEF d

(* The task never gets to the files of the latest recording that it listed. *)
LEMMA FrontIsOld ==
  ASSUME DirTypeOK, Kept, Scanned, scan.on, Exceeds(scan)
  PROVE  \E h \in 0..recording, lo \in Files :
           /\ Listed(h) /\ From(lo) /\ lo <= 2 * h - 2 /\ recording > 0
           /\ Front(scan.list) \in scan.list /\ Front(scan.list).file = lo
           /\ \A e \in scan.list : lo <= e.file
<1>1. PICK h \in 0..recording : Listed(h)
  BY DEF Scanned
<1>2. h \in Nat /\ recording \in Nat /\ scan.list # {}
  BY FieldsTyped DEF Exceeds
<1>3. recording > 0
  BY <1>1, <1>2 DEF Listed, Kept
<1>4. PICK lo \in Files : From(lo)
  BY <1>3 DEF Kept
<1> DEFINE e == Front(scan.list)
<1>5. e \in scan.list /\ e.file = lo /\ \A d \in scan.list : lo <= d.file
  BY <1>1, <1>2, <1>4, FrontIs
<1>6. Sized(scan.list) /\ scan.total = Total(scan.list)
  BY ScanFinite DEF Scanned
<1>7. scan.total - e.size > SizeLimit
  BY DEF Exceeds
<1> HIDE DEF e
<1> DEFINE rest == scan.list \ {e}
<1>8. /\ Total(scan.list) = Total(rest) + e.size
      /\ Total(rest) \in Nat /\ e.size \in Nat
  BY <1>5, <1>6, TotalIs DEF Sized
<1>9. Total(rest) > SizeLimit
  BY <1>6, <1>7, <1>8, Parameters
<1>10. \A d \in scan.list : d.file \in Nat /\ d.file <= 2 * h
  BY <1>1, FieldsTyped DEF Listed, EntryType
<1>11. \A d \in rest : d.file # lo /\ lo <= d.file
  BY <1>1, <1>5 DEF Listed
<1>12. ASSUME ~(lo <= 2 * h - 2) PROVE FALSE
  <2>0. lo \in Nat
    BY FieldsTyped
  <2>1. \A d \in rest : d.file = 2 * h
    BY <1>2, <1>10, <1>11, <1>12, <2>0
  <2>2. Sized(rest)
    BY <1>6, FS_Subset DEF Sized
  <2>3. rest # {}
    BY <1>9, <2>2, TotalIs, Parameters
  <2>4. PICK d \in rest : TRUE
    BY <2>3
  <2>5. rest = {d}
    BY <1>1, <2>1, <2>4 DEF Listed
  <2>6. Total(rest) = Total(rest \ {d}) + d.size
    BY <2>2, <2>4, TotalIs
  <2>7. rest \ {d} = {} /\ Total({}) = 0 /\ d.size \in Nat
    BY <2>2, <2>4, <2>5, TotalIs DEF Sized
  <2>8. d.size <= MaxVectors
    BY <1>1, <2>1, <2>4 DEF Listed
  <2>9. Total(rest) = 0 + d.size
    BY <2>6, <2>7, Zenon
  <2> QED BY <1>9, <2>7, <2>8, <2>9, Parameters
<1> QED BY <1>1, <1>3, <1>4, <1>5, <1>12 DEF e

(* Files and lengths that stay: what the scan and the limit say of them     *)
(* stays too.                                                               *)
LEMMA KeptStays ==
  ASSUME Kept, length' = length, recording' = recording
  PROVE  Kept'
BY DEF Kept, From, Last, Existing

LEMMA ScannedStays ==
  ASSUME DirTypeOK, Scanned, scan' = scan, length' = length, recording' = recording,
         \A f \in Existing : f <= 2 * recording - 2 => (f \in saving <=> f \in saving')
  PROVE  Scanned'
<1> SUFFICES ASSUME scan.on
             PROVE  /\ IsFiniteSet(scan.list) /\ scan.total = Total(scan.list)
                    /\ \E h \in 0..recording : Listed(h)'
  BY DEF Scanned
<1>1. PICK h \in 0..recording : Listed(h)
  BY DEF Scanned
<1>2. Existing' = Existing
  BY DEF Existing
<1>3. recording \in Nat /\ h \in Nat /\ h <= recording /\ Existing \subseteq Nat
  BY FieldsTyped
<1>4. \A f \in Existing : f <= 2 * h - 2 => (f \in saving <=> f \in saving')
  BY <1>3
<1>5. Listed(h)'
  BY <1>1, <1>2, <1>3, <1>4, ListedStays
<1> QED BY <1>5 DEF Scanned

LEMMA LimitedStays ==
  ASSUME Limited, Settled' => Settled, scan' = scan, length' = length, saving' = saving
  PROVE  Limited'
<1>1. /\ Existing' = Existing
      /\ Entries(Existing)' = Entries(Existing)
      /\ OldestFile' = OldestFile
      /\ Entries(Existing \ {OldestFile})' = Entries(Existing \ {OldestFile})
  BY DEF Existing, Entries, Entry, OldestFile
<1> QED BY <1>1 DEF Limited

LEMMA StartWriterStep ==
  ASSUME DirInv, StartWriter
  PROVE  DirInv'
<1> USE DEF DirInv
<1> DEFINE new == {2 * recording + 1, 2 * recording + 2}
<1>0. /\ Existing \subseteq Files /\ recording \in Nat /\ MaxRecordings \in Nat
      /\ recording < MaxRecordings /\ recording' = recording + 1
      /\ Existing' = Existing \cup new /\ saving' = saving \cup new
      /\ length' = [f \in Existing \cup new |-> IF f \in new THEN 0 ELSE length[f]]
      /\ scan' = scan /\ stage' = "recording" /\ tasks' = tasks /\ owed' = owed
      /\ Files \subseteq Nat
  BY FieldsTyped, Parameters DEF StartWriter, Existing
<1>1. new \subseteq Files
  BY <1>0 DEF Files
<1>2. DirTypeOK'
  <2>1. length' \in [Existing' -> Nat]
    BY <1>0, FieldsTyped
  <2>2. recording' \in 0..MaxRecordings
    BY <1>0
  <2> HIDE DEF new
  <2> QED BY <1>0, <1>1, <2>1, <2>2 DEF DirTypeOK
<1>3. \A f \in Existing : f <= 2 * recording
  BY <1>0 DEF Kept, From, Last
<1>4. Kept'
  <2>1. \E lo \in Files : From(lo)'
    <3>1. CASE recording = 0
      <4>0. Existing = {}
        BY <3>1 DEF Kept
      <4>1. Existing' = 1..2
        BY <1>0, <3>1, <4>0
      <4>2. Last' = 2 /\ 1 \in Files
        BY <1>0, <3>1 DEF Last, Files
      <4> QED BY <4>1, <4>2 DEF From
    <3>2. CASE recording > 0
      <4>1. PICK lo \in Files : From(lo)
        BY <3>2 DEF Kept
      <4>2. lo \in Nat /\ 1 <= lo /\ lo < 2 * recording /\ Existing = lo..(2 * recording)
        BY <1>0, <4>1 DEF From, Last
      <4>3. Existing' = lo..(2 * recording + 2)
        BY <1>0, <4>2
      <4>4. Last' = 2 * recording + 2
        BY <1>0 DEF Last
      <4> QED BY <1>0, <4>2, <4>3, <4>4 DEF From
    <3> QED BY <1>0, <3>1, <3>2
  <2>2. ASSUME NEW k \in 1..MaxRecordings, 2 * k \in Existing'
        PROVE  length'[2 * k] <= MaxVectors
    <3>1. CASE 2 * k \in new
      <4> DEFINE n == 2 * k
      <4>1. n \in new
        BY <3>1
      <4> HIDE DEF n, new
      <4>2. length'[n] = 0
        BY <1>0, <4>1
      <4> QED BY <4>2, Parameters DEF n
    <3>2. CASE 2 * k \notin new
      BY <1>0, <2>2, <3>2 DEF Kept
    <3> QED BY <3>1, <3>2
  <2>3. recording' # 0 /\ MaxRecordings' = MaxRecordings
    BY <1>0
  <2> HIDE DEF new
  <2> QED BY <2>1, <2>2, <2>3 DEF Kept
<1>5. Scanned'
  <2> SUFFICES ASSUME scan.on
               PROVE  /\ IsFiniteSet(scan.list) /\ scan.total = Total(scan.list)
                      /\ \E h \in 0..recording' : Listed(h)'
    BY <1>0 DEF Scanned
  <2>1. PICK h \in 0..recording : Listed(h)
    BY DEF Scanned
  <2>2. h \in Nat /\ h \in 0..recording' /\ h <= recording
    BY <1>0
  <2>3. \A f \in Existing' : f \in Existing \/ f > 2 * h
    BY <1>0, <2>2
  <2>4. \A f \in Existing : f <= 2 * h - 2 => (f \in saving <=> f \in saving')
    BY <1>0, <1>3, <2>2
  <2>5. Existing \subseteq Nat /\ Existing' \subseteq Nat /\ Existing \subseteq Existing'
    BY <1>0, <1>1
  <2>6. Listed(h)'
    BY <1>0, <2>1, <2>2, <2>3, <2>4, <2>5, ListedStays
  <2> QED BY <2>2, <2>6 DEF Scanned
<1>6. Limited'
  BY <1>0 DEF Limited, Settled
<1> QED BY <1>2, <1>4, <1>5, <1>6

LEMMA FillStep ==
  ASSUME DirInv, NEW f \in Files, Fill(f)
  PROVE  DirInv'
<1> USE DEF DirInv
<1>0. /\ f \in Existing /\ length[f] \in Nat /\ Existing' = Existing
      /\ length' = [length EXCEPT ![f] = length[f] + 1]
      /\ saving' = saving /\ recording' = recording /\ stage' = stage
      /\ tasks' = tasks /\ scan' = scan /\ owed' = owed /\ stage = "recording"
      /\ length \in [Existing -> Nat]
      /\ f \notin Videos => length[f] < MaxVectors
  BY FieldsTyped DEF Fill, Existing
<1>1. length' \in [Existing -> Nat]
  BY <1>0
<1>2. DirTypeOK'
  BY <1>0, <1>1 DEF DirTypeOK
<1>3. Kept'
  <2>1. ASSUME NEW k \in 1..MaxRecordings, 2 * k \in Existing
        PROVE  length'[2 * k] <= MaxVectors
    <3>1. CASE 2 * k = f
      <4>1. k \in Nat
        BY Parameters
      <4>2. f \notin Videos
        BY <3>1, <4>1, Parameters DEF Videos
      <4> QED BY <1>0, <3>1, <4>2, Parameters
    <3>2. CASE 2 * k # f
      BY <1>0, <2>1, <3>2 DEF Kept
    <3> QED BY <3>1, <3>2
  <2>2. recording > 0 => \E lo \in Files : From(lo)'
    BY <1>0 DEF Kept, From, Last
  <2>3. recording = 0 => Existing = {}
    BY DEF Kept
  <2> QED BY <1>0, <2>1, <2>2, <2>3 DEF Kept
<1>4. Scanned'
  <2>1. \A h : Listed(h)' <=> Listed(h)
    BY <1>0 DEF Listed
  <2> QED BY <1>0, <2>1 DEF Scanned
<1>5. Limited'
  BY <1>0 DEF Limited, Settled
<1> QED BY <1>2, <1>3, <1>4, <1>5

LEMMA CloseVideoStep ==
  ASSUME DirInv, CloseVideo
  PROVE  DirInv'
<1> USE DEF DirInv
<1>0. /\ saving' = saving \ {2 * recording - 1} /\ stage' = "closing"
      /\ length' = length /\ recording' = recording /\ scan' = scan
      /\ tasks' = tasks /\ owed' = owed /\ recording \in Nat
      /\ Existing \subseteq Nat /\ Existing' = Existing
  BY FieldsTyped DEF CloseVideo, Existing
<1>1. DirTypeOK'
  BY <1>0 DEF DirTypeOK
<1>2. \A f \in Existing : f <= 2 * recording - 2 => (f \in saving <=> f \in saving')
  BY <1>0
<1>3. Kept' /\ Scanned'
  BY <1>0, <1>2, KeptStays, ScannedStays
<1>4. Limited'
  BY <1>0 DEF Limited, Settled
<1> QED BY <1>1, <1>3, <1>4

LEMMA CloseVectorsStep ==
  ASSUME DirInv, CloseVectors
  PROVE  DirInv'
<1> USE DEF DirInv
<1>0. /\ saving' = saving \ {2 * recording} /\ stage' = "post"
      /\ length' = length /\ recording' = recording /\ scan' = scan
      /\ tasks' = tasks /\ owed' = owed /\ recording \in Nat
      /\ Existing \subseteq Nat /\ Existing' = Existing
  BY FieldsTyped DEF CloseVectors, Existing
<1>1. DirTypeOK'
  BY <1>0 DEF DirTypeOK
<1>2. \A f \in Existing : f <= 2 * recording - 2 => (f \in saving <=> f \in saving')
  BY <1>0
<1>3. Kept' /\ Scanned'
  BY <1>0, <1>2, KeptStays, ScannedStays
<1>4. Limited'
  BY <1>0 DEF Limited, Settled
<1> QED BY <1>1, <1>3, <1>4

LEMMA PostTaskStep ==
  ASSUME DirInv, PostTask
  PROVE  DirInv'
<1> USE DEF DirInv
<1>0. /\ tasks' = tasks + 1 /\ tasks < MaxTasks /\ stage' = "idle" /\ owed' = FALSE
      /\ length' = length /\ recording' = recording /\ scan' = scan
      /\ saving' = saving /\ tasks \in Nat /\ Existing' = Existing
  BY FieldsTyped DEF PostTask, Existing
<1>1. tasks' \in 0..MaxTasks /\ tasks' # 0
  BY <1>0, Parameters
<1>2. DirTypeOK'
  BY <1>0, <1>1 DEF DirTypeOK
<1>3. Kept' /\ Scanned'
  BY <1>0, KeptStays, ScannedStays
<1>4. Limited'
  BY <1>1 DEF Limited, Settled
<1> QED BY <1>2, <1>3, <1>4

LEMMA InterruptStep ==
  ASSUME DirInv, Interrupt
  PROVE  DirInv'
<1> USE DEF DirInv
<1>0. /\ length' = length /\ recording' = recording /\ scan' = scan
      /\ ~scan.on /\ Existing' = Existing /\ saving' \subseteq saving
      /\ stage' = "idle" /\ tasks' = 0
      /\ ~owed' => ~owed /\ stage # "recording" /\ ~(tasks > 0)
      /\ stage # "recording" => stage = "idle" /\ saving' = saving
      /\ owed' \in BOOLEAN /\ tasks \in Nat
  BY FieldsTyped DEF Interrupt, Existing
<1>1. DirTypeOK'
  <2>1. 0 \in 0..MaxTasks
    BY Parameters
  <2> QED BY <1>0, <2>1 DEF DirTypeOK
<1>2. Kept' /\ Scanned'
  BY <1>0, KeptStays DEF Scanned
<1>3. Limited'
  <2>1. CASE owed'
    BY <2>1 DEF Limited, Settled
  <2>2. CASE ~owed'
    <3>1. Settled /\ saving' = saving
      BY <1>0, <2>2 DEF Settled
    <3> QED BY <1>0, <3>1, LimitedStays
  <2> QED BY <2>1, <2>2
<1> QED BY <1>1, <1>2, <1>3

LEMMA RestartStep ==
  ASSUME DirInv, DieAndRestart
  PROVE  DirInv'
<1> USE DEF DirInv
<1>0. /\ length' = length /\ recording' = recording /\ scan' = NoScan
      /\ saving' = saving /\ stage' = "idle" /\ tasks' = 0
      /\ ~owed' => ~owed /\ stage = "idle" /\ ~(tasks > 0) /\ ~scan.on
      /\ owed' \in BOOLEAN /\ tasks \in Nat
      /\ Existing' = Existing /\ scan.on \in BOOLEAN
  BY FieldsTyped DEF DieAndRestart, Existing
<1>1. DirTypeOK'
  <2>1. 0 \in 0..MaxTasks
    BY Parameters
  <2> QED BY <1>0, <2>1 DEF DirTypeOK, NoScan
<1>2. Kept' /\ Scanned'
  BY <1>0, KeptStays DEF Scanned, NoScan
<1>3. Limited'
  <2>1. CASE owed'
    BY <2>1 DEF Limited, Settled
  <2>2. CASE ~owed'
    <3>1. Settled /\ ~scan.on /\ ~scan'.on
      BY <1>0, <2>2 DEF Settled, NoScan
    <3>2. /\ Existing' = Existing /\ OldestFile' = OldestFile
          /\ Entries(Existing \ {OldestFile})' = Entries(Existing \ {OldestFile})
      BY <1>0 DEF Entries, Entry, OldestFile
    <3> QED BY <3>1, <3>2 DEF Limited
  <2> QED BY <2>1, <2>2
<1> QED BY <1>1, <1>2, <1>3

LEMMA ListStep ==
  ASSUME DirInv, List
  PROVE  DirInv'
<1> USE DEF DirInv
<1> DEFINE all == Entries(Existing)
           total == Total(all)
<1>0. /\ scan' = [on |-> TRUE, list |-> all, total |-> total]
      /\ tasks' = tasks - 1 /\ tasks > 0 /\ length' = length /\ saving' = saving
      /\ recording' = recording /\ stage' = stage /\ owed' = owed
      /\ Existing' = Existing /\ tasks \in 0..MaxTasks /\ recording \in Nat
      /\ Existing \subseteq Nat
  BY FieldsTyped DEF List, Entries, Existing
<1>1. Sized(all) /\ all \subseteq EntryType
  BY ExistingFinite, EntriesFinite DEF EntryType
<1>2. total \in Nat
  BY <1>1, TotalIs
<1>3. Entries(Existing)' = all
  BY <1>0 DEF Entries, Entry
<1>4. \A e \in all : \E f \in Existing : e = Entry(f)
  BY DEF Entries
<1>5. \A f \in Existing : /\ Entry(f) \in all /\ Entry(f).file = f
                          /\ Entry(f).size = length[f]
                          /\ Entry(f).saving = (f \in saving)
  BY DEF Entries, Entry
<1> HIDE DEF all, total
<1>6. scan'.on = TRUE /\ scan'.list = all /\ scan'.total = total
  BY <1>0
<1>7. DirTypeOK'
  <2>1. tasks' \in 0..MaxTasks
    BY <1>0, Parameters
  <2>2. scan' \in [on : BOOLEAN, total : Nat, list : SUBSET EntryType]
    BY <1>0, <1>1, <1>2
  <2> QED BY <1>0, <2>1, <2>2 DEF DirTypeOK, EntryType
<1>8. Kept'
  BY <1>0, KeptStays
<1>9. Scanned'
  <2>1. ASSUME NEW e \in all
        PROVE  /\ e.file \in Existing /\ e.file <= 2 * recording
               /\ e.file = 2 * recording => e.size <= MaxVectors
               /\ e.saving <=> e.file \in saving
    <3>1. PICK f \in Existing : e = Entry(f)
      BY <1>4
    <3>2. e.file = f /\ e.size = length[f] /\ e.saving = (f \in saving)
      BY <1>5, <3>1
    <3>3. f <= 2 * recording /\ recording > 0
      <4>1. recording > 0
        BY <1>0 DEF Kept
      <4>2. PICK lo \in Files : Existing = lo..(2 * recording)
        BY <4>1 DEF Kept, From, Last
      <4> QED BY <1>0, <4>1, <4>2
    <3>4. f = 2 * recording => length[f] <= MaxVectors
      BY <1>0, <3>3, FieldsTyped DEF Kept
    <3> QED BY <3>2, <3>3, <3>4
  <2>2. \A f \in Existing : \E e \in all : e.file = f
    BY <1>5
  <2>3. \A e, d \in all : e.file = d.file => e = d
    BY <1>4, <1>5
  <2>4. Listed(recording)'
    BY <1>0, <1>6, <2>1, <2>2, <2>3 DEF Listed
  <2>5. IsFiniteSet(all) /\ recording' \in 0..recording'
    BY <1>0, <1>1 DEF Sized
  <2>6. \E h \in 0..recording' : Listed(h)'
    BY <1>0, <2>4, <2>5
  <2> QED BY <1>6, <2>5, <2>6 DEF Scanned, total
<1>10. Limited'
  BY <1>3, <1>6 DEF Limited
<1> QED BY <1>7, <1>8, <1>9, <1>10

LEMMA RemoveStep ==
  ASSUME DirInv, Remove
  PROVE  DirInv'
<1> USE DEF DirInv
<1>1. scan.on /\ Exceeds(scan) /\ recording \in Nat /\ Existing \subseteq Files
      /\ Files \subseteq Nat
  BY FieldsTyped DEF Remove
<1>2. PICK h \in 0..recording, lo \in Files :
           /\ Listed(h) /\ From(lo) /\ lo <= 2 * h - 2 /\ recording > 0
           /\ Front(scan.list) \in scan.list /\ Front(scan.list).file = lo
           /\ \A e \in scan.list : lo <= e.file
  BY <1>1, FrontIsOld
<1> DEFINE e == Front(scan.list)
           rest == scan.list \ {e}
<1>3. e \in scan.list /\ e.file = lo /\ lo \in Nat /\ h \in Nat /\ h <= recording
  BY <1>1, <1>2
<1>4. /\ OldestFile = lo /\ lo \in Existing /\ \A f \in Existing : lo <= f
      /\ Existing = lo..(2 * recording) /\ 1 <= lo
  BY <1>1, <1>2, OldestIs DEF From, Last
<1>5. e.saving <=> e.file \in saving
  BY <1>2, <1>3 DEF Listed
<1>6. e.saving = (e.file \in saving)
  <2>1. e \in EntryType
    BY <1>3, FieldsTyped
  <2> QED BY <1>5, <2>1 DEF EntryType
<1>7. /\ length' = [f \in Existing \ {lo} |-> length[f]]
      /\ scan' = [scan EXCEPT !.list = @ \ {e}, !.total = @ - e.size]
      /\ saving' = saving /\ recording' = recording /\ stage' = stage
      /\ tasks' = tasks /\ owed' = owed
  BY <1>3, <1>6 DEF Remove
<1>8. Sized(scan.list) /\ scan.total = Total(scan.list)
  BY <1>1, ScanFinite DEF Scanned
<1>9. /\ Total(scan.list) = Total(rest) + e.size
      /\ Total(rest) \in Nat /\ e.size \in Nat /\ Sized(rest)
  BY <1>3, <1>8, TotalIs, FS_Subset DEF Sized
<1> HIDE DEF e
<1>10. scan \in [on : BOOLEAN, total : Nat, list : SUBSET EntryType]
  BY DEF DirTypeOK, EntryType
<1>11. scan'.on = TRUE /\ scan'.list = rest /\ scan'.total = scan.total - e.size
  BY <1>1, <1>7, <1>10
<1>12. scan'.total = Total(rest)
  BY <1>8, <1>9, <1>11
<1>13. Existing' = Existing \ {lo}
  BY <1>7 DEF Existing
<1>14. DirTypeOK'
  <2>1. length' \in [Existing' -> Nat]
    BY <1>7, <1>13, FieldsTyped
  <2>2. scan' \in [on : BOOLEAN, total : Nat, list : SUBSET EntryType]
    BY <1>7, <1>9, <1>10, <1>11, <1>12
  <2> QED BY <1>7, <1>13, <2>1, <2>2 DEF DirTypeOK, EntryType
<1>15. \A e1 \in rest : e1.file # lo
  BY <1>2, <1>3 DEF Listed
<1>16. Kept'
  <2>1. Existing' = (lo + 1)..(2 * recording) /\ lo + 1 < 2 * recording
    BY <1>1, <1>2, <1>3, <1>4, <1>13
  <2>2. lo + 1 \in Files
    BY <1>1, <1>4, <2>1
  <2>3. From(lo + 1)'
    BY <1>3, <1>7, <2>1 DEF From, Last
  <2>4. \A k \in 1..MaxRecordings : 2 * k \in Existing' => length'[2 * k] <= MaxVectors
    BY <1>7, <1>13 DEF Kept
  <2>5. recording' > 0 /\ ~(recording' = 0)
    BY <1>1, <1>2, <1>7
  <2>6. \E f \in Files : From(f)'
    BY <2>2, <2>3
  <2> QED BY <2>4, <2>5, <2>6 DEF Kept
<1>17. Scanned'
  <2>1. \A d \in rest : /\ d.file \in Existing' /\ d.file <= 2 * h
                        /\ d.file = 2 * h => d.size <= MaxVectors
                        /\ d.file <= 2 * h - 2 => (d.saving <=> d.file \in saving')
    BY <1>2, <1>7, <1>13, <1>15 DEF Listed
  <2>2. \A f \in Existing' : f <= 2 * h => \E d \in rest : d.file = f
    <3> SUFFICES ASSUME NEW f \in Existing, f # lo, f <= 2 * h
                 PROVE  \E d \in rest : d.file = f
      BY <1>13
    <3>1. PICK d \in scan.list : d.file = f
      BY <1>2 DEF Listed
    <3> QED BY <1>3, <3>1
  <2>3. \A d1, d2 \in rest : d1.file = d2.file => d1 = d2
    BY <1>2 DEF Listed
  <2>4. Listed(h)'
    BY <1>11, <2>1, <2>2, <2>3 DEF Listed
  <2> QED BY <1>7, <1>9, <1>11, <1>12, <2>4 DEF Scanned, Sized
<1>18. Limited'
  <2> SUFFICES ASSUME Settled'
               PROVE  rest = Entries(Existing)'
    BY <1>11 DEF Limited
  <2>1. scan.list = Entries(Existing)
    BY <1>1, <1>7 DEF Limited, Settled
  <2>2. e = Entry(lo)
    BY <1>3, <2>1 DEF Entries, Entry
  <2>3. Entries(Existing)' = Entries(Existing \ {lo})
    BY <1>7, <1>13 DEF Entries, Entry
  <2>4. \A f \in Existing : Entry(f).file = f
    BY DEF Entry
  <2>5. Entries(Existing) \ {Entry(lo)} = Entries(Existing \ {lo})
    BY <1>4, <2>4 DEF Entries
  <2> QED BY <2>1, <2>2, <2>3, <2>5
<1> QED BY <1>14, <1>16, <1>17, <1>18

LEMMA ReturnStep ==
  ASSUME DirInv, Return
  PROVE  DirInv'
<1> USE DEF DirInv
<1>0. /\ scan.on /\ ~Exceeds(scan) /\ scan' = NoScan /\ scan'.on = FALSE
      /\ length' = length /\ saving' = saving /\ recording' = recording
      /\ stage' = stage /\ tasks' = tasks /\ owed' = owed /\ recording \in Nat
      /\ Existing' = Existing /\ OldestFile' = OldestFile
      /\ Entries(Existing \ {OldestFile})' = Entries(Existing \ {OldestFile})
  BY FieldsTyped DEF Return, NoScan, Existing, OldestFile, Entries, Entry
<1>1. DirTypeOK' /\ Kept' /\ Scanned'
  BY <1>0, KeptStays DEF DirTypeOK, Scanned, NoScan
<1>2. Limited'
  <2> SUFFICES ASSUME Settled, Existing # {}
               PROVE  Total(Entries(Existing \ {OldestFile})) <= SizeLimit
    BY <1>0 DEF Limited, Settled
  <2>1. scan.list = Entries(Existing)
    BY <1>0 DEF Limited
  <2>2. recording > 0
    BY <1>0 DEF Kept
  <2>3. PICK lo \in Files : From(lo)
    BY <2>2 DEF Kept
  <2>4. OldestFile = lo /\ lo \in Existing
    BY <1>0, <2>3, OldestIs
  <2>5. PICK h \in 0..recording : Listed(h)
    BY <1>0 DEF Scanned
  <2> DEFINE e == Front(scan.list)
  <2>6. scan.list # {}
    BY <2>1, <2>4 DEF Entries
  <2>7. e \in scan.list /\ e.file = lo
    BY <1>0, <2>3, <2>5, <2>6, FrontIs
  <2>8. ~(scan.total - e.size > SizeLimit)
    BY <1>0, <2>6 DEF Exceeds
  <2> HIDE DEF e
  <2>9. Sized(scan.list) /\ scan.total = Total(scan.list)
    BY <1>0, ScanFinite DEF Scanned
  <2>10. /\ Total(scan.list) = Total(scan.list \ {e}) + e.size
         /\ Total(scan.list \ {e}) \in Nat /\ e.size \in Nat
    BY <2>7, <2>9, TotalIs DEF Sized
  <2>11. e = Entry(lo)
    BY <2>1, <2>7 DEF Entries, Entry
  <2>12. \A f \in Existing : Entry(f).file = f
    BY DEF Entry
  <2>13. scan.list \ {e} = Entries(Existing \ {lo})
    BY <2>1, <2>4, <2>11, <2>12 DEF Entries
  <2> DEFINE r == Total(scan.list \ {e})
  <2>14. r \in Nat /\ scan.total = r + e.size
    BY <2>9, <2>10
  <2>15. r = Total(Entries(Existing \ {OldestFile}))
    BY <2>4, <2>13
  <2> HIDE DEF r
  <2>16. r <= SizeLimit
    BY <2>8, <2>10, <2>14, Parameters
  <2> QED BY <2>15, <2>16
<1> QED BY <1>1, <1>2

LEMMA DirInvStep == DirInv /\ [DirNext]_dirVars => DirInv'
<1> SUFFICES ASSUME DirInv, [DirNext]_dirVars PROVE DirInv'
  OBVIOUS
<1>1. CASE UNCHANGED dirVars
  BY <1>1 DEF dirVars, DirInv, DirTypeOK, Kept, Scanned, Listed, Limited, Settled,
              From, Last, Existing, Entries, Entry, OldestFile
<1>2. CASE DirNext
  BY <1>2, StartWriterStep, FillStep, CloseVideoStep, CloseVectorsStep, PostTaskStep,
     InterruptStep, RestartStep, ListStep, RemoveStep, ReturnStep DEF DirNext
<1> QED BY <1>1, <1>2

LEMMA DirInvInit == DirInit => DirInv
<1> SUFFICES ASSUME DirInit PROVE DirInv
  OBVIOUS
<1>1. Existing = {}
  BY DEF DirInit, Existing
<1>2. 0 \in 0..MaxRecordings /\ 0 \in 0..MaxTasks
  BY Parameters
<1>3. DirTypeOK
  BY <1>1, <1>2 DEF DirInit, DirTypeOK, NoScan
<1>4. Kept /\ Scanned /\ Limited
  BY <1>1 DEF DirInit, Kept, Scanned, Limited, NoScan
<1> QED BY <1>3, <1>4 DEF DirInv

(* The state of the directory stays within its types, for any limit that a  *)
(* file of motion vectors does not exceed (raspi_motionfile.cc:62-129).     *)
THEOREM DirectoryTypeCorrect == DirSpec => []DirTypeOK
<1>1. DirInv => DirTypeOK
  BY DEF DirInv
<1> QED BY <1>1, DirInvInit, DirInvStep, PTL DEF DirSpec

(* Whatever recordings begin, grow, end or are cut short while a task runs, *)
(* the task deletes the oldest files only, never one of the latest          *)
(* recording, and leaves the directory within the limit when it was the     *)
(* last one (LimitTotalDirSizeTask::Run, raspi_motionfile.cc:62-129).       *)
THEOREM DirectoryStaysLimited == DirSpec => []DirectoryLimited
<1>1. DirInv => DirectoryLimited
  <2> SUFFICES ASSUME DirInv PROVE DirectoryLimited
    OBVIOUS
  <2>0. recording \in Nat /\ Files \subseteq Nat
    BY FieldsTyped DEF DirInv
  <2>1. ASSUME recording > 0
        PROVE  /\ Existing # {} /\ OldestFile..(2 * recording) = Existing
               /\ {2 * recording - 1, 2 * recording} \subseteq Existing
    <3>1. PICK lo \in Files : From(lo)
      BY <2>1 DEF DirInv, Kept
    <3>2. OldestFile = lo /\ Existing # {}
      BY <2>0, <3>1, OldestIs
    <3>3. lo \in Nat /\ lo < 2 * recording /\ Existing = lo..(2 * recording)
      BY <2>0, <3>1 DEF From, Last
    <3>4. {2 * recording - 1, 2 * recording} \subseteq lo..(2 * recording)
      BY <2>0, <3>3
    <3> QED BY <3>2, <3>3, <3>4
  <2>2. ASSUME Existing # {}, stage = "idle", tasks = 0, ~scan.on, ~owed
        PROVE  Total({Entry(f) : f \in Existing \ {OldestFile}}) <= SizeLimit
    BY <2>2 DEF DirInv, Limited, Settled, Entries
  <2> QED BY <2>1, <2>2 DEF DirectoryLimited
<1> QED BY <1>1, DirInvInit, DirInvStep, PTL DEF DirSpec

-----------------------------------------------------------------------------
(* LogRotation: the inductive invariant *)

Increasing(s) == \A m \in DOMAIN s, n \in DOMAIN s : m < n => s[m] < s[n]
Below(s, t) == \A x \in Range(s), y \in Range(t) : x < y

(* The files from the oldest on, and then what waits to be flushed.         *)
Ordered ==
  /\ \A i \in 0..Oldest : Increasing(TextOf(i)) /\ Below(TextOf(i), buffered)
  /\ \A i \in 0..Oldest : \A j \in 0..(i - 1) : Below(TextOf(i), TextOf(j))
  /\ Increasing(buffered)
  /\ \A i \in 0..Oldest : \A x \in Range(TextOf(i)) : x <= logged
  /\ \A x \in Range(buffered) : x <= logged

(* Only what was written since the file was opened is in it.                *)
Bounded ==
  /\ \A i \in 0..Oldest : Len(TextOf(i)) <= MaxFileSize
  /\ opened => /\ turn = AtRest /\ ~NoLog(0)
               /\ Len(TextOf(0)) + Len(buffered) = written
  /\ ~opened => buffered = <<>> /\ written = 0

(* The file that the last renaming has left.                                *)
Vacated == ~failed /\ turn < Oldest => NoLog(turn)

(* The bytes are logged in chunks of a file; file i holds chunk c, if there *)
(* is one.                                                                  *)
BytesOf(n) == n * MaxFileSize
Holds(i, c) ==
  c > 0 => \A x \in Nat : BytesOf(c - 1) < x /\ x <= BytesOf(c) => x \in Range(TextOf(i))

(* After q chunks: until it is renamed file i holds the chunk before that   *)
(* of file i - 1, and then it is file i + 1.                                *)
Rotated(q) ==
  /\ logged = BytesOf(q) + written
  /\ \A i \in 0..Oldest : i < turn /\ turn # AtRest => Holds(i, q - i)
  /\ \A i \in 1..Oldest : i > turn \/ turn = AtRest => Holds(i, q - i + 1)
  /\ turn # AtRest => written = 0
  /\ turn = AtRest => \A x \in Nat : BytesOf(q) < x /\ x <= logged =>
                                       x \in Range(TextOf(0)) \cup Range(buffered)

LogInv ==
  /\ LogTypeOK /\ Ordered /\ Bounded /\ Vacated
  /\ crashes = 0 /\ ~failed => \E q \in Nat : Rotated(q)

LEMMA LogParameters ==
  /\ NumFiles \in Nat /\ NumFiles >= 2 /\ Oldest \in Nat /\ Oldest >= 1
  /\ NumFiles = Oldest + 1 /\ AtRest = Oldest + 2
  /\ MaxFileSize \in Nat /\ MaxFileSize >= 1 /\ MaxBytes \in Nat /\ MaxCrashes \in Nat
BY NumFilesAssumption, LogBoundsAssumption DEF Oldest, AtRest

LEMMA SequenceIsFile == \A s \in Seq(1..MaxBytes) : s \in Seq(Nat) /\ s # NoFile
<1>1. 1..MaxBytes \subseteq Nat
  BY LogParameters
<1> QED BY <1>1, SeqMonotonic, NoFileAssumption

LEMMA LogFields ==
  ASSUME LogTypeOK
  PROVE  /\ stored \in [0..Oldest -> {NoFile} \cup Seq(1..MaxBytes)]
         /\ buffered \in Seq(1..MaxBytes) /\ written \in Nat /\ turn \in 0..AtRest
         /\ turn \in Nat /\ logged \in 0..MaxBytes /\ logged \in Nat
         /\ lost \subseteq 1..MaxBytes /\ crashes \in 0..MaxCrashes /\ crashes \in Nat
         /\ opened \in BOOLEAN /\ failed \in BOOLEAN
         /\ written <= MaxFileSize - 1 /\ written \in 0..(MaxFileSize - 1)
         /\ \A i \in 0..Oldest : /\ TextOf(i) \in Seq(1..MaxBytes)
                                 /\ NoLog(i) => TextOf(i) = <<>>
                                 /\ ~NoLog(i) => stored[i] = TextOf(i)
<1>1. <<>> \in Seq(1..MaxBytes)
  OBVIOUS
<1>2. ASSUME NEW i \in 0..Oldest
      PROVE  /\ TextOf(i) \in Seq(1..MaxBytes)
             /\ NoLog(i) => TextOf(i) = <<>>
             /\ ~NoLog(i) => stored[i] = TextOf(i)
  BY <1>1 DEF LogTypeOK, TextOf, NoLog
<1>3. /\ written \in Nat /\ turn \in Nat /\ logged \in Nat /\ crashes \in Nat
      /\ written <= MaxFileSize - 1
  BY LogParameters DEF LogTypeOK, Turns
<1> QED BY <1>2, <1>3 DEF LogTypeOK, Turns

(* A file is written, or deleted.                                           *)
LEMMA FileIsWritten ==
  ASSUME LogTypeOK, NEW k \in 0..Oldest, NEW s \in Seq(1..MaxBytes),
         stored' = [stored EXCEPT ![k] = s]
  PROVE  /\ stored' \in [0..Oldest -> {NoFile} \cup Seq(1..MaxBytes)]
         /\ TextOf(k)' = s /\ ~NoLog(k)'
         /\ \A i \in 0..Oldest : i # k => /\ TextOf(i)' = TextOf(i)
                                          /\ NoLog(i)' <=> NoLog(i)
BY LogFields, SequenceIsFile DEF TextOf, NoLog

LEMMA FileIsGone ==
  ASSUME LogTypeOK, NEW k \in 0..Oldest, stored' = [stored EXCEPT ![k] = NoFile]
  PROVE  /\ stored' \in [0..Oldest -> {NoFile} \cup Seq(1..MaxBytes)]
         /\ TextOf(k)' = <<>> /\ NoLog(k)'
         /\ \A i \in 0..Oldest : i # k => /\ TextOf(i)' = TextOf(i)
                                          /\ NoLog(i)' <=> NoLog(i)
BY LogFields DEF TextOf, NoLog

LEMMA NothingInEmpty ==
  /\ Range(<<>>) = {} /\ Increasing(<<>>) /\ Len(<<>>) = 0
  /\ \A s : Below(s, <<>>) /\ Below(<<>>, s)
BY DEF Range, Increasing, Below

LEMMA RangeIs ==
  ASSUME NEW s \in Seq(1..MaxBytes)
  PROVE  /\ Range(s) = {s[m] : m \in 1..Len(s)} /\ Range(s) \subseteq 1..MaxBytes
         /\ DOMAIN s = 1..Len(s) /\ Len(s) \in Nat
BY LenProperties, RangeEquality, RangeOfSeq

LEMMA JoinedIs ==
  ASSUME NEW s \in Seq(1..MaxBytes), NEW t \in Seq(1..MaxBytes)
  PROVE  /\ s \o t \in Seq(1..MaxBytes) /\ Len(s \o t) = Len(s) + Len(t)
         /\ Range(s \o t) = Range(s) \cup Range(t)
         /\ Increasing(s) /\ Increasing(t) /\ Below(s, t) => Increasing(s \o t)
<1>1. /\ s \o t \in Seq(1..MaxBytes) /\ Len(s \o t) = Len(s) + Len(t)
      /\ \A m \in 1..(Len(s) + Len(t)) : (s \o t)[m] = IF m <= Len(s) THEN s[m]
                                                       ELSE t[m - Len(s)]
  BY ConcatProperties
<1>2. Range(s \o t) = Range(s) \cup Range(t)
  BY RangeConcatenation
<1>3. ASSUME Increasing(s), Increasing(t), Below(s, t),
             NEW m \in DOMAIN (s \o t), NEW n \in DOMAIN (s \o t), m < n
      PROVE  (s \o t)[m] < (s \o t)[n]
  <2>1. /\ DOMAIN (s \o t) = 1..(Len(s) + Len(t))
        /\ DOMAIN s = 1..Len(s) /\ DOMAIN t = 1..Len(t)
        /\ Len(s) \in Nat /\ Len(t) \in Nat
    BY <1>1, RangeIs
  <2>2. CASE n <= Len(s)
    <3>1. (s \o t)[m] = s[m] /\ (s \o t)[n] = s[n] /\ m \in DOMAIN s /\ n \in DOMAIN s
      BY <1>1, <1>3, <2>1, <2>2
    <3> QED BY <1>3, <3>1 DEF Increasing
  <2>3. CASE m <= Len(s) /\ ~(n <= Len(s))
    <3>1. /\ (s \o t)[m] = s[m] /\ (s \o t)[n] = t[n - Len(s)]
          /\ m \in DOMAIN s /\ n - Len(s) \in DOMAIN t
      BY <1>1, <1>3, <2>1, <2>3
    <3>2. s[m] \in Range(s) /\ t[n - Len(s)] \in Range(t)
      BY <3>1 DEF Range
    <3> QED BY <1>3, <3>1, <3>2 DEF Below
  <2>4. CASE ~(m <= Len(s))
    <3>1. /\ (s \o t)[m] = t[m - Len(s)] /\ (s \o t)[n] = t[n - Len(s)]
          /\ m - Len(s) \in DOMAIN t /\ n - Len(s) \in DOMAIN t
          /\ m - Len(s) < n - Len(s)
      BY <1>1, <1>3, <2>1, <2>4
    <3> QED BY <1>3, <3>1 DEF Increasing
  <2> QED BY <1>3, <2>1, <2>2, <2>3, <2>4
<1>4. Increasing(s) /\ Increasing(t) /\ Below(s, t) => Increasing(s \o t)
  BY <1>3 DEF Increasing
<1> QED BY <1>1, <1>2, <1>4

LEMMA AppendedIs ==
  ASSUME NEW s \in Seq(1..MaxBytes), NEW n \in 1..MaxBytes,
         \A x \in Range(s) : x < n, Increasing(s)
  PROVE  /\ Append(s, n) \in Seq(1..MaxBytes) /\ Len(Append(s, n)) = Len(s) + 1
         /\ Range(Append(s, n)) = Range(s) \cup {n} /\ Increasing(Append(s, n))
<1> DEFINE t == <<n>>
<1>1. t \in Seq(1..MaxBytes) /\ Len(t) = 1 /\ Append(s, n) = s \o t
  BY AppendIsConcat
<1>2. t[1] = n /\ DOMAIN t = 1..1
  OBVIOUS
<1> HIDE DEF t
<1>3. Range(t) = {n} /\ Increasing(t)
  BY <1>2 DEF Range, Increasing
<1>4. Below(s, t)
  BY <1>3 DEF Below
<1> QED BY <1>1, <1>3, <1>4, JoinedIs

LEMMA BytesOfIs ==
  /\ \A n \in Int : BytesOf(n) \in Int /\ BytesOf(n + 1) = BytesOf(n) + MaxFileSize
  /\ BytesOf(0) = 0
BY LogParameters DEF BytesOf

LEMMA BytesOfGrow == \A n \in Nat, k \in Nat : BytesOf(n) \in Nat /\ BytesOf(n) <= BytesOf(n + k)
<1> SUFFICES ASSUME NEW n \in Nat, NEW k \in Nat
             PROVE  BytesOf(n) \in Nat /\ BytesOf(n) <= BytesOf(n + k)
  OBVIOUS
<1>1. n * MaxFileSize \in Nat /\ k * MaxFileSize \in Nat
  BY LogParameters
<1>2. (n + k) * MaxFileSize = n * MaxFileSize + k * MaxFileSize
  BY LogParameters
<1> QED BY <1>1, <1>2 DEF BytesOf

(* What a step drops from the log.                                          *)
Dropped == ~failed' => Logged \ Logged' \subseteq Range(TextOf(Oldest)) \cup lost'

LEMMA NothingDropped ==
  ASSUME \A i \in 0..Oldest : \A x \in Range(TextOf(i)) :
           \/ \E j \in 0..Oldest : x \in Range(TextOf(j)')
           \/ x \in Range(buffered') \/ i = Oldest,
         \A x \in Range(buffered) : \/ \E j \in 0..Oldest : x \in Range(TextOf(j)')
                                    \/ x \in Range(buffered') \/ x \in lost'
  PROVE  Dropped
<1> SUFFICES ASSUME NEW x \in Logged, x \notin Logged'
             PROVE  x \in Range(TextOf(Oldest)) \cup lost'
  BY DEF Dropped
<1>1. x \notin Range(buffered') /\ \A j \in 0..Oldest : x \notin Range(TextOf(j)')
  BY DEF Logged
<1>2. CASE x \in Range(buffered)
  BY <1>1, <1>2
<1>3. CASE x \notin Range(buffered)
  <2>1. PICK i \in 0..Oldest : x \in Range(TextOf(i))
    BY <1>3 DEF Logged
  <2>2. i = Oldest
    BY <1>1, <2>1
  <2> QED BY <2>1, <2>2
<1> QED BY <1>2, <1>3

LEMMA WriteStep ==
  ASSUME LogInv, Write
  PROVE  LogInv' /\ Dropped
<1> USE DEF LogInv
<1> DEFINE n == logged + 1
           b == Append(buffered, n)
<1>0. /\ turn = AtRest /\ opened /\ logged < MaxBytes /\ logged' = n
      /\ lost' = lost /\ failed' = failed /\ crashes' = crashes
      /\ logged \in Nat /\ written \in Nat /\ logged \in 0..MaxBytes
      /\ 0 \in 0..Oldest /\ Oldest \in Nat /\ MaxFileSize \in Nat
      /\ written <= MaxFileSize - 1 /\ buffered \in Seq(1..MaxBytes)
      /\ AtRest = Oldest + 2 /\ NumFiles = Oldest + 1 /\ MaxFileSize >= 1
  BY LogFields, LogParameters DEF Write
<1>1. n \in 1..MaxBytes /\ n \in Nat /\ logged < n
  BY <1>0, LogParameters
<1>2. \A x \in Range(buffered) : x < n
  <2>1. \A x \in Range(buffered) : x \in Nat
    BY <1>0, RangeIs, LogParameters
  <2> QED BY <1>0, <2>1 DEF Ordered
<1>3. /\ b \in Seq(1..MaxBytes) /\ Len(b) = Len(buffered) + 1 /\ Increasing(b)
      /\ Range(b) = Range(buffered) \cup {n}
  BY <1>0, <1>1, <1>2, AppendedIs DEF Ordered
<1>4. \A i \in 0..Oldest : /\ TextOf(i) \in Seq(1..MaxBytes)
                           /\ Range(TextOf(i)) \subseteq 1..MaxBytes
  BY LogFields, RangeIs
<1>5. \A i \in 0..Oldest : Below(TextOf(i), b)
  <2> SUFFICES ASSUME NEW i \in 0..Oldest, NEW x \in Range(TextOf(i)), NEW y \in Range(b)
               PROVE  x < y
    BY DEF Below
  <2>1. x \in Nat /\ x <= logged
    BY <1>4, LogParameters DEF Ordered
  <2>2. CASE y \in Range(buffered)
    BY <2>2 DEF Ordered, Below
  <2>3. CASE y = n
    BY <1>0, <2>1, <2>3
  <2> QED BY <1>3, <2>2, <2>3
<1>6. Len(buffered) \in Nat /\ Len(TextOf(0)) \in Nat
  BY <1>0, <1>4, RangeIs
<1>7. Len(TextOf(0)) + Len(buffered) = written
  BY <1>0 DEF Bounded
<1> HIDE DEF b
<1>8. CASE written + 1 < MaxFileSize
  <2>0. /\ buffered' = b /\ written' = written + 1 /\ stored' = stored
        /\ opened' = opened /\ turn' = turn
    BY <1>8 DEF Write, b
  <2>1. \A i \in 0..Oldest : TextOf(i)' = TextOf(i) /\ (NoLog(i)' <=> NoLog(i))
    BY <2>0 DEF TextOf, NoLog
  <2>2. LogTypeOK'
    BY <1>0, <1>1, <1>3, <1>8, <2>0 DEF LogTypeOK
  <2>3. Ordered'
    <3>1. \A i \in 0..Oldest : Increasing(TextOf(i)') /\ Below(TextOf(i)', b)
      BY <1>5, <2>1 DEF Ordered
    <3>2. \A i \in 0..Oldest : \A j \in 0..(i - 1) : Below(TextOf(i)', TextOf(j)')
      <4> SUFFICES ASSUME NEW i \in 0..Oldest, NEW j \in 0..(i - 1)
                   PROVE  Below(TextOf(i)', TextOf(j)')
        OBVIOUS
      <4>1. j \in 0..Oldest
        BY <1>0
      <4> QED BY <2>1, <4>1 DEF Ordered
    <3>3. \A i \in 0..Oldest : \A x \in Range(TextOf(i)') : x <= n
      <4> SUFFICES ASSUME NEW i \in 0..Oldest, NEW x \in Range(TextOf(i)) PROVE x <= n
        BY <2>1
      <4>1. x \in Nat /\ x <= logged
        BY <1>4, LogParameters DEF Ordered
      <4> QED BY <1>0, <4>1
    <3>4. \A x \in Range(b) : x <= n
      <4>1. \A x \in Range(buffered) : x \in Nat
        BY <1>0, RangeIs, LogParameters
      <4> QED BY <1>1, <1>2, <1>3, <4>1
    <3> QED BY <1>0, <1>3, <2>0, <3>1, <3>2, <3>3, <3>4 DEF Ordered
  <2>4. Bounded'
    <3>1. Len(TextOf(0)') + Len(buffered') = written'
      BY <1>0, <1>3, <1>6, <1>7, <2>0, <2>1
    <3>2. ~NoLog(0)'
      BY <1>0, <2>1 DEF Bounded
    <3> QED BY <1>0, <2>0, <2>1, <3>1, <3>2 DEF Bounded
  <2>5. Vacated'
    BY <1>0, <2>0 DEF Vacated
  <2>6. ASSUME crashes' = 0, ~failed' PROVE \E q \in Nat : Rotated(q)'
    <3>1. PICK q \in Nat : Rotated(q)
      BY <1>0, <2>6
    <3>2. BytesOf(q) \in Nat
      BY BytesOfGrow
    <3>3. \A i \in 0..Oldest, c \in Int : Holds(i, c)' <=> Holds(i, c)
      BY <2>1 DEF Holds
    <3>4. logged' = BytesOf(q) + written'
      BY <1>0, <2>0, <3>1, <3>2 DEF Rotated
    <3>5. \A i \in 1..Oldest : Holds(i, q - i + 1)'
      <4> SUFFICES ASSUME NEW i \in 1..Oldest PROVE Holds(i, q - i + 1)'
        OBVIOUS
      <4>1. i \in 0..Oldest /\ q - i + 1 \in Int
        OBVIOUS
      <4>2. Holds(i, q - i + 1)
        BY <1>0, <3>1 DEF Rotated
      <4> QED BY <3>3, <4>1, <4>2
    <3>6. ASSUME NEW x \in Nat, BytesOf(q) < x, x <= logged'
          PROVE  x \in Range(TextOf(0)') \cup Range(buffered')
      <4>1. x <= logged \/ x = n
        BY <1>0, <3>6
      <4>2. x <= logged => x \in Range(TextOf(0)) \cup Range(buffered)
        BY <1>0, <3>1, <3>6 DEF Rotated
      <4> QED BY <1>0, <1>3, <2>0, <2>1, <4>1, <4>2
    <3>7. Rotated(q)'
      BY <1>0, <2>0, <3>4, <3>5, <3>6 DEF Rotated
    <3> QED BY <3>7
  <2>7. Dropped
    <3>1. \A i \in 0..Oldest : \A x \in Range(TextOf(i)) :
            \E j \in 0..Oldest : x \in Range(TextOf(j)')
      BY <2>1
    <3>2. \A x \in Range(buffered) : x \in Range(buffered')
      BY <1>3, <2>0
    <3> QED BY <3>1, <3>2, NothingDropped
  <2> QED BY <2>2, <2>3, <2>4, <2>5, <2>6, <2>7
<1>9. CASE ~(written + 1 < MaxFileSize)
  <2> DEFINE s == TextOf(0) \o b
  <2>0. /\ stored' = [stored EXCEPT ![0] = s] /\ buffered' = <<>> /\ opened' = FALSE
        /\ written' = 0 /\ turn' = NumFiles /\ written + 1 = MaxFileSize
    BY <1>0, <1>9 DEF Write, Closed, b
  <2>1. /\ s \in Seq(1..MaxBytes) /\ Len(s) = Len(TextOf(0)) + Len(b)
        /\ Range(s) = Range(TextOf(0)) \cup Range(b) /\ Increasing(s)
    BY <1>0, <1>3, <1>4, <1>5, JoinedIs DEF Ordered
  <2> HIDE DEF s
  <2>2. /\ stored' \in [0..Oldest -> {NoFile} \cup Seq(1..MaxBytes)]
        /\ TextOf(0)' = s
        /\ \A i \in 0..Oldest : i # 0 => TextOf(i)' = TextOf(i)
    BY <1>0, <2>0, <2>1, FileIsWritten
  <2>3. LogTypeOK'
    <3>1. <<>> \in Seq(1..MaxBytes) /\ 0 \in 0..(MaxFileSize - 1) /\ NumFiles \in Turns
      BY <1>0 DEF Turns
    <3>2. logged' \in 0..MaxBytes
      BY <1>0, <1>1
    <3>3. buffered' \in Seq(1..MaxBytes) /\ written' \in 0..(MaxFileSize - 1)
          /\ turn' \in Turns /\ opened' \in BOOLEAN
      BY <2>0, <3>1
    <3> QED BY <1>0, <2>2, <3>2, <3>3 DEF LogTypeOK
  <2>4. Ordered'
    <3>1. \A i \in 0..Oldest : Increasing(TextOf(i)') /\ Below(TextOf(i)', <<>>)
      BY <2>1, <2>2, NothingInEmpty DEF Ordered
    <3>2. \A i \in 0..Oldest : \A j \in 0..(i - 1) : Below(TextOf(i)', TextOf(j)')
      <4> SUFFICES ASSUME NEW i \in 0..Oldest, NEW j \in 0..(i - 1)
                   PROVE  Below(TextOf(i)', TextOf(j)')
        OBVIOUS
      <4>1. j \in 0..Oldest /\ i # 0
        BY <1>0
      <4>2. Below(TextOf(i), TextOf(j)) /\ Below(TextOf(i), TextOf(0)) /\ Below(TextOf(i), b)
        <5>1. 0 \in 0..(i - 1)
          BY <1>0, <4>1
        <5> QED BY <1>5, <5>1 DEF Ordered
      <4>3. Below(TextOf(i), s)
        BY <2>1, <4>2 DEF Below
      <4> QED BY <2>2, <4>1, <4>2, <4>3
    <3>3. \A i \in 0..Oldest : \A x \in Range(TextOf(i)') : x <= n
      <4> SUFFICES ASSUME NEW i \in 0..Oldest, NEW x \in Range(TextOf(i)') PROVE x <= n
        OBVIOUS
      <4>1. x \in Range(TextOf(i)) \/ x \in Range(buffered) \/ x = n
        BY <1>3, <2>1, <2>2
      <4>2. x \in Range(TextOf(i)) => x \in Nat /\ x <= logged
        BY <1>4, LogParameters DEF Ordered
      <4>3. x \in Range(buffered) => x \in Nat /\ x < n
        BY <1>0, <1>2, RangeIs, LogParameters
      <4> QED BY <1>0, <1>1, <4>1, <4>2, <4>3
    <3> QED BY <1>0, <2>0, <3>1, <3>2, <3>3, NothingInEmpty DEF Ordered
  <2>5. Bounded'
    <3>1. Len(s) <= MaxFileSize
      BY <1>0, <1>3, <1>6, <1>7, <2>0, <2>1
    <3>2. \A i \in 0..Oldest : Len(TextOf(i)') <= MaxFileSize
      BY <2>2, <3>1 DEF Bounded
    <3> QED BY <2>0, <3>2 DEF Bounded
  <2>6. Vacated'
    BY <1>0, <2>0 DEF Vacated
  <2>7. ASSUME crashes' = 0, ~failed' PROVE \E q \in Nat : Rotated(q)'
    <3>1. PICK q \in Nat : Rotated(q)
      BY <1>0, <2>7
    <3>2. BytesOf(q) \in Nat /\ BytesOf(q + 1) = BytesOf(q) + MaxFileSize
      BY BytesOfGrow, BytesOfIs
    <3>3. logged' = BytesOf(q + 1) + written' /\ logged' = BytesOf(q + 1)
      <4>1. logged = BytesOf(q) + written
        BY <3>1 DEF Rotated
      <4> QED BY <1>0, <2>0, <3>2, <4>1
    <3>4. ASSUME NEW i \in 1..Oldest PROVE Holds(i, (q + 1) - i)'
      <4>1. i \in 0..Oldest /\ i # 0 /\ q - i + 1 = (q + 1) - i
        OBVIOUS
      <4>2. Holds(i, q - i + 1)
        BY <1>0, <3>1 DEF Rotated
      <4> QED BY <2>2, <4>1, <4>2 DEF Holds
    <3>5. Holds(0, (q + 1) - 0)'
      <4>1. (q + 1) - 0 = q + 1 /\ (q + 1) - 1 = q
        OBVIOUS
      <4> SUFFICES ASSUME NEW x \in Nat, BytesOf(q) < x, x <= BytesOf(q + 1)
                   PROVE  x \in Range(TextOf(0)')
        BY <4>1 DEF Holds
      <4>2. x <= logged \/ x = n
        BY <1>0, <3>2, <3>3
      <4>3. x <= logged => x \in Range(TextOf(0)) \cup Range(buffered)
        BY <1>0, <3>1 DEF Rotated
      <4> QED BY <1>3, <2>1, <2>2, <4>2, <4>3
    <3>6. \A i \in 0..Oldest : Holds(i, (q + 1) - i)'
      BY <3>4, <3>5
    <3>7. turn' # AtRest /\ \A i \in 1..Oldest : ~(i > turn')
      BY <1>0, <2>0
    <3>8. Rotated(q + 1)'
      BY <2>0, <3>3, <3>6, <3>7 DEF Rotated
    <3> QED BY <3>8
  <2>8. Dropped
    <3>1. \A i \in 0..Oldest : \A x \in Range(TextOf(i)) : x \in Range(TextOf(i)')
      BY <2>1, <2>2
    <3>2. \A x \in Range(buffered) : x \in Range(TextOf(0)')
      BY <1>3, <2>1, <2>2
    <3> QED BY <1>0, <3>1, <3>2, NothingDropped
  <2> QED BY <2>3, <2>4, <2>5, <2>6, <2>7, <2>8
<1> QED BY <1>8, <1>9

LEMMA FlushStep ==
  ASSUME LogInv, Flush
  PROVE  LogInv' /\ Dropped
<1> USE DEF LogInv
<1> DEFINE s == TextOf(0) \o buffered
<1>0. /\ opened /\ turn = AtRest /\ ~NoLog(0) /\ stored[0] = TextOf(0) /\ 0 \in 0..Oldest
      /\ buffered' = <<>> /\ opened' = opened /\ written' = written /\ turn' = turn
      /\ logged' = logged /\ lost' = lost /\ failed' = failed /\ crashes' = crashes
      /\ Oldest \in Nat /\ AtRest = Oldest + 2 /\ buffered \in Seq(1..MaxBytes)
  BY LogFields, LogParameters DEF Flush, Bounded
<1>1. stored' = [stored EXCEPT ![0] = s]
  BY <1>0 DEF Flush
<1>2. \A i \in 0..Oldest : TextOf(i) \in Seq(1..MaxBytes)
  BY LogFields
<1>3. /\ s \in Seq(1..MaxBytes) /\ Len(s) = Len(TextOf(0)) + Len(buffered)
      /\ Range(s) = Range(TextOf(0)) \cup Range(buffered) /\ Increasing(s)
  BY <1>0, <1>2, JoinedIs DEF Ordered
<1> HIDE DEF s
<1>4. /\ stored' \in [0..Oldest -> {NoFile} \cup Seq(1..MaxBytes)]
      /\ TextOf(0)' = s /\ ~NoLog(0)'
      /\ \A i \in 0..Oldest : i # 0 => TextOf(i)' = TextOf(i)
  BY <1>0, <1>1, <1>3, FileIsWritten
<1>5. LogTypeOK'
  <2>1. <<>> \in Seq(1..MaxBytes)
    OBVIOUS
  <2> QED BY <1>0, <1>4, <2>1 DEF LogTypeOK
<1>6. Ordered'
  <2>1. \A i \in 0..Oldest : Increasing(TextOf(i)') /\ Below(TextOf(i)', <<>>)
    BY <1>3, <1>4, NothingInEmpty DEF Ordered
  <2>2. \A i \in 0..Oldest : \A j \in 0..(i - 1) : Below(TextOf(i)', TextOf(j)')
    <3> SUFFICES ASSUME NEW i \in 0..Oldest, NEW j \in 0..(i - 1)
                 PROVE  Below(TextOf(i)', TextOf(j)')
      OBVIOUS
    <3>1. j \in 0..Oldest /\ i # 0 /\ 0 \in 0..(i - 1)
      BY <1>0
    <3>2. Below(TextOf(i), TextOf(j)) /\ Below(TextOf(i), TextOf(0)) /\ Below(TextOf(i), buffered)
      BY <3>1 DEF Ordered
    <3>3. Below(TextOf(i), s)
      BY <1>3, <3>2 DEF Below
    <3> QED BY <1>4, <3>1, <3>2, <3>3
  <2>3. \A i \in 0..Oldest : \A x \in Range(TextOf(i)') : x <= logged
    BY <1>0, <1>3, <1>4 DEF Ordered
  <2> QED BY <1>0, <2>1, <2>2, <2>3, NothingInEmpty DEF Ordered
<1>7. Bounded'
  <2>1. Len(s) = written /\ Len(s) <= MaxFileSize /\ Len(s) \in Nat
    BY <1>0, <1>3, LogFields, LogParameters DEF Bounded
  <2>2. Len(TextOf(0)') + Len(<<>>) = written
    BY <1>4, <2>1, NothingInEmpty
  <2>3. \A i \in 0..Oldest : Len(TextOf(i)') <= MaxFileSize
    BY <1>4, <2>1 DEF Bounded
  <2> QED BY <1>0, <1>4, <2>2, <2>3 DEF Bounded
<1>8. Vacated'
  BY <1>0 DEF Vacated
<1>9. ASSUME crashes' = 0, ~failed' PROVE \E q \in Nat : Rotated(q)'
  <2>1. PICK q \in Nat : Rotated(q)
    BY <1>0, <1>9
  <2>2. \A i \in 1..Oldest : Holds(i, q - i + 1)'
    <3> SUFFICES ASSUME NEW i \in 1..Oldest PROVE Holds(i, q - i + 1)'
      OBVIOUS
    <3>1. i \in 0..Oldest /\ i # 0
      OBVIOUS
    <3>2. Holds(i, q - i + 1)
      BY <1>0, <2>1 DEF Rotated
    <3> QED BY <1>4, <3>1, <3>2 DEF Holds
  <2>3. ASSUME NEW x \in Nat, BytesOf(q) < x, x <= logged'
        PROVE  x \in Range(TextOf(0)') \cup Range(buffered')
    BY <1>0, <1>3, <1>4, <2>1, <2>3 DEF Rotated
  <2>4. Rotated(q)'
    BY <1>0, <2>1, <2>2, <2>3 DEF Rotated
  <2> QED BY <2>4
<1>10. Dropped
  <2>1. \A i \in 0..Oldest : \A x \in Range(TextOf(i)) : x \in Range(TextOf(i)')
    BY <1>3, <1>4
  <2>2. \A x \in Range(buffered) : x \in Range(TextOf(0)')
    BY <1>3, <1>4
  <2> QED BY <1>0, <2>1, <2>2, NothingDropped
<1> QED BY <1>5, <1>6, <1>7, <1>8, <1>9, <1>10

(* While the stream is closed the buffer is empty; a step that keeps or     *)
(* empties files keeps the order.                                           *)
LEMMA OrderedStays ==
  ASSUME LogInv, ~opened, buffered' = buffered, logged' = logged,
         \A i \in 0..Oldest : TextOf(i)' = TextOf(i) \/ TextOf(i)' = <<>>
  PROVE  Ordered'
<1>1. \A i \in 0..Oldest : Increasing(TextOf(i)') /\ Below(TextOf(i)', buffered)
  BY NothingInEmpty DEF LogInv, Ordered
<1>2. \A i \in 0..Oldest : \A j \in 0..(i - 1) : Below(TextOf(i)', TextOf(j)')
  <2> SUFFICES ASSUME NEW i \in 0..Oldest, NEW j \in 0..(i - 1)
               PROVE  Below(TextOf(i)', TextOf(j)')
    OBVIOUS
  <2>1. j \in 0..Oldest
    BY LogParameters
  <2> QED BY <2>1, NothingInEmpty DEF LogInv, Ordered
<1>3. \A i \in 0..Oldest : \A x \in Range(TextOf(i)') : x <= logged
  BY NothingInEmpty DEF LogInv, Ordered
<1> QED BY <1>1, <1>2, <1>3 DEF LogInv, Ordered

LEMMA DeleteStep ==
  ASSUME LogInv, Delete
  PROVE  LogInv' /\ Dropped
<1> USE DEF LogInv
<1>0. /\ turn = NumFiles /\ turn' = Oldest /\ NumFiles = Oldest + 1 /\ AtRest = Oldest + 2
      /\ Oldest \in Nat /\ Oldest \in 0..Oldest /\ ~opened
      /\ buffered' = buffered /\ opened' = opened /\ written' = written
      /\ logged' = logged /\ lost' = lost /\ failed' = failed /\ crashes' = crashes
  BY LogParameters DEF Delete, Bounded
<1>1. /\ stored' \in [0..Oldest -> {NoFile} \cup Seq(1..MaxBytes)]
      /\ \A i \in 0..Oldest : i # Oldest => TextOf(i)' = TextOf(i)
      /\ TextOf(Oldest)' = <<>> \/ TextOf(Oldest)' = TextOf(Oldest)
  <2>1. CASE stored' = stored
    BY <2>1, LogFields DEF TextOf, NoLog
  <2>2. CASE stored' = [stored EXCEPT ![Oldest] = NoFile]
    BY <1>0, <2>2, FileIsGone
  <2> QED BY <2>1, <2>2 DEF Delete
<1>2. LogTypeOK'
  BY <1>0, <1>1 DEF LogTypeOK, Turns
<1>3. Ordered'
  BY <1>0, <1>1, OrderedStays
<1>4. Bounded' /\ Vacated'
  BY <1>0, <1>1, NothingInEmpty, LogParameters DEF Bounded, Vacated
<1>5. ASSUME crashes' = 0, ~failed' PROVE \E q \in Nat : Rotated(q)'
  <2>1. PICK q \in Nat : Rotated(q)
    BY <1>0, <1>5
  <2>2. ASSUME NEW i \in 0..Oldest, i < Oldest PROVE Holds(i, q - i)'
    <3>1. Holds(i, q - i)
      BY <1>0, <2>1, <2>2 DEF Rotated
    <3> QED BY <1>1, <2>2, <3>1 DEF Holds
  <2>3. /\ \A i \in 1..Oldest : ~(i > Oldest)
        /\ turn # AtRest /\ turn' # AtRest
    BY <1>0
  <2>4. Rotated(q)'
    BY <1>0, <2>1, <2>2, <2>3 DEF Rotated
  <2> QED BY <2>4
<1>6. Dropped
  <2>1. \A i \in 0..Oldest : \A x \in Range(TextOf(i)) :
          i = Oldest \/ \E j \in 0..Oldest : x \in Range(TextOf(j)')
    BY <1>1
  <2> QED BY <1>0, <2>1, NothingDropped
<1> QED BY <1>2, <1>3, <1>4, <1>5, <1>6

LEMMA OpenFileStep ==
  ASSUME LogInv, OpenFile
  PROVE  LogInv' /\ Dropped
<1> USE DEF LogInv
<1>0. /\ turn = 0 /\ turn' = AtRest /\ NumFiles = Oldest + 1 /\ AtRest = Oldest + 2
      /\ Oldest \in Nat /\ Oldest >= 1 /\ 0 \in 0..Oldest /\ ~opened
      /\ buffered' = buffered /\ written' = written /\ buffered = <<>> /\ written = 0
      /\ logged' = logged /\ lost' = lost /\ failed' = failed /\ crashes' = crashes
  BY LogParameters DEF OpenFile, Bounded
<1>1. /\ stored' \in [0..Oldest -> {NoFile} \cup Seq(1..MaxBytes)]
      /\ \A i \in 0..Oldest : i # 0 => TextOf(i)' = TextOf(i)
      /\ TextOf(0)' = <<>> \/ TextOf(0)' = TextOf(0)
      /\ opened' => TextOf(0)' = <<>> /\ ~NoLog(0)'
      /\ opened' \in BOOLEAN
  <2>1. CASE stored' = stored /\ opened' = opened
    BY <1>0, <2>1, LogFields DEF TextOf, NoLog
  <2>2. CASE stored' = [stored EXCEPT ![0] = <<>>] /\ opened' = TRUE
    <3>1. <<>> \in Seq(1..MaxBytes)
      OBVIOUS
    <3> QED BY <1>0, <2>2, <3>1, FileIsWritten
  <2> QED BY <2>1, <2>2 DEF OpenFile
<1>2. LogTypeOK'
  BY <1>0, <1>1 DEF LogTypeOK, Turns
<1>3. Ordered'
  BY <1>0, <1>1, OrderedStays
<1>4. Bounded'
  <2>1. \A i \in 0..Oldest : Len(TextOf(i)') <= MaxFileSize
    BY <1>1, NothingInEmpty, LogParameters DEF Bounded
  <2>2. opened' => Len(TextOf(0)') + Len(buffered') = written'
    BY <1>0, <1>1, NothingInEmpty
  <2> QED BY <1>0, <1>1, <2>1, <2>2 DEF Bounded
<1>5. Vacated'
  BY <1>0 DEF Vacated
<1>6. ASSUME crashes' = 0, ~failed' PROVE \E q \in Nat : Rotated(q)'
  <2>1. PICK q \in Nat : Rotated(q)
    BY <1>0, <1>6
  <2>2. ASSUME NEW i \in 1..Oldest PROVE Holds(i, q - i + 1)'
    <3>1. i \in 0..Oldest /\ i # 0 /\ i > turn
      BY <1>0
    <3>2. Holds(i, q - i + 1)
      BY <2>1, <3>1 DEF Rotated
    <3> QED BY <1>1, <3>1, <3>2 DEF Holds
  <2>3. BytesOf(q) \in Nat /\ logged = BytesOf(q)
    BY <1>0, <2>1, BytesOfGrow DEF Rotated
  <2>4. \A x \in Nat : ~(BytesOf(q) < x /\ x <= logged)
    BY <2>3
  <2>5. Rotated(q)'
    BY <1>0, <2>1, <2>2, <2>4 DEF Rotated
  <2> QED BY <2>5
<1>7. Dropped
  <2>1. ~failed' => NoLog(0)
    BY <1>0 DEF Vacated
  <2>2. NoLog(0) => Range(TextOf(0)) = {}
    BY <1>0, LogFields, NothingInEmpty
  <2>3. CASE failed'
    BY <2>3 DEF Dropped
  <2>4. CASE ~failed'
    <3>1. \A i \in 0..Oldest : \A x \in Range(TextOf(i)) :
            \E j \in 0..Oldest : x \in Range(TextOf(j)')
      BY <1>1, <2>1, <2>2, <2>4
    <3> QED BY <1>0, <3>1, NothingDropped
  <2> QED BY <2>3, <2>4
<1> QED BY <1>2, <1>3, <1>4, <1>5, <1>6, <1>7

LEMMA CrashStep ==
  ASSUME LogInv, CrashAndRestart
  PROVE  LogInv' /\ Dropped
<1> USE DEF LogInv
<1>0. /\ crashes < MaxCrashes /\ crashes' = crashes + 1
      /\ lost' = lost \cup Range(buffered) /\ buffered' = <<>> /\ opened' = FALSE
      /\ written' = 0 /\ turn' = NumFiles /\ stored' = stored /\ logged' = logged
      /\ failed' = failed /\ crashes \in Nat /\ NumFiles = Oldest + 1
      /\ AtRest = Oldest + 2 /\ Oldest \in Nat /\ buffered \in Seq(1..MaxBytes)
  BY LogFields, LogParameters DEF CrashAndRestart
<1>1. \A i \in 0..Oldest : TextOf(i)' = TextOf(i)
  BY <1>0 DEF TextOf, NoLog
<1>2. LogTypeOK'
  <2>1. <<>> \in Seq(1..MaxBytes) /\ 0 \in 0..(MaxFileSize - 1) /\ NumFiles \in Turns
    BY <1>0, LogParameters DEF Turns
  <2>2. crashes' \in 0..MaxCrashes
    BY <1>0, LogParameters
  <2>3. lost' \subseteq 1..MaxBytes
    BY <1>0, RangeIs DEF LogTypeOK
  <2>4. buffered' \in Seq(1..MaxBytes) /\ written' \in 0..(MaxFileSize - 1)
        /\ turn' \in Turns /\ opened' \in BOOLEAN
    BY <1>0, <2>1
  <2> QED BY <1>0, <2>2, <2>3, <2>4 DEF LogTypeOK
<1>3. Ordered'
  <2>1. \A i \in 0..Oldest : \A j \in 0..(i - 1) : Below(TextOf(i)', TextOf(j)')
    <3> SUFFICES ASSUME NEW i \in 0..Oldest, NEW j \in 0..(i - 1)
                 PROVE  Below(TextOf(i)', TextOf(j)')
      OBVIOUS
    <3>1. j \in 0..Oldest
      BY <1>0
    <3> QED BY <1>1, <3>1 DEF Ordered
  <2> QED BY <1>0, <1>1, <2>1, NothingInEmpty DEF Ordered
<1>4. Bounded' /\ Vacated' /\ crashes' # 0
  BY <1>0, <1>1 DEF Bounded, Vacated
<1>5. Dropped
  <2>1. \A x \in Range(buffered) : x \in lost'
    BY <1>0
  <2> QED BY <1>1, <2>1, NothingDropped
<1> QED BY <1>2, <1>3, <1>4, <1>5

LEMMA FileIsMoved ==
  ASSUME LogTypeOK, NEW t \in 1..Oldest, ~NoLog(t - 1),
         stored' = [stored EXCEPT ![t] = stored[t - 1], ![t - 1] = NoFile]
  PROVE  /\ stored' \in [0..Oldest -> {NoFile} \cup Seq(1..MaxBytes)]
         /\ TextOf(t)' = TextOf(t - 1) /\ TextOf(t - 1)' = <<>> /\ NoLog(t - 1)'
         /\ \A i \in 0..Oldest : i # t /\ i # t - 1 => TextOf(i)' = TextOf(i)
<1>0. /\ t \in 0..Oldest /\ t - 1 \in 0..Oldest /\ t # t - 1
      /\ stored \in [0..Oldest -> {NoFile} \cup Seq(1..MaxBytes)]
      /\ stored[t - 1] = TextOf(t - 1) /\ stored[t - 1] # NoFile
  <2>1. t \in 0..Oldest /\ t - 1 \in 0..Oldest /\ t # t - 1
    BY LogParameters
  <2> QED BY <2>1, LogFields DEF NoLog
<1> DEFINE u == t - 1
           s == stored[u]
<1>1. u \in 0..Oldest /\ u # t /\ s # NoFile /\ s = TextOf(u)
  BY <1>0
<1>2. /\ \A i \in 0..Oldest : i # t /\ i # u => stored'[i] = stored[i]
      /\ stored'[t] = s /\ stored'[u] = NoFile
      /\ stored' \in [0..Oldest -> {NoFile} \cup Seq(1..MaxBytes)]
  BY <1>0, <1>1
<1> HIDE DEF s, u
<1>3. TextOf(t)' = TextOf(u) /\ TextOf(u)' = <<>> /\ NoLog(u)'
  BY <1>1, <1>2 DEF TextOf, NoLog
<1>4. \A i \in 0..Oldest : i # t /\ i # u => TextOf(i)' = TextOf(i)
  BY <1>2 DEF TextOf, NoLog
<1> QED BY <1>2, <1>3, <1>4 DEF u

LEMMA MoveStep ==
  ASSUME LogInv, Move
  PROVE  LogInv' /\ Dropped
<1> USE DEF LogInv
<1>a. PICK t \in 1..Oldest : turn = t
  BY DEF Move
<1>b. PICK u \in 0..Oldest : u = t - 1
  BY LogParameters
<1>c. /\ turn = t /\ turn' = u /\ t \in Nat /\ u \in Nat
      /\ NumFiles = Oldest + 1 /\ AtRest = Oldest + 2 /\ Oldest \in Nat
      /\ t # AtRest /\ u # AtRest /\ t \in 0..Oldest /\ u # t /\ u < Oldest
  BY <1>a, <1>b, LogParameters DEF Move
<1>d. ~opened /\ buffered = <<>> /\ written = 0
  BY <1>c DEF Bounded
<1>e. /\ buffered' = buffered /\ opened' = opened /\ written' = written
      /\ logged' = logged /\ lost' = lost /\ crashes' = crashes /\ failed \in BOOLEAN
  BY LogFields DEF Move
<1>0. /\ turn = t /\ turn' = u /\ t \in Nat /\ u \in Nat /\ u = t - 1
      /\ NumFiles = Oldest + 1 /\ AtRest = Oldest + 2 /\ Oldest \in Nat
      /\ ~opened /\ buffered = <<>> /\ written = 0 /\ t # AtRest /\ u # AtRest
      /\ buffered' = buffered /\ opened' = opened /\ written' = written
      /\ logged' = logged /\ lost' = lost /\ crashes' = crashes
      /\ t \in 0..Oldest /\ u # t /\ u < Oldest /\ failed \in BOOLEAN
  BY <1>b, <1>c, <1>d, <1>e
<1>1. \/ NoLog(u) /\ stored' = stored /\ failed' = failed
      \/ /\ ~NoLog(u) /\ failed' = failed
         /\ stored' = [stored EXCEPT ![t] = stored[u], ![u] = NoFile]
      \/ stored' = stored /\ failed' = TRUE
  BY <1>a, <1>b DEF Move, Target
<1>2. turn' \in Turns
  BY <1>0 DEF Turns
<1>3. CASE stored' = stored
  <2>1. \A i \in 0..Oldest : TextOf(i)' = TextOf(i) /\ (NoLog(i)' <=> NoLog(i))
    BY <1>3 DEF TextOf, NoLog
  <2>2. failed' \in BOOLEAN /\ (~failed' => ~failed /\ NoLog(u))
    <3>1. CASE NoLog(u) /\ failed' = failed
      BY <1>0, <3>1
    <3>2. CASE /\ ~NoLog(u)
               /\ stored' = [stored EXCEPT ![t] = stored[u], ![u] = NoFile]
      <4>1. NoLog(u)'
        BY <1>b, <3>2, FileIsMoved
      <4> QED BY <2>1, <3>2, <4>1
    <3>3. CASE failed' = TRUE
      BY <3>3
    <3> QED BY <1>1, <3>1, <3>2, <3>3
  <2>3. LogTypeOK'
    BY <1>0, <1>2, <1>3, <2>2 DEF LogTypeOK
  <2>4. Ordered'
    BY <1>0, <2>1, OrderedStays
  <2>5. Bounded'
    BY <1>0, <2>1 DEF Bounded
  <2>6. Vacated'
    BY <1>0, <2>1, <2>2 DEF Vacated
  <2>7. ASSUME crashes' = 0, ~failed' PROVE \E q \in Nat : Rotated(q)'
    <3>1. PICK q \in Nat : Rotated(q)
      BY <1>0, <2>2, <2>7
    <3>2. \A i \in 0..Oldest, c \in Int : Holds(i, c)' <=> Holds(i, c)
      BY <2>1 DEF Holds
    <3>3. ASSUME NEW i \in 0..Oldest, i < u PROVE Holds(i, q - i)'
      <4>1. Holds(i, q - i) /\ q - i \in Int
        BY <1>0, <3>1, <3>3 DEF Rotated
      <4> QED BY <3>2, <4>1
    <3>4. ASSUME NEW i \in 1..Oldest, i > u PROVE Holds(i, q - i + 1)'
      <4>1. i \in 0..Oldest /\ q - i + 1 \in Int
        OBVIOUS
      <4>2. CASE i > t
        <5>1. Holds(i, q - i + 1)
          BY <1>0, <3>1, <4>2 DEF Rotated
        <5> QED BY <3>2, <4>1, <5>1
      <4>3. CASE i = t
        <5>1. Holds(u, q - u) /\ q - u = q - i + 1
          BY <1>0, <3>1, <4>3 DEF Rotated
        <5>2. Range(TextOf(u)) = {}
          BY <1>0, <2>2, <2>7, LogFields, NothingInEmpty
        <5>3. Holds(i, q - i + 1)
          BY <5>1, <5>2 DEF Holds
        <5> QED BY <3>2, <4>1, <5>3
      <4> QED BY <1>0, <3>4, <4>2, <4>3
    <3>5. Rotated(q)'
      BY <1>0, <3>1, <3>3, <3>4 DEF Rotated
    <3> QED BY <3>5
  <2>8. Dropped
    BY <1>0, <2>1, NothingDropped, NothingInEmpty
  <2> QED BY <2>3, <2>4, <2>5, <2>6, <2>7, <2>8
<1>4. CASE /\ ~NoLog(u) /\ failed' = failed
           /\ stored' = [stored EXCEPT ![t] = stored[u], ![u] = NoFile]
  <2>1. /\ stored' \in [0..Oldest -> {NoFile} \cup Seq(1..MaxBytes)]
        /\ TextOf(t)' = TextOf(u) /\ TextOf(u)' = <<>> /\ NoLog(u)'
        /\ \A i \in 0..Oldest : i # t /\ i # u => TextOf(i)' = TextOf(i)
    BY <1>b, <1>4, FileIsMoved
  <2>2. LogTypeOK'
    BY <1>0, <1>2, <1>4, <2>1 DEF LogTypeOK
  <2>3. Ordered'
    <3>1. \A i \in 0..Oldest : Increasing(TextOf(i)') /\ Below(TextOf(i)', buffered)
      BY <1>0, <2>1, NothingInEmpty DEF Ordered
    <3>2. \A i \in 0..Oldest : \A j \in 0..(i - 1) : Below(TextOf(i)', TextOf(j)')
      <4> SUFFICES ASSUME NEW i \in 0..Oldest, NEW j \in 0..(i - 1)
                   PROVE  Below(TextOf(i)', TextOf(j)')
        OBVIOUS
      <4>1. j \in 0..Oldest /\ j < i
        BY <1>0
      <4>2. CASE i = u \/ j = u
        BY <2>1, <4>2, NothingInEmpty
      <4>3. CASE i = t /\ j # u
        <5>1. j \in 0..(u - 1) /\ j # t
          BY <1>0, <4>1, <4>3
        <5>2. Below(TextOf(u), TextOf(j))
          BY <5>1 DEF Ordered
        <5>3. TextOf(i)' = TextOf(u) /\ TextOf(j)' = TextOf(j)
          BY <2>1, <4>1, <4>3, <5>1
        <5> QED BY <5>2, <5>3
      <4>4. CASE j = t /\ i # u
        <5>1. u \in 0..(i - 1) /\ i # t
          BY <1>0, <4>1, <4>4
        <5>2. Below(TextOf(i), TextOf(u))
          BY <5>1 DEF Ordered
        <5>3. TextOf(j)' = TextOf(u) /\ TextOf(i)' = TextOf(i)
          BY <2>1, <4>4, <5>1
        <5> QED BY <5>2, <5>3
      <4>5. CASE i # t /\ j # t /\ i # u /\ j # u
        BY <2>1, <4>1, <4>5 DEF Ordered
      <4> QED BY <4>2, <4>3, <4>4, <4>5
    <3>3. \A i \in 0..Oldest : \A x \in Range(TextOf(i)') : x <= logged
      BY <1>0, <2>1, NothingInEmpty DEF Ordered
    <3> QED BY <1>0, <3>1, <3>2, <3>3 DEF Ordered
  <2>4. Bounded'
    <3>1. ASSUME NEW i \in 0..Oldest PROVE Len(TextOf(i)') <= MaxFileSize
      <4>1. CASE i = u
        BY <2>1, <4>1, NothingInEmpty, LogParameters
      <4>2. CASE i = t
        BY <2>1, <4>2 DEF Bounded
      <4>3. CASE i # u /\ i # t
        BY <2>1, <4>3 DEF Bounded
      <4> QED BY <4>1, <4>2, <4>3
    <3> QED BY <1>0, <3>1 DEF Bounded
  <2>5. Vacated'
    BY <1>0, <2>1 DEF Vacated
  <2>6. ASSUME crashes' = 0, ~failed' PROVE \E q \in Nat : Rotated(q)'
    <3>1. PICK q \in Nat : Rotated(q)
      BY <1>0, <1>4, <2>6
    <3>2. ASSUME NEW i \in 0..Oldest, i < u PROVE Holds(i, q - i)'
      <4>1. Holds(i, q - i) /\ i # t /\ i # u
        BY <1>0, <3>1, <3>2 DEF Rotated
      <4>2. TextOf(i)' = TextOf(i)
        BY <2>1, <4>1
      <4> QED BY <4>1, <4>2 DEF Holds
    <3>3. ASSUME NEW i \in 1..Oldest, i > u PROVE Holds(i, q - i + 1)'
      <4>1. CASE i > t
        <5>1. Holds(i, q - i + 1) /\ i # t /\ i # u /\ i \in 0..Oldest
          BY <1>0, <3>1, <3>3, <4>1 DEF Rotated
        <5>2. TextOf(i)' = TextOf(i)
          BY <2>1, <5>1
        <5> QED BY <5>1, <5>2 DEF Holds
      <4>2. CASE i = t
        <5>1. Holds(u, q - u) /\ q - u = q - i + 1
          BY <1>0, <3>1, <4>2 DEF Rotated
        <5>2. TextOf(i)' = TextOf(u)
          BY <2>1, <4>2
        <5> QED BY <5>1, <5>2 DEF Holds
      <4> QED BY <1>0, <3>3, <4>1, <4>2
    <3>4. Rotated(q)'
      BY <1>0, <3>1, <3>2, <3>3 DEF Rotated
    <3> QED BY <3>4
  <2>7. Dropped
    <3>1. CASE failed
      BY <1>4, <3>1 DEF Dropped
    <3>2. CASE ~failed
      <4>1. ASSUME NEW i \in 0..Oldest, NEW x \in Range(TextOf(i))
            PROVE  i = Oldest \/ \E j \in 0..Oldest : x \in Range(TextOf(j)')
        <5>1. CASE i = u
          BY <1>0, <2>1, <4>1, <5>1
        <5>2. CASE i = t /\ i # Oldest
          <6>1. NoLog(t)
            BY <1>0, <3>2, <5>2 DEF Vacated
          <6>2. Range(TextOf(i)) = {}
            BY <1>0, <5>2, <6>1, LogFields, NothingInEmpty
          <6> QED BY <4>1, <6>2
        <5>3. CASE i # u /\ i # t
          BY <2>1, <4>1, <5>3
        <5> QED BY <5>1, <5>2, <5>3
      <4>2. Range(buffered) = {}
        BY <1>0, NothingInEmpty
      <4> QED BY <4>1, <4>2, NothingDropped
    <3> QED BY <3>1, <3>2
  <2> QED BY <2>2, <2>3, <2>4, <2>5, <2>6, <2>7
<1> QED BY <1>1, <1>3, <1>4

LEMMA LogInvInit == LogInit => LogInv
<1> SUFFICES ASSUME LogInit PROVE LogInv
  OBVIOUS
<1>0. /\ NumFiles = Oldest + 1 /\ AtRest = Oldest + 2 /\ Oldest \in Nat
      /\ turn = NumFiles /\ buffered = <<>> /\ written = 0 /\ ~opened /\ logged = 0
      /\ lost = {} /\ failed = FALSE /\ crashes = 0 /\ opened = FALSE
      /\ stored = [i \in 0..Oldest |-> NoFile]
      /\ MaxFileSize \in Nat /\ MaxFileSize >= 1 /\ MaxBytes \in Nat /\ MaxCrashes \in Nat
  BY LogParameters DEF LogInit
<1>1. \A i \in 0..Oldest : TextOf(i) = <<>>
  BY <1>0 DEF TextOf, NoLog
<1>2. LogTypeOK
  <2>1. /\ <<>> \in Seq(1..MaxBytes) /\ 0 \in 0..(MaxFileSize - 1) /\ NumFiles \in Turns
        /\ 0 \in 0..MaxBytes /\ 0 \in 0..MaxCrashes
    BY <1>0 DEF Turns
  <2>2. stored \in [0..Oldest -> {NoFile} \cup Seq(1..MaxBytes)]
    BY <1>0
  <2> QED BY <1>0, <2>1, <2>2 DEF LogTypeOK
<1>3. Ordered
  <2>1. \A i \in 0..Oldest : \A j \in 0..(i - 1) : Below(TextOf(i), TextOf(j))
    BY <1>1, NothingInEmpty
  <2> QED BY <1>0, <1>1, <2>1, NothingInEmpty DEF Ordered
<1>4. Bounded /\ Vacated
  BY <1>0, <1>1, NothingInEmpty DEF Bounded, Vacated
<1>5. Rotated(0)
  <2>1. \A i \in 0..Oldest : Holds(i, 0 - i)
    BY <1>0 DEF Holds
  <2>2. logged = BytesOf(0) + written /\ turn # AtRest
    BY <1>0, BytesOfIs
  <2>3. \A i \in 1..Oldest : ~(i > turn)
    BY <1>0
  <2> QED BY <1>0, <2>1, <2>2, <2>3 DEF Rotated
<1> QED BY <1>2, <1>3, <1>4, <1>5 DEF LogInv

LEMMA LogInvStep == LogInv /\ [LogNext]_logVars => LogInv' /\ Dropped
<1> SUFFICES ASSUME LogInv, [LogNext]_logVars PROVE LogInv' /\ Dropped
  OBVIOUS
<1>1. CASE UNCHANGED logVars
  <2>1. Logged' = Logged
    BY <1>1 DEF logVars, Logged, TextOf, NoLog
  <2>2. LogInv'
    BY <1>1 DEF logVars, LogInv, LogTypeOK, Ordered, Bounded, Vacated, Rotated, Holds,
                Increasing, Below, TextOf, NoLog
  <2> QED BY <2>1, <2>2 DEF Dropped
<1>2. CASE LogNext
  BY <1>2, WriteStep, FlushStep, DeleteStep, MoveStep, OpenFileStep, CrashStep DEF LogNext
<1> QED BY <1>1, <1>2

LEMMA OrderHolds == LogInv => InOrder
<1> SUFFICES ASSUME LogInv, NEW i \in 0..Oldest
             PROVE  /\ Len(TextOf(i)) <= MaxFileSize
                    /\ \A m \in DOMAIN TextOf(i), n \in DOMAIN TextOf(i) :
                         m < n => stored[i][m] < stored[i][n]
                    /\ \A j \in 0..(i - 1) :
                         \A old \in Range(TextOf(i)), new \in Range(TextOf(j)) : old < new
  BY DEF InOrder
<1>1. Len(TextOf(i)) <= MaxFileSize
  BY DEF LogInv, Bounded
<1>2. ASSUME NEW m \in DOMAIN TextOf(i), NEW n \in DOMAIN TextOf(i), m < n
      PROVE  stored[i][m] < stored[i][n]
  <2>1. TextOf(i)[m] < TextOf(i)[n]
    BY <1>2 DEF LogInv, Ordered, Increasing
  <2>2. CASE NoLog(i)
    <3>1. TextOf(i) = <<>>
      BY <2>2 DEF TextOf
    <3> QED BY <1>2, <3>1
  <2>3. CASE ~NoLog(i)
    BY <2>1, <2>3 DEF TextOf
  <2> QED BY <2>2, <2>3
<1>3. ASSUME NEW j \in 0..(i - 1), NEW old \in Range(TextOf(i)), NEW new \in Range(TextOf(j))
      PROVE  old < new
  BY <1>3 DEF LogInv, Ordered, Below
<1> QED BY <1>1, <1>2, <1>3

(* The bytes of the last Oldest chunks are all in files, whatever file is   *)
(* being renamed.                                                           *)
LEMMA ChunkIsKept ==
  ASSUME LogInv, NEW q \in Nat, Rotated(q), NEW c \in 1..q, q - c < Oldest,
         NEW x \in Nat, BytesOf(c - 1) < x, x <= BytesOf(c)
  PROVE  x \in Logged
<1>0. /\ Oldest \in Nat /\ turn \in Nat /\ q - c \in 0..Oldest /\ q - c + 1 \in 1..Oldest
      /\ q - c + 1 \in 0..Oldest
  BY LogFields, LogParameters DEF LogInv
<1>1. PICK i \in 0..Oldest : Holds(i, c)
  <2>1. PICK r \in 0..Oldest : r = q - c
    BY <1>0
  <2>2. PICK p \in 1..Oldest : p = q - c + 1
    BY <1>0
  <2>3. q - r = c /\ q - p + 1 = c /\ p = r + 1 /\ p \in 0..Oldest
    BY <2>1, <2>2
  <2>4. CASE r < turn /\ turn # AtRest
    <3>1. Holds(r, q - r)
      BY <2>4 DEF Rotated
    <3> QED BY <2>3, <3>1
  <2>5. CASE ~(r < turn) \/ turn = AtRest
    <3>1. p > turn \/ turn = AtRest
      BY <1>0, <2>3, <2>5
    <3>2. Holds(p, q - p + 1)
      BY <3>1 DEF Rotated
    <3> QED BY <2>3, <3>2
  <2> QED BY <2>4, <2>5
<1>2. x \in Range(TextOf(i))
  BY <1>1 DEF Holds
<1> QED BY <1>2 DEF Logged

LEMMA FilledHolds == LogInv => (~failed => Filled)
<1> SUFFICES ASSUME LogInv, ~failed, crashes = 0, logged >= Oldest * MaxFileSize
             PROVE  Cardinality(Logged) >= Oldest * MaxFileSize
  BY DEF Filled
<1>1. PICK q \in Nat : Rotated(q)
  BY DEF LogInv
<1>2. /\ Oldest \in Nat /\ MaxFileSize \in Nat /\ MaxFileSize >= 1 /\ MaxBytes \in Nat
      /\ written \in Nat /\ written <= MaxFileSize - 1 /\ logged \in Nat
      /\ logged = BytesOf(q) + written /\ logged >= BytesOf(Oldest)
  BY <1>1, LogFields, LogParameters DEF LogInv, Rotated, BytesOf
<1>3. q >= Oldest
  <2> SUFFICES ASSUME q < Oldest PROVE FALSE
    BY <1>2
  <2>1. PICK n \in Nat : n = q + 1
    OBVIOUS
  <2>2. PICK k \in Nat : Oldest = n + k
    <3>1. Oldest - n \in Nat /\ Oldest = n + (Oldest - n)
      BY <1>2, <2>1
    <3> QED BY <3>1
  <2>3. BytesOf(n) <= BytesOf(Oldest) /\ BytesOf(n) = BytesOf(q) + MaxFileSize
    <3>1. BytesOf(n) <= BytesOf(n + k)
      BY BytesOfGrow
    <3>2. q \in Int /\ BytesOf(q + 1) = BytesOf(q) + MaxFileSize
      BY BytesOfIs
    <3> QED BY <2>1, <2>2, <3>1, <3>2
  <2>4. BytesOf(n) \in Int /\ BytesOf(q) \in Int /\ BytesOf(Oldest) \in Int
    BY <1>2, BytesOfIs
  <2> QED BY <1>2, <2>3, <2>4
<1>4. PICK d \in Nat : q = d + Oldest
  <2>1. q - Oldest \in Nat /\ q = (q - Oldest) + Oldest
    BY <1>2, <1>3
  <2> QED BY <2>1
<1>5. /\ BytesOf(d) \in Nat /\ BytesOf(q) \in Nat /\ BytesOf(Oldest) \in Nat
      /\ BytesOf(q) = BytesOf(d) + BytesOf(Oldest)
  <2>1. (d + Oldest) * MaxFileSize = d * MaxFileSize + Oldest * MaxFileSize
    BY <1>2
  <2> QED BY <1>2, <1>4, <2>1, BytesOfGrow DEF BytesOf
<1> DEFINE latest == (BytesOf(d) + 1)..BytesOf(q)
<1>6. latest \subseteq Logged
  <2> SUFFICES ASSUME NEW x \in Nat, BytesOf(d) < x, x <= BytesOf(q)
               PROVE  x \in Logged
    BY <1>5
  <2> DEFINE T == {n \in Nat : x <= BytesOf(n)}
  <2>1. PICK c \in T : \A m \in T : c <= m
    <3>1. q \in T /\ T \subseteq Nat
      OBVIOUS
    <3> HIDE DEF T
    <3> QED BY <3>1, LeastNatural
  <2>2. c \in Nat /\ x <= BytesOf(c) /\ c <= q
    BY <2>1
  <2>3. c > d
    <3> SUFFICES ASSUME c <= d PROVE FALSE
      BY <2>2
    <3>1. PICK k \in Nat : d = c + k
      <4>1. d - c \in Nat /\ d = c + (d - c)
        BY <2>2
      <4> QED BY <4>1
    <3>2. BytesOf(c) <= BytesOf(d) /\ BytesOf(c) \in Nat
      BY <2>2, <3>1, BytesOfGrow
    <3> QED BY <1>5, <2>2, <3>2
  <2>4. c \in 1..q /\ q - c < Oldest /\ c - 1 \in Nat
    BY <1>2, <1>4, <2>2, <2>3
  <2>5. c - 1 \notin T
    BY <2>1, <2>4
  <2>6. BytesOf(c - 1) < x
    <3>1. BytesOf(c - 1) \in Nat
      BY <2>4, BytesOfGrow
    <3> QED BY <2>4, <2>5, <3>1
  <2> HIDE DEF T
  <2> QED BY <1>1, <2>2, <2>4, <2>6, ChunkIsKept
<1>7. IsFiniteSet(Logged)
  <2>1. Logged \subseteq 1..MaxBytes
    BY LogFields, RangeIs DEF LogInv, Logged
  <2>2. 1 \in Int /\ MaxBytes \in Int
    BY <1>2
  <2>3. IsFiniteSet(1..MaxBytes)
    BY <2>2, FS_Interval
  <2> QED BY <2>1, <2>3, FS_Subset
<1>8. Cardinality(latest) = BytesOf(Oldest)
  <2>1. PICK a \in Int, b \in Int : a = BytesOf(d) + 1 /\ b = BytesOf(q)
    BY <1>5
  <2>2. Cardinality(a..b) = IF a > b THEN 0 ELSE b - a + 1
    BY FS_Interval
  <2> QED BY <1>5, <2>1, <2>2
<1>9. Cardinality(latest) <= Cardinality(Logged) /\ Cardinality(Logged) \in Nat
  BY <1>6, <1>7, FS_Subset, FS_CardinalityType
<1> QED BY <1>5, <1>8, <1>9 DEF BytesOf

(* The state of the log stays within its types, for any number and size of  *)
(* files (log_rotating_stream.cc:74-180).                                   *)
THEOREM LogTypeCorrect == LogSpec => []LogTypeOK
<1>1. LogInv => LogTypeOK
  BY DEF LogInv
<1>2. LogInv /\ [LogNext]_logVars => LogInv'
  BY LogInvStep
<1> QED BY <1>1, <1>2, LogInvInit, PTL DEF LogSpec

(* Wherever crashes interrupt a rotation and whichever deletions and        *)
(* renamings fail, the files stay in the order of what was logged and       *)
(* within their size; unless a renaming has failed, a step drops only what  *)
(* is in the oldest file or what a crash took before it reached a file, and *)
(* without a crash all files but one stay filled                            *)
(* (LogRotatingStream::RotateFiles, log_rotating_stream.cc:154-180).        *)
THEOREM LatestIsKept == LogSpec => LogKeepsLatest
<1>1. LogInv /\ [LogNext]_logVars => LogInv' /\ Dropped
  BY LogInvStep
<1>2. InOrder' /\ (~failed => Filled)' /\ Dropped =>
        [/\ InOrder'
         /\ ~failed' => /\ Filled'
                        /\ Logged \ Logged' \subseteq Range(TextOf(Oldest)) \cup lost']_logVars
  BY DEF Dropped
<1> QED BY <1>1, <1>2, LogInvInit, OrderHolds, FilledHolds, PTL DEF LogSpec, LogKeepsLatest

-----------------------------------------------------------------------------
(* MediaConfig: derived values and the file follow the rows, and the camera *)
(* takes what the validators do.                                            *)

Fixed == "fixed_video_resolution"

(* The rows that the validator of the fixed resolution looks at.            *)
Looked ==
  {"resolution_4_3_enable", "video_resolution_list_4_3", "video_resolution_list_16_9"}

LEMMA RowsAre ==
  /\ Fixed \in Options /\ "video_roi" \in Options /\ Looked \subseteq Options
  /\ "video_annotate_text" \in Options /\ CameraRows \subseteq Options
  /\ Fixed \notin Looked /\ Fixed \notin CameraRows /\ Fixed \notin Switches
  /\ "video_roi" \notin Looked /\ "video_annotate_text" \notin Switches
  /\ Fixed \notin Remote /\ Remote \cap Looked = {} /\ Remote \subseteq Options
  /\ "video_roi" \notin Remote /\ "video_annotate_text" \notin Looked
  /\ "video_annotate_text" \notin CameraRows
BY DEF Options, Defaults, Fixed, Looked, CameraRows, Modes, Switches, Remote

(* No other validator looks at another row.                                 *)
LEMMA ValidAlone ==
  ASSUME NEW c, NEW d, NEW o \in Options \ {Fixed}, NEW v
  PROVE  Valid(c, o, v) <=> Valid(d, o, v)
<1>1. o # "fixed_video_resolution"
  BY DEF Fixed
<1> QED BY <1>1, Zenon DEF Valid

LEMMA FixedValid ==
  ASSUME NEW c, NEW v
  PROVE  Valid(c, Fixed, v) <=>
           \/ v = "bad"
           \/ v \in IF c.value["resolution_4_3_enable"] = "true" THEN c.list43 ELSE c.list169
BY DEF Valid, Fixed, Limits, Modes, Switches

LEMMA LimitsAre ==
  /\ DOMAIN Limits =
       {"camera_select", "max_bitrate", "video_rotation", "fixed_video_fps",
        "video_sharpness", "video_contrast", "video_brightness", "video_saturation",
        "video_ev", "video_annotate_text_size_ratio", "still_camera_num",
        "still_max_age", "still_quality", "still_capture_interval"}
  /\ \A o \in {"video_sharpness", "video_contrast", "video_saturation"} :
       Limits[o][1] = -100 /\ Limits[o][2] = 100
  /\ Limits["video_brightness"][1] = 0 /\ Limits["video_brightness"][2] = 100
  /\ Limits["video_ev"][1] = -10 /\ Limits["video_ev"][2] = 10
  /\ Limits["video_rotation"][1] = 0 /\ Limits["video_rotation"][2] = 270
BY DEF Limits

LEMMA ModesAre ==
  /\ DOMAIN Modes = {"video_exposure_mode", "video_flicker_mode", "video_awb_mode",
                     "video_drc_mode"}
  /\ \A o \in {"video_exposure_mode", "video_flicker_mode", "video_awb_mode"} :
       "auto" \in Modes[o]
  /\ "off" \in Modes["video_drc_mode"]
BY DEF Modes

LEMMA DefaultsAre ==
  /\ \A o \in {"video_rotation", "video_sharpness", "video_contrast", "video_saturation"} :
       Defaults[o] = 0
  /\ Defaults["video_brightness"] = 50 /\ Defaults["video_ev"] = 2
  /\ \A o \in {"video_exposure_mode", "video_flicker_mode", "video_awb_mode"} :
       Defaults[o] = "auto"
  /\ Defaults["video_drc_mode"] = "off"
  /\ Defaults["video_hflip"] = "false" /\ Defaults["resolution_4_3_enable"] = "true"
BY DEF Defaults

LEMMA DefaultsValid ==
  ASSUME NEW c
  PROVE  \A o \in CameraRows : Valid(c, o, Defaults[o])
<1> SUFFICES ASSUME NEW o \in CameraRows PROVE Valid(c, o, Defaults[o])
  OBVIOUS
<1>1. CASE o = "video_rotation"
  BY <1>1, LimitsAre, ModesAre, DefaultsAre, SMT DEF Valid, Switches
<1>2. CASE o = "video_hflip"
  BY <1>2, LimitsAre, ModesAre, DefaultsAre, SMT DEF Valid, Switches
<1>3. CASE o \in DOMAIN Modes
  <2>1. Defaults[o] \in Modes[o]
    BY <1>3, ModesAre, DefaultsAre
  <2>2. o \notin DOMAIN Limits \cup Switches \cup
          {"video_rotation", "fixed_video_resolution", "video_annotate_text", "video_roi",
           "video_resolution_list_4_3", "video_resolution_list_16_9"}
    BY <1>3, LimitsAre, ModesAre DEF Switches
  <2> QED BY <2>1, <2>2, Zenon DEF Valid
<1>4. CASE o \in {"video_sharpness", "video_contrast", "video_brightness",
                 "video_saturation", "video_ev"}
  <2>1. Limits[o][1] <= Defaults[o] /\ Defaults[o] <= Limits[o][2]
    BY <1>4, LimitsAre, DefaultsAre
  <2>2. o \notin DOMAIN Modes \cup Switches \cup
          {"video_rotation", "fixed_video_resolution", "video_annotate_text", "video_roi",
           "video_resolution_list_4_3", "video_resolution_list_16_9"}
    BY <1>4, ModesAre DEF Switches
  <2> QED BY <2>1, <2>2, Zenon DEF Valid
<1> QED BY <1>1, <1>2, <1>3, <1>4 DEF CameraRows

CameraValid(c) == \A o \in CameraRows : Valid(c, o, c.value[o])

(* What the camera makes of a valid value is that value.                    *)
LEMMA CameraAgrees ==
  ASSUME NEW c, CameraValid(c), NEW cam
  PROVE  \A o \in CameraRows : AllSet(cam, c.value)[o] = c.value[o]
<1> DEFINE value == c.value
<1>0. \A o \in CameraRows : Valid(c, o, value[o])
  BY DEF CameraValid
<1> HIDE DEF value
<1> SUFFICES ASSUME NEW o \in CameraRows
             PROVE  Accepts(o, value[o]) /\ Setting(o, value[o]) = value[o]
  BY DEF AllSet, value
<1>1. Valid(c, o, value[o])
  BY <1>0
<1>2. CASE o = "video_rotation"
  <2>1. value[o] \in {0, 90, 180, 270}
    BY <1>1, <1>2 DEF Valid
  <2>2. ((value[o] % 360) \div 90) * 90 = value[o]
    BY <2>1
  <2> QED BY <1>2, <2>2 DEF Accepts, CameraLimits, Setting
<1>3. CASE o = "video_hflip"
  BY <1>3, ModesAre DEF Accepts, CameraLimits, Setting
<1>4. CASE o \in DOMAIN Modes
  <2>1. value[o] \in Modes[o]
    BY <1>1, <1>4 DEF Valid
  <2>2. o \notin DOMAIN CameraLimits /\ o # "video_rotation"
    BY <1>4, ModesAre DEF CameraLimits
  <2> QED BY <1>4, <2>1, <2>2 DEF Accepts, Setting, ModeOf
<1>5. CASE o \in {"video_sharpness", "video_contrast", "video_brightness",
                  "video_saturation", "video_ev"}
  <2>1. Limits[o][1] <= value[o] /\ value[o] <= Limits[o][2]
    BY <1>1, <1>5, LimitsAre DEF Valid
  <2>2. o \in DOMAIN CameraLimits => CameraLimits[o] = Limits[o]
    BY <1>5 DEF CameraLimits, Limits
  <2>3. o \notin DOMAIN Modes /\ o # "video_rotation"
    BY <1>5, ModesAre
  <2> QED BY <2>1, <2>2, <2>3 DEF Accepts, Setting
<1> QED BY <1>2, <1>3, <1>4, <1>5 DEF CameraRows

IsConfig(c) ==
  c = [value |-> c.value, marked |-> c.marked, roi |-> c.roi,
       fixed |-> c.fixed, list43 |-> c.list43, list169 |-> c.list169]

ParsedRoi(c, new) == IF "video_roi" \in DOMAIN new THEN new["video_roi"] ELSE c.roi
Parsed43(c, new) ==
  IF "video_resolution_list_4_3" \in DOMAIN new
  THEN ListOf[new["video_resolution_list_4_3"]] ELSE c.list43
Parsed169(c, new) ==
  IF "video_resolution_list_16_9" \in DOMAIN new
  THEN ListOf[new["video_resolution_list_16_9"]] ELSE c.list169
ParsedFixed(c, new) ==
  IF Fixed \in DOMAIN new /\ new[Fixed] # "bad" THEN new[Fixed] ELSE c.fixed

LEMMA ConfigIs ==
  ASSUME NEW value, NEW marked, NEW roi, NEW fixed, NEW list43, NEW list169, NEW d,
         d = [value |-> value, marked |-> marked, roi |-> roi, fixed |-> fixed,
              list43 |-> list43, list169 |-> list169]
  PROVE  /\ IsConfig(d) /\ d.value = value /\ d.marked = marked /\ d.roi = roi
         /\ d.fixed = fixed /\ d.list43 = list43 /\ d.list169 = list169
BY DEF IsConfig

LEMMA DerivedIs ==
  ASSUME NEW c, IsConfig(c), NEW new
  PROVE  Derived(c, new) =
           [value |-> c.value, marked |-> c.marked, roi |-> ParsedRoi(c, new),
            fixed |-> ParsedFixed(c, new), list43 |-> Parsed43(c, new),
            list169 |-> Parsed169(c, new)]
<1> DEFINE a == ParsedRoi(c, new)
           b == ParsedFixed(c, new)
           l == Parsed43(c, new)
           m == Parsed169(c, new)
<1>1. Derived(c, new) = [c EXCEPT !.roi = a, !.list43 = l, !.list169 = m, !.fixed = b]
  BY Zenon DEF Derived, ParsedRoi, ParsedFixed, Parsed43, Parsed169, Fixed
<1> HIDE DEF a, b, l, m
<1>2. [c EXCEPT !.roi = a, !.list43 = l, !.list169 = m, !.fixed = b] =
        [value |-> c.value, marked |-> c.marked, roi |-> a, fixed |-> b,
         list43 |-> l, list169 |-> m]
  <2> DEFINE v == c.value
             k == c.marked
             r == c.roi
             f == c.fixed
             x == c.list43
             y == c.list169
             e == [value |-> v, marked |-> k, roi |-> r, fixed |-> f,
                   list43 |-> x, list169 |-> y]
  <2>1. [e EXCEPT !.roi = a, !.list43 = l, !.list169 = m, !.fixed = b] =
          [value |-> v, marked |-> k, roi |-> a, fixed |-> b, list43 |-> l, list169 |-> m]
    <3> DEFINE e1 == [value |-> v, marked |-> k, roi |-> a, fixed |-> f,
                      list43 |-> x, list169 |-> y]
               e2 == [value |-> v, marked |-> k, roi |-> a, fixed |-> f,
                      list43 |-> l, list169 |-> y]
               e3 == [value |-> v, marked |-> k, roi |-> a, fixed |-> f,
                      list43 |-> l, list169 |-> m]
    <3> HIDE DEF v, k, r, f, x, y
    <3>1. [e EXCEPT !.roi = a] = e1
      OBVIOUS
    <3>2. [e1 EXCEPT !.list43 = l] = e2
      OBVIOUS
    <3>3. [e2 EXCEPT !.list169 = m] = e3
      OBVIOUS
    <3>4. [e3 EXCEPT !.fixed = b] =
            [value |-> v, marked |-> k, roi |-> a, fixed |-> b, list43 |-> l, list169 |-> m]
      OBVIOUS
    <3> HIDE DEF e, e1, e2, e3
    <3> QED BY <3>1, <3>2, <3>3, <3>4, Zenon
  <2>2. c = e
    BY Zenon DEF IsConfig
  <2> HIDE DEF e
  <2> QED BY <2>1, <2>2, Zenon
<1> QED BY <1>1, <1>2 DEF a, b, l, m

LEMMA WithIs ==
  ASSUME NEW c, IsConfig(c), NEW new, NEW marks, NEW d, d = With(c, new, marks)
  PROVE  /\ IsConfig(d) /\ d.marked = c.marked \cup marks
         /\ \A o \in Options :
              d.value[o] = IF o \in DOMAIN new THEN new[o] ELSE c.value[o]
         /\ d.roi = ParsedRoi(c, new) /\ d.fixed = ParsedFixed(c, new)
         /\ d.list43 = Parsed43(c, new) /\ d.list169 = Parsed169(c, new)
<1> DEFINE a == ParsedRoi(c, new)
           b == ParsedFixed(c, new)
           l == Parsed43(c, new)
           m == Parsed169(c, new)
           v == Changed(c.value, new)
           k == c.marked \cup marks
<1>1. Derived(c, new) = [value |-> c.value, marked |-> c.marked, roi |-> a, fixed |-> b,
                         list43 |-> l, list169 |-> m]
  BY DerivedIs
<1> HIDE DEF a, b, l, m
<1>2. d = [[value |-> c.value, marked |-> c.marked, roi |-> a, fixed |-> b,
            list43 |-> l, list169 |-> m] EXCEPT !.value = v, !.marked = k]
  <2> DEFINE e == [value |-> c.value, marked |-> c.marked, roi |-> a, fixed |-> b,
                   list43 |-> l, list169 |-> m]
  <2>1. e.value = c.value /\ e.marked = c.marked
    OBVIOUS
  <2> HIDE DEF e
  <2>2. Derived(c, new) = e
    BY <1>1, Zenon DEF e
  <2>3. d = [e EXCEPT !.value = Changed(e.value, new), !.marked = e.marked \cup marks]
    BY <2>2, Zenon DEF With
  <2>4. d = [e EXCEPT !.value = v, !.marked = k]
    BY <2>1, <2>3, Zenon
  <2> QED BY <2>4, Zenon DEF e
<1>3. \A o \in Options : v[o] = IF o \in DOMAIN new THEN new[o] ELSE c.value[o]
  BY DEF Changed
<1> HIDE DEF v, k
<1>4. d = [value |-> v, marked |-> k, roi |-> a, fixed |-> b, list43 |-> l, list169 |-> m]
  BY <1>2
<1>5. /\ IsConfig(d) /\ d.value = v /\ d.marked = k /\ d.roi = a
      /\ d.fixed = b /\ d.list43 = l /\ d.list169 = m
  BY <1>4, ConfigIs
<1> QED BY <1>3, <1>5 DEF a, b, l, m, k

LEMMA ResetIs ==
  ASSUME NEW c, IsConfig(c), NEW d, d = ResetConfig(c)
  PROVE  /\ IsConfig(d) /\ d.marked = {} /\ d.value = Defaults
         /\ d.list43 = ListOf[Defaults["video_resolution_list_4_3"]]
         /\ d.list169 = ListOf[Defaults["video_resolution_list_16_9"]]
<1> DEFINE a == ParsedRoi(c, DefaultLists)
           b == ParsedFixed(c, DefaultLists)
           l == Parsed43(c, DefaultLists)
           m == Parsed169(c, DefaultLists)
<1>1. Derived(c, DefaultLists) =
        [value |-> c.value, marked |-> c.marked, roi |-> a, fixed |-> b,
         list43 |-> l, list169 |-> m]
  BY DerivedIs
<1>2. /\ l = ListOf[Defaults["video_resolution_list_4_3"]]
      /\ m = ListOf[Defaults["video_resolution_list_16_9"]]
  BY DEF DefaultLists, Parsed43, Parsed169
<1> HIDE DEF a, b, l, m
<1>3. d = [[value |-> c.value, marked |-> c.marked, roi |-> a, fixed |-> b,
            list43 |-> l, list169 |-> m] EXCEPT !.value = Defaults, !.marked = {}]
  BY <1>1, Zenon DEF ResetConfig
<1>4. d = [value |-> Defaults, marked |-> {}, roi |-> a, fixed |-> b,
           list43 |-> l, list169 |-> m]
  BY <1>3
<1> QED BY <1>2, <1>4, ConfigIs

(* What is parsed is what the row says (DerivedAgrees, of any               *)
(* configuration), and goes on to be when rows get values.                  *)
Agrees(c) ==
  /\ c.list43 = ListOf[c.value["video_resolution_list_4_3"]]
  /\ c.list169 = ListOf[c.value["video_resolution_list_16_9"]]
  /\ "video_roi" \in c.marked => c.roi = c.value["video_roi"]
  /\ Fixed \in c.marked => c.value[Fixed] = "bad" \/ c.fixed = c.value[Fixed]

LEMMA NewConfigIs ==
  IsConfig(NewConfig) /\ Agrees(NewConfig) /\ NewConfig.marked = {} /\ NewConfig.value = Defaults
<1> DEFINE c == [value |-> Defaults, marked |-> {}, roi |-> "none",
                 fixed |-> "0x0", list43 |-> {}, list169 |-> {}]
<1>1. IsConfig(c)
  BY ConfigIs
<1>2. NewConfig = ResetConfig(c)
  BY Zenon DEF NewConfig
<1> HIDE DEF c
<1> QED BY <1>1, <1>2, ResetIs DEF Agrees

LEMMA WithAgrees ==
  ASSUME NEW c, IsConfig(c), Agrees(c), NEW new, NEW marks, marks \subseteq DOMAIN new,
         NEW d, d = With(c, new, marks)
  PROVE  Agrees(d)
<1>1. /\ d.marked = c.marked \cup marks
      /\ \A o \in Options :
           d.value[o] = IF o \in DOMAIN new THEN new[o] ELSE c.value[o]
      /\ d.roi = ParsedRoi(c, new) /\ d.fixed = ParsedFixed(c, new)
      /\ d.list43 = Parsed43(c, new) /\ d.list169 = Parsed169(c, new)
  BY WithIs
<1>2. d.list43 = ListOf[d.value["video_resolution_list_4_3"]]
  BY <1>1, RowsAre DEF Parsed43, Looked, Agrees
<1>3. d.list169 = ListOf[d.value["video_resolution_list_16_9"]]
  BY <1>1, RowsAre DEF Parsed169, Looked, Agrees
<1>4. "video_roi" \in d.marked => d.roi = d.value["video_roi"]
  BY <1>1, RowsAre DEF ParsedRoi, Agrees
<1>5. Fixed \in d.marked => d.value[Fixed] = "bad" \/ d.fixed = d.value[Fixed]
  BY <1>1, RowsAre DEF ParsedFixed, Agrees
<1> QED BY <1>2, <1>3, <1>4, <1>5 DEF Agrees

LEMMA LoadedIs ==
  ASSUME NEW c, IsConfig(c), Agrees(c), NEW opts, NEW rows, NEW d, d = Loaded(c, opts, rows)
  PROVE  /\ IsConfig(d) /\ Agrees(d)
         /\ d.marked = c.marked \cup
              ({o \in rows \cap DOMAIN opts : Valid(c, o, opts[o])} \ Switches)
         /\ \A o \in Options :
              d.value[o] = IF o \in rows \cap DOMAIN opts /\ Valid(c, o, opts[o])
                           THEN opts[o] ELSE c.value[o]
<1> DEFINE valid == {o \in rows \cap DOMAIN opts : Valid(c, o, opts[o])}
           new == [o \in valid |-> opts[o]]
<1>1. d = With(c, new, valid \ Switches)
  BY Zenon DEF Loaded
<1>2. DOMAIN new = valid /\ \A o \in valid : new[o] = opts[o]
  OBVIOUS
<1>3. \A o : o \in valid <=> o \in rows \cap DOMAIN opts /\ Valid(c, o, opts[o])
  OBVIOUS
<1> HIDE DEF new
<1>4. Agrees(d)
  BY <1>1, <1>2, WithAgrees
<1>5. /\ IsConfig(d) /\ d.marked = c.marked \cup (valid \ Switches)
      /\ \A o \in Options :
           d.value[o] = IF o \in DOMAIN new THEN new[o] ELSE c.value[o]
  BY <1>1, WithIs
<1>6. \A o \in Options : d.value[o] = IF o \in valid THEN opts[o] ELSE c.value[o]
  BY <1>2, <1>5
<1> QED BY <1>3, <1>4, <1>5, <1>6, Zenon

(* The validator of the fixed resolution looks at what the rows say.        *)
LEMMA FixedValidAgrees ==
  ASSUME NEW c, Agrees(c), NEW d, Agrees(d), NEW v,
         \A o \in Looked : c.value[o] = d.value[o]
  PROVE  Valid(c, Fixed, v) <=> Valid(d, Fixed, v)
<1>1. c.list43 = d.list43 /\ c.list169 = d.list169
  BY DEF Agrees, Looked
<1>2. c.value["resolution_4_3_enable"] = d.value["resolution_4_3_enable"]
  BY DEF Looked
<1> QED BY <1>1, <1>2, FixedValid

(* What Load makes of a file: a row has what the file says if its validator *)
(* takes that, and is marked then unless it is a switch.                    *)
Taken(c, o, opts) == o \in DOMAIN opts /\ Valid(c, o, opts[o])

LEMMA LoadConfigIs ==
  ASSUME NEW opts, NEW d, d = LoadConfig(opts)
  PROVE  /\ IsConfig(d) /\ Agrees(d)
         /\ d.marked = {o \in Options : Taken(d, o, opts)} \ Switches
         /\ \A o \in Options :
              d.value[o] = IF Taken(d, o, opts) THEN opts[o] ELSE Defaults[o]
<1>1. PICK e : e = Loaded(NewConfig, opts, Options \ {Fixed})
  OBVIOUS
<1>2. d = Loaded(e, opts, {Fixed})
  BY <1>1, Zenon DEF LoadConfig, Fixed
<1>3. /\ IsConfig(e) /\ Agrees(e)
      /\ e.marked = {o \in (Options \ {Fixed}) \cap DOMAIN opts :
                       Valid(NewConfig, o, opts[o])} \ Switches
      /\ \A o \in Options :
           e.value[o] = IF o \in (Options \ {Fixed}) \cap DOMAIN opts
                             /\ Valid(NewConfig, o, opts[o])
                        THEN opts[o] ELSE Defaults[o]
  <2>1. PICK c : c = NewConfig
    OBVIOUS
  <2>2. IsConfig(c) /\ Agrees(c) /\ c.marked = {} /\ c.value = Defaults
    BY <2>1, NewConfigIs, Zenon
  <2>3. /\ IsConfig(e) /\ Agrees(e)
        /\ e.marked = c.marked \cup ({o \in (Options \ {Fixed}) \cap DOMAIN opts :
                                        Valid(c, o, opts[o])} \ Switches)
        /\ \A o \in Options :
             e.value[o] = IF o \in (Options \ {Fixed}) \cap DOMAIN opts
                               /\ Valid(c, o, opts[o])
                          THEN opts[o] ELSE c.value[o]
    BY <1>1, <2>1, <2>2, LoadedIs
  <2> QED BY <2>1, <2>2, <2>3
<1>4. /\ IsConfig(d) /\ Agrees(d)
      /\ d.marked = e.marked \cup
           ({o \in {Fixed} \cap DOMAIN opts : Valid(e, o, opts[o])} \ Switches)
      /\ \A o \in Options :
           d.value[o] = IF o \in {Fixed} \cap DOMAIN opts /\ Valid(e, o, opts[o])
                        THEN opts[o] ELSE e.value[o]
  BY <1>2, <1>3, LoadedIs
<1>5. \A o \in Options \ {Fixed} : d.value[o] = e.value[o]
  BY <1>4
<1>6. \A v : Valid(e, Fixed, v) <=> Valid(d, Fixed, v)
  BY <1>3, <1>4, <1>5, RowsAre, FixedValidAgrees
<1>7. \A o \in Options \ {Fixed} : \A v : Valid(NewConfig, o, v) <=> Valid(d, o, v)
  BY ValidAlone
<1>8. \A o \in Options : d.value[o] = IF Taken(d, o, opts) THEN opts[o] ELSE Defaults[o]
  <2> SUFFICES ASSUME NEW o \in Options
               PROVE  d.value[o] = IF Taken(d, o, opts) THEN opts[o] ELSE Defaults[o]
    OBVIOUS
  <2>1. CASE o = Fixed
    <3>1. e.value[o] = Defaults[o]
      BY <1>3, <2>1
    <3> QED BY <1>4, <1>6, <2>1, <3>1 DEF Taken
  <2>2. CASE o # Fixed
    BY <1>3, <1>5, <1>7, <2>2 DEF Taken
  <2> QED BY <2>1, <2>2
<1>9. d.marked = {o \in Options : Taken(d, o, opts)} \ Switches
  <2>1. ASSUME NEW o
        PROVE  o \in d.marked <=> o \in Options /\ Taken(d, o, opts) /\ o \notin Switches
    <3>1. CASE o = Fixed
      BY <1>3, <1>4, <1>6, <3>1, RowsAre DEF Taken
    <3>2. CASE o # Fixed
      BY <1>3, <1>4, <1>7, <3>2 DEF Taken
    <3> QED BY <3>1, <3>2
  <2> QED BY <2>1
<1> QED BY <1>4, <1>8, <1>9

-----------------------------------------------------------------------------
(* The invariant of the configuration.  A row that is marked has a value    *)
(* its validator takes; one that is not has its default, or is a switch     *)
(* that was loaded.                                                         *)
MarkedKnown(c) ==
  \A o \in c.marked \ {Fixed} : o \in Options /\ Valid(c, o, c.value[o])

UnmarkedKnown(c, opts) ==
  \A o \in Options \ c.marked :
    \/ c.value[o] = Defaults[o]
    \/ o \in Switches /\ Taken(c, o, opts) /\ opts[o] = c.value[o]

(* A fixed resolution only comes from the file, and with it came what its   *)
(* validator looks at.                                                      *)
FixedKnown(c, opts) ==
  Fixed \in c.marked =>
    /\ Valid(c, Fixed, c.value[Fixed])
    /\ \A o \in Looked \ c.marked : Taken(c, o, opts) => opts[o] = c.value[o]

Known(c, opts) == MarkedKnown(c) /\ UnmarkedKnown(c, opts) /\ FixedKnown(c, opts)

(* Between the two steps of Save the rows are in the copy of the file.      *)
Written(c, opts) ==
  \A o \in c.marked : Legal(o, c.value[o]) => o \in DOMAIN opts /\ opts[o] = c.value[o]

MediaInv ==
  /\ focus \in Focuses
  /\ IsConfig(config) /\ Agrees(config) /\ CameraValid(config)
  /\ up = "down" => applied = << >>
  /\ CameraTakesConfig
  /\ SavedIsLoaded
  /\ up # "down" => Known(config, options)
  /\ up = "saving" => Written(config, options)

LEMMA LoadKnown ==
  ASSUME NEW opts, NEW d, d = LoadConfig(opts)
  PROVE  Known(d, opts) /\ CameraValid(d)
<1>1. /\ d.marked = {o \in Options : Taken(d, o, opts)} \ Switches
      /\ \A o \in Options :
           d.value[o] = IF Taken(d, o, opts) THEN opts[o] ELSE Defaults[o]
  BY LoadConfigIs
<1>2. MarkedKnown(d)
  BY <1>1 DEF MarkedKnown, Taken
<1>3. UnmarkedKnown(d, opts)
  BY <1>1 DEF UnmarkedKnown
<1>4. FixedKnown(d, opts)
  <2>1. \A o \in Looked : Taken(d, o, opts) => opts[o] = d.value[o]
    BY <1>1, RowsAre
  <2>2. Fixed \in d.marked => Valid(d, Fixed, d.value[Fixed])
    BY <1>1, RowsAre DEF Taken
  <2> QED BY <2>1, <2>2 DEF FixedKnown
<1>5. CameraValid(d)
  BY <1>1, RowsAre, DefaultsValid DEF CameraValid, Taken
<1> QED BY <1>2, <1>3, <1>4, <1>5 DEF Known

LEMMA UpdateKnown ==
  ASSUME NEW c, IsConfig(c), Agrees(c), CameraValid(c), NEW opts, Known(c, opts),
         NEW message, NEW d, d = Updated(c, message)
  PROVE  IsConfig(d) /\ Agrees(d) /\ CameraValid(d) /\ Known(d, opts)
<1> DEFINE sent == DOMAIN message \cap Remote
           refused == {o \in sent : ~Valid(c, o, message[o])}
           set == {o \in sent \ refused : \A p \in refused : Before(o, p)}
           new == [o \in set |-> message[o]]
<1>1. d = With(c, new, set)
  BY Zenon DEF Updated
<1>2. set \subseteq Remote /\ \A o \in set : Valid(c, o, message[o])
  OBVIOUS
<1>3. DOMAIN new = set /\ \A o \in set : new[o] = message[o]
  OBVIOUS
<1> HIDE DEF new, set
<1>4. Agrees(d)
  BY <1>1, <1>3, WithAgrees
<1>5. /\ IsConfig(d) /\ d.marked = c.marked \cup set
      /\ \A o \in Options :
           d.value[o] = IF o \in DOMAIN new THEN new[o] ELSE c.value[o]
  BY <1>1, WithIs
<1>6. \A o \in Options : d.value[o] = IF o \in set THEN message[o] ELSE c.value[o]
  BY <1>3, <1>5
<1>7. \A o \in Options \ {Fixed} : \A v : Valid(c, o, v) <=> Valid(d, o, v)
  BY ValidAlone
<1>8. \A o \in Looked : o \notin set /\ d.value[o] = c.value[o]
  BY <1>2, <1>6, RowsAre
<1>9. \A v : Valid(c, Fixed, v) <=> Valid(d, Fixed, v)
  BY <1>4, <1>8, FixedValidAgrees
<1>10. Fixed \notin set /\ d.value[Fixed] = c.value[Fixed]
  BY <1>2, <1>6, RowsAre
<1>11. MarkedKnown(d)
  <2> SUFFICES ASSUME NEW o \in d.marked \ {Fixed}
               PROVE  o \in Options /\ Valid(d, o, d.value[o])
    BY DEF MarkedKnown
  <2>1. CASE o \in set
    BY <1>2, <1>6, <1>7, <2>1, RowsAre
  <2>2. CASE o \notin set
    BY <1>5, <1>6, <1>7, <2>2 DEF Known, MarkedKnown
  <2> QED BY <2>1, <2>2
<1>12. UnmarkedKnown(d, opts)
  <2> SUFFICES ASSUME NEW o \in Options \ d.marked
               PROVE  \/ d.value[o] = Defaults[o]
                      \/ o \in Switches /\ Taken(d, o, opts) /\ opts[o] = d.value[o]
    BY DEF UnmarkedKnown
  <2>1. o \notin c.marked /\ d.value[o] = c.value[o]
    BY <1>5, <1>6
  <2>2. \/ c.value[o] = Defaults[o]
        \/ o \in Switches /\ Taken(c, o, opts) /\ opts[o] = c.value[o]
    BY <2>1 DEF Known, UnmarkedKnown
  <2> QED BY <1>7, <2>1, <2>2, RowsAre DEF Taken
<1>13. FixedKnown(d, opts)
  <2> SUFFICES ASSUME Fixed \in d.marked
               PROVE  /\ Valid(d, Fixed, d.value[Fixed])
                      /\ \A o \in Looked \ d.marked :
                           Taken(d, o, opts) => opts[o] = d.value[o]
    BY DEF FixedKnown
  <2>1. Fixed \in c.marked
    BY <1>5, <1>10
  <2>2. /\ Valid(c, Fixed, c.value[Fixed])
        /\ \A o \in Looked \ c.marked : Taken(c, o, opts) => opts[o] = c.value[o]
    BY <2>1 DEF Known, FixedKnown
  <2>3. ASSUME NEW o \in Looked \ d.marked, Taken(d, o, opts) PROVE opts[o] = d.value[o]
    <3>1. o \in Looked \ c.marked /\ o \in Options \ {Fixed}
      BY <1>5, RowsAre
    <3>2. Taken(c, o, opts)
      BY <1>7, <2>3, <3>1 DEF Taken
    <3> QED BY <1>8, <2>2, <3>1, <3>2
  <2> QED BY <1>9, <1>10, <2>2, <2>3
<1>14. CameraValid(d)
  <2> SUFFICES ASSUME NEW o \in CameraRows PROVE Valid(d, o, d.value[o])
    BY DEF CameraValid
  <2>1. o \in Options \ {Fixed}
    BY RowsAre
  <2> QED BY <1>2, <1>6, <1>7, <2>1 DEF CameraValid
<1> QED BY <1>4, <1>5, <1>11, <1>12, <1>13, <1>14 DEF Known

LEMMA ResetKnown ==
  ASSUME NEW c, IsConfig(c), NEW opts, NEW d, d = ResetConfig(c)
  PROVE  IsConfig(d) /\ Agrees(d) /\ CameraValid(d) /\ Known(d, opts)
<1>1. /\ IsConfig(d) /\ d.marked = {} /\ d.value = Defaults
      /\ d.list43 = ListOf[Defaults["video_resolution_list_4_3"]]
      /\ d.list169 = ListOf[Defaults["video_resolution_list_16_9"]]
  BY ResetIs
<1>2. CameraValid(d)
  BY <1>1, DefaultsValid DEF CameraValid
<1> QED BY <1>1, <1>2 DEF Agrees, Known, MarkedKnown, UnmarkedKnown, FixedKnown

LEMMA SaveKnown ==
  ASSUME NEW c, NEW opts, Known(c, opts), NEW all, all = SavedOptions(c, opts)
  PROVE  Known(c, all) /\ Written(c, all)
<1> DEFINE new == {o \in c.marked : Legal(o, c.value[o])}
<1>1. all = [o \in new \cup DOMAIN opts |-> IF o \in new THEN c.value[o] ELSE opts[o]]
  BY Zenon DEF SavedOptions
<1>2. \A o : o \notin c.marked =>
        (o \in DOMAIN all <=> o \in DOMAIN opts) /\ (o \in DOMAIN opts => all[o] = opts[o])
  BY <1>1
<1>3. Written(c, all)
  BY <1>1 DEF Written
<1>4. \A o : o \notin c.marked =>
        (Taken(c, o, all) <=> Taken(c, o, opts)) /\ (Taken(c, o, opts) => all[o] = opts[o])
  BY <1>2 DEF Taken
<1>5. UnmarkedKnown(c, all)
  BY <1>4 DEF Known, UnmarkedKnown
<1>6. FixedKnown(c, all)
  BY <1>4 DEF Known, FixedKnown
<1> QED BY <1>3, <1>5, <1>6 DEF Known

(* A configuration whose rows are in the file is loaded from it again.      *)
LEMMA SavedLoads ==
  ASSUME NEW c, Agrees(c), NEW opts, Known(c, opts), Written(c, opts),
         NEW next, next = LoadConfig(ReadFile(opts))
  PROVE  \A o \in Options :
           \/ next.value[o] = c.value[o]
           \/ o \notin c.marked /\ c.value[o] = Defaults[o]
           \/ o = "video_annotate_text" /\ c.value[o] \in {"note # 1", "back\\slash"}
<1>1. PICK f : f = ReadFile(opts)
  OBVIOUS
<1>2. DOMAIN f = DOMAIN opts /\ \A o \in DOMAIN opts : f[o] = ReadBack(o, opts[o])
  BY <1>1 DEF ReadFile
<1>3. /\ Agrees(next)
      /\ \A o \in Options :
           next.value[o] = IF Taken(next, o, f) THEN f[o] ELSE Defaults[o]
  BY <1>1, LoadConfigIs
<1>4. ASSUME NEW o \in Options \ {Fixed}
      PROVE  \/ next.value[o] = c.value[o]
             \/ o \notin c.marked /\ c.value[o] = Defaults[o]
             \/ o = "video_annotate_text" /\ c.value[o] \in {"note # 1", "back\\slash"}
  <2>1. Valid(c, o, c.value[o]) => Valid(next, o, c.value[o])
    BY ValidAlone
  <2>2. CASE o \in c.marked
    <3>1. Valid(c, o, c.value[o])
      BY <2>2 DEF Known, MarkedKnown
    <3> SUFFICES ASSUME ~(o = "video_annotate_text" /\ c.value[o] \in {"note # 1", "back\\slash"})
                 PROVE  next.value[o] = c.value[o]
      OBVIOUS
    <3>2. Legal(o, c.value[o]) /\ ReadBack(o, c.value[o]) = c.value[o]
      BY DEF Legal, ReadBack
    <3>3. o \in DOMAIN opts /\ opts[o] = c.value[o]
      BY <2>2, <3>2 DEF Written
    <3>4. o \in DOMAIN f /\ f[o] = c.value[o]
      BY <1>2, <3>2, <3>3
    <3> QED BY <1>3, <2>1, <3>1, <3>4 DEF Taken
  <2>3. CASE o \notin c.marked
    <3>1. \/ c.value[o] = Defaults[o]
          \/ o \in Switches /\ Taken(c, o, opts) /\ opts[o] = c.value[o]
      BY <2>3 DEF Known, UnmarkedKnown
    <3>2. ASSUME o \in Switches, Taken(c, o, opts), opts[o] = c.value[o]
          PROVE  next.value[o] = c.value[o]
      <4>1. o \in DOMAIN f /\ f[o] = c.value[o]
        BY <1>2, <3>2, RowsAre DEF ReadBack, Taken
      <4> QED BY <1>3, <2>1, <3>2, <4>1 DEF Taken
    <3> QED BY <2>3, <3>1, <3>2
  <2> QED BY <2>2, <2>3
<1>5. CASE Fixed \in c.marked
  <2>1. ASSUME NEW o \in Looked PROVE next.value[o] = c.value[o]
    <3>1. o \in Options \ {Fixed} /\ o # "video_annotate_text"
      BY RowsAre
    <3>2. CASE o \in c.marked
      BY <1>4, <3>1, <3>2
    <3>3. CASE o \notin c.marked
      <4>1. \A v : Valid(c, o, v) <=> Valid(next, o, v)
        BY <3>1, ValidAlone
      <4>2. Taken(c, o, opts) => opts[o] = c.value[o]
        BY <1>5, <3>3 DEF Known, FixedKnown
      <4>3. o \in DOMAIN opts => f[o] = opts[o]
        BY <1>2, <3>1 DEF ReadBack
      <4>4. Taken(next, o, f) <=> Taken(c, o, opts)
        BY <1>2, <4>1, <4>3 DEF Taken
      <4>5. CASE Taken(c, o, opts)
        BY <1>3, <3>1, <4>2, <4>3, <4>4, <4>5 DEF Taken
      <4>6. CASE ~Taken(c, o, opts)
        <5>1. next.value[o] = Defaults[o]
          BY <1>3, <3>1, <4>4, <4>6
        <5>2. c.value[o] = Defaults[o]
          BY <3>1, <3>3, <4>6 DEF Known, UnmarkedKnown
        <5> QED BY <5>1, <5>2
      <4> QED BY <4>5, <4>6
    <3> QED BY <3>2, <3>3
  <2>2. Fixed \in DOMAIN opts /\ opts[Fixed] = c.value[Fixed]
    BY <1>5 DEF Written, Legal, Fixed
  <2>3. Fixed \in DOMAIN f /\ f[Fixed] = c.value[Fixed]
    BY <1>2, <2>2 DEF ReadBack, Fixed
  <2>4. Valid(c, Fixed, c.value[Fixed])
    BY <1>5 DEF Known, FixedKnown
  <2>5. Valid(next, Fixed, c.value[Fixed])
    BY <1>3, <2>1, <2>4, FixedValidAgrees
  <2>6. next.value[Fixed] = c.value[Fixed]
    BY <1>3, <2>3, <2>5, RowsAre DEF Taken
  <2> QED BY <1>4, <2>6
<1>6. CASE Fixed \notin c.marked
  <2>1. c.value[Fixed] = Defaults[Fixed]
    BY <1>6, RowsAre DEF Known, UnmarkedKnown
  <2> QED BY <1>4, <1>6, <2>1
<1> QED BY <1>5, <1>6

LEMMA AgreesIs == Agrees(config) <=> DerivedAgrees
BY DEF Agrees, DerivedAgrees, Fixed

LEMMA MediaInitInv == Init => MediaInv
<1> SUFFICES ASSUME Init PROVE MediaInv
  OBVIOUS
<1> QED
  BY NewConfigIs, DefaultsValid
  DEF Init, MediaInv, CameraValid, CameraTakesConfig, SavedIsLoaded

LEMMA MediaNextInv == MediaInv /\ [Next]_vars => MediaInv'
<1> SUFFICES ASSUME MediaInv, [Next]_vars PROVE MediaInv'
  OBVIOUS
<1> USE DEF MediaInv
<1>1. CASE Start
  <2>1. PICK opts : opts = options'
    OBVIOUS
  <2>2. PICK d : d = config'
    OBVIOUS
  <2>3. d = LoadConfig(opts)
    BY <1>1, <2>1, <2>2, Zenon DEF Start
  <2>4. IsConfig(d) /\ Agrees(d) /\ CameraValid(d) /\ Known(d, opts)
    BY <2>3, LoadConfigIs, LoadKnown
  <2>5. applied = << >>
    BY <1>1 DEF Start
  <2> QED BY <1>1, <2>1, <2>2, <2>4, <2>5 DEF Start, CameraTakesConfig, SavedIsLoaded
<1>2. CASE FromJson
  <2>1. PICK message : config' = Updated(config, message)
    BY <1>2 DEF FromJson
  <2>2. PICK d : d = config'
    OBVIOUS
  <2>3. IsConfig(d) /\ Agrees(d) /\ CameraValid(d) /\ Known(d, options)
    BY <1>2, <2>1, <2>2, UpdateKnown DEF FromJson
  <2> QED BY <1>2, <2>2, <2>3 DEF FromJson, CameraTakesConfig, SavedIsLoaded
<1>3. CASE Reset
  <2>1. PICK d : d = config'
    OBVIOUS
  <2>2. IsConfig(d) /\ Agrees(d) /\ CameraValid(d) /\ Known(d, options)
    BY <1>3, <2>1, ResetKnown DEF Reset
  <2> QED BY <1>3, <2>1, <2>2 DEF Reset, CameraTakesConfig, SavedIsLoaded
<1>4. CASE SaveOpens
  <2>1. PICK all : all = options'
    OBVIOUS
  <2>2. Known(config, all) /\ Written(config, all)
    BY <1>4, <2>1, SaveKnown DEF SaveOpens
  <2> QED BY <1>4, <2>1, <2>2 DEF SaveOpens, CameraTakesConfig, SavedIsLoaded
<1>5. CASE SaveWrites
  <2>1. PICK s : s = saved'
    OBVIOUS
  <2>2. s.config = config
    BY <1>5, <2>1 DEF SaveWrites
  <2>3. PICK next : next = LoadConfig(ReadFile(options))
    OBVIOUS
  <2>4. \A o \in Options :
          \/ next.value[o] = config.value[o]
          \/ o \notin config.marked /\ config.value[o] = Defaults[o]
          \/ o = "video_annotate_text" /\ config.value[o] \in {"note # 1", "back\\slash"}
    BY <1>5, <2>3, SavedLoads DEF SaveWrites
  <2>5. focus \subseteq Options /\ focus' = focus /\ file' = options
    BY <1>5, FocusesAssumption DEF SaveWrites
  <2>6. SavedIsLoaded'
    BY <2>1, <2>2, <2>3, <2>4, <2>5 DEF SavedIsLoaded
  <2> QED BY <1>5, <2>6 DEF SaveWrites, CameraTakesConfig
<1>6. CASE SaveFails
  <2>1. PICK all : all = options'
    OBVIOUS
  <2>2. Known(config, all)
    BY <1>6, <2>1, SaveKnown DEF SaveFails
  <2> QED BY <1>6, <2>1, <2>2 DEF SaveFails, CameraTakesConfig, SavedIsLoaded
<1>7. CASE Apply
  <2>1. \A o \in CameraRows : AllSet(CameraDefaults, config.value)[o] = config.value[o]
    BY CameraAgrees
  <2>2. CameraTakesConfig'
    BY <1>7, <2>1 DEF Apply, CameraTakesConfig
  <2> QED BY <1>7, <2>2 DEF Apply, SavedIsLoaded
<1>8. CASE Crash
  <2>1. PICK d : d = config'
    OBVIOUS
  <2>2. d = NewConfig
    BY <1>8, <2>1 DEF Crash
  <2>3. IsConfig(d) /\ Agrees(d) /\ CameraValid(d)
    BY <2>2, NewConfigIs, DefaultsValid DEF CameraValid
  <2> QED BY <1>8, <2>1, <2>3 DEF Crash, CameraTakesConfig, SavedIsLoaded
<1>9. CASE UNCHANGED vars
  BY <1>9 DEF vars, CameraTakesConfig, SavedIsLoaded
<1> QED BY <1>1, <1>2, <1>3, <1>4, <1>5, <1>6, <1>7, <1>8, <1>9 DEF Next

LEMMA MediaInvariant == Spec => []MediaInv
BY MediaInitInv, MediaNextInv, PTL DEF Spec

(* DerivedFollowRows: the lists that the program uses are those of the      *)
(* rows, and so are the region and the fixed resolution for as long as      *)
(* their row is marked, which a reset ends (config_media.cc:445-661), for   *)
(* any files, any messages of clients and any order of loading, changing,   *)
(* resetting, saving and crashing.                                          *)
THEOREM DerivedFollowRows == Spec => []DerivedAgrees
<1>1. MediaInv => DerivedAgrees
  BY AgreesIs DEF MediaInv
<1> QED BY <1>1, MediaInvariant, PTL

(* SavedIsLoadedAgain: a file that Save has written holds the configuration *)
(* for the next start (config_media.cc:714-852), whatever rows it is about, *)
(* but for a row that was reset and a text the file cannot hold.            *)
THEOREM SavedIsLoadedAgain == Spec => []SavedIsLoaded
<1>1. MediaInv => SavedIsLoaded
  BY DEF MediaInv
<1> QED BY <1>1, MediaInvariant, PTL

(* CameraTakesValues: every value the configuration accepts is one the      *)
(* setters of raspicamcontrol.c take as it is.                              *)
THEOREM CameraTakesValues == Spec => []CameraTakesConfig
<1>1. MediaInv => CameraTakesConfig
  BY DEF MediaInv
<1> QED BY <1>1, MediaInvariant, PTL
=============================================================================
