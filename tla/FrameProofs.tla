---------------------------- MODULE FrameProofs -----------------------------
(***************************************************************************)
(* The boot allocator, the handover and the bitmap allocator together      *)
(* implement one pool of page frames.                                      *)
(***************************************************************************)
EXTENDS FrameAllocators, WellFoundedInduction, TLAPS

(* The provers a leaf is tried with that names none *)
USE ZenonT(3), SMTT(30), Z3T(30)
-----------------------------------------------------------------------------
(* Induction over the natural numbers in first-order form, and the states  *)
(* of a loop                                                               *)

(* A set of natural numbers that is not empty has a least element. *)
LEMMA LeastNat ==
  ASSUME NEW S, S \subseteq Nat, S # {}
  PROVE  \E n \in S : \A m \in S : n <= m
<1> DEFINE R == OpToRel(<, Nat)
<1>1. IsWellFoundedOn(R, Nat)
  BY NatLessThanWellFounded
<1>2. PICK n \in S : \A m \in S : ~(<<m, n>> \in R)
  <2> HIDE DEF R
  <2> QED BY <1>1, WFMin
<1>3. \A m \in S : m < n => <<m, n>> \in R
  BY DEF OpToRel
<1>4. \A m \in S : ~(m < n)
  BY <1>2, <1>3
<1> QED
  BY <1>4

(* A set that contains 0 and, with every number below n, the next one      *)
(* contains all numbers up to n.                                           *)
LEMMA UpTo ==
  ASSUME NEW n \in Nat, NEW S, 0 \in S, \A k \in 0..(n - 1) : k \in S => k + 1 \in S
  PROVE  0..n \subseteq S
<1> DEFINE T == {k \in 0..n : k \notin S}
<1> SUFFICES ASSUME T # {} PROVE FALSE
  OBVIOUS
<1>1. PICK k \in T : \A j \in T : k <= j
  <2>1. T \subseteq Nat
    OBVIOUS
  <2> QED
    BY <2>1, LeastNat
<1>2. k # 0
  OBVIOUS
<1>3. k - 1 \in 0..(n - 1) /\ k - 1 \in S
  BY <1>1, <1>2
<1> QED
  BY <1>3

(* A loop of n steps, each a function on the set D, has a sequence of      *)
(* states.                                                                 *)
Runs(D, n, step, x) ==
  \E f \in [0..n -> D] : f[0] = x /\ \A k \in 1..n : f[k] = step[k][f[k - 1]]

LEMMA Loop ==
  ASSUME NEW D, NEW n \in Nat, NEW step \in [1..n -> [D -> D]], NEW x \in D
  PROVE  Runs(D, n, step, x)
<1> DEFINE P(m) == \E f \in [0..m -> D] : f[0] = x /\ \A k \in 1..m : f[k] = step[k][f[k - 1]]
           S == {m \in 0..n : P(m)}
<1>1. P(0)
  <2> DEFINE f == [k \in 0..0 |-> x]
  <2>1. f \in [0..0 -> D] /\ f[0] = x /\ \A k \in 1..0 : f[k] = step[k][f[k - 1]]
    OBVIOUS
  <2> QED
    BY <2>1
<1>2. ASSUME NEW m \in 0..(n - 1), P(m) PROVE P(m + 1)
  <2>1. PICK f \in [0..m -> D] : f[0] = x /\ \A k \in 1..m : f[k] = step[k][f[k - 1]]
    BY <1>2
  <2> DEFINE g == [k \in 0..(m + 1) |-> IF k = m + 1 THEN step[m + 1][f[m]] ELSE f[k]]
  <2>2. f[m] \in D /\ m + 1 \in 1..n
    BY <2>1
  <2>3. step[m + 1][f[m]] \in D
    BY <2>2
  <2>4. g \in [0..(m + 1) -> D]
    BY <2>1, <2>3
  <2>5. g[0] = x
    BY <2>1
  <2>6. ASSUME NEW k \in 1..(m + 1) PROVE g[k] = step[k][g[k - 1]]
    <3>1. CASE k = m + 1
      <4>1. k \in 0..(m + 1) /\ k - 1 = m /\ m \in 0..(m + 1) /\ m # m + 1
        BY <3>1
      <4>2. g[k] = step[k][f[m]] /\ g[m] = f[m]
        BY <3>1, <4>1
      <4> QED
        BY <4>1, <4>2
    <3>2. CASE k # m + 1
      <4>1. k \in 1..m /\ k \in 0..(m + 1) /\ k - 1 \in 0..(m + 1) /\ k - 1 # m + 1
        BY <3>2
      <4>2. g[k] = f[k] /\ g[k - 1] = f[k - 1]
        BY <3>2, <4>1
      <4> QED
        BY <2>1, <4>1, <4>2
    <3> QED
      BY <3>1, <3>2
  <2> HIDE DEF g
  <2> QED
    BY <2>4, <2>5, <2>6
<1>3. P(n)
  <2> HIDE DEF P
  <2>1. 0 \in S /\ \A k \in 0..(n - 1) : k \in S => k + 1 \in S
    BY <1>1, <1>2
  <2>2. 0..n \subseteq S
    BY <2>1, UpTo
  <2> QED
    BY <2>2
<1> QED
  BY <1>3 DEF Runs
-----------------------------------------------------------------------------
(* Addresses of frames *)
Aligned == {a \in Nat : a % PageBytes = 0}

(* Quotients by the size of a page *)
LEMMA Quotients ==
  ASSUME NEW P \in Nat \ {0}, NEW x \in Nat
  PROVE  x \div P \in Nat /\ x % P \in Nat /\ x = (x \div P) * P + (x % P)
<1>1. x \div P \in Nat
  OBVIOUS
<1>2. x % P \in 0..(P - 1)
  OBVIOUS
<1>3. x = (x \div P) * P + (x % P)
  OBVIOUS
<1> QED
  BY <1>1, <1>2, <1>3

LEMMA Quotient ==
  ASSUME NEW P \in Nat \ {0}, NEW x \in Nat, NEW k \in Nat, NEW r \in 0..(P - 1), x = k * P + r
  PROVE  x % P = r /\ x \div P = k
  OBVIOUS

LEMMA Multiple ==
  ASSUME NEW P \in Nat \ {0}, NEW k \in Nat
  PROVE  k * P \in Nat /\ (k * P) \div P = k /\ (k * P) % P = 0
<1>1. k * P \in Nat
  OBVIOUS
<1>2. ASSUME NEW x \in Nat, x = k * P PROVE x = k * P + 0 /\ 0 \in 0..(P - 1)
  BY <1>2
<1>3. ASSUME NEW x \in Nat, x = k * P PROVE x % P = 0 /\ x \div P = k
  BY <1>2, <1>3, Quotient
<1> QED
  BY <1>1, <1>3

(* A number of pages, and the page of an aligned address *)
LEMMA PageMath ==
  /\ \A k \in Nat : k * PageBytes \in Aligned /\ (k * PageBytes) \div PageBytes = k
  /\ \A a \in Aligned : a \div PageBytes \in Nat /\ a = (a \div PageBytes) * PageBytes
<1>0. PageBytes \in Nat \ {0}
  BY FrameAssumption
<1>1. ASSUME NEW k \in Nat PROVE k * PageBytes \in Aligned /\ (k * PageBytes) \div PageBytes = k
  BY <1>0, Multiple DEF Aligned
<1>2. ASSUME NEW a \in Aligned PROVE a \div PageBytes \in Nat /\ a = (a \div PageBytes) * PageBytes
  <2>1. a \in Nat /\ a % PageBytes = 0
    BY DEF Aligned
  <2>2. a \div PageBytes \in Nat /\ a = (a \div PageBytes) * PageBytes + (a % PageBytes)
    BY <1>0, <2>1, Quotients
  <2>3. (a \div PageBytes) * PageBytes \in Nat
    BY <1>0, <2>2, Multiple
  <2> QED
    BY <2>1, <2>2, <2>3
<1> QED
  BY <1>1, <1>2

(* Aligned addresses can be added and subtracted, and are a page apart. *)
LEMMA PageSums ==
  ASSUME NEW a \in Aligned, NEW b \in Aligned
  PROVE  /\ a + b \in Aligned
         /\ a <= b => b - a \in Aligned
         /\ a < b => a + PageBytes <= b
<1> DEFINE P == PageBytes  i == a \div P  j == b \div P
<1>0. P \in Nat \ {0}
  BY FrameAssumption
<1>1. i \in Nat /\ j \in Nat /\ a = i * P /\ b = j * P
  BY PageMath
<1> HIDE DEF P, i, j
<1>2. a + b = (i + j) * P
  BY <1>0, <1>1
<1>3. a <= b => j - i \in Nat /\ b - a = (j - i) * P
  <2>1. a <= b => i <= j
    BY <1>0, <1>1
  <2>2. b - a = (j - i) * P
    BY <1>0, <1>1
  <2> QED
    BY <1>1, <2>1, <2>2
<1>4. a < b => a + P <= b
  <2>1. a < b => i + 1 <= j
    BY <1>0, <1>1
  <2>2. i + 1 <= j => (i + 1) * P <= j * P
    BY <1>0, <1>1
  <2>3. (i + 1) * P = a + P
    BY <1>0, <1>1
  <2> QED
    BY <1>1, <2>1, <2>2, <2>3
<1>5. (i + j) * P \in Aligned
  BY <1>1, PageMath DEF P
<1>6. a <= b => (j - i) * P \in Aligned
  BY <1>1, <1>3, PageMath DEF P
<1> QED
  BY <1>2, <1>3, <1>4, <1>5, <1>6 DEF P
-----------------------------------------------------------------------------
(* Ranges of whole pages, in ascending order and apart *)
PageRange == [start : Aligned, end : Aligned]

Disjoint(rs) ==
  /\ \A i \in DOMAIN rs : rs[i].start < rs[i].end
  /\ \A i, j \in DOMAIN rs : i < j => rs[i].end <= rs[j].start

LEMMA FrameIn ==
  ASSUME NEW r, r.start \in Nat, r.end \in Nat, NEW f
  PROVE  f \in Frames(r) <=> f \in Aligned /\ r.start <= f /\ f < r.end
<1>1. f \in r.start..(r.end - 1) <=> f \in Nat /\ r.start <= f /\ f < r.end
  OBVIOUS
<1> QED
  BY <1>1 DEF Frames, Aligned

(* Spans of the bitmap: each range with the index of its first frame *)
Span == [start : Aligned, end : Aligned, bitmap_start : Nat]

Consecutive(spans, frames) ==
  /\ \A i \in DOMAIN spans : i = 1 => spans[i].bitmap_start = 0
  /\ \A i \in DOMAIN spans : i + 1 \in DOMAIN spans =>
       spans[i + 1].bitmap_start = spans[i].bitmap_start + frame_count(spans[i])
  /\ frames = IF spans = <<>> THEN 0
              ELSE spans[Len(spans)].bitmap_start + frame_count(spans[Len(spans)])

(* frame_address and frame_index are inverse to one another: every bit of  *)
(* the bitmap stands for one managed frame.                                *)
Mapped(spans, frames) ==
  /\ \A index \in 0..(frames - 1) : /\ managed(spans, frame_address(spans, index))
                                    /\ frame_index(spans, frame_address(spans, index)) = index
  /\ \A f : managed(spans, f) => /\ frame_index(spans, f) \in 0..(frames - 1)
                                 /\ frame_address(spans, frame_index(spans, f)) = f

LEMMA LeastMin ==
  ASSUME NEW S, S \subseteq Nat, NEW n \in S, \A m \in S : n <= m
  PROVE  Min(S) = n
<1>1. \A x \in S : (\A y \in S : x =< y) => x = n
  <2> TAKE x \in S
  <2> SUFFICES ASSUME \A y \in S : x =< y PROVE x = n
    OBVIOUS
  <2>1. x \in Nat /\ n \in Nat /\ x <= n /\ n <= x
    OBVIOUS
  <2> QED
    BY <2>1
<1> QED
  BY <1>1 DEF Min

LEMMA MinOf ==
  ASSUME NEW S, S \subseteq Nat, S # {}
  PROVE  Min(S) \in S /\ \A m \in S : Min(S) <= m
<1>1. PICK n \in S : \A m \in S : n <= m
  BY LeastNat
<1> QED
  BY <1>1, LeastMin

LEMMA FrameCounts ==
  ASSUME NEW r, r.start \in Aligned, r.end \in Aligned, r.start < r.end
  PROVE  /\ frame_count(r) \in Nat
         /\ \A k \in Nat : k < frame_count(r) => r.start + k * PageBytes \in Frames(r)
         /\ \A k \in Nat : ((r.start + k * PageBytes) - r.start) \div PageBytes = k
         /\ \A f \in Frames(r) : /\ (f - r.start) \div PageBytes \in Nat
                                 /\ (f - r.start) \div PageBytes < frame_count(r)
                                 /\ r.start + ((f - r.start) \div PageBytes) * PageBytes = f
<1> DEFINE P == PageBytes
           n == frame_count(r)
<1>0. P \in Nat \ {0}
  BY FrameAssumption
<1>1. r.start \in Nat /\ r.end \in Nat
  BY DEF Aligned
<1>2. r.end - r.start \in Aligned
  BY <1>1, PageSums
<1>3. n \in Nat /\ r.end - r.start = n * P
  BY <1>2, PageMath DEF frame_count
<1> HIDE DEF P, n
<1>4. ASSUME NEW k \in Nat PROVE ((r.start + k * P) - r.start) \div P = k /\ k * P \in Aligned /\ k * P \in Nat
  <2>1. k * P \in Aligned /\ (k * P) \div P = k /\ k * P \in Nat
    BY PageMath DEF P, Aligned
  <2>2. (r.start + k * P) - r.start = k * P
    BY <1>1, <2>1
  <2> QED
    BY <2>1, <2>2
<1>5. ASSUME NEW k \in Nat, k < n PROVE r.start + k * P \in Frames(r)
  <2>1. r.start + k * P \in Aligned
    BY <1>4, PageSums
  <2>2. k * P < n * P
    BY <1>0, <1>3, <1>5
  <2>3. r.start <= r.start + k * P /\ r.start + k * P < r.end
    BY <1>1, <1>3, <1>4, <2>2
  <2> QED
    BY <1>1, <2>1, <2>3, FrameIn
<1>6. ASSUME NEW f \in Frames(r)
      PROVE  (f - r.start) \div P \in Nat /\ (f - r.start) \div P < n /\ r.start + ((f - r.start) \div P) * P = f
  <2> DEFINE k == (f - r.start) \div P
  <2>1. f \in Aligned /\ f \in Nat /\ r.start <= f /\ f < r.end
    BY <1>1, FrameIn DEF Aligned
  <2>2. f - r.start \in Aligned
    BY <2>1, PageSums
  <2>3. k \in Nat /\ f - r.start = k * P
    BY <2>2, PageMath DEF P
  <2> HIDE DEF k
  <2>4. k * P < n * P
    BY <1>1, <1>3, <2>1, <2>3
  <2>5. k < n
    BY <1>0, <1>3, <2>3, <2>4
  <2>6. r.start + k * P = f
    BY <1>1, <2>1, <2>3
  <2> QED
    BY <2>3, <2>5, <2>6 DEF k
<1> QED
  BY <1>3, <1>4, <1>5, <1>6 DEF P, n

(* The indices of one span lie before those of the next. *)
LEMMA SpansAscend ==
  ASSUME NEW spans \in Seq(Span), Disjoint(spans), NEW frames, Consecutive(spans, frames)
  PROVE  /\ \A i, j \in DOMAIN spans :
              i < j => spans[i].bitmap_start + frame_count(spans[i]) <= spans[j].bitmap_start
         /\ \A i \in DOMAIN spans : spans[i].bitmap_start + frame_count(spans[i]) <= frames
         /\ frames \in Nat
<1> DEFINE n == Len(spans)
           first(i) == spans[i].bitmap_start
           size(i) == frame_count(spans[i])
<1>1. n \in Nat /\ DOMAIN spans = 1..n
  OBVIOUS
<1>2. \A i \in 1..n : first(i) \in Nat /\ size(i) \in Nat
  <2> SUFFICES ASSUME NEW i \in 1..n PROVE first(i) \in Nat /\ size(i) \in Nat
    OBVIOUS
  <2>1. spans[i] \in Span /\ spans[i].start < spans[i].end
    BY <1>1 DEF Disjoint
  <2> QED
    BY <2>1, FrameCounts DEF Span
<1>3. \A i \in 1..n : i + 1 \in 1..n => first(i + 1) = first(i) + size(i)
  BY <1>1 DEF Consecutive
<1> HIDE DEF first, size, n
<1>4. ASSUME NEW i \in 1..n PROVE \A j \in 1..n : i < j => first(i) + size(i) <= first(j)
  <2> DEFINE S == {k \in Nat : i + 1 + k \in 1..n => first(i) + size(i) <= first(i + 1 + k)}
  <2>1. 0 \in S
    BY <1>1, <1>2, <1>3
  <2>2. \A k \in 0..(n - 1) : k \in S => k + 1 \in S
    <3> SUFFICES ASSUME NEW k \in Nat, k \in S, i + 1 + (k + 1) \in 1..n
                 PROVE  first(i) + size(i) <= first(i + 1 + (k + 1))
      OBVIOUS
    <3>1. i + 1 + k \in 1..n /\ (i + 1 + k) + 1 = i + 1 + (k + 1)
      BY <1>1
    <3>2. first(i + 1 + (k + 1)) = first(i + 1 + k) + size(i + 1 + k)
      BY <1>3, <3>1
    <3> QED
      BY <1>2, <3>1, <3>2
  <2>3. 0..n \subseteq S
    <3> HIDE DEF S
    <3> QED
      BY <1>1, <2>1, <2>2, UpTo
  <2> TAKE j \in 1..n
  <2> SUFFICES ASSUME i < j PROVE first(i) + size(i) <= first(j)
    OBVIOUS
  <2>4. j - i - 1 \in 0..n /\ i + 1 + (j - i - 1) = j
    BY <1>1
  <2> QED
    BY <2>3, <2>4
<1>5. frames = IF n = 0 THEN 0 ELSE first(n) + size(n)
  <2>1. spans = <<>> <=> n = 0
    BY DEF n
  <2> QED
    BY <2>1 DEF Consecutive, n, first, size
<1>6. frames \in Nat /\ \A i \in 1..n : first(i) + size(i) <= frames
  <2>1. frames \in Nat
    BY <1>1, <1>2, <1>5
  <2>2. ASSUME NEW i \in 1..n PROVE first(i) + size(i) <= frames
    <3>1. n \in 1..n /\ frames = first(n) + size(n)
      BY <1>1, <1>5
    <3>2. i = n \/ first(i) + size(i) <= first(n)
      BY <1>1, <1>4, <3>1
    <3> QED
      BY <1>2, <3>1, <3>2
  <2> QED
    BY <2>1, <2>2
<1> QED
  BY <1>1, <1>4, <1>6 DEF first, size

(* A frame lies in one span. *)
LEMMA SpanOfFrame ==
  ASSUME NEW spans \in Seq(Span), Disjoint(spans), NEW i \in DOMAIN spans, NEW f \in Frames(spans[i])
  PROVE  Min({j \in DOMAIN spans : f \in Frames(spans[j])}) = i
<1>1. \A j \in DOMAIN spans : spans[j].start \in Nat /\ spans[j].end \in Nat
  <2>1. \A j \in DOMAIN spans : spans[j] \in Span
    OBVIOUS
  <2> QED
    BY <2>1 DEF Span, Aligned
<1>2. \A j \in DOMAIN spans : f \in Frames(spans[j]) => f \in Nat /\ spans[j].start <= f /\ f < spans[j].end
  BY <1>1, FrameIn DEF Aligned
<1>3. ASSUME NEW j \in DOMAIN spans, f \in Frames(spans[j]) PROVE j = i
  <2>1. i \in Nat /\ j \in Nat
    OBVIOUS
  <2>2. ~(i < j) /\ ~(j < i)
    BY <1>1, <1>2, <1>3 DEF Disjoint
  <2> QED
    BY <2>1, <2>2
<1>4. {j \in DOMAIN spans : f \in Frames(spans[j])} = {i}
  BY <1>3
<1>5. i \in Nat
  OBVIOUS
<1>6. Min({i}) = i
  BY <1>5, LeastMin
<1> QED
  BY <1>4, <1>6

(* The span that holds an index *)
LEMMA SpanOfIndex ==
  ASSUME NEW spans \in Seq(Span), Disjoint(spans), NEW frames, Consecutive(spans, frames),
         NEW i \in DOMAIN spans, NEW index \in Nat, spans[i].bitmap_start <= index,
         index < spans[i].bitmap_start + frame_count(spans[i])
  PROVE  Min({j \in DOMAIN spans : index < spans[j].bitmap_start + frame_count(spans[j])}) = i
<1> DEFINE S == {j \in DOMAIN spans : index < spans[j].bitmap_start + frame_count(spans[j])}
<1>1. \A j \in DOMAIN spans : spans[j].bitmap_start \in Nat /\ frame_count(spans[j]) \in Nat
  <2> SUFFICES ASSUME NEW j \in DOMAIN spans
               PROVE  spans[j].bitmap_start \in Nat /\ frame_count(spans[j]) \in Nat
    OBVIOUS
  <2>1. spans[j] \in Span /\ spans[j].start < spans[j].end
    BY DEF Disjoint
  <2> QED
    BY <2>1, FrameCounts DEF Span
<1>2. S \subseteq Nat /\ i \in S
  OBVIOUS
<1>3. ASSUME NEW j \in S PROVE i <= j
  <2>1. j \in DOMAIN spans /\ index < spans[j].bitmap_start + frame_count(spans[j]) /\ j \in Nat /\ i \in Nat
    OBVIOUS
  <2>2. ~(j < i)
    BY <1>1, <2>1, SpansAscend
  <2> QED
    BY <2>1, <2>2
<1> HIDE DEF S
<1>4. Min(S) = i
  BY <1>2, <1>3, LeastMin
<1> QED
  BY <1>4 DEF S

(* Every index below the number of frames lies in a span. *)
LEMMA IndexHasSpan ==
  ASSUME NEW spans \in Seq(Span), Disjoint(spans), NEW frames, Consecutive(spans, frames),
         NEW index \in 0..(frames - 1)
  PROVE  \E i \in DOMAIN spans : /\ spans[i].bitmap_start <= index
                                 /\ index < spans[i].bitmap_start + frame_count(spans[i])
<1> DEFINE S == {j \in DOMAIN spans : index < spans[j].bitmap_start + frame_count(spans[j])}
           n == Len(spans)
<1>1. frames \in Nat /\ index \in Nat /\ index < frames
  BY SpansAscend
<1>2. n \in DOMAIN spans /\ frames = spans[n].bitmap_start + frame_count(spans[n])
  <2>1. spans # <<>>
    BY <1>1 DEF Consecutive
  <2>2. n \in Nat /\ n # 0 /\ DOMAIN spans = 1..n
    BY <2>1
  <2> QED
    BY <2>1, <2>2 DEF Consecutive
<1>3. S \subseteq Nat /\ S # {}
  BY <1>1, <1>2
<1>4. PICK i \in S : \A j \in S : i <= j
  <2> HIDE DEF S
  <2> QED
    BY <1>3, LeastNat
<1>5. i \in DOMAIN spans /\ index < spans[i].bitmap_start + frame_count(spans[i])
  OBVIOUS
<1>6. spans[i].bitmap_start <= index
  <2>1. CASE i = 1
    BY <1>1, <1>5, <2>1 DEF Consecutive
  <2>2. CASE i # 1
    <3>1. i - 1 \in DOMAIN spans /\ (i - 1) + 1 = i /\ ~(i <= i - 1)
      BY <1>5, <2>2
    <3>2. spans[i].bitmap_start = spans[i - 1].bitmap_start + frame_count(spans[i - 1])
      BY <1>5, <3>1 DEF Consecutive
    <3>3. i - 1 \notin S
      BY <1>4, <3>1
    <3>4. ~(index < spans[i].bitmap_start)
      BY <3>1, <3>2, <3>3
    <3>5. spans[i] \in Span
      BY <1>5
    <3> QED
      BY <1>1, <3>4, <3>5 DEF Span
  <2> QED
    BY <2>1, <2>2
<1> QED
  BY <1>5, <1>6

LEMMA SpansMapped ==
  ASSUME NEW spans \in Seq(Span), Disjoint(spans), NEW frames, Consecutive(spans, frames)
  PROVE  Mapped(spans, frames)
<1>1. ASSUME NEW i \in DOMAIN spans
      PROVE  /\ spans[i].bitmap_start \in Nat /\ spans[i].start \in Nat
             /\ spans[i].start \in Aligned /\ spans[i].end \in Aligned /\ spans[i].start < spans[i].end
  <2>1. spans[i] \in Span
    OBVIOUS
  <2> QED
    BY <2>1 DEF Span, Disjoint, Aligned
<1>2. ASSUME NEW index \in 0..(frames - 1)
      PROVE  /\ managed(spans, frame_address(spans, index))
             /\ frame_index(spans, frame_address(spans, index)) = index
  <2>1. PICK i \in DOMAIN spans : /\ spans[i].bitmap_start <= index
                                  /\ index < spans[i].bitmap_start + frame_count(spans[i])
    BY IndexHasSpan
  <2> DEFINE k == index - spans[i].bitmap_start
             f == spans[i].start + k * PageBytes
  <2>2. index \in Nat /\ frame_count(spans[i]) \in Nat
    BY <1>1, FrameCounts, SpansAscend
  <2>3. k \in Nat /\ k < frame_count(spans[i]) /\ spans[i].bitmap_start + k = index
    BY <1>1, <2>1, <2>2
  <2>4. frame_address(spans, index) = f
    <3>1. Min({j \in DOMAIN spans : index < spans[j].bitmap_start + frame_count(spans[j])}) = i
      BY <2>1, <2>2, SpanOfIndex
    <3> QED
      BY <3>1 DEF frame_address
  <2> HIDE DEF k
  <2>5. f \in Frames(spans[i]) /\ (f - spans[i].start) \div PageBytes = k
    <3>1. /\ \A m \in Nat : m < frame_count(spans[i]) => spans[i].start + m * PageBytes \in Frames(spans[i])
          /\ \A m \in Nat : ((spans[i].start + m * PageBytes) - spans[i].start) \div PageBytes = m
      BY <1>1, FrameCounts
    <3> QED
      BY <2>3, <3>1
  <2> HIDE DEF f
  <2>6. frame_index(spans, f) = index
    <3>1. Min({j \in DOMAIN spans : f \in Frames(spans[j])}) = i
      BY <2>5, SpanOfFrame
    <3> QED
      BY <2>3, <2>5, <3>1 DEF frame_index
  <2> QED
    BY <2>4, <2>5, <2>6 DEF managed
<1>3. ASSUME NEW f, managed(spans, f)
      PROVE  frame_index(spans, f) \in 0..(frames - 1) /\ frame_address(spans, frame_index(spans, f)) = f
  <2>1. PICK i \in DOMAIN spans : f \in Frames(spans[i])
    BY <1>3 DEF managed
  <2> DEFINE k == (f - spans[i].start) \div PageBytes
             index == spans[i].bitmap_start + k
  <2>2. k \in Nat /\ k < frame_count(spans[i]) /\ spans[i].start + k * PageBytes = f /\ frame_count(spans[i]) \in Nat
    BY <1>1, <2>1, FrameCounts
  <2>3. frame_index(spans, f) = index
    <3>1. Min({j \in DOMAIN spans : f \in Frames(spans[j])}) = i
      BY <2>1, SpanOfFrame
    <3> QED
      BY <3>1 DEF frame_index
  <2> HIDE DEF k
  <2>4. index \in Nat /\ spans[i].bitmap_start <= index /\ index < spans[i].bitmap_start + frame_count(spans[i])
        /\ index - spans[i].bitmap_start = k
    BY <1>1, <2>2
  <2> HIDE DEF index
  <2>5. frame_address(spans, index) = f
    <3>1. Min({j \in DOMAIN spans : index < spans[j].bitmap_start + frame_count(spans[j])}) = i
      BY <2>4, SpanOfIndex
    <3> QED
      BY <2>2, <2>4, <3>1 DEF frame_address
  <2>6. index \in 0..(frames - 1)
    <3>1. frames \in Nat /\ spans[i].bitmap_start + frame_count(spans[i]) <= frames
      BY SpansAscend
    <3> QED
      BY <1>1, <2>2, <2>4, <3>1
  <2> QED
    BY <2>3, <2>5, <2>6
<1> QED
  BY <1>2, <1>3 DEF Mapped
-----------------------------------------------------------------------------
(* One more span of the bitmap *)
LEMMA OneMoreSpan ==
  ASSUME NEW spans \in Seq(Span), NEW frames \in Nat, Consecutive(spans, frames),
         NEW r \in PageRange, r.start < r.end,
         NEW s, s = [start |-> r.start, end |-> r.end, bitmap_start |-> frames]
  PROVE  /\ Append(spans, s) \in Seq(Span) /\ frames + frame_count(r) \in Nat
         /\ Consecutive(Append(spans, s), frames + frame_count(r))
<1> DEFINE longer == Append(spans, s)
           n == Len(spans)
<1>1. s \in Span /\ s.bitmap_start = frames
  BY DEF Span, PageRange
<1>2. frame_count(r) \in Nat /\ frame_count(s) = frame_count(r)
  BY FrameCounts DEF PageRange, frame_count
<1>3. longer \in Seq(Span) /\ Len(longer) = n + 1 /\ n \in Nat /\ DOMAIN longer = 1..(n + 1) /\ DOMAIN spans = 1..n
      /\ longer[n + 1] = s /\ \A i \in 1..n : longer[i] = spans[i]
  BY <1>1
<1>4. ASSUME NEW i \in DOMAIN longer, i = 1 PROVE longer[i].bitmap_start = 0
  <2>1. CASE n = 0
    BY <1>1, <1>3, <1>4, <2>1 DEF Consecutive
  <2>2. CASE n # 0
    BY <1>3, <1>4, <2>2 DEF Consecutive
  <2> QED
    BY <2>1, <2>2
<1>5. ASSUME NEW i \in DOMAIN longer, i + 1 \in DOMAIN longer
      PROVE  longer[i + 1].bitmap_start = longer[i].bitmap_start + frame_count(longer[i])
  <2>1. CASE i = n
    <3>1. i \in DOMAIN spans /\ longer[i] = spans[i] /\ i + 1 = n + 1 /\ spans # <<>>
      BY <1>3, <1>5, <2>1
    <3> QED
      BY <1>1, <1>3, <2>1, <3>1 DEF Consecutive
  <2>2. CASE i # n
    <3>1. i \in DOMAIN spans /\ i + 1 \in DOMAIN spans /\ longer[i] = spans[i] /\ longer[i + 1] = spans[i + 1]
      BY <1>3, <1>5, <2>2
    <3> QED
      BY <3>1 DEF Consecutive
  <2> QED
    BY <2>1, <2>2
<1>6. longer # <<>> /\ longer[Len(longer)] = s
  BY <1>3
<1> HIDE DEF longer
<1>7. Consecutive(longer, frames + frame_count(r))
  BY <1>1, <1>2, <1>4, <1>5, <1>6 DEF Consecutive
<1> QED
  BY <1>2, <1>3, <1>7 DEF longer

(* The spans of managed_ranges are the ranges, numbered one behind the     *)
(* other.                                                                  *)
Numbered(rs, m) ==
  /\ m.spans \in Seq(Span) /\ m.frames \in Nat /\ Consecutive(m.spans, m.frames)
  /\ DOMAIN m.spans = DOMAIN rs
  /\ \A i \in DOMAIN rs : m.spans[i].start = rs[i].start /\ m.spans[i].end = rs[i].end

LEMMA ManagedRanges ==
  ASSUME NEW rs \in Seq(PageRange), Disjoint(rs)
  PROVE  Numbered(rs, managed_ranges(rs))
<1> DEFINE n == Len(rs)
           D == {q \in [spans : Seq(Span), frames : Nat] : Consecutive(q.spans, q.frames)}
           new(q, i) == [start |-> rs[i].start, end |-> rs[i].end, bitmap_start |-> q.frames]
           next(q, i) == [spans |-> Append(q.spans, new(q, i)), frames |-> q.frames + frame_count(rs[i])]
           x == [spans |-> <<>>, frames |-> 0]
           turn == [k \in 1..n |-> [q \in D |-> next(q, k)]]
           P(w) == w = [i \in 0..n |-> IF i = 0 THEN x ELSE next(w[i - 1], i)]
           placed == CHOOSE w : P(w)
<1>1. n \in Nat /\ DOMAIN rs = 1..n /\ \A k \in 1..n : rs[k] \in PageRange /\ rs[k].start < rs[k].end
  BY DEF Disjoint
<1>2. managed_ranges(rs) = placed[n]
  BY DEF managed_ranges
<1>3. x \in D
  BY DEF Consecutive
<1>4. ASSUME NEW q \in D, NEW k \in 1..n PROVE next(q, k) \in D
  <2>1. q.spans \in Seq(Span) /\ q.frames \in Nat /\ Consecutive(q.spans, q.frames)
    OBVIOUS
  <2> HIDE DEF D
  <2>2. /\ Append(q.spans, new(q, k)) \in Seq(Span) /\ q.frames + frame_count(rs[k]) \in Nat
        /\ Consecutive(Append(q.spans, new(q, k)), q.frames + frame_count(rs[k]))
    BY <1>1, <2>1, OneMoreSpan
  <2> HIDE DEF new
  <2> QED
    BY <2>2 DEF D
<1> HIDE DEF D, next
<1>5. turn \in [1..n -> [D -> D]]
  BY <1>4
<1>6. Runs(D, n, turn, x)
  <2> HIDE DEF turn, n, x
  <2> QED
    BY <1>1, <1>3, <1>5, Loop
<1>7. PICK f \in [0..n -> D] : f[0] = x /\ \A k \in 1..n : f[k] = turn[k][f[k - 1]]
  BY <1>6 DEF Runs
<1>8. P(f)
  <2> HIDE DEF x
  <2>1. ASSUME NEW i \in 0..n PROVE f[i] = IF i = 0 THEN x ELSE next(f[i - 1], i)
    <3>1. i = 0 \/ (i \in 1..n /\ i - 1 \in 0..n)
      BY <1>1
    <3>2. ASSUME i \in 1..n, i - 1 \in 0..n PROVE f[i] = next(f[i - 1], i)
      <4>1. f[i - 1] \in D
        BY <1>7, <3>2
      <4> QED
        BY <1>7, <3>2, <4>1
    <3> QED
      BY <1>7, <3>1, <3>2
  <2> QED
    BY <1>7, <2>1
<1>9. placed = [i \in 0..n |-> IF i = 0 THEN x ELSE next(placed[i - 1], i)]
  <2>1. P(placed)
    <3> HIDE DEF P
    <3> QED
      BY <1>8
  <2> QED
    BY <2>1
<1> HIDE DEF placed, turn, P
<1> DEFINE Built(k) == /\ placed[k] \in D /\ Len(placed[k].spans) = k
                       /\ \A i \in 1..k : placed[k].spans[i].start = rs[i].start /\ placed[k].spans[i].end = rs[i].end
           S == {k \in 0..n : Built(k)}
<1>10. 0 \in S
  <2>1. 0 \in 0..n /\ placed[0] = x
    BY <1>1, <1>9
  <2> QED
    BY <1>3, <2>1
<1>11. ASSUME NEW k \in 0..(n - 1), k \in S PROVE k + 1 \in S
  <2>1. k + 1 \in 0..n /\ k + 1 # 0 /\ (k + 1) - 1 = k /\ k + 1 \in 1..n /\ k \in Nat
    BY <1>1
  <2>2. placed[k + 1] = next(placed[k], k + 1)
    BY <1>9, <2>1
  <2>3. Built(k)
    BY <1>11
  <2>4. placed[k + 1] \in D
    BY <1>4, <2>1, <2>2, <2>3
  <2> DEFINE q == placed[k].spans  z == new(placed[k], k + 1)
  <2>5. q \in Seq(Span) /\ Len(q) = k /\ z \in Span /\ z.start = rs[k + 1].start /\ z.end = rs[k + 1].end
    BY <1>1, <2>1, <2>3 DEF D, Span, PageRange
  <2>6. placed[k + 1].spans = Append(q, z)
    BY <2>2 DEF next
  <2> HIDE DEF q, z
  <2>7. Len(Append(q, z)) = k + 1 /\ Append(q, z)[k + 1] = z /\ \A i \in 1..k : Append(q, z)[i] = q[i]
    BY <2>5
  <2>8. \A i \in 1..(k + 1) : Append(q, z)[i].start = rs[i].start /\ Append(q, z)[i].end = rs[i].end
    <3>1. \A i \in 1..k : q[i].start = rs[i].start /\ q[i].end = rs[i].end
      BY <2>3 DEF q
    <3>2. \A i \in 1..(k + 1) : i \in 1..k \/ i = k + 1
      BY <2>1
    <3> QED
      BY ZenonT(30), <2>5, <2>7, <3>1, <3>2
  <2> QED
    BY <2>1, <2>4, <2>6, <2>7, <2>8
<1>12. Built(n)
  <2>1. n \in S
    <3> HIDE DEF S, n
    <3>1. 0..n \subseteq S
      BY <1>1, <1>10, <1>11, UpTo
    <3> QED
      BY <1>1, <3>1
  <2> QED
    BY <2>1
<1>13. placed[n].spans \in Seq(Span) /\ placed[n].frames \in Nat /\ Consecutive(placed[n].spans, placed[n].frames)
  BY <1>12 DEF D
<1>14. DOMAIN placed[n].spans = 1..n
  BY <1>12, <1>13
<1> QED
  BY <1>1, <1>2, <1>12, <1>13, <1>14 DEF Numbered
-----------------------------------------------------------------------------
(* The memory map: regions stay regions when they are sorted, and the      *)
(* usable ones become ranges of whole pages.                               *)
Region == [start : Nat, len : Nat, type : Nat]
Extent == {r \in PageRange : r.start < r.end}

LEMMA MaxOf ==
  ASSUME NEW n \in Nat, NEW S, S \subseteq 0..n, S # {}
  PROVE  Max(S) \in S
<1> DEFINE T == {n - s : s \in S}
<1>1. T \subseteq Nat /\ T # {}
  <2>1. \A s \in S : n - s \in Nat
    OBVIOUS
  <2> QED
    BY <2>1
<1>2. PICK t \in T : \A u \in T : t <= u
  <2> HIDE DEF T
  <2> QED
    BY <1>1, LeastNat
<1>3. PICK s \in S : t = n - s
  OBVIOUS
<1>4. \A y \in S : s >= y
  BY <1>2, <1>3
<1> QED
  BY <1>4 DEF Max

LEMMA Inserted ==
  ASSUME NEW sorted \in Seq(Region), NEW r \in Region
  PROVE  inserted(sorted, r) \in Seq(Region)
<1> DEFINE S == {0} \cup {j \in DOMAIN sorted : ~region_before(r, sorted[j])}
           k == Max(S)
<1>1. S \subseteq 0..Len(sorted) /\ S # {} /\ Len(sorted) \in Nat
  <2>1. DOMAIN sorted = 1..Len(sorted) /\ Len(sorted) \in Nat
    OBVIOUS
  <2>2. 1..Len(sorted) \subseteq 0..Len(sorted) /\ 0 \in 0..Len(sorted)
    BY <2>1
  <2> QED
    BY <2>1, <2>2
<1>2. k \in 0..Len(sorted)
  <2> HIDE DEF S
  <2>1. k \in S
    BY <1>1, MaxOf
  <2> QED
    BY <1>1, <2>1
<1>3. inserted(sorted, r) = SubSeq(sorted, 1, k) \o <<r>> \o SubSeq(sorted, k + 1, Len(sorted))
  BY DEF inserted
<1> HIDE DEF k
<1>4. SubSeq(sorted, 1, k) \in Seq(Region) /\ SubSeq(sorted, k + 1, Len(sorted)) \in Seq(Region)
  <2>1. \A m, l \in Nat : 1 <= m /\ l <= Len(sorted) => SubSeq(sorted, m, l) \in Seq(Region)
    OBVIOUS
  <2> QED
    BY <1>1, <1>2, <2>1
<1>5. <<r>> \in Seq(Region)
  OBVIOUS
<1> QED
  BY <1>3, <1>4, <1>5

LEMMA SortedRegions ==
  ASSUME NEW map \in Seq(Region)
  PROVE  sort_regions(map) \in Seq(Region)
<1> DEFINE n == Len(map)
           D == Seq(Region)
           x == <<>>
           turn == [k \in 1..n |-> [q \in D |-> inserted(q, map[k])]]
           P(w) == w = [i \in 0..n |-> IF i = 0 THEN x ELSE inserted(w[i - 1], map[i])]
           sorted == CHOOSE w : P(w)
<1>1. n \in Nat /\ \A k \in 1..n : map[k] \in Region
  OBVIOUS
<1>2. sort_regions(map) = sorted[n]
  BY DEF sort_regions
<1>3. x \in D
  OBVIOUS
<1>4. ASSUME NEW q \in D, NEW k \in 1..n PROVE inserted(q, map[k]) \in D
  BY <1>1, Inserted
<1> HIDE DEF D
<1>5. turn \in [1..n -> [D -> D]]
  BY <1>4
<1>6. Runs(D, n, turn, x)
  <2> HIDE DEF turn, n, x
  <2> QED
    BY <1>1, <1>3, <1>5, Loop
<1>7. PICK f \in [0..n -> D] : f[0] = x /\ \A k \in 1..n : f[k] = turn[k][f[k - 1]]
  BY <1>6 DEF Runs
<1>8. P(f)
  <2> HIDE DEF x
  <2>1. ASSUME NEW i \in 0..n PROVE f[i] = IF i = 0 THEN x ELSE inserted(f[i - 1], map[i])
    <3>1. i = 0 \/ (i \in 1..n /\ i - 1 \in 0..n)
      BY <1>1
    <3>2. ASSUME i \in 1..n, i - 1 \in 0..n PROVE f[i] = inserted(f[i - 1], map[i])
      <4>1. f[i - 1] \in D
        BY <1>7, <3>2
      <4> QED
        BY <1>7, <3>2, <4>1
    <3> QED
      BY <1>7, <3>1, <3>2
  <2> QED
    BY <1>7, <2>1
<1>9. sorted = [i \in 0..n |-> IF i = 0 THEN x ELSE inserted(sorted[i - 1], map[i])]
  <2>1. P(sorted)
    <3> HIDE DEF P
    <3> QED
      BY <1>8
  <2> QED
    BY <2>1
<1> HIDE DEF sorted, turn, P, x
<1> DEFINE S == {k \in 0..n : sorted[k] \in D}
<1>10. 0 \in S
  BY <1>1, <1>3, <1>9
<1>11. ASSUME NEW k \in 0..(n - 1), k \in S PROVE k + 1 \in S
  <2>1. k + 1 \in 0..n /\ k + 1 # 0 /\ (k + 1) - 1 = k /\ k + 1 \in 1..n
    BY <1>1
  <2>2. sorted[k + 1] = inserted(sorted[k], map[k + 1])
    BY <1>9, <2>1
  <2> QED
    BY <1>4, <1>11, <2>1, <2>2
<1>12. n \in S
  <2> HIDE DEF S, n
  <2>1. 0..n \subseteq S
    BY <1>1, <1>10, <1>11, UpTo
  <2> QED
    BY <1>1, <2>1
<1> QED
  BY <1>2, <1>12 DEF D

LEMMA WholePages ==
  ASSUME NEW r \in Region
  PROVE  whole_pages(r) \in PageRange
<1>1. PageBytes \in Nat \ {0} /\ r.start \in Nat /\ r.len \in Nat
  BY FrameAssumption DEF Region
<1>2. r.start + PageBytes - 1 \in Nat /\ r.start + r.len \in Nat
  BY <1>1
<1>3. (r.start + PageBytes - 1) \div PageBytes \in Nat /\ (r.start + r.len) \div PageBytes \in Nat
  BY <1>1, <1>2, Quotients
<1>4. align_up(r.start) \in Aligned /\ align_down(r.start + r.len) \in Aligned
  BY <1>3, PageMath DEF align_up, align_down
<1> QED
  BY <1>4 DEF whole_pages, PageRange

LEMMA UsableRanges ==
  ASSUME NEW map \in Seq(Region)
  PROVE  usable_ranges(map) \in Seq(Extent)
<1> DEFINE n == Len(map)
           D == Seq(Extent)
           x == <<>>
           usable(r) == r.type = 0 /\ whole_pages(r).start < whole_pages(r).end
           next(q, i) == IF usable(map[i]) THEN Append(q, whole_pages(map[i])) ELSE q
           turn == [k \in 1..n |-> [q \in D |-> next(q, k)]]
           P(w) == w = [i \in 0..n |-> IF i = 0 THEN x
                                       ELSE IF usable(map[i]) THEN Append(w[i - 1], whole_pages(map[i]))
                                       ELSE w[i - 1]]
           ranges == CHOOSE w : P(w)
<1>1. n \in Nat /\ \A k \in 1..n : map[k] \in Region
  OBVIOUS
<1>2. usable_ranges(map) = ranges[n]
  BY DEF usable_ranges
<1>3. x \in D
  OBVIOUS
<1>4. ASSUME NEW q \in D, NEW k \in 1..n PROVE next(q, k) \in D
  <2>1. usable(map[k]) => whole_pages(map[k]) \in Extent
    BY <1>1, WholePages DEF Extent
  <2> HIDE DEF usable
  <2> QED
    BY <2>1
<1> HIDE DEF D, usable
<1>5. turn \in [1..n -> [D -> D]]
  <2> HIDE DEF next
  <2> QED
    BY <1>4
<1>6. Runs(D, n, turn, x)
  <2> HIDE DEF turn, n, x
  <2> QED
    BY <1>1, <1>3, <1>5, Loop
<1>7. PICK f \in [0..n -> D] : f[0] = x /\ \A k \in 1..n : f[k] = turn[k][f[k - 1]]
  BY <1>6 DEF Runs
<1>8. P(f)
  <2> HIDE DEF x
  <2>1. ASSUME NEW i \in 0..n PROVE f[i] = IF i = 0 THEN x ELSE next(f[i - 1], i)
    <3> HIDE DEF next
    <3>1. i = 0 \/ (i \in 1..n /\ i - 1 \in 0..n)
      BY <1>1
    <3>2. ASSUME i \in 1..n, i - 1 \in 0..n PROVE f[i] = next(f[i - 1], i)
      <4>1. f[i - 1] \in D
        BY <1>7, <3>2
      <4> QED
        BY <1>7, <3>2, <4>1
    <3> QED
      BY <1>7, <3>1, <3>2
  <2> QED
    BY <1>7, <2>1
<1>9. \A i \in 0..n : ranges[i] = IF i = 0 THEN x ELSE next(ranges[i - 1], i)
  <2>1. P(ranges)
    <3> HIDE DEF P
    <3> QED
      BY <1>8
  <2> QED
    BY <2>1
<1> HIDE DEF ranges, turn, P, x, next
<1> DEFINE S == {k \in 0..n : ranges[k] \in D}
<1>10. 0 \in S
  BY <1>1, <1>3, <1>9
<1>11. ASSUME NEW k \in 0..(n - 1), k \in S PROVE k + 1 \in S
  <2>1. k + 1 \in 0..n /\ k + 1 # 0 /\ (k + 1) - 1 = k /\ k + 1 \in 1..n
    BY <1>1
  <2>2. ranges[k + 1] = next(ranges[k], k + 1)
    BY <1>9, <2>1
  <2> QED
    BY <1>4, <1>11, <2>1, <2>2
<1>12. n \in S
  <2> HIDE DEF S, n
  <2>1. 0..n \subseteq S
    BY <1>1, <1>10, <1>11, UpTo
  <2> QED
    BY <1>1, <2>1
<1> QED
  BY <1>2, <1>12 DEF D

(* Ranges that do not overlap their neighbours do not overlap. *)
LEMMA RangesApart ==
  ASSUME NEW map \in Seq(Region), normalizable(map)
  PROVE  usable_ranges(map) \in Seq(PageRange) /\ Disjoint(usable_ranges(map))
<1> DEFINE rs == usable_ranges(map)
           n == Len(rs)
<1>1. rs \in Seq(Extent)
  BY UsableRanges
<1>2. \A i \in 2..n : rs[i].start >= rs[i - 1].end
  BY DEF normalizable
<1> HIDE DEF rs
<1>3. n \in Nat /\ DOMAIN rs = 1..n /\ \A i \in 1..n : rs[i] \in Extent
  BY <1>1
<1>4. \A i \in 1..n : rs[i].start \in Nat /\ rs[i].end \in Nat /\ rs[i].start < rs[i].end
  BY <1>3 DEF Extent, PageRange, Aligned
<1> HIDE DEF n
<1>5. ASSUME NEW i \in 1..n PROVE \A j \in 1..n : i < j => rs[i].end <= rs[j].start
  <2> DEFINE S == {k \in Nat : i + 1 + k \in 1..n => rs[i].end <= rs[i + 1 + k].start}
  <2>1. 0 \in S
    <3>1. i + 1 \in 1..n => i + 1 \in 2..n /\ (i + 1) - 1 = i
      BY <1>3
    <3> QED
      BY <1>2, <1>4, <3>1
  <2>2. \A k \in 0..(n - 1) : k \in S => k + 1 \in S
    <3> SUFFICES ASSUME NEW k \in Nat, k \in S, i + 1 + (k + 1) \in 1..n
                 PROVE  rs[i].end <= rs[i + 1 + (k + 1)].start
      OBVIOUS
    <3>1. i + 1 + k \in 1..n /\ i + 1 + (k + 1) \in 2..n /\ (i + 1 + (k + 1)) - 1 = i + 1 + k
      BY <1>3
    <3>2. rs[i + 1 + (k + 1)].start >= rs[i + 1 + k].end
      BY <1>2, <3>1
    <3> QED
      BY <1>4, <3>1, <3>2
  <2>3. 0..n \subseteq S
    <3> HIDE DEF S
    <3> QED
      BY <1>3, <2>1, <2>2, UpTo
  <2> TAKE j \in 1..n
  <2> SUFFICES ASSUME i < j PROVE rs[i].end <= rs[j].start
    OBVIOUS
  <2>4. j - i - 1 \in 0..n /\ i + 1 + (j - i - 1) = j
    BY <1>3
  <2> QED
    BY <2>3, <2>4
<1>6. rs \in Seq(PageRange)
  BY <1>1 DEF Extent
<1> QED
  BY <1>3, <1>4, <1>5, <1>6 DEF Disjoint, rs
-----------------------------------------------------------------------------
(* The boot cursor: what it reserved are the frames that callers hold, and *)
(* in every range they lie before the cursor.                              *)
BootState == [ranges : Seq(PageRange), next : Seq(Aligned), current : Nat \ {0}, reserved : Seq(PageRange)]

BootInv(b, held) ==
  /\ b \in BootState /\ Disjoint(b.ranges) /\ DOMAIN b.next = DOMAIN b.ranges
  /\ \A i \in DOMAIN b.ranges : b.ranges[i].start <= b.next[i] /\ b.next[i] <= b.ranges[i].end
  /\ \A i \in DOMAIN b.ranges : \A f \in Frames(b.ranges[i]) : contains_frame(b.reserved, f) => f < b.next[i]
  /\ \A f : f \in held <=> contains_frame(b.reserved, f)

Unreserved(b) ==
  {f \in UNION {Frames(b.ranges[i]) : i \in DOMAIN b.ranges} : ~contains_frame(b.reserved, f)}

(* A range that is merged with the last reservation covers exactly the     *)
(* frames of both.                                                         *)
LEMMA MergedRange ==
  ASSUME NEW r \in PageRange, NEW l \in PageRange, r.start <= l.end, r.end >= l.start,
         NEW m, m = [start |-> Min({r.start, l.start}), end |-> Max({r.end, l.end})]
  PROVE  m \in PageRange /\ \A f : f \in Frames(m) <=> f \in Frames(r) \/ f \in Frames(l)
<1>1. /\ r.start \in Aligned /\ r.end \in Aligned /\ l.start \in Aligned /\ l.end \in Aligned
      /\ r.start \in Nat /\ r.end \in Nat /\ l.start \in Nat /\ l.end \in Nat
  BY DEF PageRange, Aligned
<1>2. Min({r.start, l.start}) = IF r.start <= l.start THEN r.start ELSE l.start
  <2>1. CASE r.start <= l.start
    BY <1>1, <2>1, LeastMin
  <2>2. CASE ~(r.start <= l.start)
    BY <1>1, <2>2, LeastMin
  <2> QED
    BY <2>1, <2>2
<1>3. Max({r.end, l.end}) = IF r.end >= l.end THEN r.end ELSE l.end
  BY <1>1 DEF Max
<1>4. m.start \in Aligned /\ m.end \in Aligned /\ m.start \in Nat /\ m.end \in Nat
  BY <1>1, <1>2, <1>3
<1>5. ASSUME NEW f PROVE f \in Frames(m) <=> f \in Frames(r) \/ f \in Frames(l)
  <2>1. /\ f \in Frames(m) <=> f \in Aligned /\ m.start <= f /\ f < m.end
        /\ f \in Frames(r) <=> f \in Aligned /\ r.start <= f /\ f < r.end
        /\ f \in Frames(l) <=> f \in Aligned /\ l.start <= f /\ f < l.end
    BY <1>1, <1>4, FrameIn
  <2>2. m.start = (IF r.start <= l.start THEN r.start ELSE l.start)
        /\ m.end = (IF r.end >= l.end THEN r.end ELSE l.end)
    BY <1>2, <1>3
  <2>3. ASSUME f \in Nat
        PROVE  m.start <= f /\ f < m.end <=> (r.start <= f /\ f < r.end) \/ (l.start <= f /\ f < l.end)
    BY <1>1, <2>2, <2>3
  <2>4. f \in Aligned => f \in Nat
    BY DEF Aligned
  <2> QED
    BY <2>1, <2>3, <2>4
<1> QED
  BY <1>4, <1>5 DEF PageRange

Covers(widened, reserved, r) ==
  /\ widened \in Seq(PageRange)
  /\ \A f : contains_frame(widened, f) <=> contains_frame(reserved, f) \/ f \in Frames(r)

LEMMA ReserveRange ==
  ASSUME NEW reserved \in Seq(PageRange), NEW r \in PageRange
  PROVE  Covers(reserve_range(reserved, r), reserved, r)
<1> DEFINE n == Len(reserved)
           l == reserved[n]
           m == [start |-> Min({r.start, l.start}), end |-> Max({r.end, l.end})]
<1>0. n \in Nat /\ DOMAIN reserved = 1..n
  OBVIOUS
<1>1. CASE ~(n > 0 /\ touches(r, l))
  <2> DEFINE a == Append(reserved, r)
  <2>1. reserve_range(reserved, r) = a
    BY <1>1 DEF reserve_range
  <2>2. a \in Seq(PageRange) /\ DOMAIN a = 1..(n + 1) /\ a[n + 1] = r /\ \A i \in 1..n : a[i] = reserved[i]
    OBVIOUS
  <2>3. \A i : i \in 1..(n + 1) <=> i \in 1..n \/ i = n + 1
    BY <1>0
  <2> HIDE DEF a, n
  <2>4. ASSUME NEW f PROVE contains_frame(a, f) <=> contains_frame(reserved, f) \/ f \in Frames(r)
    BY <1>0, <2>2, <2>3 DEF contains_frame
  <2> QED
    BY <2>1, <2>2, <2>4 DEF Covers
<1>2. CASE n > 0 /\ touches(r, l)
  <2> DEFINE a == [reserved EXCEPT ![n] = m]
  <2>1. reserve_range(reserved, r) = a
    BY <1>2 DEF reserve_range
  <2>2. n \in 1..n /\ l \in PageRange /\ r.start <= l.end /\ r.end >= l.start
    BY <1>0, <1>2 DEF touches
  <2> HIDE DEF l
  <2>3. m \in PageRange /\ \A f : f \in Frames(m) <=> f \in Frames(r) \/ f \in Frames(l)
    BY <2>2, MergedRange
  <2> HIDE DEF m
  <2>4. a \in Seq(PageRange) /\ DOMAIN a = 1..n /\ a[n] = m /\ \A i \in 1..n : i # n => a[i] = reserved[i]
    <3>1. \A z \in PageRange : [reserved EXCEPT ![n] = z] \in Seq(PageRange)
      BY <2>2
    <3>2. a \in Seq(PageRange)
      BY <2>3, <3>1
    <3>3. DOMAIN a = 1..n /\ a[n] = m /\ \A i \in 1..n : i # n => a[i] = reserved[i]
      BY <1>0, <2>2
    <3> QED
      BY <3>2, <3>3
  <2> HIDE DEF a
  <2>5. reserved[n] = l
    BY DEF l
  <2> HIDE DEF n
  <2>6. ASSUME NEW f PROVE contains_frame(a, f) <=> contains_frame(reserved, f) \/ f \in Frames(r)
    BY <1>0, <2>2, <2>3, <2>4, <2>5 DEF contains_frame
  <2> QED
    BY <2>1, <2>4, <2>6 DEF Covers
<1> QED
  BY <1>1, <1>2

LEMMA BootStates ==
  ASSUME NEW b \in BootState
  PROVE  /\ \A k \in Nat \ {0} : \A d : d = [b EXCEPT !.current = k] => d \in BootState
         /\ \A q \in Seq(Aligned) : \A d : d = [b EXCEPT !.next = q] => d \in BootState
         /\ \A q \in Seq(PageRange) : \A d : d = [b EXCEPT !.reserved = q] => d \in BootState
  BY DEF BootState

(* What the boot cursor gives was free and is no longer. *)
Allocated(b, held, q) ==
  /\ BootInv(q.b, held \cup q.got) /\ q.b.ranges = b.ranges
  /\ q.got \subseteq Unreserved(b) /\ Unreserved(q.b) = Unreserved(b) \ q.got

(* The cursor moves; the frames it passed are reserved or not. *)
Moved(b, held, i, to, c) ==
  BootInv(c, held) /\ c.ranges = b.ranges /\ c.reserved = b.reserved /\ c.next[i] = to

LEMMA CursorMoves ==
  ASSUME NEW b, NEW held, BootInv(b, held), NEW i \in DOMAIN b.ranges, NEW to \in Aligned,
         b.next[i] <= to, to <= b.ranges[i].end
  PROVE  Moved(b, held, i, to, [b EXCEPT !.current = i, !.next[i] = to])
<1> DEFINE c == [b EXCEPT !.current = i, !.next[i] = to]
<1>1. /\ b \in BootState /\ b.next \in Seq(Aligned) /\ b.ranges \in Seq(PageRange) /\ i \in Nat \ {0}
      /\ DOMAIN b.next = DOMAIN b.ranges
  BY DEF BootInv, BootState
<1>2. c.ranges = b.ranges /\ c.reserved = b.reserved /\ c.current = i /\ c.next = [b.next EXCEPT ![i] = to]
  BY <1>1 DEF BootState
<1>3. c.next \in Seq(Aligned) /\ DOMAIN c.next = DOMAIN b.next
  BY <1>1, <1>2
<1>4. c \in BootState
  <2> DEFINE d == [b EXCEPT !.current = i]
  <2>1. d \in BootState /\ d.next = b.next
    BY <1>1, BootStates DEF BootState
  <2>2. c = [d EXCEPT !.next = c.next]
    BY <1>1, <1>2 DEF BootState
  <2> HIDE DEF d, c
  <2> QED
    BY <1>3, <2>1, <2>2, BootStates
<1>5. /\ c.next[i] = to
      /\ \A j \in DOMAIN b.ranges : j # i => c.next[j] = b.next[j]
      /\ \A j \in DOMAIN b.ranges : b.next[j] \in Nat /\ b.ranges[j].start \in Nat /\ b.ranges[j].end \in Nat
      /\ to \in Nat
  <2>1. \A j \in DOMAIN b.ranges : b.next[j] \in Aligned /\ b.ranges[j] \in PageRange
    BY <1>1
  <2> QED
    BY ZenonT(30), <1>1, <1>2, <2>1 DEF PageRange, Aligned
<1>6. ASSUME NEW j \in DOMAIN c.ranges PROVE c.ranges[j].start <= c.next[j] /\ c.next[j] <= c.ranges[j].end
  BY <1>2, <1>5 DEF BootInv
<1>7. ASSUME NEW j \in DOMAIN c.ranges, NEW f \in Frames(c.ranges[j]), contains_frame(c.reserved, f)
      PROVE  f < c.next[j]
  <2>1. f < b.next[j] /\ f \in Nat
    BY <1>2, <1>5, <1>7, FrameIn DEF BootInv, Aligned
  <2>2. b.next[j] <= c.next[j] /\ c.next[j] \in Nat
    BY <1>2, <1>5
  <2> QED
    BY <1>2, <1>5, <2>1, <2>2
<1> HIDE DEF c
<1>8. Moved(b, held, i, to, c)
  <2>1. BootInv(c, held)
    BY <1>2, <1>3, <1>4, <1>6, <1>7 DEF BootInv
  <2> QED
    BY <1>2, <1>5, <2>1 DEF Moved
<1> QED
  BY <1>8 DEF c

(* The frames from the cursor on are reserved. *)
LEMMA CursorReserves ==
  ASSUME NEW b, NEW held, BootInv(b, held), NEW i \in DOMAIN b.ranges, NEW r \in PageRange,
         b.ranges[i].start <= r.start, r.end = b.next[i],
         \A f \in Frames(b.ranges[i]) : contains_frame(b.reserved, f) => f < r.start,
         NEW c, c = [b EXCEPT !.reserved = reserve_range(b.reserved, r)]
  PROVE  Allocated(b, held, [b |-> c, got |-> Frames(r)])
<1>1. /\ b \in BootState /\ b.ranges \in Seq(PageRange) /\ b.reserved \in Seq(PageRange)
      /\ DOMAIN b.next = DOMAIN b.ranges /\ Disjoint(b.ranges)
  BY DEF BootInv, BootState
<1>2. /\ c.ranges = b.ranges /\ c.next = b.next /\ c.current = b.current
      /\ c.reserved = reserve_range(b.reserved, r)
  BY <1>1 DEF BootState
<1>3. /\ c.reserved \in Seq(PageRange)
      /\ \A f : contains_frame(c.reserved, f) <=> contains_frame(b.reserved, f) \/ f \in Frames(r)
  <2>1. Covers(reserve_range(b.reserved, r), b.reserved, r)
    BY <1>1, ReserveRange
  <2> QED
    BY <1>2, <2>1 DEF Covers
<1>4. c \in BootState
  <2>1. c = [ranges |-> c.ranges, next |-> c.next, current |-> c.current, reserved |-> c.reserved]
    BY <1>1 DEF BootState
  <2>2. c.ranges \in Seq(PageRange) /\ c.next \in Seq(Aligned) /\ c.current \in Nat \ {0}
    BY <1>1, <1>2 DEF BootState
  <2> QED
    BY <1>3, <2>1, <2>2 DEF BootState
<1>5. \A j \in DOMAIN b.ranges : b.next[j] \in Nat /\ b.ranges[j].start \in Nat /\ b.ranges[j].end \in Nat
  <2>1. \A j \in DOMAIN b.ranges : b.next[j] \in Aligned /\ b.ranges[j] \in PageRange
    BY <1>1 DEF BootState
  <2> QED
    BY <2>1 DEF PageRange, Aligned
<1>6. r.start \in Nat /\ r.end \in Nat
  BY DEF PageRange, Aligned
<1>7. \A f \in Frames(r) : f \in Aligned /\ f \in Nat /\ r.start <= f /\ f < r.end
  BY <1>6, FrameIn DEF Aligned
<1>8. \A j \in DOMAIN b.ranges : \A f \in Frames(b.ranges[j]) :
        f \in Nat /\ b.ranges[j].start <= f /\ f < b.ranges[j].end
  BY <1>5, FrameIn DEF Aligned
<1>9. Frames(r) \subseteq Frames(b.ranges[i])
  <2>1. b.next[i] <= b.ranges[i].end
    BY DEF BootInv
  <2> SUFFICES ASSUME NEW f \in Frames(r) PROVE f \in Frames(b.ranges[i])
    OBVIOUS
  <2>2. b.ranges[i].start <= f /\ f < b.ranges[i].end
    BY <1>5, <1>6, <1>7, <2>1
  <2> QED
    BY <1>5, <1>7, <2>2, FrameIn
<1>10. ASSUME NEW j \in DOMAIN c.ranges, NEW f \in Frames(c.ranges[j]), contains_frame(c.reserved, f)
       PROVE  f < c.next[j]
  <2>1. CASE contains_frame(b.reserved, f)
    BY <1>2, <1>10, <2>1 DEF BootInv
  <2>2. CASE f \in Frames(r)
    <3>1. j = i
      <4>1. f \in Frames(b.ranges[i]) /\ f \in Frames(b.ranges[j]) /\ j \in DOMAIN b.ranges
        BY <1>2, <1>9, <1>10, <2>2
      <4>2. i \in Nat /\ j \in Nat
        BY <1>1, <4>1
      <4>3. /\ i < j => b.ranges[i].end <= b.ranges[j].start
            /\ j < i => b.ranges[j].end <= b.ranges[i].start
        BY <1>1, <4>1 DEF Disjoint
      <4>4. f \in Nat /\ b.ranges[i].start <= f /\ f < b.ranges[i].end /\ b.ranges[j].start <= f /\ f < b.ranges[j].end
        BY <1>8, <4>1
      <4> QED
        BY <1>5, <4>1, <4>2, <4>3, <4>4
    <3> QED
      BY <1>2, <1>7, <2>2, <3>1
  <2> QED
    BY <1>3, <1>10, <2>1, <2>2
<1>11. BootInv(c, held \cup Frames(r))
  <2>1. \A f : f \in held \cup Frames(r) <=> contains_frame(c.reserved, f)
    BY <1>3 DEF BootInv
  <2>2. \A j \in DOMAIN c.ranges : c.ranges[j].start <= c.next[j] /\ c.next[j] <= c.ranges[j].end
    BY <1>2 DEF BootInv
  <2> QED
    BY <1>1, <1>2, <1>4, <1>10, <2>1, <2>2 DEF BootInv
<1>12. Frames(r) \subseteq Unreserved(b)
  <2> SUFFICES ASSUME NEW f \in Frames(r) PROVE f \in Unreserved(b)
    OBVIOUS
  <2>1. f \in Frames(b.ranges[i]) /\ ~(f < r.start)
    BY <1>6, <1>7, <1>9
  <2>2. ~contains_frame(b.reserved, f)
    BY <2>1
  <2> QED
    BY <2>1, <2>2 DEF Unreserved
<1>13. Unreserved(c) = Unreserved(b) \ Frames(r)
  BY <1>2, <1>3 DEF Unreserved
<1> DEFINE q == [b |-> c, got |-> Frames(r)]
<1>14. q.b = c /\ q.got = Frames(r)
  OBVIOUS
<1> HIDE DEF q
<1>15. Allocated(b, held, q)
  BY <1>2, <1>11, <1>12, <1>13, <1>14 DEF Allocated
<1> QED
  BY <1>15 DEF q

LEMMA NothingGiven ==
  ASSUME NEW b, NEW held, NEW c, BootInv(c, held), c.ranges = b.ranges, c.reserved = b.reserved
  PROVE  Allocated(b, held, [b |-> c, got |-> {}])
<1> DEFINE q == [b |-> c, got |-> {}]
<1>1. q.b = c /\ q.got = {} /\ held \cup q.got = held
  OBVIOUS
<1>2. Unreserved(c) = Unreserved(b) \ {}
  BY DEF Unreserved
<1> HIDE DEF q
<1>3. Allocated(b, held, q)
  BY <1>1, <1>2 DEF Allocated
<1> QED
  BY <1>3 DEF q

LEMMA BootAllocates ==
  ASSUME NEW b, NEW held, BootInv(b, held), NEW n \in Nat \ {0}
  PROVE  Allocated(b, held, boot_allocate(b, n))
<1> DEFINE i == Min(room(b, n))
           to == b.next[i] + n * PageBytes
           r == [start |-> b.next[i], end |-> to]
           moved == [b EXCEPT !.current = i, !.next[i] = to]
           reserved == reserve_range(b.reserved, r)
<1>0. boot_allocate(b, n) = IF room(b, n) = {} THEN [b |-> [b EXCEPT !.current = Len(b.ranges) + 1], got |-> {}]
                            ELSE IF Len(reserved) > MaxBootReservations THEN [b |-> moved, got |-> {}]
                            ELSE [b |-> [moved EXCEPT !.reserved = reserved], got |-> Frames(r)]
  BY DEF boot_allocate
<1>1. /\ b \in BootState /\ b.ranges \in Seq(PageRange) /\ b.next \in Seq(Aligned) /\ b.current \in Nat \ {0}
      /\ DOMAIN b.next = DOMAIN b.ranges /\ DOMAIN b.ranges = 1..Len(b.ranges) /\ Len(b.ranges) \in Nat
  BY DEF BootInv, BootState
<1>2. CASE room(b, n) = {}
  <2> DEFINE c == [b EXCEPT !.current = Len(b.ranges) + 1]
  <2>1. c.ranges = b.ranges /\ c.reserved = b.reserved /\ c.next = b.next
    BY <1>1 DEF BootState
  <2>2. c \in BootState
    <3>1. Len(b.ranges) + 1 \in Nat \ {0}
      BY <1>1
    <3> QED
      BY <1>1, <3>1, BootStates
  <2> HIDE DEF c
  <2>3. BootInv(c, held)
    BY <2>1, <2>2 DEF BootInv
  <2>4. Allocated(b, held, [b |-> c, got |-> {}])
    BY <2>1, <2>3, NothingGiven
  <2> QED
    BY <1>0, <1>2, <2>4 DEF c
<1>3. CASE room(b, n) # {}
  <2>1. room(b, n) \subseteq Nat
    BY <1>1 DEF room
  <2>2. i \in room(b, n)
    BY <1>3, <2>1, MinOf
  <2>3. i \in DOMAIN b.ranges /\ to <= b.ranges[i].end
    BY <1>1, <2>2 DEF room
  <2> HIDE DEF i
  <2>4. b.next[i] \in Aligned /\ b.next[i] \in Nat
    BY <1>1, <2>3 DEF Aligned
  <2>5. to \in Aligned /\ b.next[i] <= to
    <3>1. n * PageBytes \in Aligned /\ n * PageBytes \in Nat
      BY PageMath DEF Aligned
    <3> QED
      BY <2>4, <3>1, PageSums
  <2>6. r \in PageRange /\ r.start = b.next[i] /\ r.end = to
    BY <2>4, <2>5 DEF PageRange
  <2> HIDE DEF to
  <2>7. /\ BootInv(moved, held) /\ moved.ranges = b.ranges /\ moved.reserved = b.reserved
        /\ moved.next[i] = to
    <3>1. Moved(b, held, i, to, moved)
      BY <2>3, <2>5, CursorMoves
    <3> HIDE DEF moved
    <3> QED
      BY <3>1 DEF Moved
  <2> HIDE DEF r, moved
  <2>8. Allocated(b, held, [b |-> moved, got |-> {}])
    BY <2>7, NothingGiven
  <2>9. Allocated(moved, held, [b |-> [moved EXCEPT !.reserved = reserved], got |-> Frames(r)])
    <3>1. moved.ranges[i].start <= r.start /\ i \in DOMAIN moved.ranges /\ r.end = moved.next[i]
      BY <2>3, <2>6, <2>7 DEF BootInv
    <3>2. \A f \in Frames(moved.ranges[i]) : contains_frame(moved.reserved, f) => f < r.start
      BY <2>3, <2>6, <2>7 DEF BootInv
    <3>3. reserved = reserve_range(moved.reserved, r)
      BY <2>7
    <3> HIDE DEF reserved
    <3> QED
      BY <2>6, <2>7, <3>1, <3>2, <3>3, CursorReserves
  <2> DEFINE q == [b |-> [moved EXCEPT !.reserved = reserved], got |-> Frames(r)]
  <2>10. Allocated(b, held, q)
    <3> HIDE DEF q
    <3>1. Unreserved(moved) = Unreserved(b)
      BY <2>7 DEF Unreserved
    <3>2. Allocated(moved, held, q)
      BY <2>9 DEF q
    <3> QED
      BY <2>7, <3>1, <3>2 DEF Allocated
  <2> HIDE DEF reserved
  <2> QED
    BY <1>0, <1>3, <2>8, <2>10 DEF q
<1> QED
  BY <1>2, <1>3
-----------------------------------------------------------------------------
(* The frames the bitmap takes to be free *)
Unused(spans, unused) == {frame_address(spans, index) : index \in unused}

Bitmap == [spans : Seq(Span), frames : Nat, unused : SUBSET Nat]

(* Bits and frames correspond one to one, and no frame that a caller holds *)
(* has its bit clear.                                                      *)
BitmapInv(m, held) ==
  /\ m \in Bitmap /\ Mapped(m.spans, m.frames) /\ m.unused \subseteq 0..(m.frames - 1)
  /\ held \subseteq Nat /\ held \cap Unused(m.spans, m.unused) = {}

FrInv ==
  /\ fphase \in {"loader", "boot", "run", "halt"}
  /\ fphase = "loader" => given = {} /\ boot.ranges = <<>>
  /\ fphase = "boot" => /\ BootInv(boot, given) /\ regions \in Seq(Region) /\ normalizable(regions)
                        /\ boot.ranges = usable_ranges(regions)
  /\ fphase = "run" => BitmapInv(bitmap, given)

(* Marking bits used takes exactly their frames out of the free set. *)
FramesOf(m, bits, frames) == \A f : f \in frames <=> \E index \in bits : f = frame_address(m.spans, index)

TakenFrom(m, held, frames, d) ==
  /\ BitmapInv(d, held \cup frames) /\ frames \subseteq Unused(m.spans, m.unused)
  /\ Unused(d.spans, d.unused) = Unused(m.spans, m.unused) \ frames

LEMMA BitsTaken ==
  ASSUME NEW m, NEW held, BitmapInv(m, held), NEW bits, bits \subseteq m.unused,
         NEW d, d = [m EXCEPT !.unused = m.unused \ bits],
         NEW frames, FramesOf(m, bits, frames)
  PROVE  TakenFrom(m, held, frames, d)
<1> USE DEF FramesOf
<1> DEFINE F(index) == frame_address(m.spans, index)
<1>1. m \in Bitmap /\ Mapped(m.spans, m.frames) /\ m.unused \subseteq 0..(m.frames - 1) /\ held \subseteq Nat
      /\ held \cap Unused(m.spans, m.unused) = {}
  BY DEF BitmapInv
<1>2. d \in Bitmap /\ d.spans = m.spans /\ d.frames = m.frames /\ d.unused = m.unused \ bits
  <2>1. d.spans = m.spans /\ d.frames = m.frames /\ d.unused = m.unused \ bits
    BY <1>1 DEF Bitmap
  <2>2. \A u \in SUBSET Nat : \A e : e = [m EXCEPT !.unused = u] => e \in Bitmap
    BY <1>1 DEF Bitmap
  <2>3. m.unused \ bits \in SUBSET Nat
    BY <1>1 DEF Bitmap
  <2> QED
    BY <2>1, <2>2, <2>3
<1>3. \A a, c \in m.unused : F(a) = F(c) => a = c
  BY <1>1 DEF Mapped
<1>4. frames \subseteq Nat
  <2> SUFFICES ASSUME NEW f \in frames PROVE f \in Nat
    OBVIOUS
  <2>1. PICK index \in bits : f = F(index)
    OBVIOUS
  <2>2. managed(m.spans, f)
    BY <1>1, <2>1 DEF Mapped
  <2>3. PICK i \in DOMAIN m.spans : f \in Frames(m.spans[i])
    BY <2>2 DEF managed
  <2>4. m.spans[i].start \in Nat /\ m.spans[i].end \in Nat
    <3>1. m.spans[i] \in Span
      BY <1>1 DEF Bitmap
    <3> QED
      BY <3>1 DEF Span, Aligned
  <2> QED
    BY <2>3, <2>4, FrameIn DEF Aligned
<1> HIDE DEF F
<1>5. frames \subseteq Unused(m.spans, m.unused)
  BY DEF Unused, F
<1>6. Unused(d.spans, d.unused) = Unused(m.spans, m.unused) \ frames
  <2>1. \A f : f \in Unused(d.spans, d.unused) <=> \E index \in m.unused \ bits : f = F(index)
    BY <1>2 DEF Unused, F
  <2>2. \A f : f \in Unused(m.spans, m.unused) <=> \E index \in m.unused : f = F(index)
    BY DEF Unused, F
  <2>3. \A f : f \in frames <=> \E index \in bits : f = F(index)
    BY DEF F
  <2>4. ASSUME NEW f \in Unused(d.spans, d.unused) PROVE f \in Unused(m.spans, m.unused) \ frames
    <3>1. PICK index \in m.unused \ bits : f = F(index)
      BY <2>1
    <3>2. f \in Unused(m.spans, m.unused)
      BY <2>2, <3>1
    <3>3. f \notin frames
      BY <1>3, <2>3, <3>1
    <3> QED
      BY <3>2, <3>3
  <2>5. ASSUME NEW f \in Unused(m.spans, m.unused) \ frames PROVE f \in Unused(d.spans, d.unused)
    <3>1. PICK index \in m.unused : f = F(index)
      BY <2>2
    <3>2. index \notin bits
      BY <2>3, <3>1
    <3> QED
      BY <2>1, <3>1, <3>2
  <2> QED
    BY <2>4, <2>5
<1>7. BitmapInv(d, held \cup frames)
  <2>1. d.unused \subseteq 0..(d.frames - 1) /\ Mapped(d.spans, d.frames)
    BY <1>1, <1>2
  <2>2. held \cup frames \subseteq Nat /\ (held \cup frames) \cap Unused(d.spans, d.unused) = {}
    BY <1>1, <1>4, <1>6
  <2> QED
    BY <1>2, <2>1, <2>2 DEF BitmapInv
<1> QED
  BY <1>5, <1>6, <1>7 DEF TakenFrom

(* Marking the bits of managed frames free adds exactly these frames. *)
LEMMA BitsFreed ==
  ASSUME NEW m, NEW held, BitmapInv(m, held), NEW freed, freed \subseteq held,
         \A f \in freed : managed(m.spans, f),
         NEW d, d = [m EXCEPT !.unused = m.unused \cup {frame_index(m.spans, f) : f \in freed}]
  PROVE  /\ BitmapInv(d, held \ freed)
         /\ Unused(d.spans, d.unused) = Unused(m.spans, m.unused) \cup freed
<1> DEFINE back == {frame_index(m.spans, f) : f \in freed}
<1>1. m \in Bitmap /\ Mapped(m.spans, m.frames) /\ m.unused \subseteq 0..(m.frames - 1) /\ held \subseteq Nat
      /\ held \cap Unused(m.spans, m.unused) = {}
  BY DEF BitmapInv
<1>2. \A f \in freed : /\ frame_index(m.spans, f) \in 0..(m.frames - 1)
                       /\ frame_address(m.spans, frame_index(m.spans, f)) = f
  BY <1>1 DEF Mapped
<1>3. back \subseteq 0..(m.frames - 1) /\ m.frames \in Nat
  BY <1>1, <1>2 DEF Bitmap
<1>4. d \in Bitmap /\ d.spans = m.spans /\ d.frames = m.frames /\ d.unused = m.unused \cup back
  <2>1. d.spans = m.spans /\ d.frames = m.frames /\ d.unused = m.unused \cup back
    BY <1>1 DEF Bitmap
  <2>2. \A u \in SUBSET Nat : \A e : e = [m EXCEPT !.unused = u] => e \in Bitmap
    BY <1>1 DEF Bitmap
  <2>3. m.unused \cup back \in SUBSET Nat
    <3>1. back \subseteq Nat
      BY <1>3
    <3> QED
      BY <1>1, <3>1 DEF Bitmap
  <2> QED
    BY <2>1, <2>2, <2>3
<1>5. Unused(d.spans, d.unused) = Unused(m.spans, m.unused) \cup freed
  <2>1. \A f : f \in Unused(m.spans, back) <=> f \in freed
    <3>1. ASSUME NEW f \in Unused(m.spans, back) PROVE f \in freed
      BY <1>2 DEF Unused
    <3>2. ASSUME NEW f \in freed PROVE f \in Unused(m.spans, back)
      BY <1>2 DEF Unused
    <3> QED
      BY <3>1, <3>2
  <2> HIDE DEF back
  <2>2. Unused(d.spans, d.unused) = Unused(m.spans, m.unused) \cup Unused(m.spans, back)
    BY <1>4 DEF Unused
  <2> QED
    BY <2>1, <2>2
<1>6. BitmapInv(d, held \ freed)
  <2>1. d.unused \subseteq 0..(d.frames - 1) /\ Mapped(d.spans, d.frames)
    <3> HIDE DEF back
    <3> QED
      BY <1>1, <1>3, <1>4
  <2>2. held \ freed \subseteq Nat /\ (held \ freed) \cap Unused(d.spans, d.unused) = {}
    BY <1>1, <1>5
  <2> QED
    BY <1>4, <2>1, <2>2 DEF BitmapInv
<1> QED
  BY <1>5, <1>6
-----------------------------------------------------------------------------
(* A step of the allocators is a step of the pool. *)
Stepped == FrInv' /\ (Pool!Next \/ UNCHANGED <<free, given>>)

LEMMA FreeFrames ==
  /\ fphase = "run" => free = Unused(bitmap.spans, bitmap.unused)
  /\ fphase # "run" => free = Unreserved(boot)
  /\ fphase' = "run" => free' = Unused(bitmap'.spans, bitmap'.unused)
  /\ fphase' # "run" => free' = Unreserved(boot')
  BY DEF free, Unused, Unreserved

LEMMA TakeStep ==
  ASSUME FrInv', NEW got, got \subseteq free, free' = free \ got, given' = given \cup got, given \cap free = {}
  PROVE  Stepped
<1>1. free' \subseteq free /\ given' = given \cup (free \ free')
  OBVIOUS
<1> QED
  BY <1>1 DEF Stepped, Pool!Next, Pool!Take

LEMMA CaptureStep == ASSUME FrInv, Capture PROVE Stepped
<1>1. fphase = "loader" /\ given = {} /\ boot.ranges = <<>>
  BY DEF FrInv, Capture
<1>2. free = {}
  BY <1>1, FreeFrames DEF Unreserved
<1>3. PICK map \in RegionMaps :
        IF captured(map) /\ normalizable(sort_regions(map))
        THEN /\ fphase' = "boot" /\ regions' = sort_regions(map) /\ boot' = from_boot_context(sort_regions(map))
             /\ UNCHANGED <<bitmap, given>>
        ELSE fphase' = "halt" /\ UNCHANGED <<regions, boot, bitmap, given>>
  BY DEF Capture
<1>4. given' = {}
  BY <1>1, <1>3
<1>5. FrInv'
  <2>1. CASE ~(captured(map) /\ normalizable(sort_regions(map)))
    BY <1>3, <2>1 DEF FrInv
  <2>2. CASE captured(map) /\ normalizable(sort_regions(map))
    <3> DEFINE rs == usable_ranges(regions')
    <3>1. regions' \in Seq(Region) /\ normalizable(regions')
      <4>1. map \in Seq(Region)
        BY FrameAssumption DEF Region
      <4>2. sort_regions(map) \in Seq(Region)
        BY <4>1, SortedRegions
      <4> QED
        BY <1>3, <2>2, <4>2
    <3>2. rs \in Seq(PageRange) /\ Disjoint(rs)
      BY <3>1, RangesApart
    <3>3. boot' = [ranges |-> rs, next |-> [i \in DOMAIN rs |-> rs[i].start], current |-> 1, reserved |-> <<>>]
      BY <1>3, <2>2 DEF from_boot_context
    <3> HIDE DEF rs
    <3>4. \A i \in DOMAIN rs : rs[i].start \in Aligned /\ rs[i].start \in Nat /\ rs[i].end \in Nat /\ rs[i].start < rs[i].end
      <4>1. \A i \in DOMAIN rs : rs[i] \in PageRange
        BY <3>2
      <4> QED
        BY <3>2, <4>1 DEF PageRange, Aligned, Disjoint
    <3>5. [i \in DOMAIN rs |-> rs[i].start] \in Seq(Aligned)
      BY <3>2, <3>4
    <3>6. boot' \in BootState
      BY <3>2, <3>3, <3>5 DEF BootState
    <3>7. \A f : ~contains_frame(boot'.reserved, f)
      BY <3>3 DEF contains_frame
    <3>8. /\ boot'.ranges = rs /\ DOMAIN boot'.next = DOMAIN rs
          /\ \A i \in DOMAIN rs : rs[i].start <= boot'.next[i] /\ boot'.next[i] <= rs[i].end
      BY <3>3, <3>4
    <3>9. BootInv(boot', given')
      BY <1>4, <3>2, <3>6, <3>7, <3>8 DEF BootInv
    <3>10. fphase' = "boot"
      BY <1>3, <2>2
    <3> QED
      BY <3>1, <3>8, <3>9, <3>10 DEF FrInv, rs
  <2> QED
    BY <2>1, <2>2
<1> QED
  BY <1>1, <1>2, <1>4, <1>5 DEF Stepped, Pool!Next, Pool!Discover

(* No frame that a caller holds is free while the kernel boots. *)
LEMMA BootApart == ASSUME NEW b, NEW held, BootInv(b, held) PROVE held \cap Unreserved(b) = {}
  BY DEF BootInv, Unreserved

LEMMA BootAllocateStep == ASSUME FrInv, NEW n \in RunLengths, BootAllocate(n) PROVE Stepped
<1> DEFINE q == boot_allocate(boot, n)
<1>1. /\ fphase = "boot" /\ boot' = q.b /\ given' = given \cup q.got
      /\ fphase' = (IF q.got = {} THEN "halt" ELSE "boot") /\ regions' = regions
  BY DEF BootAllocate
<1>2. BootInv(boot, given) /\ regions \in Seq(Region) /\ normalizable(regions) /\ boot.ranges = usable_ranges(regions)
  BY <1>1 DEF FrInv
<1>3. Allocated(boot, given, q)
  <2>1. n \in Nat \ {0}
    BY FrameAssumption
  <2> QED
    BY <1>2, <2>1, BootAllocates
<1> HIDE DEF q
<1>4. FrInv'
  <2>1. BootInv(boot', given') /\ boot'.ranges = usable_ranges(regions')
    BY <1>1, <1>2, <1>3 DEF Allocated
  <2> QED
    BY <1>1, <1>2, <2>1 DEF FrInv
<1>5. free = Unreserved(boot) /\ free' = Unreserved(boot') /\ given \cap free = {}
  BY <1>1, <1>2, FreeFrames, BootApart
<1>6. q.got \subseteq free /\ free' = free \ q.got
  BY <1>1, <1>3, <1>5 DEF Allocated
<1> QED
  BY <1>1, <1>4, <1>5, <1>6, TakeStep

(* The bitmap starts with exactly the frames that the boot cursor has not  *)
(* reserved.                                                               *)
LEMMA BitmapBuilt ==
  ASSUME NEW b, NEW held, BootInv(b, held), held \subseteq Nat, NEW m, Numbered(b.ranges, m),
         NEW d, d = new_bitmap(m, b.reserved)
  PROVE  BitmapInv(d, held) /\ Unused(d.spans, d.unused) = Unreserved(b)
<1>1. m.spans \in Seq(Span) /\ m.frames \in Nat /\ Consecutive(m.spans, m.frames) /\ DOMAIN m.spans = DOMAIN b.ranges
  BY DEF Numbered
<1>2. \A i \in DOMAIN b.ranges : m.spans[i].start = b.ranges[i].start /\ m.spans[i].end = b.ranges[i].end
  BY DEF Numbered
<1>3. Disjoint(m.spans)
  BY <1>1, <1>2 DEF BootInv, Disjoint
<1>4. Mapped(m.spans, m.frames)
  BY <1>1, <1>3, SpansMapped
<1>5. \A f : managed(m.spans, f) <=> \E i \in DOMAIN b.ranges : f \in Frames(b.ranges[i])
  BY <1>1, <1>2 DEF managed, Frames
<1>6. /\ d.spans = m.spans /\ d.frames = m.frames
      /\ d.unused = {index \in 0..(m.frames - 1) : ~contains_frame(b.reserved, frame_address(m.spans, index))}
      /\ d = [spans |-> d.spans, frames |-> d.frames, unused |-> d.unused]
  BY DEF new_bitmap
<1>7. d \in Bitmap
  <2>1. d.unused \in SUBSET Nat
    BY <1>1, <1>6
  <2> QED
    BY <1>1, <1>6, <2>1 DEF Bitmap
<1>8. Unused(d.spans, d.unused) = Unreserved(b)
  <2>1. ASSUME NEW f \in Unused(d.spans, d.unused) PROVE f \in Unreserved(b)
    <3>1. PICK index \in d.unused : f = frame_address(m.spans, index)
      BY <1>6 DEF Unused
    <3>2. managed(m.spans, f) /\ ~contains_frame(b.reserved, f)
      BY <1>4, <1>6, <3>1 DEF Mapped
    <3> QED
      BY <1>5, <3>2 DEF Unreserved
  <2>2. ASSUME NEW f \in Unreserved(b) PROVE f \in Unused(d.spans, d.unused)
    <3>1. managed(m.spans, f) /\ ~contains_frame(b.reserved, f)
      BY <1>5 DEF Unreserved
    <3>2. frame_index(m.spans, f) \in 0..(m.frames - 1) /\ frame_address(m.spans, frame_index(m.spans, f)) = f
      BY <1>4, <3>1 DEF Mapped
    <3>3. frame_index(m.spans, f) \in d.unused
      BY <1>6, <3>1, <3>2
    <3> QED
      BY <1>6, <3>2, <3>3 DEF Unused
  <2> QED
    BY <2>1, <2>2
<1>9. d.unused \subseteq 0..(d.frames - 1) /\ held \cap Unused(d.spans, d.unused) = {}
  BY <1>6, <1>8, BootApart
<1> QED
  BY <1>4, <1>6, <1>7, <1>8, <1>9 DEF BitmapInv

LEMMA HandoverStep == ASSUME FrInv, Handover PROVE Stepped
<1> DEFINE m == managed_ranges(usable_ranges(regions))
           n == (required_words(m.frames) + WordsPerFrame - 1) \div WordsPerFrame
           q == boot_allocate(boot, n)
<1>1. /\ fphase = "boot" /\ regions' = regions
      /\ IF n = 0 THEN fphase' = "halt" /\ UNCHANGED <<boot, bitmap, given>>
         ELSE /\ boot' = q.b /\ given' = given \cup q.got
              /\ IF q.got = {} THEN fphase' = "halt" /\ UNCHANGED bitmap
                 ELSE fphase' = "run" /\ bitmap' = new_bitmap(m, q.b.reserved)
  BY DEF Handover
<1>2. BootInv(boot, given) /\ regions \in Seq(Region) /\ normalizable(regions) /\ boot.ranges = usable_ranges(regions)
  BY <1>1 DEF FrInv
<1>3. Numbered(boot.ranges, m)
  BY <1>2, RangesApart, ManagedRanges
<1>4. n \in Nat
  <2>1. m.frames \in Nat /\ WordBits \in Nat \ {0} /\ WordsPerFrame \in Nat \ {0}
    BY <1>3, FrameAssumption DEF Numbered
  <2>2. m.frames + WordBits - 1 \in Nat
    BY <2>1
  <2>3. required_words(m.frames) \in Nat
    BY <2>1, <2>2, Quotients DEF required_words
  <2>4. required_words(m.frames) + WordsPerFrame - 1 \in Nat
    BY <2>1, <2>3
  <2> QED
    BY <2>1, <2>4, Quotients
<1> HIDE DEF m, n
<1>5. free = Unreserved(boot) /\ given \cap free = {}
  BY <1>1, <1>2, FreeFrames, BootApart
<1>6. CASE n = 0
  <2>1. FrInv' /\ free' = Unreserved(boot')
    BY <1>1, <1>6, FreeFrames DEF FrInv
  <2> QED
    BY <1>1, <1>5, <1>6, <2>1 DEF Stepped
<1>7. CASE n # 0
  <2>1. Allocated(boot, given, q)
    BY <1>2, <1>4, <1>7, BootAllocates
  <2> HIDE DEF q
  <2>2. boot' = q.b /\ given' = given \cup q.got
    BY <1>1, <1>7
  <2>3. BootInv(boot', given') /\ boot'.ranges = boot.ranges /\ q.got \subseteq free
        /\ Unreserved(boot') = free \ q.got
    BY <1>5, <2>1, <2>2 DEF Allocated
  <2>4. CASE q.got = {}
    <3>1. fphase' = "halt"
      BY <1>1, <1>7, <2>4
    <3>2. FrInv' /\ free' = free \ q.got
      BY <2>3, <3>1, FreeFrames DEF FrInv
    <3> QED
      BY <1>5, <2>2, <2>3, <3>2, TakeStep
  <2>5. CASE q.got # {}
    <3>1. fphase' = "run" /\ bitmap' = new_bitmap(m, boot'.reserved)
      BY <1>1, <1>7, <2>2, <2>5
    <3>2. given' \subseteq Nat
      <4> SUFFICES ASSUME NEW f \in given' PROVE f \in Nat
        OBVIOUS
      <4>1. PICK i \in DOMAIN boot'.reserved : f \in Frames(boot'.reserved[i])
        BY <2>3 DEF BootInv, contains_frame
      <4>2. boot'.reserved[i] \in PageRange
        BY <2>3, <4>1 DEF BootInv, BootState
      <4>3. boot'.reserved[i].start \in Nat /\ boot'.reserved[i].end \in Nat
        BY <4>2 DEF PageRange, Aligned
      <4> QED
        BY <4>1, <4>3, FrameIn DEF Aligned
    <3>3. BitmapInv(bitmap', given') /\ Unused(bitmap'.spans, bitmap'.unused) = Unreserved(boot')
      BY <1>3, <2>3, <3>1, <3>2, BitmapBuilt
    <3>4. FrInv' /\ free' = free \ q.got
      BY <2>3, <3>1, <3>3, FreeFrames DEF FrInv
    <3> QED
      BY <1>5, <2>2, <2>3, <3>4, TakeStep
  <2> QED
    BY <2>4, <2>5
<1> QED
  BY <1>6, <1>7
-----------------------------------------------------------------------------
LEMMA AllocateStep == ASSUME FrInv, Allocate PROVE Stepped
<1> DEFINE index == Min(bitmap.unused)
           f == frame_address(bitmap.spans, index)
<1>1. /\ fphase = "run" /\ bitmap.unused # {} /\ bitmap' = [bitmap EXCEPT !.unused = bitmap.unused \ {index}]
      /\ given' = given \cup {f} /\ fphase' = fphase
  BY DEF Allocate
<1>2. BitmapInv(bitmap, given)
  BY <1>1 DEF FrInv
<1>3. {index} \subseteq bitmap.unused
  <2>1. bitmap.unused \subseteq Nat
    BY <1>2 DEF BitmapInv, Bitmap
  <2> QED
    BY <1>1, <2>1, MinOf
<1> HIDE DEF index
<1>4. \A g : g \in {f} <=> \E i \in {index} : g = frame_address(bitmap.spans, i)
  OBVIOUS
<1> HIDE DEF f
<1>5. /\ BitmapInv(bitmap', given \cup {f}) /\ {f} \subseteq Unused(bitmap.spans, bitmap.unused)
      /\ Unused(bitmap'.spans, bitmap'.unused) = Unused(bitmap.spans, bitmap.unused) \ {f}
  <2>1. FramesOf(bitmap, {index}, {f})
    BY <1>4 DEF FramesOf
  <2>2. bitmap' = [bitmap EXCEPT !.unused = bitmap.unused \ {index}]
    BY <1>1
  <2>3. TakenFrom(bitmap, given, {f}, bitmap')
    BY <1>2, <1>3, <2>1, <2>2, BitsTaken
  <2> QED
    BY <2>3 DEF TakenFrom
<1>6. free = Unused(bitmap.spans, bitmap.unused) /\ free' = Unused(bitmap'.spans, bitmap'.unused)
  BY <1>1, FreeFrames
<1>7. FrInv' /\ given \cap free = {}
  BY <1>1, <1>2, <1>5, <1>6 DEF FrInv, BitmapInv
<1>8. {f} \subseteq free /\ free' = free \ {f} /\ given' = given \cup {f}
  BY <1>1, <1>5, <1>6
<1> QED
  BY <1>7, <1>8, TakeStep

(* The frames of a run that lies in one span are managed. *)
LEMMA RunManaged ==
  ASSUME NEW spans \in Seq(Span), NEW base \in Aligned, NEW n \in Nat, NEW i \in DOMAIN spans,
         spans[i].start <= base, base + n * PageBytes <= spans[i].end, NEW f \in frame_run(base, n)
  PROVE  managed(spans, f)
<1>1. PageBytes \in Nat \ {0} /\ base \in Nat
  BY FrameAssumption DEF Aligned
<1>2. PICK k \in 0..(n - 1) : f = base + k * PageBytes
  BY DEF frame_run
<1>3. k * PageBytes \in Aligned /\ k * PageBytes \in Nat /\ n * PageBytes \in Nat
  BY <1>2, PageMath DEF Aligned
<1>4. k * PageBytes < n * PageBytes
  <2>1. k \in Nat /\ k < n
    BY <1>2
  <2> QED
    BY <1>1, <2>1
<1>5. f \in Aligned
  BY <1>2, <1>3, PageSums
<1>6. spans[i].start \in Nat /\ spans[i].end \in Nat
  <2>1. spans[i] \in Span
    OBVIOUS
  <2> QED
    BY <2>1 DEF Span, Aligned
<1>7. spans[i].start <= f /\ f < spans[i].end
  BY <1>1, <1>2, <1>3, <1>4, <1>6
<1> QED
  BY <1>5, <1>6, <1>7, FrameIn DEF managed

LEMMA AllocateContiguousStep == ASSUME FrInv, NEW n \in RunLengths, AllocateContiguous(n) PROVE Stepped
<1> DEFINE base == Min(free_runs(n))
           run == frame_run(base, n)
           bits == {frame_index(bitmap.spans, f) : f \in run}
<1>1. /\ fphase = "run" /\ free_runs(n) # {} /\ bitmap' = [bitmap EXCEPT !.unused = bitmap.unused \ bits]
      /\ given' = given \cup run /\ fphase' = fphase
  BY DEF AllocateContiguous, index_of
<1>2. BitmapInv(bitmap, given) /\ bitmap.spans \in Seq(Span) /\ Mapped(bitmap.spans, bitmap.frames)
  BY <1>1 DEF FrInv, BitmapInv, Bitmap
<1>3. n \in Nat /\ n # 0
  BY FrameAssumption
<1>4. \A a \in free_runs(n) : a \in Aligned /\ a \in Nat
  <2> SUFFICES ASSUME NEW a \in free_runs(n) PROVE a \in Aligned /\ a \in Nat
    OBVIOUS
  <2>1. PICK i \in DOMAIN bitmap.spans : a \in Frames(bitmap.spans[i])
    BY DEF free_runs
  <2>2. bitmap.spans[i].start \in Nat /\ bitmap.spans[i].end \in Nat
    <3>1. bitmap.spans[i] \in Span
      BY <1>2, <2>1
    <3> QED
      BY <3>1 DEF Span, Aligned
  <2> QED
    BY <2>1, <2>2, FrameIn DEF Aligned
<1>5. base \in free_runs(n)
  BY <1>1, <1>4, MinOf
<1> HIDE DEF base
<1>6. /\ base \in Aligned
      /\ \E i \in DOMAIN bitmap.spans :
           base >= bitmap.spans[i].start /\ base + n * PageBytes <= bitmap.spans[i].end
      /\ \A k \in 0..(n - 1) : frame_index(bitmap.spans, base + k * PageBytes) \in bitmap.unused
  BY <1>4, <1>5 DEF free_runs, index_of
<1>7. PICK i \in DOMAIN bitmap.spans :
        base >= bitmap.spans[i].start /\ base + n * PageBytes <= bitmap.spans[i].end
  BY <1>6
<1>8. \A f \in run : managed(bitmap.spans, f)
  <2>1. bitmap.spans[i].start <= base
    <3>1. bitmap.spans[i] \in Span
      BY <1>2, <1>7
    <3> QED
      BY <1>6, <1>7, <3>1 DEF Span, Aligned
  <2> QED
    BY <1>2, <1>3, <1>6, <1>7, <2>1, RunManaged
<1>9. \A f \in run : frame_index(bitmap.spans, f) \in bitmap.unused /\ frame_address(bitmap.spans, frame_index(bitmap.spans, f)) = f
  <2>1. \A f \in run : frame_index(bitmap.spans, f) \in bitmap.unused
    BY <1>6 DEF frame_run
  <2> HIDE DEF run
  <2> QED
    BY <1>2, <1>8, <2>1 DEF Mapped
<1> HIDE DEF run
<1>10. bits \subseteq bitmap.unused
  BY <1>9
<1>11. \A f : f \in run <=> \E index \in bits : f = frame_address(bitmap.spans, index)
  BY <1>9
<1> HIDE DEF bits
<1>12. /\ BitmapInv(bitmap', given \cup run) /\ run \subseteq Unused(bitmap.spans, bitmap.unused)
       /\ Unused(bitmap'.spans, bitmap'.unused) = Unused(bitmap.spans, bitmap.unused) \ run
  <2>1. FramesOf(bitmap, bits, run)
    BY <1>11 DEF FramesOf
  <2>2. bitmap' = [bitmap EXCEPT !.unused = bitmap.unused \ bits]
    BY <1>1
  <2>3. TakenFrom(bitmap, given, run, bitmap')
    BY <1>2, <1>10, <2>1, <2>2, BitsTaken
  <2> QED
    BY <2>3 DEF TakenFrom
<1>13. free = Unused(bitmap.spans, bitmap.unused) /\ free' = Unused(bitmap'.spans, bitmap'.unused)
  BY <1>1, FreeFrames
<1>14. FrInv' /\ given \cap free = {}
  BY <1>1, <1>2, <1>12, <1>13 DEF FrInv, BitmapInv
<1>15. run \subseteq free /\ free' = free \ run /\ given' = given \cup run
  BY <1>1, <1>12, <1>13
<1> QED
  BY <1>14, <1>15, TakeStep

LEMMA DeallocateStep ==
  ASSUME FrInv, NEW n \in RunLengths, NEW base \in given, DeallocateContiguous(base, n)
  PROVE  Stepped
<1> DEFINE refused(f) == ~managed(bitmap.spans, f) \/ index_of(f) \in bitmap.unused
           freed == {f \in frame_run(base, n) : \A g \in frame_run(base, n) : g <= f => ~refused(g)}
<1>1. /\ fphase = "run" /\ frame_run(base, n) \subseteq given
      /\ bitmap' = [bitmap EXCEPT !.unused = bitmap.unused \cup {frame_index(bitmap.spans, f) : f \in freed}]
      /\ given' = given \ freed /\ fphase' = fphase
  BY DEF DeallocateContiguous, index_of
<1>2. BitmapInv(bitmap, given)
  BY <1>1 DEF FrInv
<1>3. freed \subseteq given /\ \A f \in freed : managed(bitmap.spans, f)
  <2>1. \A f \in freed : f \in given /\ f <= f
    BY <1>1, <1>2 DEF BitmapInv
  <2> QED
    BY <2>1
<1> HIDE DEF freed
<1>4. /\ BitmapInv(bitmap', given \ freed)
      /\ Unused(bitmap'.spans, bitmap'.unused) = Unused(bitmap.spans, bitmap.unused) \cup freed
  BY <1>1, <1>2, <1>3, BitsFreed
<1>5. free' = free \cup freed
  BY <1>1, <1>4, FreeFrames
<1>6. FrInv'
  BY <1>1, <1>4 DEF FrInv
<1>7. given' \subseteq given /\ free' = free \cup (given \ given')
  BY <1>1, <1>3, <1>5
<1> QED
  BY <1>6, <1>7 DEF Stepped, Pool!Next, Pool!Give

(* The boot cursor and the bitmap behind it are one pool of frames, for    *)
(* every memory map, page size and word size: what the boot code took is   *)
(* never free after the handover, nothing it left is lost, no frame is     *)
(* given twice, and a returned frame is free again.                        *)
THEOREM OnePool == FrSpec => PoolRefined
<1>1. FrInit => FrInv /\ Pool!Init
  <2> SUFFICES ASSUME FrInit PROVE FrInv /\ Pool!Init
    OBVIOUS
  <2>1. fphase = "loader" /\ given = {} /\ boot.ranges = <<>>
    BY DEF FrInit
  <2>2. free = {}
    BY <2>1, FreeFrames DEF Unreserved
  <2> QED
    BY <2>1, <2>2 DEF FrInv, Pool!Init
<1>2. FrInv /\ [FrNext]_fvars => FrInv' /\ [Pool!Next]_<<free, given>>
  <2> SUFFICES ASSUME FrInv, [FrNext]_fvars PROVE Stepped
    BY DEF Stepped
  <2>1. CASE Capture
    BY <2>1, CaptureStep
  <2>2. CASE Handover
    BY <2>2, HandoverStep
  <2>3. CASE Allocate
    BY <2>3, AllocateStep
  <2>4. CASE \E n \in RunLengths : BootAllocate(n) \/ AllocateContiguous(n)
    BY <2>4, BootAllocateStep, AllocateContiguousStep
  <2>5. CASE \E n \in RunLengths, base \in given : DeallocateContiguous(base, n)
    BY <2>5, DeallocateStep
  <2>6. CASE UNCHANGED fvars
    <3>1. FrInv' /\ free' = free /\ given' = given
      BY <2>6 DEF FrInv, fvars, free
    <3> QED
      BY <3>1 DEF Stepped
  <2> QED
    BY <2>1, <2>2, <2>3, <2>4, <2>5, <2>6 DEF FrNext
<1> QED
  BY <1>1, <1>2, PTL DEF FrSpec, PoolRefined, Pool!Spec
=============================================================================
