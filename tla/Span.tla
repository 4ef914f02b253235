-------------------------------- MODULE Span --------------------------------
(***************************************************************************)
(* cpp::span (the standalone std::span in src/unistd/chdir.h, from        *)
(* src/__support/CPP/span.h): a pointer and a size_t count viewing part   *)
(* of an array.  A span is made by one of its constructors and narrowed   *)
(* by subspan, first and last, each computing the new pointer and count   *)
(* in size_t arithmetic, with dynamic_extent = size_t(-1) as the "to the  *)
(* end" sentinel of subspan.                                              *)
(*                                                                         *)
(* The viewed array has the N elements 1 .. N at indices 0 .. N-1; a      *)
(* pointer is an index, nullptr is NullPtr.  Alongside the span the model *)
(* keeps ref, the elements std::span's definition says the span views.    *)
(* Calls meet std::span's preconditions (offset <= size(), and so on):    *)
(* the class does not check them, its callers must.                      *)
(***************************************************************************)
EXTENDS Integers, Sequences

CONSTANTS
  N,   \* elements of the array
  W    \* bits of size_t

ASSUME N \in Nat /\ W \in Nat /\ N < 2 ^ W - 1

NullPtr == -1
Arr == [i \in 1 .. N |-> i]
\* A value converted to size_t.
SizeT(v) == v % (2 ^ W)
dynamic_extent == SizeT(-1)

VARIABLES
  span_data,   \* the pointer, an index of the array or NullPtr
  span_size,   \* the count, a size_t
  ref          \* the elements the span should view

vars == <<span_data, span_size, ref>>

\* The span (data, count) and its reference elements.
Make(d, n, r) == span_data' = d /\ span_size' = SizeT(n) /\ ref' = r

\* Element access: operator[] is data()[index]; front() is (*this)[0]
\* and back() is (*this)[size() - 1].
At(index) == Arr[span_data + index + 1]
front == At(0)
back == At(SizeT(span_size - 1))

(***************************************************************************)
(* Constructors: span(), span(first, count), span(first, end),            *)
(* span(arr[N]) and span(array<T, N>&).                                   *)
(***************************************************************************)
DefaultCtor == Make(NullPtr, 0, <<>>)
PointerCountCtor(first, count) == Make(first, count, SubSeq(Arr, first + 1, first + count))
PointerEndCtor(first, end) == Make(first, end - first, SubSeq(Arr, first + 1, end))
ArrayCtor == Make(0, N, Arr)

\* Mutation of count_to_size: the dynamic_extent test left out.
count_to_size_no_sentinel(offset, count) == count

\* count_to_size: the elements from offset to the end for dynamic_extent.
count_to_size(offset, count) ==
  IF count = dynamic_extent THEN SizeT(span_size - offset) ELSE count

\* Mutation of last: the span starts at data() instead of data() + size() - count.
last_from_front(count) == Make(span_data, count, SubSeq(ref, Len(ref) - count + 1, Len(ref)))

subspan(offset, count) ==
  Make(span_data + offset, count_to_size(offset, count),
       SubSeq(ref, offset + 1,
              IF count = dynamic_extent THEN Len(ref) ELSE offset + count))

first(count) == subspan(0, count)

last(count) ==
  Make(span_data + SizeT(span_size - count), count,
       SubSeq(ref, Len(ref) - count + 1, Len(ref)))

\* The first span views the whole array, as span(arr) makes it.
Init == span_data = 0 /\ span_size = N /\ ref = Arr

\* Each step makes a new span, from the array or by narrowing the current
\* one, with arguments that meet std::span's preconditions.
Next ==
  \/ DefaultCtor \/ ArrayCtor
  \/ \E f \in 0 .. N, n \in 0 .. N : f + n <= N /\ PointerCountCtor(f, n)
  \/ \E f \in 0 .. N, e \in 0 .. N : f <= e /\ PointerEndCtor(f, e)
  \/ \E o \in 0 .. span_size, n \in (0 .. span_size) \cup {dynamic_extent} :
       (n = dynamic_extent \/ o + n <= span_size) /\ subspan(o, n)
  \/ \E n \in 0 .. span_size : first(n)
  \/ \E n \in 0 .. span_size : last(n)

Spec == Init /\ [][Next]_vars

-----------------------------------------------------------------------------
\* A span never claims more elements than the array holds.
TypeOK ==
  /\ span_data \in {NullPtr} \cup 0 .. N
  /\ span_size \in 0 .. N
  /\ ref \in Seq(1 .. N)

\* Whatever sequence of constructors and narrowing calls made it, the span
\* views exactly the elements std::span's definition gives: its size is
\* theirs, its pointer is in the array unless it is empty, and operator[],
\* front() and back() read them.
ViewsReference ==
  /\ span_size = Len(ref)
  /\ span_size > 0 =>
       /\ span_data \in 0 .. N - span_size
       /\ \A i \in 0 .. span_size - 1 : At(i) = ref[i + 1]
       /\ front = ref[1] /\ back = ref[Len(ref)]

=============================================================================
