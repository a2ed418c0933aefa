------------------------ MODULE HelperEvidenceProofs ------------------------
(***************************************************************************)
(* Machine-checked proofs about HelperEvidence, for every ring, table,     *)
(* interrupt and frame size and any number of bytes, epochs and failures.  *)
(***************************************************************************)
EXTENDS HelperEvidence, TLAPS

(***************************************************************************)
(* RingHoldsNewest says nothing of a descriptor in the middle beyond its   *)
(* neighbours; every one lies within what was received.                    *)
(***************************************************************************)
WithinReceived ==
    \A i \in 1 .. Len(descriptors) :
        /\ descriptors[1].from <= descriptors[i].from
        /\ descriptors[i].to <= received
        /\ \A j \in 1 .. Len(descriptors) :
             i < j => descriptors[i].to <= descriptors[j].from

(***************************************************************************)
(* Observation numbers: the descriptors are in order, nothing has the      *)
(* number of anything else, and all are later than what was sent last.     *)
(***************************************************************************)
SequenceInv ==
    /\ lastSeq <= nextSeq
    /\ \A i \in 1 .. Len(descriptors) :
         /\ lastSeq <= descriptors[i].seq
         /\ descriptors[i].seq <= nextSeq
         /\ episode # None => descriptors[i].seq # episode.seq
         /\ schedule # None => descriptors[i].seq # schedule.seq
         /\ \A j \in 1 .. Len(descriptors) :
              i < j => descriptors[i].seq < descriptors[j].seq
    /\ episode # None => lastSeq < episode.seq /\ episode.seq <= nextSeq
    /\ schedule # None =>
         /\ lastSeq < schedule.seq
         /\ schedule.seq <= nextSeq
         /\ episode # None => schedule.seq # episode.seq
    /\ hostNext <= Oldest

(***************************************************************************)
(* The frame being written is the earliest observation there is, and the   *)
(* bytes of a chunk lie between what the host has and what the ring holds. *)
(***************************************************************************)
FrameInv ==
    pc = "write" =>
        /\ frame.kind \in {"uart", "overflow", "status"}
        /\ frame.seq \in Nat
        /\ frame.count \in Nat
        /\ lastSeq <= frame.seq
        /\ frame.seq <= nextSeq
        /\ frame.kind # "uart" => lastSeq < frame.seq
        /\ \A i \in 1 .. Len(descriptors) : frame.seq <= descriptors[i].seq
        /\ episode # None => frame.seq < episode.seq
        /\ schedule # None /\ frame.kind # "status" => frame.seq < schedule.seq
        /\ frame.kind = "status" => schedule # None /\ frame.seq = schedule.seq
        /\ frame.kind = "uart" =>
              /\ frame.count > 0
              /\ frame.data[0] \in Nat
              /\ \A j \in 0 .. frame.count - 1 : frame.data[j] = frame.data[0] + j
              /\ hostNext <= frame.data[0]
              /\ frame.data[0] + frame.count <= Oldest

IInv ==
    /\ TypeOK
    /\ RingHoldsNewest
    /\ WithinReceived
    /\ EveryByteAccounted
    /\ SequenceInv
    /\ FrameInv

USE NoneAssumption

-----------------------------------------------------------------------------
(***************************************************************************)
(* Facts about the operators.                                              *)
(***************************************************************************)

\* An index into the circular array.
LEMMA WrapType ==
  ASSUME NEW x \in Nat
  PROVE  Wrap(x) \in 0 .. Capacity - 1
  BY SizesAssumption DEF Wrap

\* An index wraps at most once.
LEMMA WrapOnce ==
  ASSUME NEW x \in Nat, x < 2 * Capacity
  PROVE  Wrap(x) = IF x < Capacity THEN x ELSE x - Capacity
  BY SizesAssumption DEF Wrap

\* Two steps around the circular array are one.
LEMMA WrapTwice ==
  ASSUME NEW r \in 0 .. Capacity - 1, NEW a \in Nat, NEW b \in Nat,
         a + b <= Capacity
  PROVE  Wrap(Wrap(r + a) + b) = Wrap(r + a + b)
<1>1. Wrap(r + a) = IF r + a < Capacity THEN r + a ELSE r + a - Capacity
  BY SizesAssumption, WrapOnce
<1>2. Wrap(r + a + b) = IF r + a + b < Capacity THEN r + a + b ELSE r + a + b - Capacity
  BY SizesAssumption, WrapOnce
<1>3. Wrap(r + a) + b \in Nat /\ Wrap(r + a) + b < 2 * Capacity
  BY SizesAssumption, <1>1
<1>4. Wrap(Wrap(r + a) + b) = IF Wrap(r + a) + b < Capacity THEN Wrap(r + a) + b
                              ELSE Wrap(r + a) + b - Capacity
  BY SizesAssumption, <1>3, WrapOnce
<1> QED
  BY SizesAssumption, <1>1, <1>2, <1>4

\* copy_into_ring fills the array with positions.
LEMMA CopyType ==
  ASSUME bytes \in [0 .. Capacity - 1 -> Nat],
         NEW at \in 0 .. Capacity - 1, NEW n \in Nat, NEW position \in Nat
  PROVE  CopyIntoRing(at, position, n) \in [0 .. Capacity - 1 -> Nat]
  BY SizesAssumption DEF CopyIntoRing, Lesser

-----------------------------------------------------------------------------
(***************************************************************************)
(* What one push does to the ring.                                         *)
(***************************************************************************)

\* Each retained descriptor is one.
LEMMA DescriptorTypes ==
  ASSUME descriptors \in Seq(Descriptor)
  PROVE  /\ Len(descriptors) \in Nat
         /\ descriptors = <<>> <=> Len(descriptors) = 0
         /\ \A i \in 1 .. Len(descriptors) :
              /\ descriptors[i] \in Descriptor
              /\ descriptors[i].seq \in Nat
              /\ descriptors[i].from \in Nat
              /\ descriptors[i].to \in Nat
              /\ descriptors[i].ts \in Nat
<1>1. Len(descriptors) \in Nat /\ (descriptors = <<>> <=> Len(descriptors) = 0)
  OBVIOUS
<1>2. \A i \in 1 .. Len(descriptors) : descriptors[i] \in Descriptor
  OBVIOUS
<1> QED
  BY <1>1, <1>2 DEF Descriptor

\* How much one push drops: never more than there is, always enough.
LEMMA DropBounds ==
  ASSUME TypeOK, RingHoldsNewest, WithinReceived, NEW n \in Nat \ {0}
  PROVE  /\ Retained(n) \in 1 .. n
         /\ Retained(n) <= Capacity
         /\ RingDrop(n) \in 0 .. used
         /\ used - RingDrop(n) <= Capacity - Retained(n)
         /\ Retained(n) < n => RingDrop(n) = used
         /\ Len(descriptors) = DescriptorCapacity =>
               descriptors[1].to <= Oldest + RingDrop(n)
<1>1. Retained(n) = IF n < Capacity THEN n ELSE Capacity
  BY DEF Retained, Lesser
<1>2. DescriptorDrop \in 0 .. used
  <2>1. CASE Len(descriptors) = DescriptorCapacity
    <3>1. 1 \in 1 .. Len(descriptors) /\ descriptors # <<>>
      BY SizesAssumption, <2>1, DescriptorTypes DEF TypeOK, RingTypes, CounterTypes
    <3>2. descriptors[1].from \in Nat /\ descriptors[1].to \in Nat
      BY <3>1, DescriptorTypes DEF TypeOK, RingTypes, CounterTypes
    <3>3. descriptors[1].from < descriptors[1].to /\ descriptors[1].to <= received
      BY <3>1 DEF RingHoldsNewest, WithinReceived
    <3>4. used = received - descriptors[1].from /\ received \in Nat
      BY <3>1 DEF RingHoldsNewest, Oldest, TypeOK, RingTypes, CounterTypes
    <3>5. DescriptorDrop = descriptors[1].to - descriptors[1].from
      BY <2>1 DEF DescriptorDrop
    <3> QED
      BY <3>2, <3>3, <3>4, <3>5
  <2>2. CASE Len(descriptors) # DescriptorCapacity
    BY <2>2 DEF TypeOK, RingTypes, CounterTypes, DescriptorDrop
  <2> QED
    BY <2>1, <2>2
<1>3. Len(descriptors) = DescriptorCapacity =>
        descriptors[1].to = Oldest + DescriptorDrop
  <2>1. SUFFICES ASSUME Len(descriptors) = DescriptorCapacity
                 PROVE  descriptors[1].to = Oldest + DescriptorDrop
    OBVIOUS
  <2>2. descriptors # <<>> /\ descriptors[1] \in Descriptor
    BY SizesAssumption, <2>1 DEF TypeOK, RingTypes, CounterTypes
  <2> QED
    BY <2>1, <2>2 DEF DescriptorDrop, Oldest, Descriptor
<1>4. used \in 0 .. Capacity
  BY DEF TypeOK, RingTypes, CounterTypes
<1>5. RingDrop(n) = DescriptorDrop +
         (IF used - DescriptorDrop > Capacity - Retained(n)
          THEN (used - DescriptorDrop) - (Capacity - Retained(n)) ELSE 0)
  BY DEF RingDrop
<1>6. Oldest \in Nat
  <2>1. CASE descriptors = <<>>
    BY <2>1 DEF Oldest, TypeOK, RingTypes, CounterTypes
  <2>2. CASE descriptors # <<>>
    <3>1. descriptors[1] \in Descriptor
      BY <2>2 DEF TypeOK, RingTypes, CounterTypes
    <3> QED
      BY <2>2, <3>1 DEF Oldest, Descriptor
  <2> QED
    BY <2>1, <2>2
<1> HIDE DEF RingDrop
<1>7. RingDrop(n) >= DescriptorDrop /\ RingDrop(n) \in 0 .. used
  BY SizesAssumption, <1>1, <1>2, <1>4, <1>5
<1> QED
  BY SizesAssumption, <1>1, <1>2, <1>3, <1>4, <1>5, <1>6, <1>7

\* drop_oldest_bytes keeps the descriptors from the first that ends after base.
LEMMA DropOldestKeeps ==
  ASSUME descriptors \in Seq(Descriptor), NEW k \in 0 .. Len(descriptors), NEW base \in Nat,
         k < Len(descriptors) => descriptors[k + 1].from <= base
  PROVE  /\ DropOldest(k, base) \in Seq(Descriptor)
         /\ Len(DropOldest(k, base)) = Len(descriptors) - k
         /\ \A i \in 1 .. Len(descriptors) - k :
              /\ DropOldest(k, base)[i].seq = descriptors[i + k].seq
              /\ DropOldest(k, base)[i].to = descriptors[i + k].to
              /\ DropOldest(k, base)[i].from =
                   IF i = 1 THEN base ELSE descriptors[i + k].from
<1> DEFINE N == Len(descriptors)
           kept == DropOldest(k, base)
<1>1. N \in Nat /\ \A i \in 1 .. N : descriptors[i] \in Descriptor
  BY DescriptorTypes
<1>2. \A i \in 1 .. N - k : i + k \in 1 .. N
  BY <1>1
<1>3. ASSUME NEW i \in 1 .. N - k
      PROVE  /\ kept[i] \in Descriptor
             /\ kept[i].seq = descriptors[i + k].seq
             /\ kept[i].to = descriptors[i + k].to
             /\ kept[i].from = IF i = 1 THEN base ELSE descriptors[i + k].from
  <2>1. kept[i] = IF i = 1 /\ descriptors[k + 1].from < base
                  THEN [descriptors[k + 1] EXCEPT !.from = base]
                  ELSE descriptors[i + k]
    BY DEF DropOldest
  <2>2. descriptors[i + k] \in Descriptor
    BY <1>1, <1>2
  <2>3. CASE i = 1
    <3>1. k + 1 = i + k /\ k < N
      BY <1>1, <2>3
    <3>2. descriptors[k + 1].from <= base
      BY <3>1
    <3>3. CASE descriptors[k + 1].from < base
      <4>1. kept[i] = [descriptors[k + 1] EXCEPT !.from = base]
        BY <2>1, <2>3, <3>3
      <4> QED
        BY <2>2, <2>3, <3>1, <4>1 DEF Descriptor
    <3>4. CASE ~(descriptors[k + 1].from < base)
      <4>1. kept[i] = descriptors[i + k]
        BY <2>1, <3>4
      <4>2. descriptors[i + k].from = base
        BY <2>2, <3>1, <3>2, <3>4 DEF Descriptor
      <4> QED
        BY <2>2, <2>3, <4>1, <4>2
    <3> QED
      BY <3>3, <3>4
  <2>4. CASE i # 1
    BY <2>1, <2>2, <2>4
  <2> QED
    BY <2>3, <2>4
<1>4. kept = [i \in 1 .. N - k |-> kept[i]]
  BY DEF DropOldest
<1> HIDE DEF kept
<1>5. kept \in [1 .. N - k -> Descriptor]
  BY <1>3, <1>4
<1>6. N - k \in Nat
  BY <1>1
<1>7. kept \in Seq(Descriptor) /\ Len(kept) = N - k
  BY <1>5, <1>6
<1> QED
  BY <1>3, <1>7 DEF kept

\* A push leaves the newest bytes in the ring and renumbers nothing.
LEMMA PushKeepsRing ==
  ASSUME TypeOK, RingHoldsNewest, WithinReceived, NEW n \in Nat \ {0}, Push(n)
  PROVE  /\ bytes' \in [0 .. Capacity - 1 -> Nat]
         /\ readIndex' \in 0 .. Capacity - 1
         /\ used' \in 0 .. Capacity
         /\ used' = used - RingDrop(n) + Retained(n)
         /\ descriptors' \in Seq(Descriptor)
         /\ Len(descriptors') <= DescriptorCapacity
         /\ RingHoldsNewest'
         /\ WithinReceived'
         /\ Oldest <= Oldest'
         /\ Oldest' \in Nat
         /\ \E k \in 0 .. Len(descriptors) :
              /\ Len(descriptors') = Len(descriptors) - k + 1
              /\ \A i \in 1 .. Len(descriptors) - k :
                   descriptors'[i].seq = descriptors[i + k].seq
              /\ descriptors'[Len(descriptors) - k + 1].seq = nextSeq'
<1> DEFINE N == Len(descriptors)
           drop == RingDrop(n)
           base == Oldest + drop
           kept == used - drop
           ret == Retained(n)
           first == received + n - ret
<1>1. /\ bytes \in [0 .. Capacity - 1 -> Nat]
      /\ readIndex \in 0 .. Capacity - 1
      /\ used \in 0 .. Capacity
      /\ descriptors \in Seq(Descriptor)
      /\ N <= DescriptorCapacity
      /\ received \in Nat /\ nextSeq \in Nat /\ now \in Nat
  BY DEF TypeOK, RingTypes, CounterTypes
<1>2. N \in Nat /\ (descriptors = <<>> <=> N = 0)
      /\ \A i \in 1 .. N : descriptors[i].from \in Nat /\ descriptors[i].to \in Nat
  BY <1>1, DescriptorTypes
<1>3. /\ ret \in 1 .. n
      /\ ret <= Capacity
      /\ drop \in 0 .. used
      /\ kept <= Capacity - ret
      /\ ret < n => drop = used
      /\ N = DescriptorCapacity => descriptors[1].to <= base
  BY DropBounds
<1>4. Oldest \in Nat /\ used = received - Oldest
  BY <1>1, <1>2 DEF RingHoldsNewest, Oldest
<1>5. PICK k \in 0 .. N :
        /\ Empties(k, base)
        /\ nextSeq' = nextSeq + (IF Opens(n) THEN 2 ELSE 1)
        /\ descriptors' = Append(DropOldest(k, base),
                                 [seq |-> nextSeq', from |-> first,
                                  to |-> received + n, ts |-> now])
        /\ readIndex' = Wrap(readIndex + drop)
        /\ bytes' = CopyIntoRing(Wrap(readIndex' + kept), first, ret)
        /\ used' = kept + ret
        /\ received' = received + n
  BY DEF Push
<1> DEFINE new == [seq |-> nextSeq', from |-> first, to |-> received + n, ts |-> now]
           kd == DropOldest(k, base)
<1>6. \A i \in 1 .. N : i <= k <=> descriptors[i].to <= base
  BY <1>5 DEF Empties
<1>7. /\ \A i \in 1 .. N : descriptors[i].from < descriptors[i].to
      /\ \A i \in 1 .. N : descriptors[i].to = IF i = N THEN received
                                               ELSE descriptors[i + 1].from
      /\ \A i \in 1 .. N : descriptors[i].to <= received
      /\ N > 0 => Oldest = descriptors[1].from
      /\ N = 0 => Oldest = received
      /\ \A j \in 0 .. used - 1 : bytes[Wrap(readIndex + j)] = Oldest + j
  BY <1>2 DEF RingHoldsNewest, WithinReceived, Oldest
<1> HIDE DEF N, drop, base, kept, ret, first, new, kd
<1>8. /\ base \in Nat /\ base <= received /\ base >= Oldest
      /\ kept \in Nat /\ kept = received - base
      /\ first \in Nat /\ first >= received
  BY <1>1, <1>3, <1>4 DEF base, kept, first
<1>9. k < N => descriptors[k + 1].from <= base
  <2>1. CASE k = 0
    BY <1>2, <1>7, <1>8, <2>1
  <2>2. CASE k > 0 /\ k < N
    <3>1. k \in 1 .. N
      BY <2>2
    <3>2. descriptors[k].to <= base /\ descriptors[k].to = descriptors[k + 1].from
      BY <1>6, <1>7, <2>2, <3>1
    <3> QED
      BY <3>2
  <2> QED
    BY <2>1, <2>2, <1>5
<1>10. k = N => base = received
  <2>1. CASE N = 0
    BY <1>7, <1>8, <2>1, <1>1
  <2>2. CASE N > 0 /\ k = N
    <3>1. N \in 1 .. N
      BY <1>2, <2>2
    <3>2. descriptors[N].to = received /\ descriptors[N].to <= base
      BY <1>6, <1>7, <2>2, <3>1
    <3> QED
      BY <1>1, <1>8, <3>2
  <2> QED
    BY <1>2, <2>1, <2>2
<1>11. k < N => ret = n /\ first = received
  <2>1. SUFFICES ASSUME k < N, ret < n PROVE FALSE
    BY <1>1, <1>3 DEF first
  <2>2. base = received
    BY <1>1, <1>3, <1>4, <2>1 DEF base
  <2>3. N \in 1 .. N /\ descriptors[N].to <= base
    BY <1>2, <1>7, <2>1, <2>2
  <2> QED
    BY <1>2, <1>6, <2>1, <2>3
<1>12. N = DescriptorCapacity => k >= 1
  BY SizesAssumption, <1>2, <1>3, <1>6
<1>13. /\ kd \in Seq(Descriptor)
       /\ Len(kd) = N - k
       /\ \A i \in 1 .. N - k :
            /\ kd[i].seq = descriptors[i + k].seq
            /\ kd[i].to = descriptors[i + k].to
            /\ kd[i].from = IF i = 1 THEN base ELSE descriptors[i + k].from
  BY <1>1, <1>8, <1>9, DropOldestKeeps DEF N, kd
<1>14. nextSeq' \in Nat
  BY <1>1, <1>5
<1>15. /\ new \in Descriptor
       /\ new.seq = nextSeq' /\ new.from = first /\ new.to = received + n
  BY <1>1, <1>8, <1>14 DEF new, Descriptor
<1>16. descriptors' = Append(kd, new)
  BY <1>5 DEF kd, new
<1>17. /\ descriptors' \in Seq(Descriptor)
       /\ Len(descriptors') = N - k + 1
       /\ \A i \in 1 .. N - k : descriptors'[i] = kd[i]
       /\ descriptors'[N - k + 1] = new
  BY <1>13, <1>15, <1>16
<1>18. Len(descriptors') <= DescriptorCapacity
  BY SizesAssumption, <1>1, <1>2, <1>12, <1>17 DEF N
<1>19. Oldest' = IF k < N THEN base ELSE first
  <2>1. descriptors' # <<>>
    BY <1>2, <1>17
  <2>2. Oldest' = descriptors'[1].from
    BY <2>1 DEF Oldest
  <2>3. CASE k < N
    <3>1. 1 \in 1 .. N - k
      BY <1>2, <2>3
    <3> QED
      BY <1>13, <1>17, <2>2, <2>3, <3>1
  <2>4. CASE k = N
    BY <1>2, <1>15, <1>17, <2>2, <2>4
  <2> QED
    BY <1>2, <2>3, <2>4
<1>20. used' = received' - Oldest'
  <2>1. used' = received - base + ret /\ received' = received + n
    BY <1>5, <1>8
  <2>2. CASE k < N
    BY <1>1, <1>3, <1>8, <1>11, <1>19, <2>1, <2>2
  <2>3. CASE k = N
    <3>1. Oldest' = received + n - ret /\ base = received
      BY <1>2, <1>10, <1>19, <2>3 DEF first
    <3> QED
      BY <1>1, <1>3, <2>1, <3>1
  <2> QED
    BY <1>2, <2>2, <2>3
<1>21. ASSUME NEW i \in 1 .. N - k + 1
       PROVE  /\ descriptors'[i].from < descriptors'[i].to
              /\ descriptors'[i].to = IF i = N - k + 1 THEN received'
                                      ELSE descriptors'[i + 1].from
              /\ descriptors'[1].from <= descriptors'[i].from
              /\ descriptors'[i].to <= received'
  <2>1. received' = received + n
    BY <1>5
  <2>2. CASE i = N - k + 1
    <3>1. descriptors'[i].from = first /\ descriptors'[i].to = received + n
      BY <1>15, <1>17, <2>2
    <3>2. first < received + n
      BY <1>1, <1>3 DEF first
    <3>3. descriptors'[1].from <= first
      <4>1. CASE k = N
        BY <1>2, <1>8, <2>2, <3>1, <4>1
      <4>2. CASE k < N
        <5>1. 1 \in 1 .. N - k
          BY <1>2, <4>2
        <5>2. descriptors'[1].from = base
          BY <1>13, <1>17, <5>1
        <5> QED
          BY <1>1, <1>8, <5>2
      <4> QED
        BY <1>2, <4>1, <4>2
    <3> QED
      BY <1>1, <2>1, <2>2, <3>1, <3>2, <3>3
  <2>3. CASE i \in 1 .. N - k
    <3>1. k < N /\ i + k \in 1 .. N /\ 1 \in 1 .. N - k
      BY <1>2, <2>3
    <3>2. /\ descriptors'[i].to = descriptors[i + k].to
          /\ descriptors'[i].from = IF i = 1 THEN base ELSE descriptors[i + k].from
          /\ descriptors'[1].from = base
      BY <1>13, <1>17, <2>3, <3>1
    <3>3. descriptors[i + k].to > base /\ descriptors[i + k].to <= received
      BY <1>2, <1>6, <1>7, <1>8, <2>3, <3>1
    <3>4. descriptors'[i].from < descriptors'[i].to
      BY <1>2, <1>7, <1>8, <3>1, <3>2, <3>3
    <3>5. descriptors'[1].from <= descriptors'[i].from
      <4>1. CASE i = 1
        BY <1>8, <3>2, <4>1
      <4>2. CASE i > 1
        <5>1. i + k - 1 \in 1 .. N /\ i + k - 1 # N /\ ~(i + k - 1 <= k)
          BY <1>2, <3>1, <4>2
        <5>2. (i + k - 1) + 1 = i + k
          BY <1>2, <3>1
        <5>3. descriptors[i + k - 1].to = descriptors[i + k].from
          BY <1>7, <5>1, <5>2
        <5>4. ~(descriptors[i + k - 1].to <= base)
          BY <1>6, <5>1
        <5> QED
          BY <1>2, <1>8, <3>1, <3>2, <4>2, <5>3, <5>4
      <4> QED
        BY <4>1, <4>2
    <3>6. descriptors'[i].to = descriptors'[i + 1].from
      <4>1. CASE i = N - k
        <5>1. i + 1 = N - k + 1 /\ i + k = N
          BY <1>2, <4>1
        <5>2. descriptors'[i + 1].from = received
          BY <1>11, <1>15, <1>17, <3>1, <5>1
        <5> QED
          BY <1>7, <3>1, <3>2, <5>1, <5>2
      <4>2. CASE i < N - k
        <5>1. i + 1 \in 1 .. N - k /\ i + 1 # 1 /\ i + k # N /\ (i + 1) + k = (i + k) + 1
          BY <1>2, <2>3, <4>2
        <5>2. descriptors'[i + 1].from = descriptors[(i + k) + 1].from
          BY <1>13, <1>17, <5>1
        <5> QED
          BY <1>7, <3>1, <3>2, <5>1, <5>2
      <4> QED
        BY <1>2, <2>3, <4>1, <4>2
    <3>7. i # N - k + 1
      BY <1>2, <2>3
    <3>8. descriptors'[i].to <= received'
      BY <1>1, <1>2, <2>1, <3>1, <3>2, <3>3
    <3> QED
      BY <3>4, <3>5, <3>6, <3>7, <3>8
  <2> QED
    BY <1>2, <2>2, <2>3
<1>22. used' \in 0 .. Capacity /\ readIndex' \in 0 .. Capacity - 1
  <2>1. used' = kept + ret /\ readIndex' = Wrap(readIndex + drop)
    BY <1>5
  <2>2. used' \in 0 .. Capacity
    BY SizesAssumption, <1>3, <1>8, <2>1
  <2>3. readIndex + drop \in Nat
    BY <1>1, <1>3
  <2>4. Wrap(readIndex + drop) \in 0 .. Capacity - 1
    BY <2>3, WrapType
  <2> QED
    BY <2>1, <2>2, <2>4
<1>23. ASSUME NEW j \in 0 .. used' - 1
       PROVE  bytes'[Wrap(readIndex' + j)] = Oldest' + j
  <2>1. used' = kept + ret /\ j \in 0 .. kept + ret - 1
    <3>1. used' = kept + ret
      BY <1>5
    <3> QED
      BY <1>3, <1>8, <3>1
  <2>2. bytes' = CopyIntoRing(Wrap(readIndex' + kept), first, ret)
    BY <1>5
  <2>3. kept + ret <= Capacity /\ ret \in Nat /\ ret > 0
    BY SizesAssumption, <1>3, <1>8
  <2>4. bytes'[Wrap(readIndex' + j)] =
          IF j < kept THEN bytes[Wrap(readIndex' + j)] ELSE first + (j - kept)
    <3>0. PICK r : r = readIndex'
      OBVIOUS
    <3> DEFINE at == Wrap(r + kept)
               i == Wrap(r + j)
               fit == Lesser(Capacity - at, ret)
    <3>1. /\ r \in 0 .. Capacity - 1 /\ kept \in Nat /\ first \in Nat
          /\ kept + ret <= Capacity /\ ret \in Nat /\ ret > 0
          /\ j \in 0 .. kept + ret - 1
          /\ Capacity \in Nat
      BY <1>8, <1>22, <2>1, <2>3, <3>0, SizesAssumption
    <3>2. at = IF r + kept < Capacity THEN r + kept
               ELSE r + kept - Capacity
      BY SizesAssumption, <3>1, WrapOnce
    <3>3. i = IF r + j < Capacity THEN r + j
              ELSE r + j - Capacity
      BY SizesAssumption, <3>1, WrapOnce
    <3>4. at \in 0 .. Capacity - 1 /\ i \in 0 .. Capacity - 1
      BY SizesAssumption, <3>1, <3>2, <3>3
    <3>5. fit = IF Capacity - at < ret THEN Capacity - at ELSE ret
      BY DEF Lesser
    <3>6. CopyIntoRing(at, first, ret)[i] =
            IF at <= i /\ i < at + fit THEN first + (i - at)
            ELSE IF i < ret - fit THEN first + fit + i
            ELSE bytes[i]
      BY <3>4 DEF CopyIntoRing
    <3> HIDE DEF at, i, fit
    <3>7. CopyIntoRing(at, first, ret)[i] =
            IF j < kept THEN bytes[i] ELSE first + (j - kept)
      <4>1. CASE j < kept
        <5>1. ~(at <= i /\ i < at + fit) /\ ~(i < ret - fit)
          BY SizesAssumption, <3>1, <3>2, <3>3, <3>4, <3>5, <4>1
        <5> QED
          BY <3>6, <4>1, <5>1
      <4>2. CASE ~(j < kept) /\ at <= i
        <5>1. i < at + fit /\ i - at = j - kept
          BY SizesAssumption, <3>1, <3>2, <3>3, <3>4, <3>5, <4>2
        <5> QED
          BY <3>6, <4>2, <5>1
      <4>3. CASE ~(j < kept) /\ ~(at <= i)
        <5>1. i < ret - fit /\ fit + i = j - kept
          BY SizesAssumption, <3>1, <3>2, <3>3, <3>4, <3>5, <4>3
        <5>2. first + fit + i = first + (j - kept)
          BY <3>1, <3>4, <3>5, <5>1
        <5> QED
          BY <3>6, <4>3, <5>1, <5>2
      <4> QED
        BY <4>1, <4>2, <4>3
    <3> QED
      BY <2>2, <3>0, <3>7 DEF at, i
  <2>5. CASE j < kept
    <3>1. k < N
      BY <1>2, <1>8, <1>10, <2>5, <1>1
    <3>2. drop \in Nat /\ j \in Nat /\ drop + j <= Capacity
          /\ drop + j \in 0 .. used - 1
      BY SizesAssumption, <1>1, <1>3, <2>1, <2>5 DEF kept
    <3>3. Wrap(Wrap(readIndex + drop) + j) = Wrap(readIndex + drop + j)
      <4>1. Capacity \in Nat \ {0} /\ readIndex \in 0 .. Capacity - 1
        BY SizesAssumption, <1>1
      <4> QED
        BY <3>2, <4>1, WrapTwice
    <3>4. readIndex + drop + j = readIndex + (drop + j)
      BY <1>1, <3>2
    <3>5. bytes[Wrap(readIndex + (drop + j))] = Oldest + (drop + j)
      BY <1>7, <3>2
    <3>6. Oldest' + j = Oldest + (drop + j)
      BY <1>4, <1>19, <3>1, <3>2 DEF base
    <3> QED
      BY <1>5, <2>4, <2>5, <3>3, <3>4, <3>5, <3>6
  <2>6. CASE ~(j < kept)
    <3>1. CASE k < N
      BY <1>1, <1>8, <1>11, <1>19, <2>1, <2>4, <2>6, <3>1
    <3>2. CASE k = N
      <4>1. kept = 0 /\ Oldest' = first
        BY <1>1, <1>2, <1>8, <1>10, <1>19, <3>2
      <4> QED
        BY <1>8, <2>1, <2>4, <2>6, <4>1
    <3> QED
      BY <1>2, <3>1, <3>2
  <2> QED
    BY <2>5, <2>6
<1>24. bytes' \in [0 .. Capacity - 1 -> Nat]
  <2>1. Wrap(readIndex' + kept) \in 0 .. Capacity - 1
    BY <1>8, <1>22, WrapType
  <2>2. bytes' = CopyIntoRing(Wrap(readIndex' + kept), first, ret) /\ ret \in Nat
    BY <1>3, <1>5
  <2> QED
    BY <1>1, <1>8, <2>1, <2>2, CopyType
<1>25. RingHoldsNewest'
  BY <1>17, <1>20, <1>21, <1>23 DEF RingHoldsNewest
<1>26. WithinReceived'
  <2>1. ASSUME NEW i \in 1 .. N - k + 1, NEW j \in 1 .. N - k + 1, i < j
        PROVE  descriptors'[i].to <= descriptors'[j].from
    <3>1. i \in 1 .. N - k /\ i + k \in 1 .. N /\ k < N
      BY <1>2, <2>1
    <3>2. descriptors'[i].to = descriptors[i + k].to
      BY <1>13, <1>17, <3>1
    <3>3. CASE j = N - k + 1
      <4>1. descriptors'[j].from = received
        BY <1>11, <1>15, <1>17, <3>1, <3>3
      <4> QED
        BY <1>7, <3>1, <3>2, <4>1
    <3>4. CASE j # N - k + 1
      <4>1. j \in 1 .. N - k /\ j + k \in 1 .. N /\ j # 1 /\ i + k < j + k
        BY <1>2, <2>1, <3>1, <3>4
      <4>2. descriptors'[j].from = descriptors[j + k].from
        BY <1>13, <1>17, <4>1
      <4>3. descriptors[i + k].to <= descriptors[j + k].from
        BY <3>1, <4>1 DEF WithinReceived, N
      <4> QED
        BY <3>2, <4>2, <4>3
    <3> QED
      BY <3>3, <3>4
  <2> QED
    BY <1>17, <1>21, <2>1 DEF WithinReceived
<1>27. Oldest <= Oldest' /\ Oldest' \in Nat
  BY <1>1, <1>4, <1>8, <1>19
<1>28. used' = used - RingDrop(n) + Retained(n)
  BY <1>5 DEF kept, drop, ret
<1>29. \E m \in 0 .. Len(descriptors) :
         /\ Len(descriptors') = Len(descriptors) - m + 1
         /\ \A i \in 1 .. Len(descriptors) - m :
              descriptors'[i].seq = descriptors[i + m].seq
         /\ descriptors'[Len(descriptors) - m + 1].seq = nextSeq'
  <2>1. \A i \in 1 .. N - k : descriptors'[i].seq = descriptors[i + k].seq
    BY <1>13, <1>17
  <2> QED
    BY <1>15, <1>17, <2>1 DEF N
<1> QED
  BY <1>17, <1>18, <1>22, <1>24, <1>25, <1>26, <1>27, <1>28, <1>29

-----------------------------------------------------------------------------
(***************************************************************************)
(* The steps.                                                              *)
(***************************************************************************)

\* The invariant holds when the helper boots.
LEMMA InitInv == Init => IInv
<1> SUFFICES ASSUME Init PROVE IInv
  OBVIOUS
<1>1. descriptors = <<>> /\ Len(descriptors) = 0 /\ Oldest = 0
  BY DEF Init, Oldest
<1>2. TypeOK
  <2>1. RingTypes
    BY <1>1, SizesAssumption DEF Init, RingTypes
  <2>2. CounterTypes
    BY DEF Init, CounterTypes
  <2>3. ControlTypes
    BY DEF Init, ControlTypes
  <2> QED
    BY <2>1, <2>2, <2>3 DEF TypeOK
<1>3. RingHoldsNewest /\ WithinReceived
  BY <1>1 DEF Init, RingHoldsNewest, WithinReceived
<1>4. EveryByteAccounted
  BY DEF Init, EveryByteAccounted, Unreported, InFrame
<1>5. SequenceInv
  BY <1>1 DEF Init, SequenceInv
<1>6. FrameInv
  BY DEF Init, FrameInv
<1> QED
  BY <1>2, <1>3, <1>4, <1>5, <1>6 DEF IInv

\* What speaks of the ring alone survives a step that leaves the ring alone.
LEMMA RingUntouched ==
  ASSUME RingHoldsNewest, WithinReceived,
         UNCHANGED <<bytes, readIndex, used, descriptors, received>>
  PROVE  RingHoldsNewest' /\ WithinReceived' /\ Oldest' = Oldest
  BY DEF RingHoldsNewest, WithinReceived, Oldest

\* Steps of the clock, the host and the USB thread that move no evidence.
LEMMA QuietStep ==
  ASSUME IInv,
         \/ MarkDriverFault \/ Tick \/ HostOpens \/ HostCloses \/ Halted
         \/ DtrAsserted \/ EpochStarts \/ EpochContinues \/ HelloDisconnected
         \/ StatusDue \/ StatusNotDue \/ DrainIdle
  PROVE  IInv'
<1> USE DEF MarkDriverFault, Tick, HostOpens, HostCloses, Halted, DtrAsserted,
        EpochStarts, EpochContinues, HelloDisconnected, StatusDue, StatusNotDue,
        DrainIdle, vars, ring, usb, history
<1>1. /\ UNCHANGED <<bytes, readIndex, used, highWater, descriptors, episode, nextSeq,
                     droppedTotal, overflowEvents>>
      /\ UNCHANGED <<received, delivered, reported, discarded, hostNext, lastSeq>>
      /\ UNCHANGED schedule
  OBVIOUS
<1>2. \/ pc' # "write" /\ pc # "write"
      \/ pc' = pc /\ frame' = frame
  OBVIOUS
<1>3. TypeOK'
  <2>1. RingTypes'
    BY <1>1 DEF IInv, TypeOK, RingTypes
  <2>2. CounterTypes'
    <3>1. /\ now' = now \/ now' = now + 1
          /\ opens' = opens \/ opens' = opens + 1
          /\ sampled' = sampled \/ sampled' = now
          /\ nextDue' = nextDue
          /\ drained' = drained \/ drained' = 0
      OBVIOUS
    <3> HIDE DEF MarkDriverFault, Tick, HostOpens, HostCloses, Halted, DtrAsserted,
            EpochStarts, EpochContinues, HelloDisconnected, StatusDue, StatusNotDue,
            DrainIdle, vars, ring, usb, history
    <3> QED
      BY <1>1, <3>1 DEF IInv, TypeOK, CounterTypes
  <2>3. ControlTypes'
    <3>1. CASE MarkDriverFault
      BY <3>1 DEF IInv, TypeOK, ControlTypes
    <3>2. CASE Tick
      BY <3>2 DEF IInv, TypeOK, ControlTypes
    <3>3. CASE HostOpens
      BY <3>3 DEF IInv, TypeOK, ControlTypes
    <3>4. CASE HostCloses
      BY <3>4 DEF IInv, TypeOK, ControlTypes
    <3>5. CASE Halted
      BY <3>5 DEF IInv, TypeOK, ControlTypes
    <3>6. CASE DtrAsserted
      BY <3>6 DEF IInv, TypeOK, ControlTypes
    <3>7. CASE EpochStarts
      BY <3>7 DEF IInv, TypeOK, ControlTypes
    <3>8. CASE EpochContinues
      BY <3>8 DEF IInv, TypeOK, ControlTypes
    <3>9. CASE HelloDisconnected
      BY <3>9 DEF IInv, TypeOK, ControlTypes
    <3>10. CASE StatusDue
      BY <3>10 DEF IInv, TypeOK, ControlTypes
    <3>11. CASE StatusNotDue
      BY <3>11 DEF IInv, TypeOK, ControlTypes
    <3>12. CASE DrainIdle
      BY <3>12 DEF IInv, TypeOK, ControlTypes
    <3> QED
      BY <3>1, <3>2, <3>3, <3>4, <3>5, <3>6, <3>7, <3>8, <3>9, <3>10, <3>11, <3>12
  <2> QED
    BY <2>1, <2>2, <2>3 DEF TypeOK
<1> HIDE DEF MarkDriverFault, Tick, HostOpens, HostCloses, Halted, DtrAsserted,
        EpochStarts, EpochContinues, HelloDisconnected, StatusDue, StatusNotDue,
        DrainIdle, vars, ring, usb, history
<1>4. RingHoldsNewest' /\ WithinReceived' /\ Oldest' = Oldest
  BY <1>1, RingUntouched DEF IInv
<1>5. EveryByteAccounted'
  BY <1>1, <1>2 DEF IInv, EveryByteAccounted, Unreported, InFrame
<1>6. SequenceInv'
  BY <1>1, <1>4 DEF IInv, SequenceInv
<1>7. FrameInv'
  BY <1>1, <1>2, <1>4 DEF IInv, FrameInv
<1> QED
  BY <1>3, <1>4, <1>5, <1>6, <1>7 DEF IInv

\* Losses that are still to be reported, and what a frame carries, are numbers.
LEMMA CountTypes ==
  ASSUME TypeOK, FrameInv
  PROVE  Unreported \in Nat /\ InFrame \in Nat
<1>1. Unreported \in Nat
  BY DEF TypeOK, RingTypes, CounterTypes, Unreported, Episode
<1>2. InFrame \in Nat
  BY DEF FrameInv, InFrame
<1> QED
  BY <1>1, <1>2

\* Discarding what the ring retains accounts for it.
LEMMA DiscardKeepsInv ==
  ASSUME IInv, ControlTypes', DiscardRetained, pc' # "write",
         UNCHANGED <<sampled, now, received, delivered, reported, hostNext,
                     lastSeq, opens>>,
         schedule' = None \/ schedule' = schedule,
         nextDue' \in Nat, drained' \in Nat
  PROVE  IInv'
<1>1. /\ descriptors' = <<>> /\ used' = 0 /\ episode' = None /\ nextSeq' = nextSeq
      /\ discarded' = discarded + used + Unreported + InFrame
  BY DEF DiscardRetained
<1>2. Len(descriptors') = 0 /\ Oldest' = received
  BY <1>1 DEF Oldest
<1>3. received \in Nat /\ Oldest \in Nat /\ Oldest <= received /\ hostNext \in Nat
      /\ lastSeq \in Nat /\ nextSeq \in Nat
  <2>1. received \in Nat /\ used \in Nat /\ hostNext \in Nat
        /\ descriptors \in Seq(Descriptor) /\ lastSeq \in Nat /\ nextSeq \in Nat
    BY SizesAssumption DEF IInv, TypeOK, RingTypes, CounterTypes
  <2>2. Oldest \in Nat
    BY <2>1, DescriptorTypes DEF Oldest
  <2> QED
    BY <2>1, <2>2 DEF IInv, RingHoldsNewest
<1>4. RingHoldsNewest'
  BY <1>1, <1>2, <1>3 DEF RingHoldsNewest
<1>5. WithinReceived'
  BY <1>2 DEF WithinReceived
<1>6. EveryByteAccounted'
  <2>1. Unreported' = 0 /\ InFrame' = 0
    BY <1>1 DEF Unreported, InFrame
  <2>2. Unreported \in Nat /\ InFrame \in Nat
    BY CountTypes DEF IInv
  <2>3. /\ received \in Nat /\ delivered \in Nat /\ reported \in Nat
        /\ discarded \in Nat /\ used \in Nat
    BY SizesAssumption DEF IInv, TypeOK, RingTypes, CounterTypes
  <2> QED
    BY <1>1, <2>1, <2>2, <2>3 DEF IInv, EveryByteAccounted
<1>7. SequenceInv'
  BY <1>1, <1>2, <1>3 DEF IInv, SequenceInv
<1>8. FrameInv'
  BY DEF FrameInv
<1>9. TypeOK'
  <2>1. RingTypes'
    BY SizesAssumption DEF IInv, TypeOK, RingTypes, DiscardRetained
  <2>2. CounterTypes'
    <3>1. discarded' \in Nat
      BY <1>1, CountTypes, SizesAssumption, SMTT(30) DEF IInv, TypeOK, RingTypes, CounterTypes
    <3> QED
      BY <3>1 DEF IInv, TypeOK, CounterTypes, DiscardRetained
  <2> QED
    BY <2>1, <2>2 DEF TypeOK
<1> QED
  BY <1>4, <1>5, <1>6, <1>7, <1>8, <1>9 DEF IInv

\* The end of an epoch, and the start of one, for whatever reason.
LEMMA EpochStep ==
  ASSUME IInv, \/ DtrLow \/ RxFaulted \/ FrameDisconnected \/ FrameStalls
               \/ HelloSent
  PROVE  IInv'
<1>1. CASE DtrLow /\ epoch # "active"
  <2> USE <1>1 DEF DtrLow, ring
  <2>1. TypeOK'
    <3>1. RingTypes'
      BY DEF IInv, TypeOK, RingTypes
    <3>2. CounterTypes'
      BY DEF IInv, TypeOK, CounterTypes
    <3>3. ControlTypes'
      BY DEF IInv, TypeOK, ControlTypes
    <3> QED
      BY <3>1, <3>2, <3>3 DEF TypeOK
  <2>2. RingHoldsNewest' /\ WithinReceived' /\ Oldest' = Oldest
    BY RingUntouched DEF IInv
  <2>3. EveryByteAccounted'
    BY DEF IInv, EveryByteAccounted, Unreported, InFrame
  <2>4. SequenceInv'
    BY <2>2 DEF IInv, SequenceInv
  <2>5. FrameInv'
    BY DEF FrameInv
  <2> QED
    BY <2>1, <2>2, <2>3, <2>4, <2>5 DEF IInv
<1>2. CASE DtrLow /\ epoch = "active"
  <2>1. ControlTypes'
    BY <1>2 DEF IInv, TypeOK, ControlTypes, DtrLow, EndActiveEpoch
  <2>2. nextDue' \in Nat /\ drained' \in Nat
    BY <1>2, SizesAssumption DEF IInv, TypeOK, CounterTypes, DtrLow, EndActiveEpoch
  <2> QED
    BY <1>2, <2>1, <2>2, DiscardKeepsInv DEF DtrLow, EndActiveEpoch
<1>3. CASE RxFaulted
  <2>1. ControlTypes'
    BY <1>3 DEF IInv, TypeOK, ControlTypes, RxFaulted, EndActiveEpoch
  <2>2. nextDue' \in Nat /\ drained' \in Nat
    BY <1>3, SizesAssumption DEF IInv, TypeOK, CounterTypes, RxFaulted, EndActiveEpoch
  <2> QED
    BY <1>3, <2>1, <2>2, DiscardKeepsInv DEF RxFaulted, EndActiveEpoch
<1>4. CASE FrameDisconnected
  <2>1. ControlTypes'
    BY <1>4 DEF IInv, TypeOK, ControlTypes, FrameDisconnected, EndActiveEpoch
  <2>2. nextDue' \in Nat /\ drained' \in Nat
    BY <1>4, SizesAssumption DEF IInv, TypeOK, CounterTypes, FrameDisconnected, EndActiveEpoch
  <2> QED
    BY <1>4, <2>1, <2>2, DiscardKeepsInv DEF FrameDisconnected, EndActiveEpoch
<1>5. CASE FrameStalls
  <2>1. ControlTypes'
    BY <1>5 DEF IInv, TypeOK, ControlTypes, FrameStalls, EndActiveEpoch
  <2>2. nextDue' \in Nat /\ drained' \in Nat
    BY <1>5, SizesAssumption DEF IInv, TypeOK, CounterTypes, FrameStalls, EndActiveEpoch
  <2> QED
    BY <1>5, <2>1, <2>2, DiscardKeepsInv DEF FrameStalls, EndActiveEpoch
<1>6. CASE HelloSent
  <2>1. ControlTypes'
    BY <1>6 DEF IInv, TypeOK, ControlTypes, HelloSent
  <2>2. nextDue' \in Nat /\ drained' \in Nat
    BY <1>6, SizesAssumption DEF IInv, TypeOK, CounterTypes, HelloSent
  <2> QED
    BY <1>6, <2>1, <2>2, DiscardKeepsInv DEF HelloSent
<1> QED
  BY <1>1, <1>2, <1>3, <1>4, <1>5, <1>6

\* Where the ring starts is a position that was received.
LEMMA OldestType ==
  ASSUME IInv
  PROVE  Oldest \in Nat /\ Oldest <= received
<1>1. received \in Nat /\ used \in Nat /\ descriptors \in Seq(Descriptor)
  BY SizesAssumption DEF IInv, TypeOK, RingTypes, CounterTypes
<1>2. Oldest \in Nat
  BY <1>1, DescriptorTypes DEF Oldest
<1> QED
  BY <1>1, <1>2 DEF IInv, RingHoldsNewest

\* A status takes the next place in the observation order.
LEMMA StageStatusStep ==
  ASSUME IInv, StageStatus
  PROVE  IInv'
<1>1. /\ UNCHANGED <<bytes, readIndex, used, highWater, descriptors, episode,
                     droppedTotal, overflowEvents>>
      /\ UNCHANGED <<received, delivered, reported, discarded, hostNext, lastSeq>>
      /\ UNCHANGED <<frame, drained, now, opens>>
      /\ nextSeq' = nextSeq + 1
      /\ schedule' = [seq |-> nextSeq + 1, ts |-> sampled, used |-> used,
                      high |-> highWater, total |-> droppedTotal,
                      events |-> overflowEvents]
      /\ pc = "stage" /\ pc' = "drain"
      /\ nextDue' = sampled + Interval /\ sampled' = 0
  BY DEF StageStatus, history
<1>2. nextSeq \in Nat /\ lastSeq \in Nat
  BY DEF IInv, TypeOK, CounterTypes
<1>3. schedule' \in Status /\ schedule'.seq = nextSeq + 1
  BY <1>1, <1>2, SizesAssumption DEF IInv, TypeOK, RingTypes, CounterTypes, Status
<1>4. TypeOK'
  <2>1. RingTypes'
    BY <1>1, <1>3 DEF IInv, TypeOK, RingTypes
  <2>2. CounterTypes'
    BY <1>1, SizesAssumption DEF IInv, TypeOK, CounterTypes
  <2>3. ControlTypes'
    BY DEF IInv, TypeOK, ControlTypes, StageStatus
  <2> QED
    BY <2>1, <2>2, <2>3 DEF TypeOK
<1>5. RingHoldsNewest' /\ WithinReceived' /\ Oldest' = Oldest
  BY <1>1, RingUntouched DEF IInv
<1>6. EveryByteAccounted'
  BY <1>1 DEF IInv, EveryByteAccounted, Unreported, InFrame
<1>7. descriptors \in Seq(Descriptor) /\ episode \in Episode \cup {None}
  BY DEF IInv, TypeOK, RingTypes
<1>8. SequenceInv'
  <2>1. \A i \in 1 .. Len(descriptors) : descriptors[i].seq \in Nat
    BY <1>7, DescriptorTypes
  <2>2. episode # None => episode.seq \in Nat
    BY <1>7 DEF Episode
  <2>3. SequenceInv
    BY DEF IInv
  <2> QED
    BY <1>1, <1>2, <1>3, <1>5, <2>1, <2>2, <2>3 DEF SequenceInv
<1>9. FrameInv'
  BY <1>1 DEF FrameInv
<1> QED
  BY <1>4, <1>5, <1>6, <1>8, <1>9 DEF IInv

\* An overflow record leaves the ring before what was received after the loss.
LEMMA ClaimOverflowStep ==
  ASSUME IInv, ClaimOverflow
  PROVE  IInv'
<1>1. /\ UNCHANGED <<bytes, readIndex, used, highWater, descriptors, nextSeq,
                     droppedTotal, overflowEvents>>
      /\ UNCHANGED <<received, delivered, reported, discarded, hostNext, lastSeq>>
      /\ UNCHANGED <<schedule, sampled, nextDue, drained, now, opens>>
      /\ episode' = None
      /\ pc = "drain" /\ pc' = "write"
      /\ episode # None
      /\ frame' = Frame("overflow", episode.seq, episode.ts, NoData, episode.dropped, 0)
  BY DEF ClaimOverflow, history, NextIsOverflow, OverflowIsNext
<1>2. /\ frame'.kind = "overflow" /\ frame'.seq = episode.seq
      /\ frame'.count = episode.dropped
  BY <1>1 DEF Frame
<1>3. /\ episode.seq \in Nat /\ episode.dropped \in Nat
      /\ nextSeq \in Nat /\ lastSeq \in Nat
      /\ descriptors \in Seq(Descriptor)
  BY <1>1 DEF IInv, TypeOK, RingTypes, CounterTypes, Episode
<1>4. TypeOK'
  <2>1. RingTypes'
    BY <1>1 DEF IInv, TypeOK, RingTypes
  <2>2. CounterTypes'
    BY <1>1 DEF IInv, TypeOK, CounterTypes
  <2>3. ControlTypes'
    BY DEF IInv, TypeOK, ControlTypes, ClaimOverflow
  <2> QED
    BY <2>1, <2>2, <2>3 DEF TypeOK
<1>5. RingHoldsNewest' /\ WithinReceived' /\ Oldest' = Oldest
  BY <1>1, RingUntouched DEF IInv
<1>6. EveryByteAccounted'
  <2>1. Unreported' = 0 /\ InFrame' = episode.dropped
    BY <1>1, <1>2 DEF Unreported, InFrame
  <2>2. Unreported = episode.dropped /\ InFrame = 0
    BY <1>1 DEF Unreported, InFrame
  <2>3. /\ delivered \in Nat /\ reported \in Nat /\ discarded \in Nat
        /\ used \in Nat
    BY SizesAssumption DEF IInv, TypeOK, RingTypes, CounterTypes
  <2> QED
    BY <1>1, <1>3, <2>1, <2>2, <2>3 DEF IInv, EveryByteAccounted
<1>7. SequenceInv'
  BY <1>1, <1>5 DEF IInv, SequenceInv
<1>8. \A i \in 1 .. Len(descriptors) : episode.seq <= descriptors[i].seq
  <2>1. \A i \in 1 .. Len(descriptors) : descriptors[i].seq \in Nat
    BY <1>3, DescriptorTypes
  <2>2. descriptors # <<>> => ~(descriptors[1].seq < episode.seq)
    BY <1>1 DEF ClaimOverflow, NextIsOverflow, OverflowIsNext, ChunkIsNext
  <2>3. \A i \in 1 .. Len(descriptors) : 1 < i => descriptors[1].seq < descriptors[i].seq
    BY DEF IInv, SequenceInv
  <2>4. \A i \in 1 .. Len(descriptors) : 1 \in 1 .. Len(descriptors) /\ descriptors # <<>>
    BY <1>3
  <2> QED
    BY <1>3, <2>1, <2>2, <2>3, <2>4
<1>9. FrameInv'
  <2>1. lastSeq < episode.seq /\ episode.seq <= nextSeq
    BY <1>1 DEF IInv, SequenceInv
  <2>2. schedule # None => episode.seq < schedule.seq
    BY DEF ClaimOverflow, NextIsOverflow, BeforeStatus
  <2> QED
    BY <1>1, <1>2, <1>3, <1>8, <2>1, <2>2 DEF FrameInv
<1> QED
  BY <1>4, <1>5, <1>6, <1>7, <1>9 DEF IInv

\* A status leaves after all that was observed before it.
LEMMA TakeStatusStep ==
  ASSUME IInv, TakeStatus
  PROVE  IInv'
<1>1. /\ UNCHANGED <<bytes, readIndex, used, highWater, descriptors, episode, nextSeq,
                     droppedTotal, overflowEvents>>
      /\ UNCHANGED <<received, delivered, reported, discarded, hostNext, lastSeq>>
      /\ UNCHANGED <<schedule, sampled, nextDue, drained, now, opens>>
      /\ pc = "drain" /\ pc' = "write"
      /\ schedule # None
      /\ frame' = Frame("status", schedule.seq, schedule.ts, NoData,
                        schedule.total, schedule.events)
  BY DEF TakeStatus, history, ring
<1>2. /\ frame'.kind = "status" /\ frame'.seq = schedule.seq
      /\ frame'.count = schedule.total
  BY <1>1 DEF Frame
<1>3. /\ schedule.seq \in Nat /\ schedule.total \in Nat
      /\ nextSeq \in Nat /\ lastSeq \in Nat
      /\ descriptors \in Seq(Descriptor)
      /\ episode # None => episode.seq \in Nat
  BY <1>1 DEF IInv, TypeOK, RingTypes, CounterTypes, Status, Episode
<1>4. TypeOK'
  <2>1. RingTypes'
    BY <1>1 DEF IInv, TypeOK, RingTypes
  <2>2. CounterTypes'
    BY <1>1 DEF IInv, TypeOK, CounterTypes
  <2>3. ControlTypes'
    BY DEF IInv, TypeOK, ControlTypes, TakeStatus
  <2> QED
    BY <2>1, <2>2, <2>3 DEF TypeOK
<1>5. RingHoldsNewest' /\ WithinReceived' /\ Oldest' = Oldest
  BY <1>1, RingUntouched DEF IInv
<1>6. EveryByteAccounted'
  BY <1>1, <1>2 DEF IInv, EveryByteAccounted, Unreported, InFrame
<1>7. SequenceInv'
  BY <1>1, <1>5 DEF IInv, SequenceInv
<1>8. /\ \A i \in 1 .. Len(descriptors) : schedule.seq <= descriptors[i].seq
      /\ episode # None => schedule.seq < episode.seq
  <2>1. \A i \in 1 .. Len(descriptors) : descriptors[i].seq \in Nat
    BY <1>3, DescriptorTypes
  <2>2. \A i \in 1 .. Len(descriptors) : 1 < i => descriptors[1].seq < descriptors[i].seq
    BY DEF IInv, SequenceInv
  <2>3. \A i \in 1 .. Len(descriptors) : 1 \in 1 .. Len(descriptors) /\ descriptors # <<>>
    BY <1>3
  <2>4. descriptors # <<>> => 1 \in 1 .. Len(descriptors)
    BY <1>3
  <2>5. episode # None => schedule.seq # episode.seq
    BY <1>1 DEF IInv, SequenceInv
  <2>6. ChunkIsNext => ~(descriptors[1].seq < schedule.seq)
    BY <1>1 DEF TakeStatus, NextIsChunk, BeforeStatus
  <2>7. OverflowIsNext => ~(episode.seq < schedule.seq)
    BY <1>1 DEF TakeStatus, NextIsOverflow, BeforeStatus
  <2>8. descriptors # <<>> => schedule.seq <= descriptors[1].seq
    BY <1>3, <2>1, <2>4, <2>6, <2>7 DEF ChunkIsNext, OverflowIsNext
  <2>9. episode # None => schedule.seq < episode.seq
    BY <1>3, <2>1, <2>4, <2>5, <2>6, <2>7 DEF ChunkIsNext, OverflowIsNext
  <2> QED
    BY <1>3, <2>1, <2>2, <2>3, <2>8, <2>9
<1>9. FrameInv'
  <2>1. lastSeq < schedule.seq /\ schedule.seq <= nextSeq
    BY <1>1 DEF IInv, SequenceInv
  <2> QED
    BY <1>1, <1>2, <1>3, <1>8, <2>1 DEF FrameInv
<1> QED
  BY <1>4, <1>5, <1>6, <1>7, <1>9 DEF IInv

\* The host has a frame: what it carried is delivered or reported.
LEMMA FrameSentStep ==
  ASSUME IInv, FrameSent
  PROVE  IInv'
<1>1. /\ UNCHANGED <<bytes, readIndex, used, highWater, descriptors, episode, nextSeq,
                     droppedTotal, overflowEvents>>
      /\ UNCHANGED <<received, discarded, sampled, nextDue, now, opens>>
      /\ pc = "write" /\ pc' # "write" /\ frame' = None
      /\ delivered' = IF frame.kind = "uart" THEN delivered + frame.count ELSE delivered
      /\ hostNext' = IF frame.kind = "uart" THEN frame.data[frame.count - 1] + 1
                     ELSE hostNext
      /\ reported' = IF frame.kind = "overflow" THEN reported + frame.count ELSE reported
      /\ lastSeq' = frame.seq
      /\ schedule' = IF frame.kind = "status" THEN None ELSE schedule
      /\ drained' = (drained + 1) % BatchBudget
  BY DEF FrameSent, ring, StatusSent
<1>2. /\ frame.kind \in {"uart", "overflow", "status"}
      /\ frame.seq \in Nat /\ frame.count \in Nat
      /\ frame.seq <= nextSeq
      /\ \A i \in 1 .. Len(descriptors) : frame.seq <= descriptors[i].seq
      /\ episode # None => frame.seq < episode.seq
      /\ schedule # None /\ frame.kind # "status" => frame.seq < schedule.seq
  BY <1>1 DEF IInv, FrameInv
<1>3. frame.kind = "uart" => frame.data[frame.count - 1] + 1 \in Nat
                             /\ frame.data[frame.count - 1] + 1 <= Oldest
  <2>1. SUFFICES ASSUME frame.kind = "uart"
                 PROVE  frame.data[frame.count - 1] + 1 \in Nat
                        /\ frame.data[frame.count - 1] + 1 <= Oldest
    OBVIOUS
  <2>2. /\ frame.count > 0 /\ frame.data[0] \in Nat
        /\ \A j \in 0 .. frame.count - 1 : frame.data[j] = frame.data[0] + j
        /\ frame.data[0] + frame.count <= Oldest
    BY <1>1, <2>1 DEF IInv, FrameInv
  <2>3. frame.data[frame.count - 1] = frame.data[0] + (frame.count - 1)
    BY <1>2, <2>2
  <2> QED
    BY <1>2, <2>2, <2>3, OldestType
<1>4. TypeOK'
  <2>1. RingTypes'
    BY <1>1 DEF IInv, TypeOK, RingTypes
  <2>2. CounterTypes'
    <3>1. drained \in Nat /\ delivered \in Nat /\ reported \in Nat /\ hostNext \in Nat
      BY DEF IInv, TypeOK, CounterTypes
    <3>2. (drained + 1) % BatchBudget \in Nat
      BY <3>1, SizesAssumption
    <3>3. delivered' \in Nat /\ reported' \in Nat /\ hostNext' \in Nat /\ lastSeq' \in Nat
      BY <1>1, <1>2, <1>3, <3>1
    <3> QED
      BY <1>1, <3>2, <3>3 DEF IInv, TypeOK, CounterTypes
  <2>3. ControlTypes'
    BY DEF IInv, TypeOK, ControlTypes, FrameSent
  <2> QED
    BY <2>1, <2>2, <2>3 DEF TypeOK
<1>5. RingHoldsNewest' /\ WithinReceived' /\ Oldest' = Oldest
  BY <1>1, RingUntouched DEF IInv
<1>6. EveryByteAccounted'
  <2>1. Unreported' = Unreported /\ InFrame' = 0
    BY <1>1 DEF Unreported, InFrame
  <2>2. InFrame = IF frame.kind \in {"uart", "overflow"} THEN frame.count ELSE 0
    BY <1>1 DEF InFrame
  <2>3. /\ delivered \in Nat /\ reported \in Nat /\ discarded \in Nat
        /\ used \in Nat
    BY SizesAssumption DEF IInv, TypeOK, RingTypes, CounterTypes
  <2>4. Unreported \in Nat
    BY CountTypes DEF IInv
  <2>5. received = delivered + reported + discarded + used + Unreported + InFrame
    BY DEF IInv, EveryByteAccounted
  <2>6. PICK p, f : p = Unreported /\ f = InFrame
    OBVIOUS
  <2>7. /\ received = delivered + reported + discarded + used + p + f
        /\ p \in Nat /\ f \in Nat
        /\ f = IF frame.kind \in {"uart", "overflow"} THEN frame.count ELSE 0
    BY <1>2, <2>2, <2>4, <2>5, <2>6
  <2>8. received = delivered' + reported' + discarded + used + p
    <3>1. CASE frame.kind = "uart"
      <4>1. delivered' = delivered + f /\ reported' = reported
        BY <1>1, <2>7, <3>1
      <4> QED
        BY <2>3, <2>7, <4>1
    <3>2. CASE frame.kind = "overflow"
      <4>1. delivered' = delivered /\ reported' = reported + f
        BY <1>1, <2>7, <3>2
      <4> QED
        BY <2>3, <2>7, <4>1
    <3>3. CASE frame.kind = "status"
      <4>1. delivered' = delivered /\ reported' = reported /\ f = 0
        BY <1>1, <2>7, <3>3
      <4> QED
        BY <2>3, <2>7, <4>1
    <3> QED
      BY <1>2, <3>1, <3>2, <3>3
  <2>9. received = delivered' + reported' + discarded + used + Unreported + 0
    <3>1. PICK a, b : a = delivered' /\ b = reported'
      OBVIOUS
    <3>2. a \in Nat /\ b \in Nat
      BY <1>4, <3>1 DEF TypeOK, CounterTypes
    <3>3. received = a + b + discarded + used + p
      BY <2>8, <3>1
    <3>4. received = a + b + discarded + used + p + 0
      BY <2>3, <2>7, <3>2, <3>3
    <3> QED
      BY <2>6, <3>1, <3>4
  <2> QED
    BY <1>1, <2>1, <2>9 DEF EveryByteAccounted
<1>7. SequenceInv'
  <2>1. hostNext' <= Oldest'
    BY <1>1, <1>3, <1>5 DEF IInv, SequenceInv
  <2> QED
    BY <1>1, <1>2, <2>1 DEF IInv, SequenceInv
<1>8. FrameInv'
  BY <1>1 DEF FrameInv
<1> QED
  BY <1>4, <1>5, <1>6, <1>7, <1>8 DEF IInv

\* An interrupt: the ring drops what it must and counts what it drops.
LEMMA UartCallbackStep ==
  ASSUME IInv, UartCallback
  PROVE  IInv'
<1>1. PICK n \in 1 .. IsrBuffer : Push(n)
  BY DEF UartCallback
<1>2. n \in Nat \ {0}
  BY SizesAssumption
<1>3. /\ UNCHANGED <<schedule, sampled, nextDue, drained, now, opens, pc, frame>>
      /\ UNCHANGED <<delivered, reported, discarded, hostNext, lastSeq>>
  BY DEF UartCallback, usb
<1>4. /\ nextSeq' = nextSeq + (IF Opens(n) THEN 2 ELSE 1)
      /\ highWater' = IF used' > highWater THEN used' ELSE highWater
      /\ episode' = RecordDrop(Lost(n))
      /\ droppedTotal' = droppedTotal + Lost(n)
      /\ overflowEvents' = overflowEvents + (IF Opens(n) THEN 1 ELSE 0)
      /\ received' = received + n
  BY <1>1 DEF Push
<1>5. /\ bytes' \in [0 .. Capacity - 1 -> Nat]
      /\ readIndex' \in 0 .. Capacity - 1
      /\ used' \in 0 .. Capacity
      /\ used' = used - RingDrop(n) + Retained(n)
      /\ descriptors' \in Seq(Descriptor)
      /\ Len(descriptors') <= DescriptorCapacity
      /\ RingHoldsNewest' /\ WithinReceived' /\ Oldest <= Oldest' /\ Oldest' \in Nat
  BY <1>1, <1>2, PushKeepsRing DEF IInv
<1>6. PICK k \in 0 .. Len(descriptors) :
         /\ Len(descriptors') = Len(descriptors) - k + 1
         /\ \A i \in 1 .. Len(descriptors) - k :
              descriptors'[i].seq = descriptors[i + k].seq
         /\ descriptors'[Len(descriptors) - k + 1].seq = nextSeq'
  BY <1>1, <1>2, PushKeepsRing DEF IInv
<1>7. /\ nextSeq \in Nat /\ lastSeq \in Nat /\ now \in Nat /\ received \in Nat
      /\ hostNext \in Nat /\ droppedTotal \in Nat /\ overflowEvents \in Nat
      /\ used \in Nat /\ highWater \in 0 .. Capacity
      /\ episode \in Episode \cup {None}
      /\ descriptors \in Seq(Descriptor)
  BY SizesAssumption DEF IInv, TypeOK, RingTypes, CounterTypes
<1>8. /\ Retained(n) \in 1 .. n /\ RingDrop(n) \in 0 .. used
      /\ Lost(n) = (n - Retained(n)) + RingDrop(n)
      /\ Lost(n) \in Nat
  <2>1. Retained(n) \in 1 .. n /\ RingDrop(n) \in 0 .. used
    BY <1>2, DropBounds DEF IInv
  <2> QED
    BY <1>2, <1>7, <2>1 DEF Lost
<1>9. /\ episode' \in Episode \cup {None}
      /\ Unreported' = Unreported + Lost(n)
      /\ episode # None => episode' # None /\ episode'.seq = episode.seq
      /\ episode = None /\ episode' # None => Opens(n) /\ episode'.seq = nextSeq + 1
  <2>1. CASE Lost(n) = 0
    <3>1. episode' = episode
      BY <1>4, <2>1 DEF RecordDrop
    <3>2. Unreported \in Nat
      BY CountTypes DEF IInv
    <3> QED
      BY <1>7, <2>1, <3>1, <3>2 DEF Unreported
  <2>2. CASE Lost(n) > 0 /\ episode = None
    <3>1. episode' = [seq |-> nextSeq + 1, ts |-> now, dropped |-> Lost(n)]
      BY <1>4, <1>8, <2>2 DEF RecordDrop
    <3>2. episode' \in Episode /\ episode'.seq = nextSeq + 1 /\ episode'.dropped = Lost(n)
      BY <1>7, <1>8, <3>1 DEF Episode
    <3> QED
      BY <1>8, <2>2, <3>2 DEF Unreported, Opens
  <2>3. CASE Lost(n) > 0 /\ episode # None
    <3>1. episode' = [episode EXCEPT !.dropped = @ + Lost(n)]
      BY <1>4, <1>8, <2>3 DEF RecordDrop
    <3>2. episode \in Episode
      BY <1>7, <2>3
    <3>3. /\ episode' \in Episode /\ episode'.seq = episode.seq
          /\ episode'.dropped = episode.dropped + Lost(n)
      <4>1. episode = [seq |-> episode.seq, ts |-> episode.ts, dropped |-> episode.dropped]
            /\ episode.seq \in Nat /\ episode.ts \in Nat /\ episode.dropped \in Nat
        BY <3>2 DEF Episode
      <4>2. episode' = [seq |-> episode.seq, ts |-> episode.ts,
                        dropped |-> episode.dropped + Lost(n)]
        BY <3>1, <4>1
      <4>3. episode.dropped + Lost(n) \in Nat
        BY <1>8, <4>1
      <4> QED
        BY <4>1, <4>2, <4>3 DEF Episode
    <3> QED
      BY <2>3, <3>3 DEF Unreported
  <2> QED
    BY <1>8, <2>1, <2>2, <2>3
<1>10. TypeOK'
  <2>1. RingTypes'
    <3>0. PICK u : u = used'
      OBVIOUS
    <3>1. u \in 0 .. Capacity /\ highWater' = IF u > highWater THEN u ELSE highWater
      BY <1>4, <1>5, <3>0
    <3>3. highWater' \in 0 .. Capacity /\ used' <= highWater'
      BY <1>7, <3>0, <3>1, SizesAssumption
    <3>2. schedule' \in Status \cup {None}
      BY <1>3 DEF IInv, TypeOK, RingTypes
    <3> QED
      BY <1>5, <1>9, <3>2, <3>3 DEF RingTypes
  <2>2. CounterTypes'
    BY <1>2, <1>3, <1>4, <1>7, <1>8 DEF IInv, TypeOK, CounterTypes
  <2>3. ControlTypes'
    BY DEF IInv, TypeOK, ControlTypes, UartCallback, usb
  <2> QED
    BY <2>1, <2>2, <2>3 DEF TypeOK
<1>11. EveryByteAccounted'
  <2>1. InFrame' = InFrame /\ InFrame \in Nat /\ Unreported \in Nat
    BY <1>3, CountTypes DEF IInv, InFrame
  <2>2. delivered \in Nat /\ reported \in Nat /\ discarded \in Nat
    BY DEF IInv, TypeOK, CounterTypes
  <2>3. received = delivered + reported + discarded + used + Unreported + InFrame
    BY DEF IInv, EveryByteAccounted
  <2>4. PICK u, m, p : u = used' /\ m = Unreported' /\ p = Unreported
    OBVIOUS
  <2>5. u = used - RingDrop(n) + Retained(n) /\ m = p + (n - Retained(n)) + RingDrop(n)
    <3>1. u = used - RingDrop(n) + Retained(n)
      BY <1>5, <2>4
    <3>2. m = p + Lost(n) /\ p \in Nat
      BY <1>9, <2>1, <2>4
    <3>3. Lost(n) = (n - Retained(n)) + RingDrop(n)
      BY <1>8
    <3>4. n \in Nat /\ Retained(n) \in Nat /\ RingDrop(n) \in Nat
      BY <1>2, <1>7, <1>8
    <3> HIDE DEF Lost, Retained, RingDrop
    <3>5. m = p + ((n - Retained(n)) + RingDrop(n))
      BY <3>2, <3>3
    <3> QED
      BY <3>1, <3>2, <3>4, <3>5
  <2>6. received + n = delivered + reported + discarded + u + m + InFrame
    <3>1. PICK d, r, f : d = RingDrop(n) /\ r = Retained(n) /\ f = InFrame
      OBVIOUS
    <3>2. /\ received = delivered + reported + discarded + used + p + f
          /\ u = used - d + r /\ m = p + (n - r) + d
      BY <2>3, <2>4, <2>5, <3>1
    <3>3. n \in Nat /\ d \in Nat /\ r \in Nat /\ p \in Nat /\ f \in Nat
      BY <1>2, <1>7, <1>8, <2>1, <2>4, <3>1
    <3>4. received + n = delivered + reported + discarded + u + m + f
      BY <1>7, <2>2, <3>2, <3>3
    <3> QED
      BY <3>1, <3>4
  <2> QED
    BY <1>3, <1>4, <2>1, <2>4, <2>6 DEF EveryByteAccounted
<1> DEFINE N == Len(descriptors)
<1>12. N \in Nat /\ \A i \in 1 .. N : descriptors[i].seq \in Nat
  BY <1>7, DescriptorTypes
<1>13. SequenceInv
  BY DEF IInv
<1>14. nextSeq' \in Nat /\ nextSeq' > nextSeq
  BY <1>4, <1>7
<1>15. ASSUME NEW i \in 1 .. N - k + 1
       PROVE  \/ i = N - k + 1 /\ descriptors'[i].seq = nextSeq'
              \/ /\ i \in 1 .. N - k /\ i + k \in 1 .. N
                 /\ descriptors'[i].seq = descriptors[i + k].seq
  BY <1>6, <1>12
<1>16. SequenceInv'
  <2>1. lastSeq' <= nextSeq'
    BY <1>3, <1>7, <1>13, <1>14 DEF SequenceInv
  <2>2. episode' # None => lastSeq' < episode'.seq /\ episode'.seq <= nextSeq'
    <3>1. CASE episode # None
      <4>1. episode'.seq = episode.seq /\ episode.seq \in Nat
        BY <1>7, <1>9, <3>1 DEF Episode
      <4>2. lastSeq < episode.seq /\ episode.seq <= nextSeq
        BY <1>13, <3>1 DEF SequenceInv
      <4> QED
        BY <1>3, <1>7, <1>14, <4>1, <4>2
    <3>2. CASE episode = None /\ episode' # None
      <4>1. episode'.seq = nextSeq + 1 /\ Opens(n)
        BY <1>9, <3>2
      <4>2. lastSeq <= nextSeq
        BY <1>13 DEF SequenceInv
      <4> QED
        BY <1>3, <1>4, <1>7, <4>1, <4>2
    <3> QED
      BY <3>1, <3>2
  <2>3. schedule' # None => /\ lastSeq' < schedule'.seq
                            /\ schedule'.seq <= nextSeq
                            /\ schedule'.seq \in Nat
    BY <1>3, <1>13 DEF SequenceInv, IInv, TypeOK, RingTypes, Status
  <2>4. schedule' # None /\ episode' # None => schedule'.seq # episode'.seq
    <3>1. CASE episode # None
      BY <1>3, <1>9, <1>13, <3>1 DEF SequenceInv
    <3>2. CASE episode = None
      BY <1>7, <1>9, <2>3, <3>2
    <3> QED
      BY <3>1, <3>2
  <2>5. hostNext' <= Oldest'
    <3>1. hostNext <= Oldest /\ Oldest \in Nat
      BY <1>13, OldestType DEF SequenceInv
    <3> QED
      BY <1>3, <1>5, <1>7, <3>1
  <2>6. ASSUME NEW i \in 1 .. N - k + 1
        PROVE  /\ lastSeq' <= descriptors'[i].seq
               /\ descriptors'[i].seq <= nextSeq'
               /\ episode' # None => descriptors'[i].seq # episode'.seq
               /\ schedule' # None => descriptors'[i].seq # schedule'.seq
               /\ \A j \in 1 .. N - k + 1 :
                    i < j => descriptors'[i].seq < descriptors'[j].seq
    <3>1. CASE i = N - k + 1 /\ descriptors'[i].seq = nextSeq'
      <4>1. episode' # None => nextSeq' # episode'.seq
        <5>1. CASE episode # None
          BY <1>7, <1>9, <1>13, <1>14, <5>1 DEF SequenceInv, Episode
        <5>2. CASE episode = None
          BY <1>4, <1>7, <1>9, <5>2
        <5> QED
          BY <5>1, <5>2
      <4>2. schedule' # None => nextSeq' # schedule'.seq
        BY <1>7, <1>14, <2>3
      <4>3. \A j \in 1 .. N - k + 1 : ~(i < j)
        BY <1>12, <3>1
      <4> QED
        BY <1>14, <2>1, <3>1, <4>1, <4>2, <4>3
    <3>2. CASE /\ i \in 1 .. N - k /\ i + k \in 1 .. N
               /\ descriptors'[i].seq = descriptors[i + k].seq
      <4>1. /\ lastSeq <= descriptors[i + k].seq
            /\ descriptors[i + k].seq <= nextSeq
            /\ descriptors[i + k].seq \in Nat
            /\ episode # None => descriptors[i + k].seq # episode.seq
            /\ schedule # None => descriptors[i + k].seq # schedule.seq
        BY <1>12, <1>13, <3>2 DEF SequenceInv
      <4>2. episode' # None => descriptors'[i].seq # episode'.seq
        <5>1. CASE episode # None
          BY <1>9, <3>2, <4>1, <5>1
        <5>2. CASE episode = None
          BY <1>7, <1>9, <3>2, <4>1, <5>2
        <5> QED
          BY <5>1, <5>2
      <4>3. ASSUME NEW j \in 1 .. N - k + 1, i < j
            PROVE  descriptors'[i].seq < descriptors'[j].seq
        <5>1. CASE j = N - k + 1 /\ descriptors'[j].seq = nextSeq'
          BY <1>7, <1>14, <3>2, <4>1, <5>1
        <5>2. CASE /\ j \in 1 .. N - k /\ j + k \in 1 .. N
                   /\ descriptors'[j].seq = descriptors[j + k].seq
          <6>1. i + k < j + k
            BY <1>12, <4>3, <5>2
          <6> QED
            BY <1>13, <3>2, <5>2, <6>1 DEF SequenceInv
        <5> QED
          BY <1>15, <5>1, <5>2
      <4>4. lastSeq' <= descriptors'[i].seq
        BY <1>3, <3>2, <4>1
      <4>5. descriptors'[i].seq <= nextSeq'
        <5>1. PICK q : q = descriptors[i + k].seq
          OBVIOUS
        <5>2. q \in Nat /\ q <= nextSeq
          BY <4>1, <5>1
        <5>3. q <= nextSeq'
          BY <1>7, <1>14, <5>2
        <5> QED
          BY <3>2, <5>1, <5>3
      <4>6. schedule' # None => descriptors'[i].seq # schedule'.seq
        BY <1>3, <3>2, <4>1
      <4> QED
        BY <4>2, <4>3, <4>4, <4>5, <4>6
    <3> QED
      BY <1>15, <3>1, <3>2
  <2>7. Len(descriptors') = N - k + 1
    BY <1>6
  <2>8. schedule' # None => schedule'.seq <= nextSeq'
    BY <1>7, <1>14, <2>3
  <2> QED
    BY <2>1, <2>2, <2>3, <2>4, <2>5, <2>6, <2>7, <2>8 DEF SequenceInv
<1>17. FrameInv'
  <2>1. SUFFICES ASSUME pc = "write" PROVE FrameInv'
    BY <1>3 DEF FrameInv
  <2>2. FrameInv /\ frame.seq \in Nat /\ frame.seq <= nextSeq
    BY <2>1 DEF IInv, FrameInv
  <2>3. ASSUME NEW i \in 1 .. N - k + 1
        PROVE  frame.seq <= descriptors'[i].seq
    <3>1. CASE descriptors'[i].seq = nextSeq'
      BY <1>7, <1>14, <2>2, <3>1
    <3>2. CASE i + k \in 1 .. N /\ descriptors'[i].seq = descriptors[i + k].seq
      BY <2>1, <2>2, <3>2 DEF FrameInv
    <3> QED
      BY <1>15, <3>1, <3>2
  <2>4. episode' # None => frame.seq < episode'.seq
    BY <1>7, <1>9, <2>1, <2>2 DEF FrameInv
  <2>5. frame.kind = "uart" => frame.data[0] + frame.count <= Oldest'
    <3>1. PICK o : o = Oldest'
      OBVIOUS
    <3>2. o \in Nat /\ Oldest <= o
      BY <1>5, <3>1
    <3>3. frame.kind = "uart" => /\ frame.data[0] \in Nat
                                 /\ frame.data[0] + frame.count <= Oldest
      BY <2>1, <2>2 DEF FrameInv
    <3>4. frame.count \in Nat
      BY <2>1, <2>2 DEF FrameInv
    <3>5. Oldest \in Nat
      BY OldestType
    <3> QED
      BY <3>1, <3>2, <3>3, <3>4, <3>5
  <2>6. Len(descriptors') = N - k + 1
    BY <1>6
  <2>7. frame.seq <= nextSeq'
    BY <1>7, <1>14, <2>2
  <2> QED
    BY <1>3, <2>1, <2>2, <2>3, <2>4, <2>5, <2>6, <2>7 DEF FrameInv
<1> QED
  BY <1>5, <1>10, <1>11, <1>16, <1>17 DEF IInv

\* A chunk: the oldest bytes leave the ring in order, with their number.
LEMMA TakeChunkStep ==
  ASSUME IInv, TakeChunk
  PROVE  IInv'
<1> DEFINE N == Len(descriptors)
           oldest == descriptors[1]
           length == Lesser(Staging, oldest.to - oldest.from)
           first == Lesser(Capacity - readIndex, length)
           data == [j \in 0 .. length - 1 |->
                       IF j < first THEN bytes[readIndex + j] ELSE bytes[j - first]]
<1>1. /\ UNCHANGED <<bytes, highWater, episode, nextSeq, droppedTotal, overflowEvents>>
      /\ UNCHANGED <<received, delivered, reported, discarded, hostNext, lastSeq>>
      /\ UNCHANGED <<schedule, sampled, nextDue, drained, now, opens>>
      /\ pc = "drain" /\ pc' = "write"
      /\ descriptors # <<>>
      /\ episode # None => descriptors[1].seq < episode.seq
      /\ schedule # None => descriptors[1].seq < schedule.seq
      /\ frame' = Frame("uart", oldest.seq, oldest.ts, data, length, 0)
      /\ descriptors' = IF oldest.to - oldest.from = length THEN Tail(descriptors)
                        ELSE [descriptors EXCEPT ![1].from = @ + length]
      /\ readIndex' = Wrap(readIndex + length)
      /\ used' = used - length
  BY DEF TakeChunk, history, NextIsChunk, ChunkIsNext, BeforeStatus
<1>2. /\ bytes \in [0 .. Capacity - 1 -> Nat]
      /\ readIndex \in 0 .. Capacity - 1
      /\ used \in 0 .. Capacity
      /\ highWater \in 0 .. Capacity /\ used <= highWater
      /\ descriptors \in Seq(Descriptor)
      /\ N <= DescriptorCapacity
      /\ received \in Nat /\ nextSeq \in Nat /\ lastSeq \in Nat /\ hostNext \in Nat
  BY DEF IInv, TypeOK, RingTypes, CounterTypes
<1>3. /\ N \in Nat /\ 1 \in 1 .. N
      /\ \A i \in 1 .. N : /\ descriptors[i] \in Descriptor
                           /\ descriptors[i].seq \in Nat
                           /\ descriptors[i].from \in Nat
                           /\ descriptors[i].to \in Nat
  <2>1. N \in Nat /\ N # 0
    BY <1>1, <1>2, DescriptorTypes
  <2> QED
    BY <1>2, <2>1, DescriptorTypes
<1>4. /\ oldest \in Descriptor
      /\ oldest.seq \in Nat /\ oldest.from \in Nat /\ oldest.to \in Nat
      /\ oldest.from < oldest.to /\ oldest.to <= received
      /\ Oldest = oldest.from /\ used = received - oldest.from
  BY <1>1, <1>3 DEF IInv, RingHoldsNewest, WithinReceived, Oldest
<1>5. /\ length \in Nat /\ length > 0
      /\ length <= oldest.to - oldest.from
      /\ length <= used
  <2>1. length = IF Staging < oldest.to - oldest.from THEN Staging
                 ELSE oldest.to - oldest.from
    BY DEF Lesser
  <2>2. PICK l, f, t : l = length /\ f = oldest.from /\ t = oldest.to
    OBVIOUS
  <2> HIDE DEF oldest, length
  <2>3. /\ l = IF Staging < t - f THEN Staging ELSE t - f
        /\ f \in Nat /\ t \in Nat /\ f < t /\ t <= received /\ used = received - f
        /\ received \in Nat
    BY <1>2, <1>4, <2>1, <2>2
  <2>4. l \in Nat /\ l > 0 /\ l <= t - f /\ l <= used
    BY <2>3, SizesAssumption
  <2> QED
    BY <2>2, <2>4
<1>6. \A j \in 0 .. length - 1 : data[j] = Oldest + j
  <2>1. SUFFICES ASSUME NEW j \in 0 .. length - 1
                 PROVE  data[j] = Oldest + j
    OBVIOUS
  <2>2. data[j] = IF j < first THEN bytes[readIndex + j] ELSE bytes[j - first]
    OBVIOUS
  <2>3. first = IF Capacity - readIndex < length THEN Capacity - readIndex ELSE length
    BY DEF Lesser
  <2> HIDE DEF first, length, data
  <2>4. /\ j \in 0 .. used - 1 /\ readIndex + j \in Nat
        /\ readIndex + j < 2 * Capacity
    <3>1. /\ length \in Nat /\ length <= used /\ used \in Nat /\ used <= Capacity
          /\ readIndex \in Nat /\ readIndex < Capacity /\ Capacity \in Nat
          /\ j \in Nat /\ j < length
      BY <1>2, <1>5, <2>1, SizesAssumption
    <3> QED
      BY <3>1
  <2>5. bytes[Wrap(readIndex + j)] = Oldest + j
    BY <2>4 DEF IInv, RingHoldsNewest
  <2>6. Wrap(readIndex + j) = IF readIndex + j < Capacity THEN readIndex + j
                              ELSE readIndex + j - Capacity
    <3>1. /\ readIndex \in 0 .. Capacity - 1 /\ j \in Nat /\ j < Capacity
          /\ Capacity \in Nat \ {0}
      BY <1>2, <2>4, SizesAssumption
    <3> QED
      BY <3>1 DEF Wrap
  <2>7. CASE j < first
    <3>1. readIndex + j < Capacity
      BY <1>2, <1>5, <2>1, <2>3, <2>7, SizesAssumption
    <3> QED
      BY <2>2, <2>5, <2>6, <2>7, <3>1
  <2>8. CASE ~(j < first)
    <3>1. ~(readIndex + j < Capacity) /\ readIndex + j - Capacity = j - first
      BY <1>2, <1>5, <2>1, <2>3, <2>8, SizesAssumption
    <3> QED
      BY <2>2, <2>5, <2>6, <2>8, <3>1
  <2> QED
    BY <2>7, <2>8
<1>7. /\ frame'.kind = "uart" /\ frame'.seq = oldest.seq
      /\ frame'.count = length /\ frame'.data = data
  BY <1>1 DEF Frame
<1> HIDE DEF data, first, length
<1>8. PICK e \in 0 .. 1 :
        /\ e = 1 <=> oldest.to - oldest.from = length
        /\ descriptors' \in Seq(Descriptor)
        /\ Len(descriptors') = N - e
        /\ \A i \in 1 .. N - e :
             /\ descriptors'[i].seq = descriptors[i + e].seq
             /\ descriptors'[i].to = descriptors[i + e].to
             /\ descriptors'[i].from = IF i = 1 THEN oldest.from + length
                                       ELSE descriptors[i + e].from
  <2>1. CASE oldest.to - oldest.from = length
    <3>1. descriptors' = Tail(descriptors)
      BY <1>1, <2>1
    <3>2. /\ descriptors' \in Seq(Descriptor) /\ Len(descriptors') = N - 1
          /\ \A i \in 1 .. N - 1 : descriptors'[i] = descriptors[i + 1]
      BY <1>1, <1>2, <1>3, <3>1
    <3>3. \A i \in 1 .. N - 1 : i = 1 => descriptors[i + 1].from = oldest.from + length
      <4>1. 1 < N => oldest.to = descriptors[1 + 1].from
        BY <1>3 DEF IInv, RingHoldsNewest
      <4>2. oldest.to = oldest.from + length
        BY <1>4, <1>5, <2>1
      <4> QED
        BY <1>3, <4>1, <4>2
    <3> QED
      BY <2>1, <3>2, <3>3
  <2>2. CASE oldest.to - oldest.from # length
    <3>1. descriptors' = [descriptors EXCEPT ![1].from = @ + length]
      BY <1>1, <2>2
    <3>2. oldest.from + length \in Nat
      BY <1>4, <1>5
    <3>3. DEFINE short == [seq |-> oldest.seq, from |-> oldest.from + length,
                           to |-> oldest.to, ts |-> oldest.ts]
    <3>4. short \in Descriptor /\ short.seq = oldest.seq /\ short.to = oldest.to
          /\ short.from = oldest.from + length
      BY <1>4, <3>2 DEF Descriptor
    <3>5. [oldest EXCEPT !.from = @ + length] = short
      BY <1>4 DEF Descriptor
    <3> HIDE DEF short
    <3>6. descriptors' = [descriptors EXCEPT ![1] = short]
      BY <3>1, <3>5
    <3>7. /\ descriptors' \in Seq(Descriptor) /\ Len(descriptors') = N
          /\ \A i \in 1 .. N : descriptors'[i] = IF i = 1 THEN short ELSE descriptors[i]
      BY <1>2, <1>3, <3>4, <3>6
    <3>8. N - 0 = N /\ \A i \in 1 .. N : i + 0 = i
      BY <1>3
    <3>9. \A i \in 1 .. N - 0 :
             /\ descriptors'[i].seq = descriptors[i + 0].seq
             /\ descriptors'[i].to = descriptors[i + 0].to
             /\ descriptors'[i].from = IF i = 1 THEN oldest.from + length
                                       ELSE descriptors[i + 0].from
      BY <3>4, <3>7, <3>8
    <3> QED
      BY <2>2, <3>7, <3>8, <3>9
  <2> QED
    BY <2>1, <2>2
<1> HIDE DEF N
<1>9. \A i \in 1 .. N - e : i + e \in 1 .. N
  BY <1>3
<1>10. N - e = 0 => oldest.from + length = received
  <2>1. SUFFICES ASSUME N - e = 0 PROVE oldest.from + length = received
    OBVIOUS
  <2>2. N = 1 /\ e = 1
    BY <1>3, <2>1
  <2>3. oldest.to = received
    BY <1>3, <2>2 DEF IInv, RingHoldsNewest, N
  <2> QED
    BY <1>4, <1>5, <1>8, <2>2, <2>3
<1>11. Oldest' = Oldest + length
  <2>1. CASE N - e = 0
    <3>1. descriptors' = <<>>
      BY <1>8, <2>1
    <3> QED
      BY <1>1, <1>4, <1>10, <2>1, <3>1 DEF Oldest
  <2>2. CASE N - e > 0
    <3>1. descriptors' # <<>> /\ 1 \in 1 .. N - e
      BY <1>3, <1>8, <2>2
    <3>2. Oldest' = descriptors'[1].from
      BY <3>1 DEF Oldest
    <3> QED
      BY <1>4, <1>8, <3>1, <3>2
  <2> QED
    BY <1>3, <2>1, <2>2
<1>12. used' = received' - Oldest' /\ used' \in 0 .. Capacity /\ used' <= highWater'
  <2>1. /\ used' = used - length /\ received' = received /\ highWater' = highWater
        /\ Oldest' = Oldest + length
    BY <1>1, <1>11
  <2>2. used = received - Oldest /\ Oldest \in Nat
    BY <1>4
  <2> HIDE DEF oldest
  <2>3. used - length = received - (Oldest + length)
    BY <1>2, <1>5, <2>2
  <2>4. used - length \in 0 .. Capacity /\ used - length <= highWater
    BY <1>2, <1>5, SizesAssumption
  <2> QED
    BY <2>1, <2>3, <2>4
<1>13. readIndex' \in 0 .. Capacity - 1
  BY <1>1, <1>2, <1>5, WrapType
<1>14. ASSUME NEW i \in 1 .. N - e
       PROVE  /\ descriptors'[i].from < descriptors'[i].to
              /\ descriptors'[i].to = IF i = N - e THEN received
                                      ELSE descriptors'[i + 1].from
              /\ descriptors'[1].from <= descriptors'[i].from
              /\ descriptors'[i].to <= received
  <2>1. /\ descriptors'[i].to = descriptors[i + e].to
        /\ descriptors'[i].from = IF i = 1 THEN oldest.from + length
                                  ELSE descriptors[i + e].from
    BY <1>8
  <2>2. i + e \in 1 .. N /\ 1 \in 1 .. N - e
    BY <1>3, <1>9
  <2>3. /\ descriptors[i + e].from < descriptors[i + e].to
        /\ descriptors[i + e].to = IF i + e = N THEN received
                                   ELSE descriptors[(i + e) + 1].from
        /\ descriptors[i + e].to <= received
        /\ descriptors[1].from <= descriptors[i + e].from
    BY <2>2 DEF IInv, RingHoldsNewest, WithinReceived, N
  <2>4. descriptors[i + e].from \in Nat /\ descriptors[i + e].to \in Nat
    BY <1>3, <2>2
  <2>5. descriptors'[1].from = oldest.from + length
    BY <1>8, <2>2
  <2>6. descriptors'[i].from < descriptors'[i].to
    <3>1. CASE i = 1 /\ e = 0
      <4>1. i + e = 1
        BY <3>1
      <4> QED
        BY <1>4, <1>5, <1>8, <2>1, <3>1, <4>1
    <3>2. CASE i = 1 /\ e = 1
      <4>1. i + e = 2 /\ N # 1 /\ 1 + 1 = 2
        BY <1>3, <2>2, <3>2
      <4>2. oldest.to = descriptors[2].from
        BY <1>3, <4>1 DEF IInv, RingHoldsNewest, N
      <4>3. oldest.from + length = oldest.to
        BY <1>4, <1>5, <1>8, <3>2
      <4> QED
        BY <2>1, <2>3, <3>2, <4>1, <4>2, <4>3
    <3>3. CASE i # 1
      BY <2>1, <2>3, <3>3
    <3> QED
      BY <3>1, <3>2, <3>3
  <2>7. descriptors'[1].from <= descriptors'[i].from
    <3>1. CASE i = 1
      BY <1>4, <1>5, <2>1, <3>1
    <3>2. CASE i # 1
      <4>1. 1 < i + e
        BY <2>2, <3>2
      <4>2. oldest.to <= descriptors[i + e].from
        BY <1>3, <2>2, <4>1 DEF IInv, WithinReceived, N
      <4> QED
        BY <1>4, <1>5, <2>1, <2>4, <2>5, <3>2, <4>2
    <3> QED
      BY <3>1, <3>2
  <2>8. descriptors'[i].to = IF i = N - e THEN received ELSE descriptors'[i + 1].from
    <3>1. CASE i = N - e
      <4>1. i + e = N
        BY <1>3, <3>1
      <4> QED
        BY <2>1, <2>3, <3>1, <4>1
    <3>2. CASE i # N - e
      <4>1. i + 1 \in 1 .. N - e /\ i + 1 # 1 /\ i + e # N /\ (i + 1) + e = (i + e) + 1
        BY <1>3, <3>2
      <4>2. descriptors'[i + 1].from = descriptors[(i + e) + 1].from
        BY <1>8, <4>1
      <4> QED
        BY <2>1, <2>3, <3>2, <4>1, <4>2
    <3> QED
      BY <3>1, <3>2
  <2> QED
    BY <2>1, <2>3, <2>6, <2>7, <2>8
<1>15. ASSUME NEW j \in 0 .. used' - 1
       PROVE  bytes'[Wrap(readIndex' + j)] = Oldest' + j
  <2>1. j \in 0 .. used - length - 1
    BY <1>1
  <2>2. j \in Nat /\ length + j \in 0 .. used - 1 /\ length + j <= Capacity
    <3>1. used \in Nat /\ used <= Capacity /\ length \in Nat /\ j \in 0 .. used - length - 1
      BY <1>2, <1>5, <2>1, SizesAssumption
    <3> QED
      BY <3>1, SizesAssumption
  <2>3. Wrap(Wrap(readIndex + length) + j) = Wrap(readIndex + length + j)
    BY <1>2, <1>5, <2>2, WrapTwice
  <2>4. readIndex + length + j = readIndex + (length + j)
    BY <1>2, <1>5, <2>2
  <2>5. bytes[Wrap(readIndex + (length + j))] = Oldest + (length + j)
    BY <2>2 DEF IInv, RingHoldsNewest
  <2>6. Oldest \in Nat
    BY <1>4
  <2>7. Oldest + (length + j) = (Oldest + length) + j
    BY <1>5, <2>2, <2>6
  <2>8. bytes' = bytes /\ readIndex' = Wrap(readIndex + length)
    BY <1>1
  <2> QED
    BY <1>11, <2>3, <2>4, <2>5, <2>7, <2>8
<1>16. RingHoldsNewest'
  BY <1>1, <1>8, <1>12, <1>14, <1>15, SMTT(30) DEF RingHoldsNewest
<1>17. WithinReceived'
  <2>1. ASSUME NEW i \in 1 .. N - e, NEW j \in 1 .. N - e, i < j
        PROVE  descriptors'[i].to <= descriptors'[j].from
    <3>1. i + e \in 1 .. N /\ j + e \in 1 .. N /\ i + e < j + e /\ j # 1
      BY <1>3, <1>9, <2>1
    <3>2. descriptors[i + e].to <= descriptors[j + e].from
      BY <3>1 DEF IInv, WithinReceived, N
    <3> QED
      BY <1>8, <3>1, <3>2
  <2> QED
    BY <1>1, <1>8, <1>14, <2>1 DEF WithinReceived
<1>18. TypeOK'
  <2>1. RingTypes'
    <3>1. Len(descriptors') <= DescriptorCapacity
      BY <1>2, <1>3, <1>8, SizesAssumption DEF N
    <3>2. /\ bytes' \in [0 .. Capacity - 1 -> Nat] /\ highWater' \in 0 .. Capacity
          /\ episode' \in Episode \cup {None} /\ schedule' \in Status \cup {None}
      BY <1>1 DEF IInv, TypeOK, RingTypes
    <3> QED
      BY <1>8, <1>12, <1>13, <3>1, <3>2 DEF RingTypes
  <2>2. CounterTypes'
    BY <1>1 DEF IInv, TypeOK, CounterTypes
  <2>3. ControlTypes'
    BY DEF IInv, TypeOK, ControlTypes, TakeChunk
  <2> QED
    BY <2>1, <2>2, <2>3 DEF TypeOK
<1>19. EveryByteAccounted'
  <2>1. Unreported' = Unreported /\ InFrame' = length /\ InFrame = 0
    BY <1>1, <1>7 DEF Unreported, InFrame
  <2>2. /\ delivered \in Nat /\ reported \in Nat /\ discarded \in Nat
        /\ Unreported \in Nat
    BY CountTypes DEF IInv, TypeOK, CounterTypes
  <2>3. received = delivered + reported + discarded + used + Unreported + InFrame
    BY DEF IInv, EveryByteAccounted
  <2>4. PICK p : p = Unreported
    OBVIOUS
  <2>5. received = delivered + reported + discarded + (used - length) + p + length
    BY <1>2, <1>5, <2>1, <2>2, <2>3, <2>4
  <2> QED
    BY <1>1, <2>1, <2>4, <2>5 DEF EveryByteAccounted
<1>20. SequenceInv
  BY DEF IInv
<1>21. SequenceInv'
  <2>1. hostNext' <= Oldest'
    <3>1. hostNext <= Oldest /\ Oldest \in Nat
      BY <1>4, <1>20 DEF SequenceInv
    <3>2. hostNext <= Oldest + length
      BY <1>2, <1>5, <3>1
    <3> QED
      BY <1>1, <1>11, <3>2
  <2>2. ASSUME NEW i \in 1 .. N - e
        PROVE  /\ lastSeq <= descriptors'[i].seq
               /\ descriptors'[i].seq <= nextSeq
               /\ episode # None => descriptors'[i].seq # episode.seq
               /\ schedule # None => descriptors'[i].seq # schedule.seq
               /\ \A j \in 1 .. N - e :
                    i < j => descriptors'[i].seq < descriptors'[j].seq
    <3>1. i + e \in 1 .. N /\ descriptors'[i].seq = descriptors[i + e].seq
      BY <1>8, <1>9
    <3>2. /\ lastSeq <= descriptors[i + e].seq
          /\ descriptors[i + e].seq <= nextSeq
          /\ episode # None => descriptors[i + e].seq # episode.seq
          /\ schedule # None => descriptors[i + e].seq # schedule.seq
      BY <1>20, <3>1 DEF SequenceInv, N
    <3>3. ASSUME NEW j \in 1 .. N - e, i < j
          PROVE  descriptors'[i].seq < descriptors'[j].seq
      <4>1. j + e \in 1 .. N /\ descriptors'[j].seq = descriptors[j + e].seq
            /\ i + e < j + e
        BY <1>3, <1>8, <1>9, <3>3
      <4> QED
        BY <1>20, <3>1, <4>1 DEF SequenceInv, N
    <3> QED
      BY <3>1, <3>2, <3>3
  <2> QED
    BY <1>1, <1>8, <1>20, <2>1, <2>2 DEF SequenceInv
<1>22. FrameInv'
  <2>1. lastSeq <= oldest.seq /\ oldest.seq <= nextSeq
    BY <1>3, <1>20 DEF SequenceInv, N
  <2>2. ASSUME NEW i \in 1 .. N - e
        PROVE  oldest.seq <= descriptors'[i].seq
    <3>1. i + e \in 1 .. N /\ descriptors'[i].seq = descriptors[i + e].seq
      BY <1>8, <1>9
    <3>2. CASE i + e = 1
      BY <1>4, <3>1, <3>2
    <3>3. CASE 1 < i + e
      <4>1. oldest.seq < descriptors[i + e].seq
        BY <1>3, <1>20, <3>1, <3>3 DEF SequenceInv, N
      <4> QED
        BY <1>3, <1>4, <3>1, <4>1
    <3> QED
      BY <1>3, <3>1, <3>2, <3>3
  <2>3. 0 \in 0 .. length - 1
    BY <1>5
  <2>4. data[0] = Oldest + 0 /\ Oldest \in Nat
    BY <1>4, <1>6, <2>3
  <2>5. data[0] = Oldest
    BY <2>4
  <2>6. \A j \in 0 .. length - 1 : data[j] = data[0] + j
    BY <1>6, <2>5
  <2>7. hostNext <= data[0]
    BY <1>20, <2>5 DEF SequenceInv
  <2>8. data[0] + length <= Oldest'
    <3>1. Oldest + length \in Int
      BY <1>5, <2>4
    <3> QED
      BY <1>11, <2>5, <3>1
  <2>9. \A i \in 1 .. Len(descriptors') : frame'.seq <= descriptors'[i].seq
    BY <1>7, <1>8, <2>2
  <2>10. /\ episode' # None => frame'.seq < episode'.seq
         /\ schedule' # None => frame'.seq < schedule'.seq
    BY <1>1, <1>7
  <2> QED
    BY <1>1, <1>4, <1>5, <1>7, <2>1, <2>4, <2>5, <2>6, <2>7, <2>8, <2>9, <2>10 DEF FrameInv
<1> QED
  BY <1>16, <1>17, <1>18, <1>19, <1>21, <1>22 DEF IInv

-----------------------------------------------------------------------------
\* Every step of the helper and of the host preserves the invariant.
LEMMA NextInv == IInv /\ [Next]_vars => IInv'
<1>1. SUFFICES ASSUME IInv, [Next]_vars PROVE IInv'
  OBVIOUS
<1>2. CASE UNCHANGED vars
  <2>1. UNCHANGED <<bytes, readIndex, used, highWater, descriptors, episode, nextSeq,
                    droppedTotal, overflowEvents, rxActive, driverFaulted, pc, epoch,
                    schedule, sampled, nextDue, frame, drained, dtr, host, now,
                    received, delivered, reported, discarded, hostNext, lastSeq, opens>>
    BY <1>2 DEF vars, ring, usb, history
  <2>2. TypeOK'
    BY <1>1, <2>1 DEF IInv, TypeOK, RingTypes, CounterTypes, ControlTypes
  <2>3. RingHoldsNewest' /\ WithinReceived' /\ Oldest' = Oldest
    BY <1>1, <2>1, RingUntouched DEF IInv
  <2>4. EveryByteAccounted'
    BY <1>1, <2>1 DEF IInv, EveryByteAccounted, Unreported, InFrame
  <2>5. SequenceInv' /\ FrameInv'
    BY <1>1, <2>1, <2>3 DEF IInv, SequenceInv, FrameInv
  <2> QED
    BY <2>2, <2>3, <2>4, <2>5 DEF IInv
<1>3. CASE \/ MarkDriverFault \/ Tick \/ HostOpens \/ HostCloses \/ Halted
           \/ DtrAsserted \/ EpochStarts \/ EpochContinues \/ HelloDisconnected
           \/ StatusDue \/ StatusNotDue \/ DrainIdle
  BY <1>1, <1>3, QuietStep
<1>4. CASE DtrLow \/ RxFaulted \/ FrameDisconnected \/ FrameStalls \/ HelloSent
  BY <1>1, <1>4, EpochStep
<1>5. CASE StageStatus
  BY <1>1, <1>5, StageStatusStep
<1>6. CASE TakeChunk
  BY <1>1, <1>6, TakeChunkStep
<1>7. CASE ClaimOverflow
  BY <1>1, <1>7, ClaimOverflowStep
<1>8. CASE TakeStatus
  BY <1>1, <1>8, TakeStatusStep
<1>9. CASE FrameSent
  BY <1>1, <1>9, FrameSentStep
<1>10. CASE UartCallback
  BY <1>1, <1>10, UartCallbackStep
<1> QED
  BY <1>1, <1>2, <1>3, <1>4, <1>5, <1>6, <1>7, <1>8, <1>9, <1>10 DEF Next, UsbThread

(***************************************************************************)
(* The inductive invariant holds in every reachable state, whatever the    *)
(* sizes, the traffic and the failures.                                    *)
(***************************************************************************)
THEOREM Invariant == Spec => []IInv
<1>1. Init => IInv
  BY InitInv
<1>2. IInv /\ [Next]_vars => IInv'
  BY NextInv
<1> QED
  BY <1>1, <1>2, PTL DEF Spec

(***************************************************************************)
(* The ring's indices stay in the array, its fill and its high-water mark  *)
(* within its capacity, the descriptors within their table, and no frame   *)
(* outlives its write.                                                     *)
(***************************************************************************)
THEOREM TypeCorrect == Spec => []TypeOK
<1>1. IInv => TypeOK
  BY DEF IInv
<1> QED
  BY <1>1, Invariant, PTL

(***************************************************************************)
(* However callbacks, partial takes, drops and epochs interleave, the ring *)
(* holds the newest received bytes, in order and without a gap             *)
(* (dmh_uart_rx_ring_push and dmh_uart_rx_ring_take).                      *)
(***************************************************************************)
THEOREM RingKeepsNewest == Spec => []RingHoldsNewest
<1>1. IInv => RingHoldsNewest
  BY DEF IInv
<1> QED
  BY <1>1, Invariant, PTL

(***************************************************************************)
(* No received byte disappears without being counted, through overflows,   *)
(* disconnects, stalls and driver faults (record_drop, claim_overflow,     *)
(* discard_retained).                                                      *)
(***************************************************************************)
THEOREM NoByteUnaccounted == Spec => []EveryByteAccounted
<1>1. IInv => EveryByteAccounted
  BY DEF IInv
<1> QED
  BY <1>1, Invariant, PTL

(***************************************************************************)
(* Evidence leaves in the order it was observed and no byte leaves twice   *)
(* (dmh_uart_rx_take_before, drain_one_evidence).                          *)
(***************************************************************************)
THEOREM EvidenceInOrder == Spec => []OrderedEvidence
<1>1. IInv => OrderedEvidence
  <2>1. SUFFICES ASSUME IInv, pc = "write"
                 PROVE  /\ \/ frame.seq > lastSeq
                           \/ frame.seq = lastSeq /\ frame.kind = "uart"
                        /\ descriptors # <<>> => frame.seq <= descriptors[1].seq
                        /\ episode # None => frame.seq < episode.seq
                        /\ frame.kind = "uart" =>
                              /\ frame.data[0] >= hostNext
                              /\ \A j \in 0 .. frame.count - 1 :
                                    frame.data[j] = frame.data[0] + j
    BY DEF OrderedEvidence
  <2>2. lastSeq \in Nat /\ hostNext \in Nat /\ descriptors \in Seq(Descriptor)
    BY <2>1 DEF IInv, TypeOK, RingTypes, CounterTypes
  <2>3. descriptors # <<>> => 1 \in 1 .. Len(descriptors)
    BY <2>2
  <2> QED
    BY <2>1, <2>2, <2>3 DEF IInv, FrameInv
<1> QED
  BY <1>1, Invariant, PTL

-----------------------------------------------------------------------------
(***************************************************************************)
(* What the host reports as lost.                                          *)
(***************************************************************************)

(***************************************************************************)
(* Drops, and overflow episodes, that no longer wait to be reported: the   *)
(* host was told of them or they were discarded with an epoch.             *)
(***************************************************************************)
OverflowInFrame == pc = "write" /\ frame.kind = "overflow"

SettledDrops ==
    droppedTotal - Unreported - (IF OverflowInFrame THEN frame.count ELSE 0)

SettledEpisodes ==
    overflowEvents - (IF episode = None THEN 0 ELSE 1)
                   - (IF OverflowInFrame THEN 1 ELSE 0)

HostRecord ==
    [state : {"closed", "opening", "ready", "refused", "failed"},
     origin : Nat \cup {None}, start : Nat, explicit : Nat,
     baseline : [total : Nat, events : Nat] \cup {None},
     dropped : Nat, loss : BOOLEAN, recorded : Nat, rollovers : Nat]

(***************************************************************************)
(* A host that is ready has had the hello of the epoch that is running, so *)
(* everything that the epoch sends reaches this connection.                *)
(***************************************************************************)
ConnectionInv ==
    /\ host.state = "ready" => dtr
    /\ epoch # "active" => schedule = None /\ host.state # "ready"
    /\ pc = "hello" => schedule = None /\ host.state # "ready" /\ epoch = "active"
    /\ pc = "hello" => frame.kind = "hello"
    /\ host.state = "opening" => host.baseline = None
    /\ pc \in {"check", "stage", "drain", "write"} => epoch = "active"

(***************************************************************************)
(* A pending status counts nothing of an episode that opened after it, and *)
(* goes out only when everything that it counts is settled.                *)
(***************************************************************************)
StatusInv ==
    /\ pc = "write" => frame.ts \in Nat
    /\ episode # None => episode.dropped > 0
    /\ OverflowInFrame => frame.count > 0
    /\ schedule # None =>
         /\ schedule.total <= droppedTotal
         /\ schedule.events <= overflowEvents
         /\ episode # None /\ schedule.seq < episode.seq =>
               /\ schedule.total <= droppedTotal - episode.dropped
               /\ schedule.events <= overflowEvents - 1
    /\ pc = "write" /\ frame.kind = "status" =>
         /\ frame.count = schedule.total /\ frame.events = schedule.events
         /\ frame.count <= SettledDrops
         /\ frame.events <= SettledEpisodes

(***************************************************************************)
(* What is settled beyond a counter sample of this connection, the host    *)
(* was told in overflow records of this connection.                        *)
(***************************************************************************)
Covers(sample) ==
    /\ SettledDrops <= sample.total + host.explicit
    /\ host.explicit = 0 => SettledEpisodes <= sample.events

SampleInv ==
    host.state = "ready" /\ host.rollovers = 0 /\ pc # "halted" =>
        /\ schedule # None => Covers(schedule)
        /\ host.baseline # None => Covers(host.baseline)

(***************************************************************************)
(* The loss of a session, and of the connection it is made of.             *)
(***************************************************************************)
ReportInv ==
    /\ host.recorded <= host.start + host.explicit
    /\ host.start + host.explicit <= host.dropped
    /\ host.recorded > 0 => host.loss
    /\ host.rollovers = 0 =>
         /\ host.dropped = host.recorded
         /\ host.loss => host.recorded > 0

LossInv ==
    host \in HostRecord /\ ConnectionInv /\ StatusInv /\ SampleInv /\ ReportInv

\* The types that the arguments about losses use.
LEMMA LossTypes ==
  ASSUME IInv
  PROVE  /\ droppedTotal \in Nat /\ overflowEvents \in Nat /\ nextSeq \in Nat
         /\ Unreported \in Nat
         /\ episode # None => episode.seq \in Nat /\ episode.dropped \in Nat
                              /\ Unreported = episode.dropped
         /\ episode = None => Unreported = 0
         /\ schedule # None => schedule.seq \in Nat /\ schedule.total \in Nat
                               /\ schedule.events \in Nat
         /\ pc = "write" => frame.count \in Nat
BY DEF IInv, TypeOK, RingTypes, CounterTypes, Unreported, Episode, Status, FrameInv

\* A session that starts has lost nothing.
LEMMA RolledOverFields ==
  ASSUME NEW h \in HostRecord
  PROVE  /\ RolledOver(h) \in HostRecord
         /\ RolledOver(h).state = h.state
         /\ RolledOver(h).start = 0 /\ RolledOver(h).explicit = 0
         /\ RolledOver(h).dropped = 0 /\ RolledOver(h).recorded = 0
         /\ RolledOver(h).baseline = None /\ ~RolledOver(h).loss
         /\ RolledOver(h).rollovers = h.rollovers + 1
<1>1. h.rollovers + 1 \in Nat
  BY DEF HostRecord
<1>2. RolledOver(h) = [h EXCEPT !.dropped = 0, !.start = 0, !.explicit = 0,
                                !.baseline = None, !.loss = FALSE, !.recorded = 0,
                                !.rollovers = h.rollovers + 1]
  BY DEF HostRecord, RolledOver
<1> DEFINE g == [h EXCEPT !.dropped = 0, !.start = 0, !.explicit = 0,
                          !.baseline = None]
<1>3. RolledOver(h) = [g EXCEPT !.loss = FALSE, !.recorded = 0,
                                !.rollovers = h.rollovers + 1]
  BY <1>2, Zenon
<1>4. /\ g \in HostRecord /\ g.state = h.state
      /\ g.start = 0 /\ g.explicit = 0 /\ g.dropped = 0 /\ g.baseline = None
  BY DEF HostRecord
<1> HIDE DEF g
<1> QED
  BY <1>1, <1>3, <1>4 DEF HostRecord

(***************************************************************************)
(* RecordOverflow and RecordStatus, without and with a rollover.           *)
(***************************************************************************)
OverflowAdded(h, count) ==
    [h EXCEPT !.explicit = h.explicit + count, !.recorded = h.recorded + count,
              !.dropped = IF h.start + h.explicit + count > h.dropped
                          THEN h.start + h.explicit + count ELSE h.dropped,
              !.loss = TRUE]

OverflowStarts(h, count) ==
    [RolledOver(h) EXCEPT !.explicit = count, !.dropped = count,
                          !.recorded = count, !.loss = TRUE]

Base(h, total, events) ==
    IF h.baseline = None THEN [total |-> total, events |-> events] ELSE h.baseline

Delta(h, total, events) ==
    IF total > Base(h, total, events).total
    THEN total - Base(h, total, events).total ELSE 0

Larger(a, b) == IF a > b THEN a ELSE b

StatusLoss(h, total, events) ==
    \/ h.loss
    \/ Larger(Delta(h, total, events), h.explicit) > 0
    \/ events > Base(h, total, events).events

StatusAdded(h, total, events) ==
    [h EXCEPT !.baseline = Base(h, total, events),
              !.dropped = h.start + Larger(Delta(h, total, events), h.explicit),
              !.loss = StatusLoss(h, total, events)]

StatusStarts(h, total, events) ==
    [RolledOver(h) EXCEPT !.baseline = [total |-> total, events |-> events]]

\* What an overflow record adds to a session.
LEMMA OverflowFields ==
  ASSUME NEW h \in HostRecord, NEW count \in Nat,
         NEW r, r = OverflowAdded(h, count)
  PROVE  /\ r \in HostRecord
         /\ r.state = h.state /\ r.start = h.start /\ r.baseline = h.baseline
         /\ r.rollovers = h.rollovers
         /\ r.explicit = h.explicit + count /\ r.recorded = h.recorded + count
         /\ r.dropped = IF h.start + h.explicit + count > h.dropped
                        THEN h.start + h.explicit + count ELSE h.dropped
         /\ r.loss
<1>1. h.start + h.explicit + count \in Nat /\ h.explicit + count \in Nat
      /\ h.recorded + count \in Nat
  BY DEF HostRecord
<1> QED
  BY <1>1 DEF HostRecord, OverflowAdded

\* An overflow record that starts a session is all that the session lost.
LEMMA OverflowRollsFields ==
  ASSUME NEW h \in HostRecord, NEW count \in Nat
  PROVE  LET r == OverflowStarts(h, count) IN
         /\ r \in HostRecord /\ r.state = h.state
         /\ r.start = 0 /\ r.explicit = count
         /\ r.dropped = count /\ r.recorded = count /\ r.loss
         /\ r.rollovers = h.rollovers + 1
BY RolledOverFields DEF OverflowStarts, HostRecord

\* What a status adds to a session.
LEMMA StatusFields ==
  ASSUME NEW h \in HostRecord, NEW total \in Nat, NEW events \in Nat
  PROVE  LET r == StatusAdded(h, total, events) IN
         /\ r \in HostRecord
         /\ r.state = h.state /\ r.start = h.start /\ r.explicit = h.explicit
         /\ r.recorded = h.recorded /\ r.rollovers = h.rollovers
         /\ r.baseline = Base(h, total, events)
         /\ r.dropped = h.start + Larger(Delta(h, total, events), h.explicit)
         /\ r.loss <=> StatusLoss(h, total, events)
<1> DEFINE r == StatusAdded(h, total, events)
           base == Base(h, total, events)
           connection == Larger(Delta(h, total, events), h.explicit)
           loss == StatusLoss(h, total, events)
<1>1. base \in [total : Nat, events : Nat]
  BY DEF Base, HostRecord
<1>2. connection \in Nat /\ h.start + connection \in Nat
  <2>1. Delta(h, total, events) \in Nat
    BY <1>1 DEF Delta
  <2> QED
    BY <2>1 DEF Larger, HostRecord
<1>3. loss \in BOOLEAN
  BY DEF HostRecord, StatusLoss
<1>4. r = [h EXCEPT !.baseline = base, !.dropped = h.start + connection,
                    !.loss = loss]
  BY DEF StatusAdded
<1> HIDE DEF r, base, connection, loss
<1>5. /\ r \in HostRecord
      /\ r.state = h.state /\ r.start = h.start /\ r.explicit = h.explicit
      /\ r.recorded = h.recorded /\ r.rollovers = h.rollovers
      /\ r.baseline = base /\ r.dropped = h.start + connection
      /\ r.loss = loss
  BY <1>1, <1>2, <1>3, <1>4 DEF HostRecord
<1> QED
  BY <1>5 DEF r, base, connection, loss

\* A status that starts a session is its baseline.
LEMMA StatusRollsFields ==
  ASSUME NEW h \in HostRecord, NEW total \in Nat, NEW events \in Nat
  PROVE  /\ StatusStarts(h, total, events) \in HostRecord
         /\ StatusStarts(h, total, events).state = h.state
         /\ StatusStarts(h, total, events).start = 0
         /\ StatusStarts(h, total, events).explicit = 0
         /\ StatusStarts(h, total, events).dropped = 0
         /\ StatusStarts(h, total, events).recorded = 0
         /\ StatusStarts(h, total, events).rollovers = h.rollovers + 1
BY RolledOverFields DEF StatusStarts, HostRecord

-----------------------------------------------------------------------------
\* Nothing is lost before the first byte.
LEMMA InitLoss == Init => LossInv
<1>1. SUFFICES ASSUME Init PROVE LossInv
  OBVIOUS
<1>2. host \in HostRecord
  BY <1>1 DEF Init, HostInit, HostRecord
<1>3. ConnectionInv /\ StatusInv /\ SampleInv /\ ReportInv
  BY <1>1 DEF Init, HostInit, ConnectionInv, StatusInv, OverflowInFrame, SampleInv,
              ReportInv
<1> QED
  BY <1>2, <1>3 DEF LossInv

\* Steps that leave the counters, the pending status and the loss state of the
\* host alone, and neither write nor end a frame.
LEMMA LossQuiet ==
  ASSUME IInv, LossInv,
         UNCHANGED <<droppedTotal, overflowEvents, episode, schedule, host>>,
         \/ pc' # "write" /\ pc # "write"
         \/ pc' = pc /\ frame' = frame,
         pc = "halted" => pc' = "halted",
         ConnectionInv'
  PROVE  LossInv'
<1>1. SettledDrops' = SettledDrops /\ SettledEpisodes' = SettledEpisodes
      /\ (OverflowInFrame' <=> OverflowInFrame)
      /\ (OverflowInFrame' => frame' = frame)
      /\ (pc' = "write" => pc = "write" /\ frame' = frame)
  BY DEF SettledDrops, SettledEpisodes, OverflowInFrame, Unreported
<1>2. StatusInv'
  BY <1>1 DEF LossInv, StatusInv
<1>3. SampleInv'
  BY <1>1 DEF LossInv, SampleInv, Covers
<1>4. ReportInv' /\ host' \in HostRecord
  BY DEF LossInv, ReportInv
<1> QED
  BY <1>2, <1>3, <1>4 DEF LossInv

\* Steps of the clock and of the USB thread between frames.
LEMMA LossBetweenFrames ==
  ASSUME IInv, LossInv,
         \/ MarkDriverFault \/ Tick \/ Halted
         \/ DtrAsserted \/ EpochStarts \/ EpochContinues \/ HelloDisconnected
         \/ StatusDue \/ StatusNotDue \/ DrainIdle
         \/ DtrLow /\ epoch # "active"
  PROVE  LossInv'
<1> USE DEF MarkDriverFault, Tick, Halted, DtrAsserted, EpochStarts, EpochContinues,
        HelloDisconnected, StatusDue, StatusNotDue, DrainIdle, DtrLow, vars, ring,
        usb, history
<1>1. UNCHANGED <<droppedTotal, overflowEvents, episode, schedule, host>>
  OBVIOUS
<1>2. \/ pc' # "write" /\ pc # "write"
      \/ pc' = pc /\ frame' = frame
  OBVIOUS
<1>3. pc = "halted" => pc' = "halted"
  OBVIOUS
<1>4. ConnectionInv'
  BY DEF LossInv, ConnectionInv, Frame
<1> HIDE DEF MarkDriverFault, Tick, Halted, DtrAsserted, EpochStarts, EpochContinues,
        HelloDisconnected, StatusDue, StatusNotDue, DrainIdle, DtrLow, vars, ring,
        usb, history
<1> QED
  BY <1>1, <1>2, <1>3, <1>4, LossQuiet

\* The host opens or closes the port: it is not ready, and a session that
\* continues starts from the loss it had.
LEMMA LossHost ==
  ASSUME IInv, LossInv, HostOpens \/ HostCloses
  PROVE  LossInv'
<1>1. /\ UNCHANGED <<droppedTotal, overflowEvents, episode, schedule, pc, frame, epoch>>
  BY DEF HostOpens, HostCloses, ring, usb
<1>2. /\ host' \in HostRecord /\ host'.state # "ready" /\ ReportInv'
      /\ host'.state = "opening" => host'.baseline = None
  <2>1. CASE HostCloses
    <3>1. host' = [host EXCEPT !.state = IF host.state = "failed" THEN host.state
                                         ELSE "closed"]
      BY <2>1 DEF HostCloses, LossInv, HostRecord
    <3>2. /\ host' \in HostRecord /\ host'.state \in {"failed", "closed"}
          /\ host'.start = host.start /\ host'.explicit = host.explicit
          /\ host'.dropped = host.dropped /\ host'.recorded = host.recorded
          /\ host'.loss = host.loss /\ host'.rollovers = host.rollovers
      BY <3>1 DEF LossInv, HostRecord
    <3> QED
      BY <3>2 DEF LossInv, ReportInv
  <2>2. CASE HostOpens
    <3>1. PICK anew \in BOOLEAN :
             LET h == IF anew THEN RolledOver(host) ELSE host
             IN  /\ anew => host.rollovers < MaxRollovers
                 /\ host' = [h EXCEPT !.state = "opening", !.origin = None,
                                      !.start = h.dropped, !.explicit = 0,
                                      !.baseline = None]
      BY <2>2 DEF HostOpens
    <3> DEFINE h == IF anew THEN RolledOver(host) ELSE host
    <3>2. /\ h \in HostRecord
          /\ h.recorded <= h.dropped
          /\ h.recorded > 0 => h.loss
          /\ h.rollovers = 0 => /\ h.dropped = h.recorded
                                /\ h.loss => h.recorded > 0
      <4>1. CASE anew
        <5>1. h = RolledOver(host) /\ host \in HostRecord
          BY <4>1 DEF LossInv
        <5>2. host.rollovers \in Nat
          BY <5>1 DEF HostRecord
        <5> QED
          <6>1. /\ RolledOver(host) \in HostRecord
                /\ RolledOver(host).dropped = 0 /\ RolledOver(host).recorded = 0
                /\ RolledOver(host).rollovers = host.rollovers + 1
            BY <5>1, RolledOverFields
          <6> HIDE DEF h
          <6> QED
            BY <5>1, <5>2, <6>1
      <4>2. CASE ~anew
        BY <4>2 DEF LossInv, ReportInv, HostRecord
      <4> QED
        BY <4>1, <4>2
    <3>3. host' = [h EXCEPT !.state = "opening", !.origin = None,
                            !.start = h.dropped, !.explicit = 0, !.baseline = None]
      BY <3>1
    <3> HIDE DEF h
    <3>4. /\ host' \in HostRecord /\ host'.state = "opening" /\ host'.baseline = None
          /\ host'.start = h.dropped /\ host'.explicit = 0
          /\ host'.dropped = h.dropped /\ host'.recorded = h.recorded
          /\ host'.loss = h.loss /\ host'.rollovers = h.rollovers
      BY <3>2, <3>3 DEF HostRecord
    <3>5. h.dropped \in Nat /\ h.recorded \in Nat
      BY <3>2 DEF HostRecord
    <3> QED
      BY <3>2, <3>4, <3>5 DEF ReportInv
  <2> QED
    BY <2>1, <2>2
<1>3. ConnectionInv'
  BY <1>1, <1>2 DEF LossInv, ConnectionInv
<1>4. StatusInv'
  BY <1>1 DEF LossInv, StatusInv, SettledDrops, SettledEpisodes, OverflowInFrame,
              Unreported
<1>5. SampleInv'
  BY <1>2 DEF SampleInv
<1> QED
  BY <1>2, <1>3, <1>4, <1>5 DEF LossInv

\* The end of an epoch: the host has closed the port, or nothing follows.
LEMMA LossEpochEnds ==
  ASSUME IInv, LossInv, EndActiveEpoch, UNCHANGED <<host, dtr>>,
         pc' \in {"loop", "halted"}, pc' = "loop" => ~dtr /\ epoch' = "down",
         pc' = "halted" => epoch' = epoch
  PROVE  LossInv'
<1>1. schedule' = None /\ episode' = None
  BY DEF EndActiveEpoch, DiscardRetained
<1>2. ConnectionInv'
  BY <1>1 DEF LossInv, ConnectionInv
<1>3. StatusInv'
  BY <1>1 DEF StatusInv, OverflowInFrame
<1>4. SampleInv'
  BY DEF LossInv, ConnectionInv, SampleInv
<1>5. host' \in HostRecord /\ ReportInv'
  BY DEF LossInv, ReportInv
<1> QED
  BY <1>2, <1>3, <1>4, <1>5 DEF LossInv

\* The hello of an epoch: the host has no sample of this connection yet.
LEMMA LossHello ==
  ASSUME IInv, LossInv, HelloSent
  PROVE  LossInv'
<1>1. /\ schedule = None /\ host.state # "ready" /\ epoch = "active"
      /\ frame.kind = "hello" /\ dtr
  BY DEF HelloSent, LossInv, ConnectionInv
<1>2. /\ schedule' = None /\ episode' = None /\ epoch' = "active" /\ dtr'
      /\ pc' \in {"check", "halted"}
  BY <1>1 DEF HelloSent, DiscardRetained
<1>3. host' = Dispatch(host, frame, FALSE)
  BY DEF HelloSent
<1>4. host' = IF host.state = "opening" THEN [host EXCEPT !.state = "ready"] ELSE host
  BY <1>1, <1>3 DEF Dispatch
<1>5. /\ host' \in HostRecord
      /\ host'.start = host.start /\ host'.explicit = host.explicit
      /\ host'.dropped = host.dropped /\ host'.recorded = host.recorded
      /\ host'.loss = host.loss /\ host'.rollovers = host.rollovers
      /\ host'.baseline = host.baseline
      /\ host'.state = "ready" => host.state = "opening"
      /\ host'.state = "opening" => host'.baseline = None
  <2>1. host \in HostRecord
    BY DEF LossInv
  <2>2. CASE host.state = "opening"
    <3>1. host' = [host EXCEPT !.state = "ready"]
      BY <1>4, <2>2
    <3> QED
      BY <2>1, <2>2, <3>1 DEF HostRecord
  <2>3. CASE host.state # "opening"
    BY <1>1, <1>4, <2>1, <2>3
  <2> QED
    BY <2>2, <2>3
<1>6. ConnectionInv'
  BY <1>2, <1>5 DEF ConnectionInv
<1>7. StatusInv'
  BY <1>2 DEF StatusInv, OverflowInFrame
<1>8. SampleInv'
  BY <1>2, <1>5 DEF LossInv, ConnectionInv, SampleInv
<1>9. ReportInv'
  BY <1>5 DEF LossInv, ReportInv
<1> QED
  BY <1>5, <1>6, <1>7, <1>8, <1>9 DEF LossInv

\* A step that settles nothing and leaves the host and the status alone.
LEMMA LossUnsettled ==
  ASSUME LossInv, UNCHANGED <<host, schedule>>, pc = "halted" => pc' = "halted",
         SettledDrops' = SettledDrops, SettledEpisodes' = SettledEpisodes,
         ConnectionInv', StatusInv'
  PROVE  LossInv'
<1>1. SampleInv'
  BY DEF LossInv, SampleInv, Covers
<1>2. ReportInv' /\ host' \in HostRecord
  BY DEF LossInv, ReportInv
<1> QED
  BY <1>1, <1>2 DEF LossInv

\* A status samples the counters: nothing beyond them is settled.
LEMMA LossStageStatus ==
  ASSUME IInv, LossInv, StageStatus
  PROVE  LossInv'
<1>1. /\ UNCHANGED <<droppedTotal, overflowEvents, episode, host, dtr, epoch, frame>>
      /\ pc = "stage" /\ pc' = "drain"
      /\ schedule' = [seq |-> nextSeq + 1, ts |-> sampled, used |-> used,
                      high |-> highWater, total |-> droppedTotal,
                      events |-> overflowEvents]
  BY DEF StageStatus
<1>2. /\ schedule'.seq = nextSeq + 1 /\ schedule'.total = droppedTotal
      /\ schedule'.events = overflowEvents
  BY <1>1
<1>3. episode # None => episode.seq <= nextSeq
  BY DEF IInv, SequenceInv
<1>4. ConnectionInv'
  BY <1>1 DEF LossInv, ConnectionInv
<1>5. StatusInv'
  BY <1>1, <1>2, <1>3, LossTypes DEF LossInv, StatusInv, OverflowInFrame
<1>6. ~OverflowInFrame /\ ~OverflowInFrame'
  BY <1>1 DEF OverflowInFrame
<1>7. /\ SettledDrops' = SettledDrops /\ SettledEpisodes' = SettledEpisodes
      /\ SettledDrops <= droppedTotal /\ SettledEpisodes <= overflowEvents
      /\ SettledDrops \in Int
  BY <1>1, <1>6, LossTypes DEF SettledDrops, SettledEpisodes, Unreported
<1>8. SampleInv'
  <2>1. host.explicit \in Nat
    BY DEF LossInv, HostRecord
  <2>2. Covers(schedule)'
    BY <1>1, <1>2, <1>7, <2>1, LossTypes DEF Covers
  <2>3. host.state = "ready" /\ host.rollovers = 0 /\ host.baseline # None
           => Covers(host.baseline)
    BY <1>1 DEF LossInv, SampleInv
  <2>4. Covers(host.baseline) => Covers(host.baseline)'
    BY <1>1, <1>7 DEF Covers
  <2> QED
    BY <1>1, <2>2, <2>3, <2>4 DEF SampleInv
<1>9. ReportInv' /\ host' \in HostRecord
  BY <1>1 DEF LossInv, ReportInv
<1> QED
  BY <1>4, <1>5, <1>8, <1>9 DEF LossInv

\* A chunk is taken from the ring.
LEMMA LossTakeChunk ==
  ASSUME IInv, LossInv, TakeChunk
  PROVE  LossInv'
<1>1. /\ UNCHANGED <<droppedTotal, overflowEvents, episode, host, dtr, epoch, schedule>>
      /\ pc = "drain" /\ pc' = "write" /\ frame'.kind = "uart"
      /\ frame'.ts = descriptors[1].ts /\ descriptors # <<>>
  BY DEF TakeChunk, Frame, NextIsChunk, ChunkIsNext
<1>2. ~OverflowInFrame /\ ~OverflowInFrame'
  BY <1>1 DEF OverflowInFrame
<1>3. SettledDrops' = SettledDrops /\ SettledEpisodes' = SettledEpisodes
  BY <1>1, <1>2 DEF SettledDrops, SettledEpisodes, Unreported
<1>4. ConnectionInv'
  BY <1>1 DEF LossInv, ConnectionInv
<1>5. StatusInv'
  <2>1. descriptors[1].ts \in Nat
    BY <1>1, DescriptorTypes DEF IInv, TypeOK, RingTypes, CounterTypes
  <2> QED
    BY <1>1, <1>2, <2>1 DEF LossInv, StatusInv
<1> QED
  BY <1>1, <1>3, <1>4, <1>5, LossUnsettled

\* An overflow record is claimed: what it counts is in the frame now.
LEMMA LossClaimOverflow ==
  ASSUME IInv, LossInv, ClaimOverflow
  PROVE  LossInv'
<1>1. /\ UNCHANGED <<droppedTotal, overflowEvents, host, dtr, epoch, schedule>>
      /\ pc = "drain" /\ pc' = "write" /\ frame'.kind = "overflow"
      /\ episode # None /\ episode' = None /\ frame'.count = episode.dropped
      /\ frame'.ts = episode.ts
  BY DEF ClaimOverflow, Frame, NextIsOverflow, OverflowIsNext
<1>2. ~OverflowInFrame /\ OverflowInFrame'
  BY <1>1 DEF OverflowInFrame
<1>3. SettledDrops' = SettledDrops /\ SettledEpisodes' = SettledEpisodes
  BY <1>1, <1>2, LossTypes DEF SettledDrops, SettledEpisodes, Unreported
<1>4. ConnectionInv'
  BY <1>1 DEF LossInv, ConnectionInv
<1>5. StatusInv'
  <2>1. episode.ts \in Nat
    BY <1>1 DEF IInv, TypeOK, RingTypes, Episode
  <2> QED
    BY <1>1, <1>2, <2>1 DEF LossInv, StatusInv
<1> QED
  BY <1>1, <1>3, <1>4, <1>5, LossUnsettled

\* A status is taken: no overflow that it counts is still waiting.
LEMMA LossTakeStatus ==
  ASSUME IInv, LossInv, TakeStatus
  PROVE  LossInv'
<1>1. /\ UNCHANGED <<droppedTotal, overflowEvents, episode, host, dtr, epoch, schedule>>
      /\ pc = "drain" /\ pc' = "write" /\ frame'.kind = "status"
      /\ schedule # None
      /\ frame'.count = schedule.total /\ frame'.events = schedule.events
      /\ frame'.ts = schedule.ts
  BY DEF TakeStatus, Frame, ring
<1>2. ~OverflowInFrame /\ ~OverflowInFrame'
  BY <1>1 DEF OverflowInFrame
<1>3. /\ SettledDrops' = SettledDrops /\ SettledEpisodes' = SettledEpisodes
      /\ SettledDrops = droppedTotal - Unreported
      /\ SettledEpisodes = overflowEvents - (IF episode = None THEN 0 ELSE 1)
  BY <1>1, <1>2, LossTypes DEF SettledDrops, SettledEpisodes, Unreported
<1>4. episode # None => schedule.seq < episode.seq
  <2>1. SUFFICES ASSUME episode # None PROVE schedule.seq < episode.seq
    OBVIOUS
  <2>2. schedule.seq # episode.seq
    BY <1>1, <2>1 DEF IInv, SequenceInv
  <2>3. schedule.seq \in Nat /\ episode.seq \in Nat
    BY <1>1, <2>1, LossTypes
  <2>4. CASE ChunkIsNext
    <3>1. descriptors # <<>> /\ descriptors[1].seq < episode.seq
      BY <2>1, <2>4 DEF ChunkIsNext
    <3>2. descriptors[1].seq \in Nat
      BY <3>1, DescriptorTypes DEF IInv, TypeOK, RingTypes, CounterTypes
    <3>3. ~(descriptors[1].seq < schedule.seq)
      BY <1>1, <2>4 DEF TakeStatus, NextIsChunk, BeforeStatus
    <3> QED
      BY <2>3, <3>1, <3>2, <3>3
  <2>5. CASE ~ChunkIsNext
    <3>1. ~(episode.seq < schedule.seq)
      BY <1>1, <2>1, <2>5 DEF TakeStatus, NextIsOverflow, OverflowIsNext, BeforeStatus
    <3> QED
      BY <2>2, <2>3, <3>1
  <2> QED
    BY <2>4, <2>5
<1>5. schedule.total <= SettledDrops /\ schedule.events <= SettledEpisodes
  BY <1>1, <1>3, <1>4, LossTypes DEF LossInv, StatusInv
<1>6. ConnectionInv'
  BY <1>1 DEF LossInv, ConnectionInv
<1>7. StatusInv'
  <2>1. schedule.ts \in Nat
    BY <1>1 DEF IInv, TypeOK, RingTypes, Status
  <2> QED
    BY <1>1, <1>2, <1>3, <1>5, <2>1 DEF LossInv, StatusInv
<1> QED
  BY <1>1, <1>3, <1>6, <1>7, LossUnsettled

\* An interrupt: a drop is counted and waits, so it settles nothing, and an
\* episode that opens is later than the pending status.
LEMMA LossUartCallback ==
  ASSUME IInv, LossInv, UartCallback
  PROVE  LossInv'
<1>1. PICK n \in 1 .. IsrBuffer : Push(n)
  BY DEF UartCallback
<1>2. n \in Nat \ {0}
  BY SizesAssumption
<1>3. UNCHANGED <<schedule, pc, frame, epoch, host, dtr>>
  BY DEF UartCallback, usb
<1>4. /\ episode' = RecordDrop(Lost(n))
      /\ droppedTotal' = droppedTotal + Lost(n)
      /\ overflowEvents' = overflowEvents + (IF Opens(n) THEN 1 ELSE 0)
  BY <1>1 DEF Push
<1>5. Lost(n) \in Nat
  <2>1. Retained(n) \in 1 .. n /\ RingDrop(n) \in 0 .. used
    BY <1>2, DropBounds DEF IInv
  <2>2. used \in Nat
    BY SizesAssumption DEF IInv, TypeOK, RingTypes, CounterTypes
  <2> QED
    BY <1>2, <2>1, <2>2 DEF Lost
<1>6. \/ /\ episode' = episode /\ droppedTotal' = droppedTotal
         /\ overflowEvents' = overflowEvents
      \/ /\ episode = None /\ episode' # None
         /\ episode'.seq = nextSeq + 1 /\ episode'.dropped = Lost(n) /\ Lost(n) > 0
         /\ overflowEvents' = overflowEvents + 1
      \/ /\ episode # None /\ episode' # None
         /\ episode'.seq = episode.seq /\ episode'.dropped = episode.dropped + Lost(n)
         /\ overflowEvents' = overflowEvents
  <2>1. CASE Lost(n) = 0
    BY <1>4, <2>1, LossTypes DEF RecordDrop, Opens
  <2>2. CASE Lost(n) > 0 /\ episode = None
    <3>1. episode' = [seq |-> nextSeq + 1, ts |-> now, dropped |-> Lost(n)]
      BY <1>4, <1>5, <2>2 DEF RecordDrop
    <3>2. episode' \in Episode
      BY <1>5, <3>1, LossTypes DEF Episode, IInv, TypeOK, CounterTypes
    <3> QED
      BY <1>4, <2>2, <3>1, <3>2 DEF Opens
  <2>3. CASE Lost(n) > 0 /\ episode # None
    <3>1. episode' = [episode EXCEPT !.dropped = @ + Lost(n)]
      BY <1>4, <1>5, <2>3 DEF RecordDrop
    <3>2. episode \in Episode
      BY <2>3 DEF IInv, TypeOK, RingTypes
    <3>3. /\ episode' \in Episode /\ episode'.seq = episode.seq
          /\ episode'.dropped = episode.dropped + Lost(n)
      BY <1>5, <3>1, <3>2 DEF Episode
    <3> QED
      BY <1>4, <2>3, <3>3, LossTypes DEF Opens
  <2> QED
    BY <1>5, <2>1, <2>2, <2>3
<1>7. schedule # None => schedule.seq <= nextSeq
  BY DEF IInv, SequenceInv
<1>8. OverflowInFrame' <=> OverflowInFrame
  BY <1>3 DEF OverflowInFrame
<1>9. OverflowInFrame => frame.count \in Nat
  BY LossTypes DEF OverflowInFrame
<1>10. SettledDrops' = SettledDrops /\ SettledEpisodes' = SettledEpisodes
  BY <1>3, <1>4, <1>5, <1>6, <1>8, <1>9, LossTypes
     DEF SettledDrops, SettledEpisodes, Unreported
<1>11. ConnectionInv'
  BY <1>3 DEF LossInv, ConnectionInv
<1>12. StatusInv'
  <2>1. /\ episode' # None => episode'.dropped > 0
        /\ OverflowInFrame' => frame'.count > 0
        /\ pc' = "write" => frame'.ts \in Nat
    BY <1>3, <1>5, <1>6, <1>8, LossTypes DEF LossInv, StatusInv
  <2>2. schedule' # None =>
           /\ schedule'.total <= droppedTotal'
           /\ schedule'.events <= overflowEvents'
           /\ episode' # None /\ schedule'.seq < episode'.seq =>
                 /\ schedule'.total <= droppedTotal' - episode'.dropped
                 /\ schedule'.events <= overflowEvents' - 1
    BY <1>3, <1>4, <1>5, <1>6, <1>7, LossTypes DEF LossInv, StatusInv
  <2>3. pc' = "write" /\ frame'.kind = "status" =>
           /\ frame'.count = schedule'.total /\ frame'.events = schedule'.events
           /\ frame'.count <= SettledDrops'
           /\ frame'.events <= SettledEpisodes'
    BY <1>3, <1>10 DEF LossInv, StatusInv
  <2> QED
    BY <2>1, <2>2, <2>3 DEF StatusInv
<1> QED
  BY <1>3, <1>10, <1>11, <1>12, LossUnsettled

\* A frame arrives.  A status finds everything it counts settled, so it adds
\* nothing to what the overflow records of the connection told.
LEMMA LossFrameSent ==
  ASSUME IInv, LossInv, FrameSent
  PROVE  LossInv'
<1>1. PICK rolls \in BOOLEAN : host' = Dispatch(host, frame, rolls)
  BY DEF FrameSent
<1>2. /\ UNCHANGED <<droppedTotal, overflowEvents, episode, epoch, dtr>>
      /\ pc = "write" /\ pc' \in {"loop", "drain"} /\ dtr
      /\ schedule' = IF frame.kind = "status" THEN None ELSE schedule
  BY DEF FrameSent, ring, StatusSent
<1>3. /\ frame.kind \in {"uart", "overflow", "status"} /\ frame.count \in Nat
      /\ frame.kind = "status" => schedule # None
  BY <1>2 DEF IInv, FrameInv
<1>4. /\ frame.kind = "status" =>
           /\ frame.count = schedule.total /\ frame.events = schedule.events
           /\ frame.events \in Nat
           /\ frame.count <= SettledDrops /\ frame.events <= SettledEpisodes
      /\ frame.kind = "overflow" => frame.count > 0
  BY <1>2, <1>3, LossTypes DEF LossInv, StatusInv, OverflowInFrame
<1>5. host \in HostRecord
  BY DEF LossInv
<1>6. /\ SettledDrops \in Int /\ SettledEpisodes \in Int
      /\ SettledDrops' = SettledDrops + (IF frame.kind = "overflow" THEN frame.count ELSE 0)
      /\ frame.kind # "overflow" => SettledEpisodes' = SettledEpisodes
  BY <1>2, <1>3, LossTypes DEF SettledDrops, SettledEpisodes, OverflowInFrame, Unreported
<1>7. StatusInv'
  BY <1>2 DEF LossInv, StatusInv, OverflowInFrame
<1>8. epoch = "active"
  BY <1>2 DEF LossInv, ConnectionInv
<1>9. SUFFICES /\ host' \in HostRecord /\ host'.state # "opening"
               /\ SampleInv' /\ ReportInv'
  BY <1>2, <1>7, <1>8 DEF LossInv, ConnectionInv
<1>10. CASE host' = host /\ host.state # "ready" /\ host.state # "opening"
  <2>1. SampleInv'
    BY <1>10 DEF SampleInv
  <2>2. ReportInv'
    BY <1>10 DEF LossInv, ReportInv
  <2> QED
    BY <1>5, <1>10, <2>1, <2>2
<1>11. CASE \E state \in {"refused", "failed"} : host' = [host EXCEPT !.state = state]
  <2>1. PICK state \in {"refused", "failed"} : host' = [host EXCEPT !.state = state]
    BY <1>11
  <2>2. /\ host' \in HostRecord /\ host'.state = state
        /\ host'.start = host.start /\ host'.explicit = host.explicit
        /\ host'.dropped = host.dropped /\ host'.recorded = host.recorded
        /\ host'.loss = host.loss /\ host'.rollovers = host.rollovers
    BY <1>5, <2>1 DEF HostRecord
  <2>3. SampleInv'
    BY <2>1, <2>2 DEF SampleInv
  <2>4. ReportInv'
    BY <2>2 DEF LossInv, ReportInv
  <2> QED
    BY <2>1, <2>2, <2>3, <2>4
<1>12. CASE /\ host.state = "ready"
            /\ \E origin \in Nat \cup {None} :
                  host' = RecordEvent([host EXCEPT !.origin = origin], frame, rolls)
  <2>1. PICK origin \in Nat \cup {None} :
                  host' = RecordEvent([host EXCEPT !.origin = origin], frame, rolls)
    BY <1>12
  <2> DEFINE h == [host EXCEPT !.origin = origin]
  <2>2. /\ h \in HostRecord /\ h.state = "ready"
        /\ h.start = host.start /\ h.explicit = host.explicit
        /\ h.dropped = host.dropped /\ h.recorded = host.recorded
        /\ h.loss = host.loss /\ h.rollovers = host.rollovers
        /\ h.baseline = host.baseline
    BY <1>5, <1>12 DEF HostRecord
  <2>3. host' = RecordEvent(h, frame, rolls)
    BY <2>1
  <2> HIDE DEF h
  <2>4. /\ h.start \in Nat /\ h.explicit \in Nat /\ h.dropped \in Nat
        /\ h.recorded \in Nat /\ h.rollovers \in Nat /\ h.loss \in BOOLEAN
        /\ h.baseline # None => h.baseline.total \in Nat /\ h.baseline.events \in Nat
    BY <2>2 DEF HostRecord
  <2>5. /\ h.recorded <= h.start + h.explicit /\ h.start + h.explicit <= h.dropped
        /\ h.recorded > 0 => h.loss
        /\ h.rollovers = 0 => h.dropped = h.recorded /\ (h.loss => h.recorded > 0)
    BY <2>2 DEF LossInv, ReportInv
  <2>6. h.rollovers = 0 =>
          /\ schedule # None => /\ SettledDrops <= schedule.total + h.explicit
                                /\ h.explicit = 0 => SettledEpisodes <= schedule.events
          /\ h.baseline # None =>
               /\ SettledDrops <= h.baseline.total + h.explicit
               /\ h.explicit = 0 => SettledEpisodes <= h.baseline.events
    BY <1>2, <1>12, <2>2 DEF LossInv, SampleInv, Covers
  <2>7. CASE rolls
    <3>1. /\ host' \in HostRecord /\ host'.state = "ready"
          /\ host'.rollovers = h.rollovers + 1 /\ host'.start = 0
          /\ host'.dropped = host'.explicit /\ host'.recorded = host'.explicit
          /\ host'.explicit \in Nat
          /\ host'.recorded > 0 => host'.loss
      <4>1. CASE frame.kind = "uart"
        <5>1. host' = RolledOver(h)
          BY <2>3, <2>7, <4>1 DEF RecordEvent, RecordUart
        <5> QED
          BY <2>2, <5>1, RolledOverFields
      <4>2. CASE frame.kind = "overflow"
        <5>1. host' = OverflowStarts(h, frame.count)
          BY <2>3, <2>7, <4>2 DEF RecordEvent, RecordOverflow, OverflowStarts
        <5>2. frame.count \in Nat /\ h \in HostRecord
          BY <1>3, <2>2, <4>2
        <5>3. /\ host' \in HostRecord /\ host'.state = h.state
              /\ host'.start = 0 /\ host'.explicit = frame.count
              /\ host'.dropped = frame.count /\ host'.recorded = frame.count
              /\ host'.loss /\ host'.rollovers = h.rollovers + 1
          BY <5>1, <5>2, OverflowRollsFields, Zenon
        <5> QED
          BY <2>2, <5>2, <5>3, Zenon
      <4>3. CASE frame.kind = "status"
        <5>1. host' = StatusStarts(h, frame.count, frame.events)
          BY <2>3, <2>7, <4>3 DEF RecordEvent, RecordStatus, StatusStarts
        <5>2. frame.count \in Nat /\ frame.events \in Nat /\ h \in HostRecord
          BY <1>3, <1>4, <2>2, <4>3
        <5>3. /\ host' \in HostRecord /\ host'.state = h.state
              /\ host'.start = 0 /\ host'.explicit = 0
              /\ host'.dropped = 0 /\ host'.recorded = 0
              /\ host'.rollovers = h.rollovers + 1
          BY <5>1, <5>2, StatusRollsFields
        <5>4. host'.explicit \in Nat /\ ~(host'.recorded > 0)
          BY <5>3
        <5> QED
          BY <2>2, <5>3, <5>4, Zenon
      <4> QED
        BY <1>3, <4>1, <4>2, <4>3
    <3>2. SampleInv'
      BY <2>4, <3>1 DEF SampleInv
    <3>3. ReportInv'
      BY <2>4, <3>1 DEF ReportInv
    <3> QED
      BY <3>1, <3>2, <3>3
  <2>8. CASE ~rolls /\ frame.kind = "uart"
    <3>1. host' = h
      BY <2>3, <2>8 DEF RecordEvent, RecordUart
    <3>2. SampleInv'
      BY <1>2, <1>6, <2>2, <2>6, <2>8, <3>1 DEF SampleInv, Covers
    <3>3. ReportInv'
      BY <2>5, <3>1 DEF ReportInv
    <3> QED
      BY <2>2, <3>1, <3>2, <3>3
  <2>9. CASE ~rolls /\ frame.kind = "overflow"
    <3>1. host' = OverflowAdded(h, frame.count)
      BY <2>2, <2>3, <2>9 DEF RecordEvent, RecordOverflow, OverflowAdded, HostRecord
    <3>2. /\ host' \in HostRecord
          /\ host'.state = h.state /\ host'.start = h.start /\ host'.baseline = h.baseline
          /\ host'.rollovers = h.rollovers
          /\ host'.explicit = h.explicit + frame.count
          /\ host'.recorded = h.recorded + frame.count
          /\ host'.dropped = IF h.start + h.explicit + frame.count > h.dropped
                             THEN h.start + h.explicit + frame.count ELSE h.dropped
          /\ host'.loss
      BY <1>3, <2>2, <3>1, OverflowFields
    <3>3. frame.count > 0 /\ SettledDrops' = SettledDrops + frame.count
          /\ schedule' = schedule
      BY <1>2, <1>4, <1>6, <2>9
    <3>4. SampleInv'
      <4>1. host'.explicit # 0
        BY <1>3, <2>4, <3>2, <3>3
      <4>2. h.rollovers = 0 /\ schedule # None =>
              SettledDrops' <= schedule.total + host'.explicit
        BY <1>3, <1>6, <2>4, <2>6, <3>2, <3>3, LossTypes
      <4>3. h.rollovers = 0 /\ h.baseline # None =>
              SettledDrops' <= h.baseline.total + host'.explicit
        BY <1>3, <1>6, <2>4, <2>6, <3>2, <3>3
      <4> QED
        BY <3>2, <3>3, <4>1, <4>2, <4>3 DEF SampleInv, Covers
    <3>5. ReportInv'
      BY <1>3, <2>4, <2>5, <3>2, <3>3 DEF ReportInv
    <3> QED
      BY <2>2, <3>2, <3>4, <3>5
  <2>10. CASE ~rolls /\ frame.kind = "status"
    <3> DEFINE base == Base(h, frame.count, frame.events)
               delta == Delta(h, frame.count, frame.events)
    <3>1. host' = StatusAdded(h, frame.count, frame.events)
      BY <2>2, <2>3, <2>10 DEF RecordEvent, RecordStatus, StatusAdded, StatusLoss, Base,
                               Delta, Larger, HostRecord
    <3>2. /\ host' \in HostRecord
          /\ host'.state = h.state /\ host'.start = h.start
          /\ host'.explicit = h.explicit
          /\ host'.recorded = h.recorded /\ host'.rollovers = h.rollovers
          /\ host'.baseline = base
          /\ host'.dropped = h.start + Larger(delta, h.explicit)
          /\ host'.loss <=> StatusLoss(h, frame.count, frame.events)
      <4>1. frame.count \in Nat /\ frame.events \in Nat /\ h \in HostRecord
        BY <1>3, <1>4, <2>2, <2>10
      <4> QED
        BY <3>1, <4>1, StatusFields, ZenonT(60)
    <3>12. StatusLoss(h, frame.count, frame.events)
             <=> \/ h.loss
                 \/ Larger(delta, h.explicit) > 0
                 \/ frame.events > base.events
      BY DEF StatusLoss
    <3>3. base.total \in Nat /\ base.events \in Nat
      BY <1>3, <1>4, <2>4, <2>10 DEF Base
    <3>4. delta = IF frame.count > base.total THEN frame.count - base.total ELSE 0
      BY DEF Delta
    <3>5. h.rollovers = 0 =>
            /\ SettledDrops <= base.total + h.explicit
            /\ h.explicit = 0 => SettledEpisodes <= base.events
      BY <1>3, <1>4, <2>6, <2>10 DEF Base
    <3> HIDE DEF base, delta
    <3>6. h.rollovers = 0 => delta <= h.explicit
      BY <1>3, <1>4, <1>6, <2>4, <2>10, <3>3, <3>4, <3>5
    <3>7. h.rollovers = 0 /\ h.explicit = 0 => ~(frame.events > base.events)
      BY <1>4, <1>6, <2>10, <3>3, <3>5
    <3>8. schedule' = None /\ SettledDrops' = SettledDrops
          /\ SettledEpisodes' = SettledEpisodes
      BY <1>2, <1>6, <2>10
    <3>9. SampleInv'
      BY <3>2, <3>5, <3>8 DEF SampleInv, Covers
    <3>10. delta \in Nat
      BY <1>3, <3>3, <3>4
    <3>11. ReportInv'
      <4>1. /\ host'.recorded <= host'.start + host'.explicit
            /\ host'.start + host'.explicit <= host'.dropped
        BY <2>4, <2>5, <3>2, <3>10 DEF Larger
      <4>2. host'.recorded > 0 => host'.loss
        BY <2>5, <3>2, <3>12
      <4>3. host'.rollovers = 0 => host'.dropped = host'.recorded
        BY <2>4, <2>5, <3>2, <3>6, <3>10 DEF Larger
      <4>4. host'.rollovers = 0 /\ host'.loss => host'.recorded > 0
        BY <2>4, <2>5, <3>2, <3>6, <3>7, <3>10, <3>12 DEF Larger
      <4> QED
        BY <4>1, <4>2, <4>3, <4>4 DEF ReportInv
    <3> QED
      BY <2>2, <3>2, <3>9, <3>11
  <2> QED
    BY <1>3, <2>7, <2>8, <2>9, <2>10
<1>13. frame.ts \in Nat
  BY <1>2 DEF LossInv, StatusInv
<1>14. \/ host' = host /\ host.state # "ready" /\ host.state # "opening"
       \/ \E state \in {"refused", "failed"} : host' = [host EXCEPT !.state = state]
       \/ /\ host.state = "ready"
          /\ \E origin \in Nat \cup {None} :
                host' = RecordEvent([host EXCEPT !.origin = origin], frame, rolls)
  <2>1. CASE host.state = "opening"
    BY <1>1, <1>3, <2>1 DEF Dispatch
  <2>2. CASE host.state = "ready"
    <3>1. host' = IF frame.kind = "hello" \/ (host.origin # None /\ frame.ts < host.origin)
                  THEN [host EXCEPT !.state = "failed"]
                  ELSE RecordEvent([host EXCEPT !.origin = IF host.origin = None THEN frame.ts
                                                           ELSE host.origin],
                                   frame, rolls)
      BY <1>1, <1>5, <2>2 DEF Dispatch, HostRecord
    <3>2. (IF host.origin = None THEN frame.ts ELSE host.origin) \in Nat \cup {None}
      BY <1>5, <1>13 DEF HostRecord
    <3> QED
      BY <2>2, <3>1, <3>2
  <2>3. CASE host.state # "opening" /\ host.state # "ready"
    BY <1>1, <2>3 DEF Dispatch
  <2> QED
    BY <2>1, <2>2, <2>3
<1> QED
  BY <1>10, <1>11, <1>12, <1>14

\* Every step of the helper and of the host preserves the loss invariant.
LEMMA NextLoss == IInv /\ LossInv /\ [Next]_vars => LossInv'
<1>1. SUFFICES ASSUME IInv, LossInv, [Next]_vars PROVE LossInv'
  OBVIOUS
<1>2. CASE UNCHANGED vars
  <2>1. UNCHANGED <<droppedTotal, overflowEvents, episode, schedule, host, pc, frame,
                    epoch, dtr>>
    BY <1>2 DEF vars, ring, usb
  <2>2. ConnectionInv'
    BY <1>1, <2>1 DEF LossInv, ConnectionInv
  <2> QED
    BY <1>1, <2>1, <2>2, LossQuiet
<1>3. CASE \/ MarkDriverFault \/ Tick \/ Halted
           \/ DtrAsserted \/ EpochStarts \/ EpochContinues \/ HelloDisconnected
           \/ StatusDue \/ StatusNotDue \/ DrainIdle
           \/ DtrLow /\ epoch # "active"
  BY <1>1, <1>3, LossBetweenFrames
<1>4. CASE HostOpens \/ HostCloses
  BY <1>1, <1>4, LossHost
<1>5. CASE \/ DtrLow /\ epoch = "active"
           \/ RxFaulted \/ FrameDisconnected \/ FrameStalls
  <2>1. /\ EndActiveEpoch /\ UNCHANGED <<host, dtr>>
        /\ pc' \in {"loop", "halted"} /\ (pc' = "loop" => ~dtr /\ epoch' = "down")
        /\ (pc' = "halted" => epoch' = epoch)
    BY <1>5 DEF DtrLow, RxFaulted, FrameDisconnected, FrameStalls
  <2> QED
    BY <1>1, <2>1, LossEpochEnds
<1>6. CASE HelloSent
  BY <1>1, <1>6, LossHello
<1>7. CASE StageStatus
  BY <1>1, <1>7, LossStageStatus
<1>8. CASE TakeChunk
  BY <1>1, <1>8, LossTakeChunk
<1>9. CASE ClaimOverflow
  BY <1>1, <1>9, LossClaimOverflow
<1>10. CASE TakeStatus
  BY <1>1, <1>10, LossTakeStatus
<1>11. CASE FrameSent
  BY <1>1, <1>11, LossFrameSent
<1>12. CASE UartCallback
  BY <1>1, <1>12, LossUartCallback
<1>13. DtrLow => (DtrLow /\ epoch = "active") \/ (DtrLow /\ epoch # "active")
  OBVIOUS
<1> QED
  BY <1>1, <1>2, <1>3, <1>4, <1>5, <1>6, <1>7, <1>8, <1>9, <1>10, <1>11, <1>12, <1>13
     DEF Next, UsbThread

(***************************************************************************)
(* What a session reports as lost is what its overflow records add up to,  *)
(* although the host also derives it from two boot-cumulative counters; it *)
(* is never too little after a rollover (_record_event,                    *)
(* _reset_integrity_after_rollover, drain_one_evidence).                   *)
(***************************************************************************)
THEOREM LossStaysReported == Spec => []LossIsReported
<1>1. Init => IInv /\ LossInv
  BY InitInv, InitLoss
<1>2. IInv /\ LossInv /\ [Next]_vars => (IInv /\ LossInv)'
  BY NextInv, NextLoss
<1>3. IInv /\ LossInv => LossIsReported
  <2>1. SUFFICES ASSUME LossInv PROVE LossIsReported
    OBVIOUS
  <2>2. /\ host.start \in Nat /\ host.explicit \in Nat /\ host.dropped \in Nat
        /\ host.recorded \in Nat /\ host.loss \in BOOLEAN
    BY <2>1 DEF LossInv, HostRecord
  <2>3. host.dropped >= host.recorded
    BY <2>1, <2>2 DEF LossInv, ReportInv
  <2> QED
    BY <2>1, <2>2, <2>3
       DEF LossInv, ReportInv, LossIsReported, LossIsExact, LossNotUnderstated
<1> QED
  BY <1>1, <1>2, <1>3, PTL DEF Spec

=============================================================================
