--------------------------- MODULE PipelineProofs ---------------------------
(***************************************************************************)
(* NothingLostUnseen of Pipeline, for every size of the three buffers,     *)
(* every number of records and every number of threads that die.           *)
(*                                                                         *)
(* Two facts carry the proof.  The records that are on their way, read     *)
(* from the sink back to the kernel, are in increasing order (Ordered):    *)
(* hence no record is in two places, the size of InFlight is the sum of    *)
(* the sizes of its parts, and what is written next is larger than what    *)
(* was written.  And a loss that is not yet in the agent's total belongs   *)
(* to the one record the pump has in hand (Reported).                      *)
(*                                                                         *)
(* The second half is about the sinks behind the queue (Fanout): the       *)
(* node-local record and the SIEM destination.                             *)
(***************************************************************************)
EXTENDS Pipeline, Fanout, FiniteSetTheorems, SequenceTheorems, TLAPS

Increasing(s) == \A i, j \in 1 .. Len(s) : i < j => s[i] < s[j]

Below(A, B) == \A a \in A, b \in B : a < b

One(h) == IF h = 0 THEN 0 ELSE 1

\* The places a record passes through, the last one first.
Ordered(w, a, q, p, c, r, k) ==
    /\ Below(w, a) /\ Below(w, q) /\ Below(w, p) /\ Below(w, c) /\ Below(w, r) /\ Below(w, k)
    /\ Below(a, q) /\ Below(a, p) /\ Below(a, c) /\ Below(a, r) /\ Below(a, k)
    /\ Below(q, p) /\ Below(q, c) /\ Below(q, r) /\ Below(q, k)
    /\ Below(p, c) /\ Below(p, r) /\ Below(p, k)
    /\ Below(c, r) /\ Below(c, k)
    /\ Below(r, k)

\* All types but the upper bounds, which follow from the count.
Buffers ==
    /\ queue \in Seq(Nat) /\ Len(queue) <= QueueCap
    /\ written \in Seq(Nat)
    /\ kring \in Seq(Nat) /\ Len(kring) <= RingCap
    /\ chan \in Seq(Nat) /\ Len(chan) <= ChanCap

Numbers ==
    /\ writing \in Nat /\ ringHand \in Nat /\ pumpHand \in Nat
    /\ produced \in 0 .. MaxRecords
    /\ writeFailed \in Nat /\ queueDropped \in Nat /\ writerLost \in Nat /\ abandoned \in Nat
    /\ kdropped \in Nat /\ seenDrops \in Nat /\ dropDelta \in Nat /\ agentDropped \in Nat
    /\ discarded \in Nat /\ pumpLost \in Nat /\ decodeFailed \in Nat /\ stranded \in Nat
    /\ pollLost \in Nat /\ lostSeen \in Nat
    /\ panics \in 0 .. MaxPanics

Types == Buffers /\ Numbers

Locations ==
    /\ writer \in {"recv", "check", "emit", "drain", "drainEmit", "return", "gone"}
    /\ writerDead \in {"no", "yes"} /\ stopping \in {"no", "yes"}
    /\ watcher \in {"watch", "join", "exited"}
    /\ ringPc \in {"guard", "drain", "send", "report"}
    /\ recordsAlive \in {"no", "yes"} /\ terminal \in {"no", "yes"}
    /\ exportDead \in {"no", "yes"}
    /\ pumpPc \in {"recv", "lock", "handle", "load", "mark", "gone"}
    /\ mode \in {"bundle", "status"}
    /\ pollPc \in {"sleep", "lock", "load", "mark", "commit"}

\* The guards: readers and a writer exclude each other.
Lock ==
    /\ readers \subseteq {"ring", "pump", "poll"}
    /\ writeGuard \in {"none", "waiting", "held"}
    /\ writeGuard = "held" => readers = {}
    /\ mode = "status" => writeGuard = "none"

\* What a thread has in hand agrees with where it is.
Hands ==
    /\ writing # 0 <=> writer \in {"emit", "drainEmit"}
    /\ ringHand # 0 <=> ringPc = "send"
    /\ pumpHand # 0 <=> pumpPc \in {"lock", "handle"}
    /\ pumpPc = "gone" => chan = <<>>
    /\ writer = "gone" => queue = <<>>
    /\ writer \in {"drain", "drainEmit", "return"} => stopping = "yes"

Sorted ==
    /\ Increasing(written) /\ Increasing(queue) /\ Increasing(chan) /\ Increasing(kring)
    /\ Ordered(ToSet(written), InHand(writing), ToSet(queue), InHand(pumpHand), ToSet(chan),
               InHand(ringHand), ToSet(kring))
    /\ ToSet(written) \cup InFlight \subseteq 1 .. produced

\* How many records are on their way or written, and how many were lost.
Exporting == One(writing) + Len(queue) + Len(written)
Arriving == One(pumpHand) + Len(chan) + One(ringHand) + Len(kring)
InPath == Exporting + Arriving

Losses ==
    writeFailed + kdropped + decodeFailed + queueDropped
        + writerLost + discarded + stranded + abandoned

Counted ==
    /\ produced = InPath + Losses
    /\ stranded > 0 => pumpPc = "gone"
    /\ abandoned > 0 => writer = "gone" /\ (panics > 0 \/ stopping = "yes")

\* The pump is the only thread that causes a loss the queue counts; until it has
\* marked it, the loss is in what the pump has read.
Reported ==
    /\ pumpPc \notin {"load", "mark"} => lostSeen >= queueDropped + writerLost
    /\ pumpPc = "mark" => pumpLost >= queueDropped + writerLost
    /\ writerLost > 0 => writerDead = "yes"
    /\ writerLost > 0 /\ pumpPc # "load" => exportDead = "yes"
    /\ lostSeen <= LostTotal /\ pumpLost <= LostTotal /\ pollLost <= LostTotal
    /\ discarded > 0 \/ recordsAlive = "no" => terminal = "yes"
    /\ agentDropped + dropDelta <= seenDrops
    /\ seenDrops <= kdropped

Inv == Types /\ Locations /\ Lock /\ Hands /\ Sorted /\ Counted /\ Reported

-----------------------------------------------------------------------------
(* Sequences that increase.                                                *)

\* Taking the first record out leaves an increasing sequence, all of it above
\* the record that was taken.
LEMMA TakeFirst ==
  ASSUME NEW s \in Seq(Nat), s # <<>>, Increasing(s)
  PROVE  /\ Tail(s) \in Seq(Nat) /\ Len(s) = Len(Tail(s)) + 1 /\ Increasing(Tail(s))
         /\ Head(s) \in Nat
         /\ ToSet(s) = {Head(s)} \cup ToSet(Tail(s))
         /\ Below({Head(s)}, ToSet(Tail(s)))
<1>1. /\ Tail(s) \in Seq(Nat) /\ Len(Tail(s)) = Len(s) - 1 /\ Len(s) \in Nat /\ Len(s) >= 1
      /\ Head(s) = s[1] /\ Head(s) \in Nat
  OBVIOUS
<1>2. \A i \in 1 .. Len(Tail(s)) : Tail(s)[i] = s[i + 1]
  BY <1>1
<1>3. Increasing(Tail(s))
  BY <1>1, <1>2 DEF Increasing
<1>4. DOMAIN s = 1 .. Len(s) /\ DOMAIN Tail(s) = 1 .. Len(Tail(s))
  BY <1>1
<1>5. ToSet(s) \subseteq {Head(s)} \cup ToSet(Tail(s))
  <2> SUFFICES ASSUME NEW i \in 1 .. Len(s) PROVE s[i] \in {Head(s)} \cup ToSet(Tail(s))
    BY <1>4 DEF ToSet
  <2>1. CASE i = 1
    BY <2>1, <1>1
  <2>2. CASE i # 1
    <3>1. i - 1 \in 1 .. Len(Tail(s)) /\ Tail(s)[i - 1] = s[i]
      BY <2>2, <1>1, <1>2
    <3> QED BY <3>1, <1>4 DEF ToSet
  <2> QED BY <2>1, <2>2
<1>6. {Head(s)} \cup ToSet(Tail(s)) \subseteq ToSet(s)
  <2>1. Head(s) \in ToSet(s)
    BY <1>1, <1>4 DEF ToSet
  <2>2. ASSUME NEW i \in 1 .. Len(Tail(s)) PROVE Tail(s)[i] \in ToSet(s)
    <3>1. i + 1 \in 1 .. Len(s) /\ Tail(s)[i] = s[i + 1]
      BY <1>1, <1>2
    <3> QED BY <3>1, <1>4 DEF ToSet
  <2> QED BY <2>1, <2>2, <1>4 DEF ToSet
<1>7. Below({Head(s)}, ToSet(Tail(s)))
  <2> SUFFICES ASSUME NEW i \in 1 .. Len(Tail(s)) PROVE s[1] < Tail(s)[i]
    BY <1>1, <1>4 DEF ToSet, Below
  <2>1. i + 1 \in 1 .. Len(s) /\ 1 \in 1 .. Len(s) /\ 1 < i + 1
    BY <1>1
  <2> QED BY <2>1, <1>2 DEF Increasing
<1> QED BY <1>1, <1>3, <1>5, <1>6, <1>7

\* Putting a larger record at the end keeps it increasing.
LEMMA PutLast ==
  ASSUME NEW s \in Seq(Nat), NEW e \in Nat, Increasing(s), Below(ToSet(s), {e})
  PROVE  /\ Append(s, e) \in Seq(Nat) /\ Len(Append(s, e)) = Len(s) + 1
         /\ Increasing(Append(s, e))
         /\ ToSet(Append(s, e)) = ToSet(s) \cup {e}
<1> DEFINE t == Append(s, e)
<1>1. /\ t \in Seq(Nat) /\ Len(t) = Len(s) + 1 /\ Len(s) \in Nat /\ t[Len(s) + 1] = e
      /\ \A i \in 1 .. Len(s) : t[i] = s[i]
      /\ DOMAIN s = 1 .. Len(s) /\ DOMAIN t = 1 .. Len(s) + 1
  OBVIOUS
<1>2. \A i \in 1 .. Len(s) : s[i] < e
  BY <1>1 DEF Below, ToSet
<1> HIDE DEF t
<1>3. Increasing(t)
  <2> SUFFICES ASSUME NEW i \in 1 .. Len(t), NEW j \in 1 .. Len(t), i < j PROVE t[i] < t[j]
    BY DEF Increasing
  <2>1. i \in 1 .. Len(s)
    BY <1>1
  <2>2. CASE j = Len(s) + 1
    BY <1>1, <1>2, <2>1, <2>2
  <2>3. CASE j # Len(s) + 1
    <3>1. j \in Int /\ 1 <= j /\ j <= Len(s) + 1
      BY <1>1
    <3>2. j \in 1 .. Len(s)
      <4>1. Len(s) \in Nat
        OBVIOUS
      <4>2. j <= Len(s)
        BY <4>1, <2>3, <3>1
      <4> QED BY <4>1, <4>2, <3>1
    <3> QED BY <1>1, <2>1, <3>2 DEF Increasing
  <2> QED BY <2>2, <2>3
<1>4. ToSet(t) = ToSet(s) \cup {e}
  <2>1. ASSUME NEW i \in 1 .. Len(s) + 1 PROVE t[i] \in ToSet(s) \cup {e}
    <3>1. CASE i = Len(s) + 1
      BY <3>1, <1>1
    <3>2. CASE i # Len(s) + 1
      <4>1. i \in 1 .. Len(s)
        BY <3>2, <1>1
      <4> QED BY <4>1, <1>1 DEF ToSet
    <3> QED BY <3>1, <3>2
  <2>2. ASSUME NEW i \in 1 .. Len(s) PROVE s[i] \in ToSet(t)
    <3>1. i \in 1 .. Len(s) + 1 /\ t[i] = s[i]
      BY <1>1
    <3> QED BY <3>1, <1>1 DEF ToSet
  <2>3. e \in ToSet(t)
    <3>1. Len(s) + 1 \in 1 .. Len(s) + 1
      BY <1>1
    <3> QED BY <3>1, <1>1 DEF ToSet
  <2>4. ToSet(t) \subseteq ToSet(s) \cup {e}
    BY <2>1, <1>1 DEF ToSet
  <2>5. ToSet(s) \subseteq ToSet(t)
    BY <2>2, <1>1 DEF ToSet
  <2> QED BY <2>3, <2>4, <2>5
<1> QED BY <1>1, <1>3, <1>4 DEF t

\* The empty sequence.
LEMMA NoRecords ==
  /\ <<>> \in Seq(Nat) /\ Len(<<>>) = 0 /\ Increasing(<<>>) /\ ToSet(<<>>) = {}
BY DEF Increasing, ToSet

\* An increasing sequence holds as many records as it is long.
LEMMA AsManyAsLong ==
  ASSUME NEW s \in Seq(Nat), Increasing(s)
  PROVE  IsFiniteSet(ToSet(s)) /\ Cardinality(ToSet(s)) = Len(s)
<1> DEFINE f == [i \in 1 .. Len(s) |-> s[i]]
<1>1. Len(s) \in Nat /\ DOMAIN s = 1 .. Len(s)
  OBVIOUS
<1>2. f \in [1 .. Len(s) -> ToSet(s)]
  BY <1>1 DEF ToSet
<1>3. \A i, j \in 1 .. Len(s) : i # j => f[i] # f[j]
  <2> SUFFICES ASSUME NEW i \in 1 .. Len(s), NEW j \in 1 .. Len(s), i # j PROVE s[i] # s[j]
    OBVIOUS
  <2>1. i < j \/ j < i
    BY <1>1
  <2>2. s[i] \in Nat /\ s[j] \in Nat
    OBVIOUS
  <2> QED BY <2>1, <2>2 DEF Increasing
<1>4. \A x \in ToSet(s) : \E i \in 1 .. Len(s) : f[i] = x
  BY <1>1 DEF ToSet
<1>5. f \in Bijection(1 .. Len(s), ToSet(s))
  BY <1>2, <1>3, <1>4 DEF Bijection, Injection, Surjection, IsInjective
<1>6. ExistsBijection(1 .. Len(s), ToSet(s))
  BY <1>5 DEF ExistsBijection
<1>7. IsFiniteSet(1 .. Len(s)) /\ Cardinality(1 .. Len(s)) = Len(s)
  <2>1. 1 \in Int /\ Len(s) \in Int /\ Len(s) \in Nat
    BY <1>1
  <2>2. /\ IsFiniteSet(1 .. Len(s))
        /\ Cardinality(1 .. Len(s)) = IF 1 > Len(s) THEN 0 ELSE Len(s) - 1 + 1
    BY <2>1, FS_Interval
  <2> QED
    BY <2>1, <2>2
<1> QED BY <1>6, <1>7, FS_Bijection

\* Parts in increasing order are disjoint: their sizes add up.
LEMMA DisjointUnion ==
  ASSUME NEW A, NEW B, IsFiniteSet(A), IsFiniteSet(B), Below(A, B), A \subseteq Nat
  PROVE  IsFiniteSet(A \cup B) /\ Cardinality(A \cup B) = Cardinality(A) + Cardinality(B)
<1>1. A \cap B = {}
  <2> SUFFICES ASSUME NEW x \in A, x \in B PROVE FALSE
    OBVIOUS
  <2>1. x \in Nat /\ x < x
    BY DEF Below
  <2> QED BY <2>1
<1>2. Cardinality(A \cap B) = 0
  BY <1>1, FS_EmptySet
<1>3. Cardinality(A) \in Nat /\ Cardinality(B) \in Nat
  BY FS_CardinalityType
<1>4. /\ IsFiniteSet(A \cup B)
      /\ Cardinality(A \cup B) = Cardinality(A) + Cardinality(B) - Cardinality(A \cap B)
  BY FS_Union
<1> QED BY <1>2, <1>3, <1>4

\* A hand holds one record or none.
LEMMA HandSize ==
  ASSUME NEW h \in Nat
  PROVE  IsFiniteSet(InHand(h)) /\ Cardinality(InHand(h)) = One(h) /\ InHand(h) \subseteq Nat
BY FS_EmptySet, FS_Singleton DEF InHand, One

\* The elements of a sequence of numbers are numbers.
LEMMA SetOfNat == ASSUME NEW s \in Seq(Nat) PROVE ToSet(s) \subseteq Nat
BY DEF ToSet

\* InFlight is as large as its parts together.
LEMMA InFlightSize ==
  ASSUME Types, Sorted
  PROVE  Cardinality(InFlight) = One(writing) + Len(queue) + One(pumpHand) + Len(chan)
                                     + One(ringHand) + Len(kring)
<1> DEFINE k == ToSet(kring)  r == InHand(ringHand)  c == ToSet(chan)
           p == InHand(pumpHand)  q == ToSet(queue)  a == InHand(writing)
<1>1. /\ IsFiniteSet(k) /\ Cardinality(k) = Len(kring) /\ k \subseteq Nat
      /\ IsFiniteSet(c) /\ Cardinality(c) = Len(chan) /\ c \subseteq Nat
      /\ IsFiniteSet(q) /\ Cardinality(q) = Len(queue) /\ q \subseteq Nat
  BY AsManyAsLong, SetOfNat DEF Types, Buffers, Numbers, Sorted
<1>2. /\ IsFiniteSet(r) /\ Cardinality(r) = One(ringHand) /\ r \subseteq Nat
      /\ IsFiniteSet(p) /\ Cardinality(p) = One(pumpHand) /\ p \subseteq Nat
      /\ IsFiniteSet(a) /\ Cardinality(a) = One(writing) /\ a \subseteq Nat
  BY HandSize DEF Types, Buffers, Numbers
<1>3. /\ Below(a, q) /\ Below(a \cup q, p) /\ Below(a \cup q \cup p, c)
      /\ Below(a \cup q \cup p \cup c, r) /\ Below(a \cup q \cup p \cup c \cup r, k)
  BY DEF Sorted, Ordered, Below
<1>4. InFlight = a \cup q \cup p \cup c \cup r \cup k
  BY DEF InFlight
<1> HIDE DEF k, r, c, p, q, a
<1>5. /\ IsFiniteSet(a \cup q)
      /\ Cardinality(a \cup q) = Cardinality(a) + Cardinality(q)
  <2>1. IsFiniteSet(a) /\ IsFiniteSet(q) /\ (a) \subseteq Nat /\ Below(a, q)
    BY <1>1, <1>2, <1>3
  <2>2. /\ IsFiniteSet((a) \cup q)
        /\ Cardinality((a) \cup q) = Cardinality(a) + Cardinality(q)
    BY <2>1, DisjointUnion
  <2> QED BY <2>2
<1>6. /\ IsFiniteSet(a \cup q \cup p)
      /\ Cardinality(a \cup q \cup p) = Cardinality(a) + Cardinality(q) + Cardinality(p)
  <2>1. /\ IsFiniteSet(a \cup q) /\ IsFiniteSet(p)
        /\ (a \cup q) \subseteq Nat /\ Below(a \cup q, p)
    BY <1>1, <1>2, <1>3, <1>5
  <2>2. /\ IsFiniteSet((a \cup q) \cup p)
        /\ Cardinality((a \cup q) \cup p) = Cardinality(a \cup q) + Cardinality(p)
    BY <2>1, DisjointUnion
  <2> QED BY <2>2, <1>5
<1>7. /\ IsFiniteSet(a \cup q \cup p \cup c)
      /\ Cardinality(a \cup q \cup p \cup c)
            = Cardinality(a) + Cardinality(q) + Cardinality(p) + Cardinality(c)
  <2>1. /\ IsFiniteSet(a \cup q \cup p) /\ IsFiniteSet(c)
        /\ (a \cup q \cup p) \subseteq Nat /\ Below(a \cup q \cup p, c)
    BY <1>1, <1>2, <1>3, <1>6
  <2>2. /\ IsFiniteSet((a \cup q \cup p) \cup c)
        /\ Cardinality((a \cup q \cup p) \cup c)
              = Cardinality(a \cup q \cup p) + Cardinality(c)
    BY <2>1, DisjointUnion
  <2> QED BY <2>2, <1>6
<1>8. /\ IsFiniteSet(a \cup q \cup p \cup c \cup r)
      /\ Cardinality(a \cup q \cup p \cup c \cup r)
            = Cardinality(a) + Cardinality(q) + Cardinality(p) + Cardinality(c) + Cardinality(r)
  <2>1. /\ IsFiniteSet(a \cup q \cup p \cup c) /\ IsFiniteSet(r)
        /\ (a \cup q \cup p \cup c) \subseteq Nat /\ Below(a \cup q \cup p \cup c, r)
    BY <1>1, <1>2, <1>3, <1>7
  <2>2. /\ IsFiniteSet((a \cup q \cup p \cup c) \cup r)
        /\ Cardinality((a \cup q \cup p \cup c) \cup r)
              = Cardinality(a \cup q \cup p \cup c) + Cardinality(r)
    BY <2>1, DisjointUnion
  <2> QED BY <2>2, <1>7
<1>9. /\ IsFiniteSet(a \cup q \cup p \cup c \cup r \cup k)
      /\ Cardinality(a \cup q \cup p \cup c \cup r \cup k)
            = Cardinality(a) + Cardinality(q) + Cardinality(p) + Cardinality(c) + Cardinality(r) + Cardinality(k)
  <2>1. /\ IsFiniteSet(a \cup q \cup p \cup c \cup r) /\ IsFiniteSet(k)
        /\ (a \cup q \cup p \cup c \cup r) \subseteq Nat /\ Below(a \cup q \cup p \cup c \cup r, k)
    BY <1>1, <1>2, <1>3, <1>8
  <2>2. /\ IsFiniteSet((a \cup q \cup p \cup c \cup r) \cup k)
        /\ Cardinality((a \cup q \cup p \cup c \cup r) \cup k)
              = Cardinality(a \cup q \cup p \cup c \cup r) + Cardinality(k)
    BY <2>1, DisjointUnion
  <2> QED BY <2>2, <1>8
<1> QED BY <1>1, <1>2, <1>4, <1>9

\* A sequence of numbers whose elements are in a set is a sequence over it.
LEMMA SequenceOver ==
  ASSUME NEW s \in Seq(Nat), NEW S, ToSet(s) \subseteq S
  PROVE  s \in Seq(S)
<1>1. Len(s) \in Nat /\ s = [i \in 1 .. Len(s) |-> s[i]] /\ \A i \in 1 .. Len(s) : s[i] \in S
  BY DEF ToSet
<1> QED BY <1>1

\* The summands of the count are numbers.
LEMMA Summands ==
  ASSUME Types
  PROVE  /\ One(writing) \in Nat /\ One(pumpHand) \in Nat /\ One(ringHand) \in Nat
         /\ Len(queue) \in Nat /\ Len(chan) \in Nat /\ Len(kring) \in Nat /\ Len(written) \in Nat
         /\ Exporting \in Nat /\ Arriving \in Nat /\ InPath \in Nat /\ Losses \in Nat
<1>1. /\ One(writing) \in Nat /\ One(pumpHand) \in Nat /\ One(ringHand) \in Nat
      /\ Len(queue) \in Nat /\ Len(chan) \in Nat /\ Len(kring) \in Nat /\ Len(written) \in Nat
  BY DEF One, Types, Buffers
<1>2. Exporting \in Nat /\ Arriving \in Nat
  BY <1>1 DEF Exporting, Arriving
<1>3. Losses \in Nat
  BY DEF Losses, Types, Numbers
<1> QED BY <1>1, <1>2, <1>3 DEF InPath

\* The inductive invariant says what is claimed: the upper bounds of the types
\* and the size of InFlight follow from the order and the count.
LEMMA InvImplies == ASSUME Inv PROVE NothingLostUnseen
<1>0. /\ MaxRecords \in Nat /\ MaxPanics \in Nat
  BY PipelineAssumption, QueueAssumption
<1> USE DEF Inv
<1>1. /\ One(writing) \in Nat /\ One(pumpHand) \in Nat /\ One(ringHand) \in Nat
      /\ Len(queue) \in Nat /\ Len(chan) \in Nat /\ Len(kring) \in Nat /\ Len(written) \in Nat
  BY DEF One, Types, Buffers, Numbers
<1>2. EveryRecordCounted
  <2>1. InPath = Cardinality(InFlight) + Len(written)
    BY InFlightSize, <1>1 DEF InPath, Exporting, Arriving
  <2>2. InPath \in Nat /\ Numbers
    BY Summands DEF Types
  <2>3. produced = InPath + writeFailed + kdropped + decodeFailed
                      + queueDropped + writerLost + discarded + stranded + abandoned
    BY <2>2 DEF Counted, Losses, Numbers
  <2> QED BY <2>1, <2>3 DEF EveryRecordCounted, Counted
<1>3. WrittenInOrder
  BY DEF WrittenInOrder, Sorted, Increasing
<1>4. LossIsReported
  BY DEF LossIsReported, Reported, Locations, Types, Buffers, Numbers
<1>5. TypeOK
  <2>1. QueueTypeOK
    BY <1>0 DEF QueueTypeOK, Types, Buffers, Numbers, Locations
  <2>2. /\ writeFailed <= produced /\ queueDropped <= produced /\ writerLost <= produced
        /\ kdropped <= produced /\ decodeFailed <= produced /\ discarded <= produced
        /\ stranded <= produced /\ LostTotal <= produced
    <3>1. InPath \in Nat /\ Numbers
      BY Summands DEF Types
    <3> QED BY <3>1 DEF Counted, Losses, Numbers, LostTotal
  <2>3. 1 .. produced \subseteq 1 .. MaxRecords
    BY <1>0 DEF Types, Buffers, Numbers
  <2>4. ToSet(kring) \subseteq 1 .. MaxRecords /\ ToSet(chan) \subseteq 1 .. MaxRecords
    BY <2>3 DEF Sorted, InFlight
  <2>5. kring \in Seq(1 .. MaxRecords) /\ chan \in Seq(1 .. MaxRecords)
    BY <2>4, SequenceOver DEF Types, Buffers, Numbers
  <2>6. ringHand \in 0 .. MaxRecords /\ pumpHand \in 0 .. MaxRecords
    <3>1. InHand(ringHand) \subseteq 1 .. MaxRecords /\ InHand(pumpHand) \subseteq 1 .. MaxRecords
      BY <2>3 DEF Sorted, InFlight
    <3> QED BY <3>1, <1>0 DEF InHand
  <2>7. /\ kdropped \in 0 .. MaxRecords /\ decodeFailed \in 0 .. MaxRecords
        /\ discarded \in 0 .. MaxRecords /\ stranded \in 0 .. MaxRecords
        /\ seenDrops \in 0 .. MaxRecords /\ dropDelta \in 0 .. MaxRecords
        /\ agentDropped \in 0 .. MaxRecords
        /\ pumpLost \in 0 .. MaxRecords /\ pollLost \in 0 .. MaxRecords
        /\ lostSeen \in 0 .. MaxRecords
    BY <2>2, <1>0 DEF Types, Buffers, Numbers, Reported, LostTotal
  <2>8. /\ {ringHand, pumpHand} \subseteq 0 .. MaxRecords
        /\ {kdropped, seenDrops, dropDelta, agentDropped, discarded, pumpLost, decodeFailed,
             stranded, pollLost, lostSeen} \subseteq 0 .. MaxRecords
        /\ {recordsAlive, terminal, exportDead} \subseteq {"no", "yes"}
    BY <2>6, <2>7 DEF Locations
  <2> QED BY <2>1, <2>5, <2>8 DEF TypeOK, Types, Buffers, Numbers, Locations, Lock
<1> QED BY <1>2, <1>3, <1>4, <1>5 DEF NothingLostUnseen

-----------------------------------------------------------------------------
(* The invariant holds at the start.                                       *)

\* Nothing was made, nothing is on its way, nothing is lost.
LEMMA InitInv == ASSUME Init PROVE Inv
<1> USE DEF Init, QueueInit
<1>1. Types
  BY NoRecords, PipelineAssumption, QueueAssumption DEF Types, Buffers, Numbers
<1>2. Locations /\ Lock /\ Hands
  BY DEF Locations, Lock, Hands
<1>3. Sorted
  BY NoRecords DEF Sorted, Ordered, Below, InFlight, InHand
<1>4. Counted
  BY NoRecords DEF Counted, InPath, Exporting, Arriving, Losses, One
<1>5. Reported
  BY DEF Reported, LostTotal
<1> QED BY <1>1, <1>2, <1>3, <1>4, <1>5 DEF Inv

-----------------------------------------------------------------------------
(* Steps that move no record.                                              *)

recordVars == <<written, writing, queue, pumpHand, chan, ringHand, kring, produced>>

countVars == <<writeFailed, kdropped, decodeFailed, queueDropped, writerLost, discarded, stranded,
               abandoned>>

\* The order depends on where the records are, and on nothing else.
LEMMA SameRecords == ASSUME Sorted, UNCHANGED recordVars PROVE Sorted'
BY DEF Sorted, Ordered, InFlight, recordVars

\* No record moves, nothing is counted, and no thread that is gone comes back.
LEMMA SameCount ==
  ASSUME Counted, UNCHANGED recordVars, UNCHANGED countVars,
         pumpPc = "gone" => pumpPc' = "gone", writer = "gone" => writer' = "gone",
         panics' = panics, stopping = "yes" => stopping' = "yes"
  PROVE  Counted'
BY DEF Counted, InPath, Exporting, Arriving, Losses, recordVars, countVars

\* The steps that take and release guards, read counters and mark what they read,
\* and those by which the writer and the watcher of SIGTERM go on.
LEMMA QuietSteps ==
  ASSUME Inv,
         \/ RingGuard \/ PollDrops \/ ReportDrops
         \/ PumpLock \/ PumpLoad \/ PumpMark
         \/ PollStep
         \/ (FindsEmpty \/ ReadFlag \/ Close \/ Exit)
              /\ UNCHANGED <<ringVars, chan, pumpVars, pollVars, lockVars, lossVars>>
         \/ UNCHANGED vars
  PROVE  Inv'
<1> USE DEF Inv
<1>1. CASE RingGuard
  <2> USE <1>1 DEF RingGuard, vars, queueVars, ringVars, pumpVars, pollVars, lockVars, lossVars
  <2>1. UNCHANGED recordVars /\ UNCHANGED countVars
    BY DEF recordVars, countVars
  <2>2. Types'
    BY DEF Types, Buffers, Numbers, LostTotal, SeenAfter, recordVars, countVars, Reported
  <2>3. Locations' /\ Lock' /\ Hands'
    BY DEF Locations, Lock, Hands, CanRead
  <2>4. Sorted' /\ Counted'
    BY <2>1, SameRecords, SameCount
  <2>5. Reported'
    BY DEF Reported, LostTotal, SeenAfter, Types, Buffers, Numbers, Locations
  <2> QED BY <2>2, <2>3, <2>4, <2>5
<1>2. CASE PollDrops
  <2> USE <1>2 DEF PollDrops, vars, queueVars, ringVars, pumpVars, pollVars, lockVars, lossVars
  <2>1. UNCHANGED recordVars /\ UNCHANGED countVars
    BY DEF recordVars, countVars
  <2>2. Types'
    BY DEF Types, Buffers, Numbers, LostTotal, SeenAfter, recordVars, countVars, Reported
  <2>3. Locations' /\ Lock' /\ Hands'
    BY DEF Locations, Lock, Hands, CanRead
  <2>4. Sorted' /\ Counted'
    BY <2>1, SameRecords, SameCount
  <2>5. Reported'
    BY DEF Reported, LostTotal, SeenAfter, Types, Buffers, Numbers, Locations
  <2> QED BY <2>2, <2>3, <2>4, <2>5
<1>3. CASE ReportDrops
  <2> USE <1>3 DEF ReportDrops, vars, queueVars, ringVars, pumpVars, pollVars, lockVars, lossVars
  <2>1. UNCHANGED recordVars /\ UNCHANGED countVars
    BY DEF recordVars, countVars
  <2>2. Types'
    BY DEF Types, Buffers, Numbers, LostTotal, SeenAfter, recordVars, countVars, Reported
  <2>3. Locations' /\ Lock' /\ Hands'
    BY DEF Locations, Lock, Hands, CanRead
  <2>4. Sorted' /\ Counted'
    BY <2>1, SameRecords, SameCount
  <2>5. Reported'
    BY DEF Reported, LostTotal, SeenAfter, Types, Buffers, Numbers, Locations
  <2> QED BY <2>2, <2>3, <2>4, <2>5
<1>4. CASE PumpLock
  <2> USE <1>4 DEF PumpLock, vars, queueVars, ringVars, pumpVars, pollVars, lockVars, lossVars
  <2>1. UNCHANGED recordVars /\ UNCHANGED countVars
    BY DEF recordVars, countVars
  <2>2. Types'
    BY DEF Types, Buffers, Numbers, LostTotal, SeenAfter, recordVars, countVars, Reported
  <2>3. Locations' /\ Lock' /\ Hands'
    BY DEF Locations, Lock, Hands, CanRead
  <2>4. Sorted' /\ Counted'
    BY <2>1, SameRecords, SameCount
  <2>5. Reported'
    BY DEF Reported, LostTotal, SeenAfter, Types, Buffers, Numbers, Locations
  <2> QED BY <2>2, <2>3, <2>4, <2>5
<1>5. CASE PumpLoad
  <2> USE <1>5 DEF PumpLoad, vars, queueVars, ringVars, pumpVars, pollVars, lockVars, lossVars
  <2>1. UNCHANGED recordVars /\ UNCHANGED countVars
    BY DEF recordVars, countVars
  <2>2. Types'
    BY DEF Types, Buffers, Numbers, LostTotal, SeenAfter, recordVars, countVars, Reported
  <2>3. Locations' /\ Lock' /\ Hands'
    BY DEF Locations, Lock, Hands, CanRead
  <2>4. Sorted' /\ Counted'
    BY <2>1, SameRecords, SameCount
  <2>5. Reported'
    BY DEF Reported, LostTotal, SeenAfter, Types, Buffers, Numbers, Locations
  <2> QED BY <2>2, <2>3, <2>4, <2>5
<1>6. CASE PumpMark
  <2> USE <1>6 DEF PumpMark, vars, queueVars, ringVars, pumpVars, pollVars, lockVars, lossVars
  <2>1. UNCHANGED recordVars /\ UNCHANGED countVars
    BY DEF recordVars, countVars
  <2>2. Types'
    BY DEF Types, Buffers, Numbers, LostTotal, SeenAfter, recordVars, countVars, Reported
  <2>3. Locations' /\ Lock' /\ Hands'
    BY DEF Locations, Lock, Hands, CanRead
  <2>4. Sorted' /\ Counted'
    BY <2>1, SameRecords, SameCount
  <2>5. Reported'
    BY DEF Reported, LostTotal, SeenAfter, Types, Buffers, Numbers, Locations
  <2> QED BY <2>2, <2>3, <2>4, <2>5
<1>7. CASE PollWake
  <2> USE <1>7 DEF PollWake, vars, queueVars, ringVars, pumpVars, pollVars, lockVars, lossVars
  <2>1. UNCHANGED recordVars /\ UNCHANGED countVars
    BY DEF recordVars, countVars
  <2>2. Types'
    BY DEF Types, Buffers, Numbers, LostTotal, SeenAfter, recordVars, countVars, Reported
  <2>3. Locations' /\ Lock' /\ Hands'
    BY DEF Locations, Lock, Hands, CanRead
  <2>4. Sorted' /\ Counted'
    BY <2>1, SameRecords, SameCount
  <2>5. Reported'
    BY DEF Reported, LostTotal, SeenAfter, Types, Buffers, Numbers, Locations
  <2> QED BY <2>2, <2>3, <2>4, <2>5
<1>8. CASE PollLock
  <2> USE <1>8 DEF PollLock, vars, queueVars, ringVars, pumpVars, pollVars, lockVars, lossVars
  <2>1. UNCHANGED recordVars /\ UNCHANGED countVars
    BY DEF recordVars, countVars
  <2>2. Types'
    BY DEF Types, Buffers, Numbers, LostTotal, SeenAfter, recordVars, countVars, Reported
  <2>3. Locations' /\ Lock' /\ Hands'
    <3>1. Locations' /\ Hands'
      BY DEF Locations, Hands
    <3>2. CASE mode = "bundle"
      <4>1. readers' = {} /\ writeGuard' = "held" /\ mode' = "bundle"
        BY <3>2
      <4> QED BY <3>1, <4>1 DEF Lock
    <3>3. CASE mode = "status"
      <4>1. readers' = readers \cup {"poll"} /\ writeGuard' = "none" /\ mode' = "status"
        BY <3>3 DEF Lock
      <4> QED BY <3>1, <4>1 DEF Lock
    <3> QED BY <3>2, <3>3 DEF Locations
  <2>4. Sorted' /\ Counted'
    BY <2>1, SameRecords, SameCount
  <2>5. Reported'
    BY DEF Reported, LostTotal, SeenAfter, Types, Buffers, Numbers, Locations
  <2> QED BY <2>2, <2>3, <2>4, <2>5
<1>9. CASE PollLoad
  <2> USE <1>9 DEF PollLoad, vars, queueVars, ringVars, pumpVars, pollVars, lockVars, lossVars
  <2>1. UNCHANGED recordVars /\ UNCHANGED countVars
    BY DEF recordVars, countVars
  <2>2. Types'
    BY DEF Types, Buffers, Numbers, LostTotal, SeenAfter, recordVars, countVars, Reported
  <2>3. Locations' /\ Lock' /\ Hands'
    BY DEF Locations, Lock, Hands, CanRead
  <2>4. Sorted' /\ Counted'
    BY <2>1, SameRecords, SameCount
  <2>5. Reported'
    BY DEF Reported, LostTotal, SeenAfter, Types, Buffers, Numbers, Locations
  <2> QED BY <2>2, <2>3, <2>4, <2>5
<1>10. CASE PollMark
  <2> USE <1>10 DEF PollMark, vars, queueVars, ringVars, pumpVars, pollVars, lockVars, lossVars
  <2>1. UNCHANGED recordVars /\ UNCHANGED countVars
    BY DEF recordVars, countVars
  <2>2. Types'
    BY DEF Types, Buffers, Numbers, LostTotal, SeenAfter, recordVars, countVars, Reported
  <2>3. Locations' /\ Lock' /\ Hands'
    BY DEF Locations, Lock, Hands, CanRead
  <2>4. Sorted' /\ Counted'
    BY <2>1, SameRecords, SameCount
  <2>5. Reported'
    BY DEF Reported, LostTotal, SeenAfter, Types, Buffers, Numbers, Locations
  <2> QED BY <2>2, <2>3, <2>4, <2>5
<1>11. CASE PollCommit
  <2> USE <1>11 DEF PollCommit, vars, queueVars, ringVars, pumpVars, pollVars, lockVars, lossVars
  <2>1. UNCHANGED recordVars /\ UNCHANGED countVars
    BY DEF recordVars, countVars
  <2>2. Types'
    BY DEF Types, Buffers, Numbers, LostTotal, SeenAfter, recordVars, countVars, Reported
  <2>3. Locations' /\ Lock' /\ Hands'
    BY DEF Locations, Lock, Hands, CanRead
  <2>4. Sorted' /\ Counted'
    BY <2>1, SameRecords, SameCount
  <2>5. Reported'
    BY DEF Reported, LostTotal, SeenAfter, Types, Buffers, Numbers, Locations
  <2> QED BY <2>2, <2>3, <2>4, <2>5
<1>12. CASE FindsEmpty /\ UNCHANGED <<ringVars, chan, pumpVars, pollVars, lockVars, lossVars>>
  <2> USE <1>12 DEF FindsEmpty, vars, queueVars, ringVars, pumpVars, pollVars, lockVars, lossVars
  <2>1. UNCHANGED recordVars /\ UNCHANGED countVars
    BY DEF recordVars, countVars
  <2>2. Types'
    BY DEF Types, Buffers, Numbers, LostTotal, SeenAfter, recordVars, countVars, Reported
  <2>3. Locations' /\ Lock' /\ Hands'
    BY DEF Locations, Lock, Hands, CanRead
  <2>4. Sorted' /\ Counted'
    BY <2>1, SameRecords, SameCount
  <2>5. Reported'
    BY DEF Reported, LostTotal, SeenAfter, Types, Buffers, Numbers, Locations
  <2> QED BY <2>2, <2>3, <2>4, <2>5
<1>13. CASE ReadFlag /\ UNCHANGED <<ringVars, chan, pumpVars, pollVars, lockVars, lossVars>>
  <2> USE <1>13 DEF ReadFlag, vars, queueVars, ringVars, pumpVars, pollVars, lockVars, lossVars
  <2>1. UNCHANGED recordVars /\ UNCHANGED countVars
    BY DEF recordVars, countVars
  <2>2. Types'
    BY DEF Types, Buffers, Numbers, LostTotal, SeenAfter, recordVars, countVars, Reported
  <2>3. Locations' /\ Lock' /\ Hands'
    BY DEF Locations, Lock, Hands, CanRead
  <2>4. Sorted' /\ Counted'
    BY <2>1, SameRecords, SameCount
  <2>5. Reported'
    BY DEF Reported, LostTotal, SeenAfter, Types, Buffers, Numbers, Locations
  <2> QED BY <2>2, <2>3, <2>4, <2>5
<1>14. CASE Close /\ UNCHANGED <<ringVars, chan, pumpVars, pollVars, lockVars, lossVars>>
  <2> USE <1>14 DEF Close, vars, queueVars, ringVars, pumpVars, pollVars, lockVars, lossVars
  <2>1. UNCHANGED recordVars /\ UNCHANGED countVars
    BY DEF recordVars, countVars
  <2>2. Types'
    BY DEF Types, Buffers, Numbers, LostTotal, SeenAfter, recordVars, countVars, Reported
  <2>3. Locations' /\ Lock' /\ Hands'
    BY DEF Locations, Lock, Hands, CanRead
  <2>4. Sorted' /\ Counted'
    BY <2>1, SameRecords, SameCount
  <2>5. Reported'
    BY DEF Reported, LostTotal, SeenAfter, Types, Buffers, Numbers, Locations
  <2> QED BY <2>2, <2>3, <2>4, <2>5
<1>15. CASE Exit /\ UNCHANGED <<ringVars, chan, pumpVars, pollVars, lockVars, lossVars>>
  <2> USE <1>15 DEF Exit, vars, queueVars, ringVars, pumpVars, pollVars, lockVars, lossVars
  <2>1. UNCHANGED recordVars /\ UNCHANGED countVars
    BY DEF recordVars, countVars
  <2>2. Types'
    BY DEF Types, Buffers, Numbers, LostTotal, SeenAfter, recordVars, countVars, Reported
  <2>3. Locations' /\ Lock' /\ Hands'
    BY DEF Locations, Lock, Hands, CanRead
  <2>4. Sorted' /\ Counted'
    BY <2>1, SameRecords, SameCount
  <2>5. Reported'
    BY DEF Reported, LostTotal, SeenAfter, Types, Buffers, Numbers, Locations
  <2> QED BY <2>2, <2>3, <2>4, <2>5
<1>16. CASE UNCHANGED vars
  <2> USE <1>16 DEF vars, queueVars, ringVars, pumpVars, pollVars, lockVars, lossVars
  <2>1. UNCHANGED recordVars /\ UNCHANGED countVars
    BY DEF recordVars, countVars
  <2>2. Types'
    BY DEF Types, Buffers, Numbers, LostTotal, SeenAfter, recordVars, countVars, Reported
  <2>3. Locations' /\ Lock' /\ Hands'
    BY DEF Locations, Lock, Hands, CanRead
  <2>4. Sorted' /\ Counted'
    BY <2>1, SameRecords, SameCount
  <2>5. Reported'
    BY DEF Reported, LostTotal, SeenAfter, Types, Buffers, Numbers, Locations
  <2> QED BY <2>2, <2>3, <2>4, <2>5
<1> QED BY <1>1, <1>2, <1>3, <1>4, <1>5, <1>6, <1>7, <1>8, <1>9,
           <1>10, <1>11, <1>12, <1>13, <1>14, <1>15, <1>16 DEF PollStep

-----------------------------------------------------------------------------
(* Steps that move a record.                                               *)

\* A new record is larger than all before it.
LEMMA ProduceKept == ASSUME Inv, Produce, Len(kring) < RingCap PROVE Inv'
<1>1. /\ kring' \in Seq(Nat) /\ Len(kring') = Len(kring) + 1 /\ Increasing(kring')
      /\ ToSet(kring') = ToSet(kring) \cup {produced + 1}
  <2>1. /\ Below(ToSet(kring), {produced + 1}) /\ produced + 1 \in Nat /\ kring \in Seq(Nat)
        /\ Increasing(kring)
    BY DEF Inv, Sorted, InFlight, Below, Types, Numbers, Buffers
  <2>2. kring' = Append(kring, produced + 1)
    BY DEF Produce
  <2> QED BY <2>1, <2>2, PutLast
<1>2. /\ Len(kring) < RingCap /\ produced < MaxRecords /\ produced' = produced + 1
      /\ UNCHANGED <<queue, writer, writing, written, writeFailed, queueDropped, writerLost,
                     writerDead, stopping, watcher, abandoned, panics, kdropped, ringPc,
                     ringHand, recordsAlive, terminal, discarded, seenDrops, dropDelta,
                     agentDropped, chan, pumpPc, pumpHand, pumpLost, decodeFailed, stranded,
                     readers, writeGuard, mode, pollPc, pollLost, lostSeen, exportDead>>
  BY DEF Produce, Alive, queueVars, ringVars, pumpVars, pollVars, lockVars, lossVars
<1>3. Buffers'
  BY <1>1, <1>2, NoRecords, PipelineAssumption, QueueAssumption DEF Inv, Types, Buffers
<1>4. Numbers'
  BY <1>1, <1>2, PipelineAssumption, QueueAssumption DEF Inv, Types, Numbers
<1>5. Locations' /\ Lock' /\ Hands'
  BY <1>1, <1>2 DEF Inv, Locations, Lock, Hands
<1>6. Sorted'
  <2>1. ToSet(written) \cup InFlight \subseteq 1 .. produced /\ produced \in Nat
    BY DEF Inv, Sorted, Types, Numbers
  <2>2. InFlight' = InFlight \cup {produced + 1}
    BY <1>1, <1>2 DEF InFlight
  <2>3. (ToSet(written) \cup InFlight)' \subseteq 1 .. produced'
    BY <1>2, <2>1, <2>2
  <2>4. \A x \in ToSet(written) \cup InFlight : x < produced + 1
    BY <2>1
  <2> QED BY <1>1, <1>2, <2>3, <2>4 DEF Inv, Sorted, Ordered, Below, InFlight, InHand
<1>7. Counted'
  <2>1. /\ Len(kring') = Len(kring) + 1
    BY <1>1, <1>2, NoRecords DEF Inv, One, Hands
  <2>2. Types /\ Counted /\ Types'
    BY <1>3, <1>4 DEF Inv, Types
  <2>3. /\ One(writing) \in Nat /\ One(pumpHand) \in Nat /\ One(ringHand) \in Nat
        /\ Len(queue) \in Nat /\ Len(chan) \in Nat /\ Len(kring) \in Nat /\ Len(written) \in Nat
        /\ Exporting \in Nat /\ Arriving \in Nat /\ Losses \in Nat
    BY <2>2, Summands
  <2>4. InPath' = InPath + 1
    <3>1. Exporting' = Exporting
      BY <1>2, <2>1, <2>3 DEF Exporting
    <3>2. Arriving' = Arriving + 1
      BY <1>2, <2>1, <2>3 DEF Arriving
    <3> QED BY <3>1, <3>2, <2>3 DEF InPath
  <2>5. Losses' = Losses
    BY <1>2, <2>2, <2>3 DEF Losses, Types, Numbers
  <2>6. produced' = InPath' + Losses'
    BY <1>2, <2>2, <2>3, <2>4, <2>5 DEF Counted, InPath
  <2> QED BY <1>2, <2>2, <2>6 DEF Counted, Types, Numbers
<1>8. Reported'
  BY <1>2 DEF Inv, Reported, LostTotal, Types, Numbers, Locations
<1> QED BY <1>3, <1>4, <1>5, <1>6, <1>7, <1>8 DEF Inv, Types

\* A full ring counts a drop.
LEMMA ProduceDropped == ASSUME Inv, Produce, ~(Len(kring) < RingCap) PROVE Inv'
<1>2. /\ produced < MaxRecords /\ produced' = produced + 1 /\ kdropped' = kdropped + 1
      /\ UNCHANGED <<queue, writer, writing, written, writeFailed, queueDropped, writerLost,
                     writerDead, stopping, watcher, abandoned, panics, kring, ringPc, ringHand,
                     recordsAlive, terminal, discarded, seenDrops, dropDelta, agentDropped,
                     chan, pumpPc, pumpHand, pumpLost, decodeFailed, stranded, readers,
                     writeGuard, mode, pollPc, pollLost, lostSeen, exportDead>>
  BY DEF Produce, Alive, queueVars, ringVars, pumpVars, pollVars, lockVars, lossVars
<1>3. Buffers'
  BY <1>2, NoRecords, PipelineAssumption, QueueAssumption DEF Inv, Types, Buffers
<1>4. Numbers'
  BY <1>2, PipelineAssumption, QueueAssumption DEF Inv, Types, Numbers
<1>5. Locations' /\ Lock' /\ Hands'
  BY <1>2 DEF Inv, Locations, Lock, Hands
<1>6. Sorted'
  <2>1. ToSet(written) \cup InFlight \subseteq 1 .. produced /\ produced \in Nat
    BY DEF Inv, Sorted, Types, Numbers
  <2> QED BY <1>2, <2>1 DEF Inv, Sorted, Ordered, Below, InFlight, InHand
<1>7. Counted'
  <2>1. /\ Len(kring') = Len(kring)
    BY <1>2, NoRecords DEF Inv, One, Hands
  <2>2. Types /\ Counted /\ Types'
    BY <1>3, <1>4 DEF Inv, Types
  <2>3. /\ One(writing) \in Nat /\ One(pumpHand) \in Nat /\ One(ringHand) \in Nat
        /\ Len(queue) \in Nat /\ Len(chan) \in Nat /\ Len(kring) \in Nat /\ Len(written) \in Nat
        /\ Exporting \in Nat /\ Arriving \in Nat /\ Losses \in Nat
    BY <2>2, Summands
  <2>4. InPath' = InPath
    <3>1. Exporting' = Exporting
      BY <1>2, <2>1, <2>3 DEF Exporting
    <3>2. Arriving' = Arriving
      BY <1>2, <2>1, <2>3 DEF Arriving
    <3> QED BY <3>1, <3>2, <2>3 DEF InPath
  <2>5. Losses' = Losses + 1
    BY <1>2, <2>2, <2>3 DEF Losses, Types, Numbers
  <2>6. produced' = InPath' + Losses'
    BY <1>2, <2>2, <2>3, <2>4, <2>5 DEF Counted, InPath
  <2> QED BY <1>2, <2>2, <2>6 DEF Counted, Types, Numbers
<1>8. Reported'
  BY <1>2 DEF Inv, Reported, LostTotal, Types, Numbers, Locations
<1> QED BY <1>3, <1>4, <1>5, <1>6, <1>7, <1>8 DEF Inv, Types

\* drain: the oldest record of the ring goes to the ring thread ...
LEMMA TakeKept == ASSUME Inv, Take, recordsAlive = "yes" PROVE Inv'
<1>1. /\ kring' \in Seq(Nat) /\ Len(kring) = Len(kring') + 1 /\ Increasing(kring')
      /\ Head(kring) \in Nat /\ ToSet(kring) = {Head(kring)} \cup ToSet(kring')
      /\ Below({Head(kring)}, ToSet(kring')) /\ Head(kring) # 0
  <2>1. /\ kring \in Seq(Nat) /\ kring # <<>> /\ Increasing(kring)
        /\ Head(kring) = Head(kring) /\ kring' = Tail(kring)
    BY DEF Inv, Types, Buffers, Sorted, Take, GuardOverSend
  <2>2. /\ kring' \in Seq(Nat) /\ Len(kring) = Len(kring') + 1 /\ Increasing(kring')
        /\ Head(kring) \in Nat /\ ToSet(kring) = {Head(kring)} \cup ToSet(kring')
        /\ Below({Head(kring)}, ToSet(kring'))
    BY <2>1, TakeFirst
  <2>3. Head(kring) \in 1 .. produced
    BY <2>2 DEF Inv, Sorted, InFlight
  <2> QED BY <2>2, <2>3
<1>2. /\ ringPc = "drain" /\ ringHand' = Head(kring) /\ ringPc' = "send"
      /\ UNCHANGED <<queue, writer, writing, written, writeFailed, queueDropped, writerLost,
                     writerDead, stopping, watcher, abandoned, panics, produced, kdropped,
                     recordsAlive, terminal, discarded, seenDrops, dropDelta, agentDropped,
                     chan, pumpPc, pumpHand, pumpLost, decodeFailed, stranded, readers,
                     writeGuard, mode, pollPc, pollLost, lostSeen, exportDead>>
  BY DEF Take, GuardOverSend, queueVars, ringVars, pumpVars, pollVars, lockVars, lossVars
<1>3. Buffers'
  BY <1>1, <1>2, NoRecords, PipelineAssumption, QueueAssumption DEF Inv, Types, Buffers
<1>4. Numbers'
  BY <1>1, <1>2, PipelineAssumption, QueueAssumption DEF Inv, Types, Numbers
<1>5. Locations' /\ Lock' /\ Hands'
  BY <1>1, <1>2 DEF Inv, Locations, Lock, Hands
<1>6. Sorted'
  BY <1>1, <1>2, NoRecords DEF Inv, Sorted, Ordered, Below, InFlight, InHand, Types, Numbers, Hands
<1>7. Counted'
  <2>1. /\ Len(kring') = Len(kring) - 1
        /\ One(ringHand) = 0 /\ One(ringHand') = 1
    BY <1>1, <1>2, NoRecords DEF Inv, One, Hands
  <2>2. Types /\ Counted /\ Types'
    BY <1>3, <1>4 DEF Inv, Types
  <2>3. /\ One(writing) \in Nat /\ One(pumpHand) \in Nat /\ One(ringHand) \in Nat
        /\ Len(queue) \in Nat /\ Len(chan) \in Nat /\ Len(kring) \in Nat /\ Len(written) \in Nat
        /\ Exporting \in Nat /\ Arriving \in Nat /\ Losses \in Nat
    BY <2>2, Summands
  <2>4. InPath' = InPath
    <3>1. Exporting' = Exporting
      BY <1>2, <2>1, <2>3 DEF Exporting
    <3>2. Arriving' = Arriving
      BY <1>2, <2>1, <2>3 DEF Arriving
    <3> QED BY <3>1, <3>2, <2>3 DEF InPath
  <2>5. Losses' = Losses
    BY <1>2, <2>2, <2>3 DEF Losses, Types, Numbers
  <2>6. produced' = InPath' + Losses'
    BY <1>2, <2>2, <2>3, <2>4, <2>5 DEF Counted, InPath
  <2> QED BY <1>2, <2>2, <2>6 DEF Counted, Types, Numbers
<1>8. Reported'
  BY <1>2 DEF Inv, Reported, LostTotal, Types, Numbers, Locations
<1> QED BY <1>3, <1>4, <1>5, <1>6, <1>7, <1>8 DEF Inv, Types

\* ... or is thrown away, once the channel is known to be gone.
LEMMA TakeDiscarded == ASSUME Inv, Take, recordsAlive # "yes" PROVE Inv'
<1>1. /\ kring' \in Seq(Nat) /\ Len(kring) = Len(kring') + 1 /\ Increasing(kring')
      /\ Head(kring) \in Nat /\ ToSet(kring) = {Head(kring)} \cup ToSet(kring')
      /\ Below({Head(kring)}, ToSet(kring')) /\ Head(kring) # 0
  <2>1. /\ kring \in Seq(Nat) /\ kring # <<>> /\ Increasing(kring)
        /\ Head(kring) = Head(kring) /\ kring' = Tail(kring)
    BY DEF Inv, Types, Buffers, Sorted, Take, GuardOverSend
  <2>2. /\ kring' \in Seq(Nat) /\ Len(kring) = Len(kring') + 1 /\ Increasing(kring')
        /\ Head(kring) \in Nat /\ ToSet(kring) = {Head(kring)} \cup ToSet(kring')
        /\ Below({Head(kring)}, ToSet(kring'))
    BY <2>1, TakeFirst
  <2>3. Head(kring) \in 1 .. produced
    BY <2>2 DEF Inv, Sorted, InFlight
  <2> QED BY <2>2, <2>3
<1>2. /\ recordsAlive # "yes" /\ discarded' = discarded + 1
      /\ UNCHANGED <<queue, writer, writing, written, writeFailed, queueDropped, writerLost,
                     writerDead, stopping, watcher, abandoned, panics, produced, kdropped,
                     ringPc, ringHand, recordsAlive, terminal, seenDrops, dropDelta,
                     agentDropped, chan, pumpPc, pumpHand, pumpLost, decodeFailed, stranded,
                     readers, writeGuard, mode, pollPc, pollLost, lostSeen, exportDead>>
  BY DEF Take, GuardOverSend, queueVars, ringVars, pumpVars, pollVars, lockVars, lossVars
<1>3. Buffers'
  BY <1>1, <1>2, NoRecords, PipelineAssumption, QueueAssumption DEF Inv, Types, Buffers
<1>4. Numbers'
  BY <1>1, <1>2, PipelineAssumption, QueueAssumption DEF Inv, Types, Numbers
<1>5. Locations' /\ Lock' /\ Hands'
  BY <1>1, <1>2 DEF Inv, Locations, Lock, Hands
<1>6. Sorted'
  BY <1>1, <1>2, NoRecords DEF Inv, Sorted, Ordered, Below, InFlight, InHand, Types, Numbers, Hands
<1>7. Counted'
  <2>1. /\ Len(kring') = Len(kring) - 1
    BY <1>1, <1>2, NoRecords DEF Inv, One, Hands
  <2>2. Types /\ Counted /\ Types'
    BY <1>3, <1>4 DEF Inv, Types
  <2>3. /\ One(writing) \in Nat /\ One(pumpHand) \in Nat /\ One(ringHand) \in Nat
        /\ Len(queue) \in Nat /\ Len(chan) \in Nat /\ Len(kring) \in Nat /\ Len(written) \in Nat
        /\ Exporting \in Nat /\ Arriving \in Nat /\ Losses \in Nat
    BY <2>2, Summands
  <2>4. InPath' = InPath - 1
    <3>1. Exporting' = Exporting
      BY <1>2, <2>1, <2>3 DEF Exporting
    <3>2. Arriving' = Arriving - 1
      BY <1>2, <2>1, <2>3 DEF Arriving
    <3> QED BY <3>1, <3>2, <2>3 DEF InPath
  <2>5. Losses' = Losses + 1
    BY <1>2, <2>2, <2>3 DEF Losses, Types, Numbers
  <2>6. produced' = InPath' + Losses'
    BY <1>2, <2>2, <2>3, <2>4, <2>5 DEF Counted, InPath
  <2> QED BY <1>2, <2>2, <2>6 DEF Counted, Types, Numbers
<1>8. Reported'
  BY <1>2 DEF Inv, Reported, LostTotal, Types, Numbers, Locations
<1> QED BY <1>3, <1>4, <1>5, <1>6, <1>7, <1>8 DEF Inv, Types

\* The record goes to the end of the channel.
LEMMA SendKeeps == ASSUME Inv, Send PROVE Inv'
<1>1. /\ chan' \in Seq(Nat) /\ Len(chan') = Len(chan) + 1 /\ Increasing(chan')
      /\ ToSet(chan') = ToSet(chan) \cup {ringHand} /\ ringHand # 0
  <2>1. /\ chan \in Seq(Nat) /\ ringHand \in Nat /\ Increasing(chan) /\ ringHand # 0
        /\ chan' = Append(chan, ringHand)
    BY DEF Inv, Types, Buffers, Numbers, Sorted, Hands, Send, GuardOverSend
  <2>2. Below(ToSet(chan), {ringHand})
    BY <2>1 DEF Inv, Sorted, Ordered, InHand
  <2> QED BY <2>1, <2>2, PutLast
<1>2. /\ ringPc = "send" /\ pumpPc # "gone" /\ Len(chan) < ChanCap
      /\ ringHand' = 0 /\ ringPc' = "drain"
      /\ UNCHANGED <<queue, writer, writing, written, writeFailed, queueDropped, writerLost,
                     writerDead, stopping, watcher, abandoned, panics, produced, kring,
                     kdropped, recordsAlive, terminal, discarded, seenDrops, dropDelta,
                     agentDropped, pumpPc, pumpHand, pumpLost, decodeFailed, stranded, readers,
                     writeGuard, mode, pollPc, pollLost, lostSeen, exportDead>>
  BY DEF Send, GuardOverSend, queueVars, ringVars, pumpVars, pollVars, lockVars, lossVars
<1>3. Buffers'
  BY <1>1, <1>2, NoRecords, PipelineAssumption, QueueAssumption DEF Inv, Types, Buffers
<1>4. Numbers'
  BY <1>1, <1>2, PipelineAssumption, QueueAssumption DEF Inv, Types, Numbers
<1>5. Locations' /\ Lock' /\ Hands'
  BY <1>1, <1>2 DEF Inv, Locations, Lock, Hands
<1>6. Sorted'
  BY <1>1, <1>2, NoRecords DEF Inv, Sorted, Ordered, Below, InFlight, InHand, Types, Numbers, Hands
<1>7. Counted'
  <2>1. /\ Len(chan') = Len(chan) + 1
        /\ One(ringHand) = 1 /\ One(ringHand') = 0
    BY <1>1, <1>2, NoRecords DEF Inv, One, Hands
  <2>2. Types /\ Counted /\ Types'
    BY <1>3, <1>4 DEF Inv, Types
  <2>3. /\ One(writing) \in Nat /\ One(pumpHand) \in Nat /\ One(ringHand) \in Nat
        /\ Len(queue) \in Nat /\ Len(chan) \in Nat /\ Len(kring) \in Nat /\ Len(written) \in Nat
        /\ Exporting \in Nat /\ Arriving \in Nat /\ Losses \in Nat
    BY <2>2, Summands
  <2>4. InPath' = InPath
    <3>1. Exporting' = Exporting
      BY <1>2, <2>1, <2>3 DEF Exporting
    <3>2. Arriving' = Arriving
      BY <1>2, <2>1, <2>3 DEF Arriving
    <3> QED BY <3>1, <3>2, <2>3 DEF InPath
  <2>5. Losses' = Losses
    BY <1>2, <2>2, <2>3 DEF Losses, Types, Numbers
  <2>6. produced' = InPath' + Losses'
    BY <1>2, <2>2, <2>3, <2>4, <2>5 DEF Counted, InPath
  <2> QED BY <1>2, <2>2, <2>6 DEF Counted, Types, Numbers
<1>8. Reported'
  BY <1>2 DEF Inv, Reported, LostTotal, Types, Numbers, Locations
<1> QED BY <1>3, <1>4, <1>5, <1>6, <1>7, <1>8 DEF Inv, Types

\* With the pump gone the record is thrown away and the fault latched.
LEMMA ChannelGoneKeeps == ASSUME Inv, ChannelGone PROVE Inv'
<1>2. /\ ringPc = "send"
      /\ terminal' = "yes" /\ recordsAlive' = "no" /\ discarded' = discarded + 1
      /\ ringHand' = 0 /\ ringPc' = "drain"
      /\ UNCHANGED <<queue, writer, writing, written, writeFailed, queueDropped, writerLost,
                     writerDead, stopping, watcher, abandoned, panics, produced, kring,
                     kdropped, seenDrops, dropDelta, agentDropped, chan, pumpPc, pumpHand,
                     pumpLost, decodeFailed, stranded, readers, writeGuard, mode, pollPc,
                     pollLost, lostSeen, exportDead>>
  BY DEF ChannelGone, GuardOverSend, queueVars, ringVars, pumpVars, pollVars, lockVars, lossVars
<1>3. Buffers'
  BY <1>2, NoRecords, PipelineAssumption, QueueAssumption DEF Inv, Types, Buffers
<1>4. Numbers'
  BY <1>2, PipelineAssumption, QueueAssumption DEF Inv, Types, Numbers
<1>5. Locations' /\ Lock' /\ Hands'
  BY <1>2 DEF Inv, Locations, Lock, Hands
<1>6. Sorted'
  BY <1>2, NoRecords DEF Inv, Sorted, Ordered, Below, InFlight, InHand, Types, Numbers, Hands
<1>7. Counted'
  <2>1. /\ One(ringHand) = 1 /\ One(ringHand') = 0
    BY <1>2, NoRecords DEF Inv, One, Hands
  <2>2. Types /\ Counted /\ Types'
    BY <1>3, <1>4 DEF Inv, Types
  <2>3. /\ One(writing) \in Nat /\ One(pumpHand) \in Nat /\ One(ringHand) \in Nat
        /\ Len(queue) \in Nat /\ Len(chan) \in Nat /\ Len(kring) \in Nat /\ Len(written) \in Nat
        /\ Exporting \in Nat /\ Arriving \in Nat /\ Losses \in Nat
    BY <2>2, Summands
  <2>4. InPath' = InPath - 1
    <3>1. Exporting' = Exporting
      BY <1>2, <2>1, <2>3 DEF Exporting
    <3>2. Arriving' = Arriving - 1
      BY <1>2, <2>1, <2>3 DEF Arriving
    <3> QED BY <3>1, <3>2, <2>3 DEF InPath
  <2>5. Losses' = Losses + 1
    BY <1>2, <2>2, <2>3 DEF Losses, Types, Numbers
  <2>6. produced' = InPath' + Losses'
    BY <1>2, <2>2, <2>3, <2>4, <2>5 DEF Counted, InPath
  <2> QED BY <1>2, <2>2, <2>6 DEF Counted, Types, Numbers
<1>8. Reported'
  BY <1>2 DEF Inv, Reported, LostTotal, Types, Numbers, Locations
<1> QED BY <1>3, <1>4, <1>5, <1>6, <1>7, <1>8 DEF Inv, Types

\* The oldest record of the channel goes to the pump.
LEMMA PumpRecvKeeps == ASSUME Inv, PumpRecv PROVE Inv'
<1>1. /\ chan' \in Seq(Nat) /\ Len(chan) = Len(chan') + 1 /\ Increasing(chan')
      /\ pumpHand' \in Nat /\ ToSet(chan) = {pumpHand'} \cup ToSet(chan')
      /\ Below({pumpHand'}, ToSet(chan')) /\ pumpHand' # 0
  <2>1. /\ chan \in Seq(Nat) /\ chan # <<>> /\ Increasing(chan)
        /\ pumpHand' = Head(chan) /\ chan' = Tail(chan)
    BY DEF Inv, Types, Buffers, Sorted, PumpRecv
  <2>2. /\ chan' \in Seq(Nat) /\ Len(chan) = Len(chan') + 1 /\ Increasing(chan')
        /\ pumpHand' \in Nat /\ ToSet(chan) = {pumpHand'} \cup ToSet(chan')
        /\ Below({pumpHand'}, ToSet(chan'))
    BY <2>1, TakeFirst
  <2>3. pumpHand' \in 1 .. produced
    BY <2>2 DEF Inv, Sorted, InFlight
  <2> QED BY <2>2, <2>3
<1>2. /\ pumpPc = "recv" /\ pumpPc' = "lock"
      /\ UNCHANGED <<queue, writer, writing, written, writeFailed, queueDropped, writerLost,
                     writerDead, stopping, watcher, abandoned, panics, produced, kring,
                     kdropped, ringPc, ringHand, recordsAlive, terminal, discarded, seenDrops,
                     dropDelta, agentDropped, pumpLost, decodeFailed, stranded, readers,
                     writeGuard, mode, pollPc, pollLost, lostSeen, exportDead>>
  BY DEF PumpRecv, queueVars, ringVars, pumpVars, pollVars, lockVars, lossVars
<1>3. Buffers'
  BY <1>1, <1>2, NoRecords, PipelineAssumption, QueueAssumption DEF Inv, Types, Buffers
<1>4. Numbers'
  BY <1>1, <1>2, PipelineAssumption, QueueAssumption DEF Inv, Types, Numbers
<1>5. Locations' /\ Lock' /\ Hands'
  BY <1>1, <1>2 DEF Inv, Locations, Lock, Hands
<1>6. Sorted'
  BY <1>1, <1>2, NoRecords DEF Inv, Sorted, Ordered, Below, InFlight, InHand, Types, Numbers, Hands
<1>7. Counted'
  <2>1. /\ Len(chan') = Len(chan) - 1
        /\ One(pumpHand) = 0 /\ One(pumpHand') = 1
    BY <1>1, <1>2, NoRecords DEF Inv, One, Hands
  <2>2. Types /\ Counted /\ Types'
    BY <1>3, <1>4 DEF Inv, Types
  <2>3. /\ One(writing) \in Nat /\ One(pumpHand) \in Nat /\ One(ringHand) \in Nat
        /\ Len(queue) \in Nat /\ Len(chan) \in Nat /\ Len(kring) \in Nat /\ Len(written) \in Nat
        /\ Exporting \in Nat /\ Arriving \in Nat /\ Losses \in Nat
    BY <2>2, Summands
  <2>4. InPath' = InPath
    <3>1. Exporting' = Exporting
      BY <1>2, <2>1, <2>3 DEF Exporting
    <3>2. Arriving' = Arriving
      BY <1>2, <2>1, <2>3 DEF Arriving
    <3> QED BY <3>1, <3>2, <2>3 DEF InPath
  <2>5. Losses' = Losses
    BY <1>2, <2>2, <2>3 DEF Losses, Types, Numbers
  <2>6. produced' = InPath' + Losses'
    BY <1>2, <2>2, <2>3, <2>4, <2>5 DEF Counted, InPath
  <2> QED BY <1>2, <2>2, <2>6 DEF Counted, Types, Numbers
<1>8. Reported'
  BY <1>2 DEF Inv, Reported, LostTotal, Types, Numbers, Locations
<1> QED BY <1>3, <1>4, <1>5, <1>6, <1>7, <1>8 DEF Inv, Types

\* The decoder refuses the record.
LEMMA HandleRefused ==
  ASSUME Inv,
         pumpPc = "handle" /\ pumpHand' = 0,
         pumpPc' = "recv" /\ decodeFailed' = decodeFailed + 1,
         terminal' \in {terminal, "yes"} /\ readers' = readers \ {"pump"},
         UNCHANGED <<queue, writer, writing, written, writeFailed, queueDropped, writerLost,
                     writerDead, stopping, watcher, abandoned, panics, produced, kring,
                     kdropped, ringPc, ringHand, recordsAlive, discarded, seenDrops, dropDelta,
                     agentDropped, chan, pumpLost, stranded, writeGuard, mode, pollPc, pollLost,
                     lostSeen, exportDead>>
  PROVE  Inv'
<1>2. /\ pumpPc = "handle" /\ pumpHand' = 0
      /\ pumpPc' = "recv" /\ decodeFailed' = decodeFailed + 1
      /\ terminal' \in {terminal, "yes"} /\ readers' = readers \ {"pump"}
      /\ UNCHANGED <<queue, writer, writing, written, writeFailed, queueDropped, writerLost,
                     writerDead, stopping, watcher, abandoned, panics, produced, kring,
                     kdropped, ringPc, ringHand, recordsAlive, discarded, seenDrops, dropDelta,
                     agentDropped, chan, pumpLost, stranded, writeGuard, mode, pollPc, pollLost,
                     lostSeen, exportDead>>
  OBVIOUS
<1>3. Buffers'
  BY <1>2, NoRecords, PipelineAssumption, QueueAssumption DEF Inv, Types, Buffers
<1>4. Numbers'
  BY <1>2, PipelineAssumption, QueueAssumption DEF Inv, Types, Numbers
<1>5. Locations' /\ Lock' /\ Hands'
  BY <1>2 DEF Inv, Locations, Lock, Hands
<1>6. Sorted'
  BY <1>2, NoRecords DEF Inv, Sorted, Ordered, Below, InFlight, InHand, Types, Numbers, Hands
<1>7. Counted'
  <2>1. /\ One(pumpHand) = 1 /\ One(pumpHand') = 0
    BY <1>2, NoRecords DEF Inv, One, Hands
  <2>2. Types /\ Counted /\ Types'
    BY <1>3, <1>4 DEF Inv, Types
  <2>3. /\ One(writing) \in Nat /\ One(pumpHand) \in Nat /\ One(ringHand) \in Nat
        /\ Len(queue) \in Nat /\ Len(chan) \in Nat /\ Len(kring) \in Nat /\ Len(written) \in Nat
        /\ Exporting \in Nat /\ Arriving \in Nat /\ Losses \in Nat
    BY <2>2, Summands
  <2>4. InPath' = InPath - 1
    <3>1. Exporting' = Exporting
      BY <1>2, <2>1, <2>3 DEF Exporting
    <3>2. Arriving' = Arriving - 1
      BY <1>2, <2>1, <2>3 DEF Arriving
    <3> QED BY <3>1, <3>2, <2>3 DEF InPath
  <2>5. Losses' = Losses + 1
    BY <1>2, <2>2, <2>3 DEF Losses, Types, Numbers
  <2>6. produced' = InPath' + Losses'
    BY SMTT(30), <1>2, <2>2, <2>3, <2>4, <2>5 DEF Counted, InPath
  <2> QED BY <1>2, <2>2, <2>6 DEF Counted, Types, Numbers
<1>8. Reported'
  BY <1>2 DEF Inv, Reported, LostTotal, Types, Numbers, Locations
<1> QED BY <1>3, <1>4, <1>5, <1>6, <1>7, <1>8 DEF Inv, Types

\* emit: the event goes to the end of the queue ...
LEMMA HandleQueued ==
  ASSUME Inv,
         pumpPc = "handle" /\ pumpHand' = 0,
         pumpPc' = "load" /\ writer # "gone",
         Len(queue) < QueueCap /\ queue' = Append(queue, pumpHand),
         UNCHANGED <<writer, writing, written, writeFailed, queueDropped, writerLost,
                     writerDead, stopping, watcher, abandoned, panics, produced, kring,
                     kdropped, ringPc, ringHand, recordsAlive, terminal, discarded, seenDrops,
                     dropDelta, agentDropped, chan, pumpLost, decodeFailed, stranded, readers,
                     writeGuard, mode, pollPc, pollLost, lostSeen, exportDead>>
  PROVE  Inv'
<1>1. /\ queue' \in Seq(Nat) /\ Len(queue') = Len(queue) + 1 /\ Increasing(queue')
      /\ ToSet(queue') = ToSet(queue) \cup {pumpHand} /\ pumpHand # 0
  <2>1. /\ queue \in Seq(Nat) /\ pumpHand \in Nat /\ Increasing(queue) /\ pumpHand # 0
        /\ queue' = Append(queue, pumpHand)
    BY DEF Inv, Types, Buffers, Numbers, Sorted, Hands
  <2>2. Below(ToSet(queue), {pumpHand})
    BY <2>1 DEF Inv, Sorted, Ordered, InHand
  <2> QED BY <2>1, <2>2, PutLast
<1>2. /\ pumpPc = "handle" /\ pumpHand' = 0
      /\ pumpPc' = "load" /\ writer # "gone"
      /\ Len(queue) < QueueCap /\ queue' = Append(queue, pumpHand)
      /\ UNCHANGED <<writer, writing, written, writeFailed, queueDropped, writerLost,
                     writerDead, stopping, watcher, abandoned, panics, produced, kring,
                     kdropped, ringPc, ringHand, recordsAlive, terminal, discarded, seenDrops,
                     dropDelta, agentDropped, chan, pumpLost, decodeFailed, stranded, readers,
                     writeGuard, mode, pollPc, pollLost, lostSeen, exportDead>>
  OBVIOUS
<1>3. Buffers'
  BY <1>1, <1>2, NoRecords, PipelineAssumption, QueueAssumption DEF Inv, Types, Buffers
<1>4. Numbers'
  BY <1>1, <1>2, PipelineAssumption, QueueAssumption DEF Inv, Types, Numbers
<1>5. Locations' /\ Lock' /\ Hands'
  BY <1>1, <1>2 DEF Inv, Locations, Lock, Hands
<1>6. Sorted'
  BY <1>1, <1>2, NoRecords DEF Inv, Sorted, Ordered, Below, InFlight, InHand, Types, Numbers, Hands
<1>7. Counted'
  <2>1. /\ Len(queue') = Len(queue) + 1
        /\ One(pumpHand) = 1 /\ One(pumpHand') = 0
    BY <1>1, <1>2, NoRecords DEF Inv, One, Hands
  <2>2. Types /\ Counted /\ Types'
    BY <1>3, <1>4 DEF Inv, Types
  <2>3. /\ One(writing) \in Nat /\ One(pumpHand) \in Nat /\ One(ringHand) \in Nat
        /\ Len(queue) \in Nat /\ Len(chan) \in Nat /\ Len(kring) \in Nat /\ Len(written) \in Nat
        /\ Exporting \in Nat /\ Arriving \in Nat /\ Losses \in Nat
    BY <2>2, Summands
  <2>4. InPath' = InPath
    <3>1. Exporting' = Exporting + 1
      BY <1>2, <2>1, <2>3 DEF Exporting
    <3>2. Arriving' = Arriving - 1
      BY <1>2, <2>1, <2>3 DEF Arriving
    <3> QED BY <3>1, <3>2, <2>3 DEF InPath
  <2>5. Losses' = Losses
    BY <1>2, <2>2, <2>3 DEF Losses, Types, Numbers
  <2>6. produced' = InPath' + Losses'
    BY <1>2, <2>2, <2>3, <2>4, <2>5 DEF Counted, InPath
  <2> QED BY <1>2, <2>2, <2>6 DEF Counted, Types, Numbers
<1>8. Reported'
  BY <1>2 DEF Inv, Reported, LostTotal, Types, Numbers, Locations
<1> QED BY <1>3, <1>4, <1>5, <1>6, <1>7, <1>8 DEF Inv, Types

\* ... or finds it full ...
LEMMA HandleDropped ==
  ASSUME Inv,
         pumpPc = "handle" /\ pumpHand' = 0,
         pumpPc' = "load" /\ writer # "gone" /\ queueDropped' = queueDropped + 1,
         UNCHANGED <<queue, writer, writing, written, writeFailed, writerLost, writerDead,
                     stopping, watcher, abandoned, panics, produced, kring, kdropped, ringPc,
                     ringHand, recordsAlive, terminal, discarded, seenDrops, dropDelta,
                     agentDropped, chan, pumpLost, decodeFailed, stranded, readers, writeGuard,
                     mode, pollPc, pollLost, lostSeen, exportDead>>
  PROVE  Inv'
<1>2. /\ pumpPc = "handle" /\ pumpHand' = 0
      /\ pumpPc' = "load" /\ writer # "gone" /\ queueDropped' = queueDropped + 1
      /\ UNCHANGED <<queue, writer, writing, written, writeFailed, writerLost, writerDead,
                     stopping, watcher, abandoned, panics, produced, kring, kdropped, ringPc,
                     ringHand, recordsAlive, terminal, discarded, seenDrops, dropDelta,
                     agentDropped, chan, pumpLost, decodeFailed, stranded, readers, writeGuard,
                     mode, pollPc, pollLost, lostSeen, exportDead>>
  OBVIOUS
<1>3. Buffers'
  BY <1>2, NoRecords, PipelineAssumption, QueueAssumption DEF Inv, Types, Buffers
<1>4. Numbers'
  BY <1>2, PipelineAssumption, QueueAssumption DEF Inv, Types, Numbers
<1>5. Locations' /\ Lock' /\ Hands'
  BY <1>2 DEF Inv, Locations, Lock, Hands
<1>6. Sorted'
  BY <1>2, NoRecords DEF Inv, Sorted, Ordered, Below, InFlight, InHand, Types, Numbers, Hands
<1>7. Counted'
  <2>1. /\ One(pumpHand) = 1 /\ One(pumpHand') = 0
    BY <1>2, NoRecords DEF Inv, One, Hands
  <2>2. Types /\ Counted /\ Types'
    BY <1>3, <1>4 DEF Inv, Types
  <2>3. /\ One(writing) \in Nat /\ One(pumpHand) \in Nat /\ One(ringHand) \in Nat
        /\ Len(queue) \in Nat /\ Len(chan) \in Nat /\ Len(kring) \in Nat /\ Len(written) \in Nat
        /\ Exporting \in Nat /\ Arriving \in Nat /\ Losses \in Nat
    BY <2>2, Summands
  <2>4. InPath' = InPath - 1
    <3>1. Exporting' = Exporting
      BY <1>2, <2>1, <2>3 DEF Exporting
    <3>2. Arriving' = Arriving - 1
      BY <1>2, <2>1, <2>3 DEF Arriving
    <3> QED BY <3>1, <3>2, <2>3 DEF InPath
  <2>5. Losses' = Losses + 1
    BY <1>2, <2>2, <2>3 DEF Losses, Types, Numbers
  <2>6. produced' = InPath' + Losses'
    BY <1>2, <2>2, <2>3, <2>4, <2>5 DEF Counted, InPath
  <2> QED BY <1>2, <2>2, <2>6 DEF Counted, Types, Numbers
<1>8. Reported'
  BY <1>2 DEF Inv, Reported, LostTotal, Types, Numbers, Locations
<1> QED BY <1>3, <1>4, <1>5, <1>6, <1>7, <1>8 DEF Inv, Types

\* ... or finds the writer gone.
LEMMA HandleLost ==
  ASSUME Inv,
         pumpPc = "handle" /\ pumpHand' = 0,
         pumpPc' = "load" /\ writer = "gone",
         writerLost' = writerLost + 1 /\ writerDead' = "yes",
         UNCHANGED <<queue, writer, writing, written, writeFailed, queueDropped, stopping,
                     watcher, abandoned, panics, produced, kring, kdropped, ringPc, ringHand,
                     recordsAlive, terminal, discarded, seenDrops, dropDelta, agentDropped,
                     chan, pumpLost, decodeFailed, stranded, readers, writeGuard, mode, pollPc,
                     pollLost, lostSeen, exportDead>>
  PROVE  Inv'
<1>2. /\ pumpPc = "handle" /\ pumpHand' = 0
      /\ pumpPc' = "load" /\ writer = "gone"
      /\ writerLost' = writerLost + 1 /\ writerDead' = "yes"
      /\ UNCHANGED <<queue, writer, writing, written, writeFailed, queueDropped, stopping,
                     watcher, abandoned, panics, produced, kring, kdropped, ringPc, ringHand,
                     recordsAlive, terminal, discarded, seenDrops, dropDelta, agentDropped,
                     chan, pumpLost, decodeFailed, stranded, readers, writeGuard, mode, pollPc,
                     pollLost, lostSeen, exportDead>>
  OBVIOUS
<1>3. Buffers'
  BY <1>2, NoRecords, PipelineAssumption, QueueAssumption DEF Inv, Types, Buffers
<1>4. Numbers'
  BY <1>2, PipelineAssumption, QueueAssumption DEF Inv, Types, Numbers
<1>5. Locations' /\ Lock' /\ Hands'
  BY <1>2 DEF Inv, Locations, Lock, Hands
<1>6. Sorted'
  BY <1>2, NoRecords DEF Inv, Sorted, Ordered, Below, InFlight, InHand, Types, Numbers, Hands
<1>7. Counted'
  <2>1. /\ One(pumpHand) = 1 /\ One(pumpHand') = 0
    BY <1>2, NoRecords DEF Inv, One, Hands
  <2>2. Types /\ Counted /\ Types'
    BY <1>3, <1>4 DEF Inv, Types
  <2>3. /\ One(writing) \in Nat /\ One(pumpHand) \in Nat /\ One(ringHand) \in Nat
        /\ Len(queue) \in Nat /\ Len(chan) \in Nat /\ Len(kring) \in Nat /\ Len(written) \in Nat
        /\ Exporting \in Nat /\ Arriving \in Nat /\ Losses \in Nat
    BY <2>2, Summands
  <2>4. InPath' = InPath - 1
    <3>1. Exporting' = Exporting
      BY <1>2, <2>1, <2>3 DEF Exporting
    <3>2. Arriving' = Arriving - 1
      BY <1>2, <2>1, <2>3 DEF Arriving
    <3> QED BY <3>1, <3>2, <2>3 DEF InPath
  <2>5. Losses' = Losses + 1
    BY <1>2, <2>2, <2>3 DEF Losses, Types, Numbers
  <2>6. produced' = InPath' + Losses'
    BY <1>2, <2>2, <2>3, <2>4, <2>5 DEF Counted, InPath
  <2> QED BY <1>2, <2>2, <2>6 DEF Counted, Types, Numbers
<1>8. Reported'
  BY <1>2 DEF Inv, Reported, LostTotal, Types, Numbers, Locations
<1> QED BY <1>3, <1>4, <1>5, <1>6, <1>7, <1>8 DEF Inv, Types

\* The four ends of one record in the hands of the pump.
LEMMA PumpHandleKeeps == ASSUME Inv, PumpHandle PROVE Inv'
<1> USE DEF PumpHandle, queueVars, ringVars, pumpVars, pollVars, lockVars, lossVars
<1>1. CASE /\ decodeFailed' = decodeFailed + 1 /\ terminal' \in {terminal, "yes"}
           /\ readers' = readers \ {"pump"} /\ pumpPc' = "recv" /\ UNCHANGED queueVars
  BY <1>1, HandleRefused
<1>2. CASE /\ Emit(pumpHand) /\ pumpPc' = "load"
           /\ UNCHANGED <<decodeFailed, terminal, readers, writer, writing, written, writeFailed,
                          stopping, watcher, abandoned, panics>>
  <2>1. CASE writer # "gone" /\ Len(queue) < QueueCap /\ queue' = Append(queue, pumpHand)
               /\ UNCHANGED <<queueDropped, writerLost, writerDead>>
    BY <1>2, <2>1, HandleQueued
  <2>2. CASE writer # "gone" /\ queueDropped' = queueDropped + 1
               /\ UNCHANGED <<queue, writerLost, writerDead>>
    BY <1>2, <2>2, HandleDropped
  <2>3. CASE writer = "gone" /\ writerLost' = writerLost + 1 /\ writerDead' = "yes"
               /\ UNCHANGED <<queue, queueDropped>>
    BY <1>2, <2>3, HandleLost
  <2> QED BY <1>2, <2>1, <2>2, <2>3 DEF Emit
<1> QED BY <1>1, <1>2

\* A panic of the pump takes its record and the channel with it.
LEMMA PumpPanicsKeeps == ASSUME Inv, PumpPanics PROVE Inv'
<1>2. /\ pumpPc = "handle" /\ pumpPc' = "gone" /\ pumpHand' = 0 /\ chan' = <<>>
      /\ stranded' = stranded + 1 + Len(chan) /\ readers' = readers \ {"pump"}
      /\ panics < MaxPanics /\ panics' = panics + 1
      /\ UNCHANGED <<queue, writer, writing, written, writeFailed, queueDropped, writerLost,
                     writerDead, stopping, watcher, abandoned, produced, kring, kdropped,
                     ringPc, ringHand, recordsAlive, terminal, discarded, seenDrops, dropDelta,
                     agentDropped, pumpLost, decodeFailed, writeGuard, mode, pollPc, pollLost,
                     lostSeen, exportDead>>
  BY DEF PumpPanics, queueVars, ringVars, pumpVars, pollVars, lockVars, lossVars
<1>3. Buffers'
  BY <1>2, NoRecords, PipelineAssumption, QueueAssumption DEF Inv, Types, Buffers
<1>4. Numbers'
  BY <1>2, PipelineAssumption, QueueAssumption DEF Inv, Types, Numbers
<1>5. Locations' /\ Lock' /\ Hands'
  BY <1>2 DEF Inv, Locations, Lock, Hands
<1>6. Sorted'
  BY <1>2, NoRecords DEF Inv, Sorted, Ordered, Below, InFlight, InHand, Types, Numbers, Hands
<1>7. Counted'
  <2>1. /\ Len(chan') = 0
        /\ One(pumpHand) = 1 /\ One(pumpHand') = 0
    BY <1>2, NoRecords DEF Inv, One, Hands
  <2>2. Types /\ Counted /\ Types'
    BY <1>3, <1>4 DEF Inv, Types
  <2>3. /\ One(writing) \in Nat /\ One(pumpHand) \in Nat /\ One(ringHand) \in Nat
        /\ Len(queue) \in Nat /\ Len(chan) \in Nat /\ Len(kring) \in Nat /\ Len(written) \in Nat
        /\ Exporting \in Nat /\ Arriving \in Nat /\ Losses \in Nat
    BY <2>2, Summands
  <2>4. InPath' = InPath - 1 - Len(chan)
    <3>1. Exporting' = Exporting
      BY <1>2, <2>1, <2>3 DEF Exporting
    <3>2. Arriving' = Arriving - 1 - Len(chan)
      BY <1>2, <2>1, <2>3 DEF Arriving
    <3> QED BY <3>1, <3>2, <2>3 DEF InPath
  <2>5. Losses' = Losses + 1 + Len(chan)
    BY <1>2, <2>2, <2>3 DEF Losses, Types, Numbers
  <2>6. produced' = InPath' + Losses'
    BY <1>2, <2>2, <2>3, <2>4, <2>5 DEF Counted, InPath
  <2> QED BY <1>2, <2>2, <2>6 DEF Counted, Types, Numbers
<1>8. Reported'
  BY <1>2 DEF Inv, Reported, LostTotal, Types, Numbers, Locations
<1> QED BY <1>3, <1>4, <1>5, <1>6, <1>7, <1>8 DEF Inv, Types

\* The oldest event of the queue goes to the writer.
LEMMA ReceiveKeeps ==
  ASSUME Inv, Receive,
         UNCHANGED <<ringVars, chan, pumpVars, pollVars, lockVars, lossVars>>
  PROVE Inv'
<1>1. /\ queue' \in Seq(Nat) /\ Len(queue) = Len(queue') + 1 /\ Increasing(queue')
      /\ writing' \in Nat /\ ToSet(queue) = {writing'} \cup ToSet(queue')
      /\ Below({writing'}, ToSet(queue')) /\ writing' # 0
  <2>1. /\ queue \in Seq(Nat) /\ queue # <<>> /\ Increasing(queue)
        /\ writing' = Head(queue) /\ queue' = Tail(queue)
    BY DEF Inv, Types, Buffers, Sorted, Receive
  <2>2. /\ queue' \in Seq(Nat) /\ Len(queue) = Len(queue') + 1 /\ Increasing(queue')
        /\ writing' \in Nat /\ ToSet(queue) = {writing'} \cup ToSet(queue')
        /\ Below({writing'}, ToSet(queue'))
    BY <2>1, TakeFirst
  <2>3. writing' \in 1 .. produced
    BY <2>2 DEF Inv, Sorted, InFlight
  <2> QED BY <2>2, <2>3
<1>2. /\ writer \in {"recv", "drain"}
      /\ writer' = IF writer = "recv" THEN "emit" ELSE "drainEmit"
      /\ UNCHANGED <<written, writeFailed, queueDropped, writerLost, writerDead, stopping,
                     watcher, abandoned, panics, produced, kring, kdropped, ringPc, ringHand,
                     recordsAlive, terminal, discarded, seenDrops, dropDelta, agentDropped,
                     chan, pumpPc, pumpHand, pumpLost, decodeFailed, stranded, readers,
                     writeGuard, mode, pollPc, pollLost, lostSeen, exportDead>>
  BY DEF Receive, queueVars, ringVars, pumpVars, pollVars, lockVars, lossVars
<1>3. Buffers'
  BY <1>1, <1>2, NoRecords, PipelineAssumption, QueueAssumption DEF Inv, Types, Buffers
<1>4. Numbers'
  BY <1>1, <1>2, PipelineAssumption, QueueAssumption DEF Inv, Types, Numbers
<1>5. Locations' /\ Lock' /\ Hands'
  BY <1>1, <1>2 DEF Inv, Locations, Lock, Hands
<1>6. Sorted'
  BY <1>1, <1>2, NoRecords DEF Inv, Sorted, Ordered, Below, InFlight, InHand, Types, Numbers, Hands
<1>7. Counted'
  <2>1. /\ Len(queue') = Len(queue) - 1
        /\ One(writing) = 0 /\ One(writing') = 1
    BY <1>1, <1>2, NoRecords DEF Inv, One, Hands
  <2>2. Types /\ Counted /\ Types'
    BY <1>3, <1>4 DEF Inv, Types
  <2>3. /\ One(writing) \in Nat /\ One(pumpHand) \in Nat /\ One(ringHand) \in Nat
        /\ Len(queue) \in Nat /\ Len(chan) \in Nat /\ Len(kring) \in Nat /\ Len(written) \in Nat
        /\ Exporting \in Nat /\ Arriving \in Nat /\ Losses \in Nat
    BY <2>2, Summands
  <2>4. InPath' = InPath
    <3>1. Exporting' = Exporting
      BY <1>2, <2>1, <2>3 DEF Exporting
    <3>2. Arriving' = Arriving
      BY <1>2, <2>1, <2>3 DEF Arriving
    <3> QED BY <3>1, <3>2, <2>3 DEF InPath
  <2>5. Losses' = Losses
    BY <1>2, <2>2, <2>3 DEF Losses, Types, Numbers
  <2>6. produced' = InPath' + Losses'
    BY <1>2, <2>2, <2>3, <2>4, <2>5 DEF Counted, InPath
  <2> QED BY <1>2, <2>2, <2>6 DEF Counted, Types, Numbers
<1>8. Reported'
  BY <1>2 DEF Inv, Reported, LostTotal, Types, Numbers, Locations
<1> QED BY <1>3, <1>4, <1>5, <1>6, <1>7, <1>8 DEF Inv, Types

\* The event is written ...
LEMMA WriteDone ==
  ASSUME Inv,
         writer \in {"emit", "drainEmit"} /\ writing' = 0,
         writer' = IF writer = "emit" THEN "recv" ELSE "drain",
         written' = Append(written, writing),
         UNCHANGED <<queue, writeFailed, queueDropped, writerLost, writerDead, stopping,
                     watcher, abandoned, panics, produced, kring, kdropped, ringPc, ringHand,
                     recordsAlive, terminal, discarded, seenDrops, dropDelta, agentDropped,
                     chan, pumpPc, pumpHand, pumpLost, decodeFailed, stranded, readers,
                     writeGuard, mode, pollPc, pollLost, lostSeen, exportDead>>
  PROVE  Inv'
<1>1. /\ written' \in Seq(Nat) /\ Len(written') = Len(written) + 1 /\ Increasing(written')
      /\ ToSet(written') = ToSet(written) \cup {writing} /\ writing # 0
  <2>1. /\ written \in Seq(Nat) /\ writing \in Nat /\ Increasing(written) /\ writing # 0
        /\ written' = Append(written, writing)
    BY DEF Inv, Types, Buffers, Numbers, Sorted, Hands
  <2>2. Below(ToSet(written), {writing})
    BY <2>1 DEF Inv, Sorted, Ordered, InHand
  <2> QED BY <2>1, <2>2, PutLast
<1>2. /\ writer \in {"emit", "drainEmit"} /\ writing' = 0
      /\ writer' = IF writer = "emit" THEN "recv" ELSE "drain"
      /\ written' = Append(written, writing)
      /\ UNCHANGED <<queue, writeFailed, queueDropped, writerLost, writerDead, stopping,
                     watcher, abandoned, panics, produced, kring, kdropped, ringPc, ringHand,
                     recordsAlive, terminal, discarded, seenDrops, dropDelta, agentDropped,
                     chan, pumpPc, pumpHand, pumpLost, decodeFailed, stranded, readers,
                     writeGuard, mode, pollPc, pollLost, lostSeen, exportDead>>
  OBVIOUS
<1>3. Buffers'
  BY <1>1, <1>2, NoRecords, PipelineAssumption, QueueAssumption DEF Inv, Types, Buffers
<1>4. Numbers'
  BY <1>1, <1>2, PipelineAssumption, QueueAssumption DEF Inv, Types, Numbers
<1>5. Locations' /\ Lock' /\ Hands'
  BY <1>1, <1>2 DEF Inv, Locations, Lock, Hands
<1>6. Sorted'
  BY <1>1, <1>2, NoRecords DEF Inv, Sorted, Ordered, Below, InFlight, InHand, Types, Numbers, Hands
<1>7. Counted'
  <2>1. /\ Len(written') = Len(written) + 1
        /\ One(writing) = 1 /\ One(writing') = 0
    BY <1>1, <1>2, NoRecords DEF Inv, One, Hands
  <2>2. Types /\ Counted /\ Types'
    BY <1>3, <1>4 DEF Inv, Types
  <2>3. /\ One(writing) \in Nat /\ One(pumpHand) \in Nat /\ One(ringHand) \in Nat
        /\ Len(queue) \in Nat /\ Len(chan) \in Nat /\ Len(kring) \in Nat /\ Len(written) \in Nat
        /\ Exporting \in Nat /\ Arriving \in Nat /\ Losses \in Nat
    BY <2>2, Summands
  <2>4. InPath' = InPath
    <3>1. Exporting' = Exporting
      BY <1>2, <2>1, <2>3 DEF Exporting
    <3>2. Arriving' = Arriving
      BY <1>2, <2>1, <2>3 DEF Arriving
    <3> QED BY <3>1, <3>2, <2>3 DEF InPath
  <2>5. Losses' = Losses
    BY <1>2, <2>2, <2>3 DEF Losses, Types, Numbers
  <2>6. produced' = InPath' + Losses'
    BY <1>2, <2>2, <2>3, <2>4, <2>5 DEF Counted, InPath
  <2> QED BY <1>2, <2>2, <2>6 DEF Counted, Types, Numbers
<1>8. Reported'
  BY <1>2 DEF Inv, Reported, LostTotal, Types, Numbers, Locations
<1> QED BY <1>3, <1>4, <1>5, <1>6, <1>7, <1>8 DEF Inv, Types

\* ... or the sink fails, and counts it.
LEMMA WriteFailed ==
  ASSUME Inv,
         writer \in {"emit", "drainEmit"} /\ writing' = 0,
         writer' = IF writer = "emit" THEN "recv" ELSE "drain",
         writeFailed' = writeFailed + 1,
         UNCHANGED <<queue, written, queueDropped, writerLost, writerDead, stopping, watcher,
                     abandoned, panics, produced, kring, kdropped, ringPc, ringHand,
                     recordsAlive, terminal, discarded, seenDrops, dropDelta, agentDropped,
                     chan, pumpPc, pumpHand, pumpLost, decodeFailed, stranded, readers,
                     writeGuard, mode, pollPc, pollLost, lostSeen, exportDead>>
  PROVE  Inv'
<1>2. /\ writer \in {"emit", "drainEmit"} /\ writing' = 0
      /\ writer' = IF writer = "emit" THEN "recv" ELSE "drain"
      /\ writeFailed' = writeFailed + 1
      /\ UNCHANGED <<queue, written, queueDropped, writerLost, writerDead, stopping, watcher,
                     abandoned, panics, produced, kring, kdropped, ringPc, ringHand,
                     recordsAlive, terminal, discarded, seenDrops, dropDelta, agentDropped,
                     chan, pumpPc, pumpHand, pumpLost, decodeFailed, stranded, readers,
                     writeGuard, mode, pollPc, pollLost, lostSeen, exportDead>>
  OBVIOUS
<1>3. Buffers'
  BY <1>2, NoRecords, PipelineAssumption, QueueAssumption DEF Inv, Types, Buffers
<1>4. Numbers'
  BY <1>2, PipelineAssumption, QueueAssumption DEF Inv, Types, Numbers
<1>5. Locations' /\ Lock' /\ Hands'
  BY <1>2 DEF Inv, Locations, Lock, Hands
<1>6. Sorted'
  BY <1>2, NoRecords DEF Inv, Sorted, Ordered, Below, InFlight, InHand, Types, Numbers, Hands
<1>7. Counted'
  <2>1. /\ One(writing) = 1 /\ One(writing') = 0
    BY <1>2, NoRecords DEF Inv, One, Hands
  <2>2. Types /\ Counted /\ Types'
    BY <1>3, <1>4 DEF Inv, Types
  <2>3. /\ One(writing) \in Nat /\ One(pumpHand) \in Nat /\ One(ringHand) \in Nat
        /\ Len(queue) \in Nat /\ Len(chan) \in Nat /\ Len(kring) \in Nat /\ Len(written) \in Nat
        /\ Exporting \in Nat /\ Arriving \in Nat /\ Losses \in Nat
    BY <2>2, Summands
  <2>4. InPath' = InPath - 1
    <3>1. Exporting' = Exporting - 1
      BY <1>2, <2>1, <2>3 DEF Exporting
    <3>2. Arriving' = Arriving
      BY <1>2, <2>1, <2>3 DEF Arriving
    <3> QED BY <3>1, <3>2, <2>3 DEF InPath
  <2>5. Losses' = Losses + 1
    BY <1>2, <2>2, <2>3 DEF Losses, Types, Numbers
  <2>6. produced' = InPath' + Losses'
    BY <1>2, <2>2, <2>3, <2>4, <2>5 DEF Counted, InPath
  <2> QED BY <1>2, <2>2, <2>6 DEF Counted, Types, Numbers
<1>8. Reported'
  BY <1>2 DEF Inv, Reported, LostTotal, Types, Numbers, Locations
<1> QED BY <1>3, <1>4, <1>5, <1>6, <1>7, <1>8 DEF Inv, Types

\* The writer ends: what it and the queue hold is abandoned.
LEMMA ReceiverDropped ==
  ASSUME Inv,
         writer \in {"return", "emit", "drainEmit"} /\ writer' = "gone",
         writing' = 0 /\ queue' = <<>>,
         abandoned' = abandoned + Len(queue) + One(writing),
         panics' \in 0 .. MaxPanics /\ (panics' > 0 \/ stopping = "yes"),
         UNCHANGED <<written, writeFailed, queueDropped, writerLost, writerDead, stopping,
                     watcher, produced, kring, kdropped, ringPc, ringHand, recordsAlive,
                     terminal, discarded, seenDrops, dropDelta, agentDropped, chan, pumpPc,
                     pumpHand, pumpLost, decodeFailed, stranded, readers, writeGuard, mode,
                     pollPc, pollLost, lostSeen, exportDead>>
  PROVE  Inv'
<1>1. One(writing) \in Nat /\ Len(queue) \in Nat
  BY Summands DEF Inv
<1>2. /\ writer \in {"return", "emit", "drainEmit"} /\ writer' = "gone"
      /\ writing' = 0 /\ queue' = <<>>
      /\ abandoned' = abandoned + Len(queue) + One(writing)
      /\ panics' \in 0 .. MaxPanics /\ (panics' > 0 \/ stopping = "yes")
      /\ UNCHANGED <<written, writeFailed, queueDropped, writerLost, writerDead, stopping,
                     watcher, produced, kring, kdropped, ringPc, ringHand, recordsAlive,
                     terminal, discarded, seenDrops, dropDelta, agentDropped, chan, pumpPc,
                     pumpHand, pumpLost, decodeFailed, stranded, readers, writeGuard, mode,
                     pollPc, pollLost, lostSeen, exportDead>>
  OBVIOUS
<1>3. Buffers'
  BY <1>1, <1>2, NoRecords, PipelineAssumption, QueueAssumption DEF Inv, Types, Buffers
<1>4. Numbers'
  BY <1>1, <1>2, PipelineAssumption, QueueAssumption DEF Inv, Types, Numbers
<1>5. Locations' /\ Lock' /\ Hands'
  BY <1>1, <1>2 DEF Inv, Locations, Lock, Hands
<1>6. Sorted'
  BY <1>1, <1>2, NoRecords DEF Inv, Sorted, Ordered, Below, InFlight, InHand, Types, Numbers, Hands
<1>7. Counted'
  <2>1. /\ Len(queue') = 0
        /\ One(writing') = 0
    BY <1>1, <1>2, NoRecords DEF Inv, One, Hands
  <2>2. Types /\ Counted /\ Types'
    BY <1>3, <1>4 DEF Inv, Types
  <2>3. /\ One(writing) \in Nat /\ One(pumpHand) \in Nat /\ One(ringHand) \in Nat
        /\ Len(queue) \in Nat /\ Len(chan) \in Nat /\ Len(kring) \in Nat /\ Len(written) \in Nat
        /\ Exporting \in Nat /\ Arriving \in Nat /\ Losses \in Nat
    BY <2>2, Summands
  <2>4. InPath' = InPath - Len(queue) - One(writing)
    <3>1. Exporting' = Exporting - One(writing) - Len(queue)
      BY <1>2, <2>1, <2>3 DEF Exporting
    <3>2. Arriving' = Arriving
      BY <1>2, <2>1, <2>3 DEF Arriving
    <3> QED BY SMTT(30), <3>1, <3>2, <2>3 DEF InPath
  <2>5. Losses' = Losses + Len(queue) + One(writing)
    BY SMTT(30), <1>2, <2>2, <2>3 DEF Losses, Types, Numbers
  <2>6. produced' = InPath' + Losses'
    BY <1>2, <2>2, <2>3, <2>4, <2>5 DEF Counted, InPath
  <2> QED BY <1>2, <2>2, <2>6 DEF Counted, Types, Numbers
<1>8. Reported'
  BY <1>2 DEF Inv, Reported, LostTotal, Types, Numbers, Locations
<1> QED BY <1>3, <1>4, <1>5, <1>6, <1>7, <1>8 DEF Inv, Types

\* Every step of the writer.
LEMMA ExportKeeps == ASSUME Inv, Export PROVE Inv'
<1> USE DEF Export, queueVars, ringVars, pumpVars, pollVars, lockVars, lossVars
<1>1. CASE Receive
  BY <1>1, ReceiveKeeps
<1>2. CASE FindsEmpty \/ ReadFlag
  BY <1>2, QuietSteps
<1>3. CASE Write
  <2>1. CASE written' = Append(written, writing) /\ UNCHANGED writeFailed
    BY <1>3, <2>1, WriteDone DEF Write
  <2>2. CASE writeFailed' = writeFailed + 1 /\ UNCHANGED written
    BY <1>3, <2>2, WriteFailed DEF Write
  <2> QED BY <1>3, <2>1, <2>2 DEF Write
<1>4. CASE WriterReturns
  <2>1. stopping = "yes" /\ panics \in 0 .. MaxPanics
    BY <1>4 DEF WriterReturns, Inv, Hands, Types, Numbers
  <2> QED BY <1>4, <2>1, ReceiverDropped DEF WriterReturns, DropReceiver, One
<1>5. CASE WriterPanics
  <2>1. panics' \in 0 .. MaxPanics /\ panics' > 0
    BY <1>5, QueueAssumption DEF WriterPanics, Inv, Types, Numbers
  <2> QED BY <1>5, <2>1, ReceiverDropped DEF WriterPanics, DropReceiver, One
<1> QED BY <1>1, <1>2, <1>3, <1>4, <1>5 DEF WriterStep

-----------------------------------------------------------------------------
\* The invariant is inductive.
LEMMA NextInv == ASSUME Inv, [Next]_vars PROVE Inv'
<1>1. CASE Produce
  BY <1>1, ProduceKept, ProduceDropped
<1>2. CASE RingStep
  BY <1>2, QuietSteps, TakeKept, TakeDiscarded, SendKeeps, ChannelGoneKeeps DEF RingStep
<1>3. CASE PumpStep
  BY <1>3, QuietSteps, PumpRecvKeeps, PumpHandleKeeps DEF PumpStep
<1>4. CASE PumpPanics
  BY <1>4, PumpPanicsKeeps
<1>5. CASE PollStep
  BY <1>5, QuietSteps
<1>6. CASE Export
  BY <1>6, ExportKeeps
<1>7. CASE Shutdown
  BY <1>7, QuietSteps DEF Shutdown
<1>8. CASE Exited \/ UNCHANGED vars
  BY <1>8, QuietSteps DEF Exited
<1> QED BY <1>1, <1>2, <1>3, <1>4, <1>5, <1>6, <1>7, <1>8 DEF Next

\* Whatever the sizes of the ring, the channel and the queue, however the ring
\* thread, the pump, the poller and the writer interleave and whichever of them
\* dies: every record the kernel made is on its way, written in the kernel's
\* order, or in one of the loss counters, and a loss is reported.
THEOREM RecordsAreAccountedFor == Spec => []NothingLostUnseen
<1>1. Init => Inv
  BY InitInv
<1>2. Inv /\ [Next]_vars => Inv'
  BY NextInv
<1>3. Inv => NothingLostUnseen
  BY InvImplies
<1> QED BY <1>1, <1>2, <1>3, PTL DEF Spec

----------------------------------------------------------------------------
(* The SIEM destination. *)

Peers == [up : BOOLEAN, first : Int]
Conns == [kind : {"idle", "open"}, retry_after : Int, alive : BOOLEAN]
Attempts == [failed_at : Int, gap : Int, last : Int]

SyslogType ==
    /\ now \in Nat /\ transport \in {"udp", "tcp"}
    /\ peer \in Peers /\ conn \in Conns /\ attempts \in Attempts

\* A quiet period ends within BACKOFF of now.  Once the peer, back up, has refused an
\* event, the sink is in the quiet period that refused it or has connected anew.
SyslogInv ==
    /\ SyslogType
    /\ conn.retry_after <= now + BACKOFF
    /\ peer.first = Never <=> attempts.last = Never
    /\ peer.first # Never =>
         /\ peer.up /\ peer.first \in 0 .. now
         /\ attempts.last - peer.first < BACKOFF
         /\ IF conn.kind = "open" THEN conn.alive
            ELSE conn.retry_after <= peer.first + BACKOFF

LEMMA SyslogEnv ==
  ASSUME SyslogInv, Tick \/ PeerGoes \/ PeerReturns \/ SyslogRestart
  PROVE  SyslogInv'
<1>1. CASE Tick
  BY <1>1, SyslogAssumption DEF SyslogInv, SyslogType, Peers, Conns, Attempts, Tick, Never
<1>2. CASE PeerGoes
  <2>1. conn' \in Conns /\ conn'.retry_after = conn.retry_after
    BY <1>2 DEF SyslogInv, SyslogType, Conns, PeerGoes
  <2>2. attempts' \in Attempts /\ attempts'.last = Never
    BY <1>2 DEF SyslogInv, SyslogType, Attempts, PeerGoes, Never
  <2>3. peer' \in Peers /\ peer'.first = Never /\ UNCHANGED <<now, transport>>
    BY <1>2 DEF Peers, PeerGoes, Never
  <2> QED
    BY <2>1, <2>2, <2>3 DEF SyslogInv, SyslogType
<1>3. CASE PeerReturns
  BY <1>3, SyslogAssumption
  DEF SyslogInv, SyslogType, Peers, Conns, Attempts, PeerReturns, Never
<1>4. CASE SyslogRestart
  BY <1>4, SyslogAssumption
  DEF SyslogInv, SyslogType, Peers, Conns, Attempts, SyslogRestart, Idle, Never
<1> QED
  BY <1>1, <1>2, <1>3, <1>4

\* What the history records of an event: the type, and the first and last refusal.
LEMMA Refusals ==
  ASSUME SyslogInv, NEW a \in Attempts, a.last = attempts.last,
         NEW ok \in BOOLEAN, NEW end \in Nat, Recorded(a, ok, end)
  PROVE  /\ peer' \in Peers /\ attempts' \in Attempts /\ peer'.up = peer.up
         /\ IF ok \/ ~peer.up
            THEN peer'.first = peer.first /\ attempts'.last = attempts.last
            ELSE /\ peer'.first = IF peer.first = Never THEN end ELSE peer.first
                 /\ attempts'.last = end
<1>1. CASE ok \/ ~peer.up
  BY <1>1 DEF Recorded, SyslogInv, SyslogType
<1>2. CASE ~(ok \/ ~peer.up)
  <2>1. attempts' = [a EXCEPT !.last = end]
    BY <1>2 DEF Recorded
  <2>2. attempts' \in Attempts /\ attempts'.last = end
    BY <2>1 DEF Attempts
  <2>3. peer' = [peer EXCEPT !.first = IF peer.first = Never THEN end ELSE peer.first]
    BY <1>2 DEF Recorded
  <2>4. /\ peer' \in Peers /\ peer'.up = peer.up
        /\ peer'.first = IF peer.first = Never THEN end ELSE peer.first
    BY <2>3 DEF SyslogInv, SyslogType, Peers, Never
  <2> QED
    BY <1>2, <2>2, <2>4
<1> QED
  BY <1>1, <1>2

LEMMA AttemptType ==
  ASSUME SyslogInv, NEW ok \in BOOLEAN, NEW end \in Ends
  PROVE  /\ end \in Nat /\ now <= end /\ (peer.up => end = now)
         /\ Attempt(ok, end) \in Attempts /\ Attempt(ok, end).last = attempts.last
<1>1. now \in Nat /\ attempts \in Attempts
  BY DEF SyslogInv, SyslogType
<1>2. end \in Nat /\ now <= end /\ (peer.up => end = now)
  BY <1>1, SyslogAssumption DEF Ends
<1> DEFINE g == IF attempts.failed_at = Never THEN Never ELSE now - attempts.failed_at
           f == IF ok THEN Never ELSE end
<1>3. g \in Int /\ f \in Int
  BY <1>1, <1>2 DEF Attempts, Never
<1>4. Attempt(ok, end) = [attempts EXCEPT !.gap = g, !.failed_at = f]
  BY DEF Attempt
<1> HIDE DEF g, f
<1>5. Attempt(ok, end) \in Attempts /\ Attempt(ok, end).last = attempts.last
  BY <1>1, <1>3, <1>4 DEF Attempts
<1> QED
  BY <1>2, <1>5

\* The invariant after a step: no refusal on record, or one within its window.
LEMMA NoRefusal ==
  ASSUME SyslogType', conn'.retry_after <= now' + BACKOFF,
         peer'.first = Never, attempts'.last = Never
  PROVE  SyslogInv'
BY DEF SyslogInv, Never

LEMMA InWindow ==
  ASSUME SyslogType', conn'.retry_after <= now' + BACKOFF, peer'.first \in 0 .. now',
         attempts'.last # Never, peer'.up, attempts'.last - peer'.first < BACKOFF,
         IF conn'.kind = "open" THEN conn'.alive ELSE conn'.retry_after <= peer'.first + BACKOFF
  PROVE  SyslogInv'
<1>1. peer'.first # -1
  BY DEF SyslogType
<1> QED
  BY <1>1 DEF SyslogInv, Never

LEMMA SyslogSend == ASSUME SyslogInv, send PROVE SyslogInv'
<1>1. UNCHANGED transport
  BY DEF send
<1> DEFINE Facts == /\ now \in Nat /\ transport \in {"udp", "tcp"}
                    /\ peer.first \in Int /\ peer.up \in BOOLEAN /\ attempts.last \in Int
                    /\ conn \in Conns /\ conn.kind \in {"idle", "open"}
                    /\ conn.retry_after \in Int /\ conn.alive \in BOOLEAN
<1>2. Facts
  BY DEF SyslogInv, SyslogType, Peers, Conns, Attempts
<1>3. CASE HeldBack
  <2>1. /\ conn.kind = "idle" /\ now < conn.retry_after /\ conn' = conn /\ now' = now
        /\ Recorded(attempts, FALSE, now)
    BY <1>3 DEF HeldBack, InBackoff
  <2>2. attempts \in Attempts
    BY DEF SyslogInv, SyslogType
  <2>3. /\ peer' \in Peers /\ attempts' \in Attempts /\ peer'.up = peer.up
        /\ IF ~peer.up
           THEN peer'.first = peer.first /\ attempts'.last = attempts.last
           ELSE /\ peer'.first = IF peer.first = Never THEN now ELSE peer.first
                /\ attempts'.last = now
    BY <1>2, <2>1, <2>2, Refusals
  <2> QED
    BY <1>1, <1>2, <2>1, <2>3, SyslogAssumption DEF SyslogInv, SyslogType, Never
<1>4. CASE ConnectFails
  <2>1. PICK end \in Ends : /\ now' = end /\ conn' = conn /\ ~peer.up
                            /\ peer' = peer /\ attempts' = Attempt(FALSE, end)
    BY <1>4 DEF ConnectFails, MayConnect, AfterConnect, Recorded
  <2>2. /\ end \in Nat /\ now <= end
        /\ attempts' \in Attempts /\ attempts'.last = attempts.last
    BY <2>1, AttemptType
  <2>3. peer.first = Never /\ attempts.last = Never /\ conn.retry_after <= now + BACKOFF
    BY <2>1 DEF SyslogInv
  <2>4. SyslogType'
    BY <1>1, <2>1, <2>2 DEF SyslogInv, SyslogType
  <2>5. conn'.retry_after <= now' + BACKOFF
    BY <1>2, <2>1, <2>2, <2>3, SyslogAssumption
  <2> QED
    BY <2>1, <2>2, <2>3, <2>4, <2>5, NoRefusal
<1>5. CASE SyslogWrite
  <2> DEFINE alive == IF conn.kind = "open" THEN conn.alive ELSE AfterConnect(TRUE).alive
  <2>1. PICK ok \in BOOLEAN, end \in Ends :
          /\ MayWrite(ok, alive)
          /\ now' = end /\ conn' = AfterWrite(ok, alive, end)
          /\ Recorded(Attempt(ok, end), ok, end)
    BY <1>5 DEF SyslogWrite
  <2>2. alive \in BOOLEAN /\ (conn.kind # "open" => alive)
    BY <1>2 DEF AfterConnect, Connected
  <2>3. /\ end \in Nat /\ now <= end /\ (peer.up => end = now)
        /\ Attempt(ok, end) \in Attempts /\ Attempt(ok, end).last = attempts.last
    BY AttemptType
  <2>4. /\ peer' \in Peers /\ attempts' \in Attempts /\ peer'.up = peer.up
        /\ IF ok \/ ~peer.up
           THEN peer'.first = peer.first /\ attempts'.last = attempts.last
           ELSE /\ peer'.first = IF peer.first = Never THEN end ELSE peer.first
                /\ attempts'.last = end
    BY <2>1, <2>3, Refusals
  <2>5. CASE ok
    <3>1. conn' = [kind |-> "open", retry_after |-> Never, alive |-> alive]
      BY <2>1, <2>5 DEF AfterWrite, Connected
    <3>2. peer.first # Never => alive /\ peer.up
      BY <2>2 DEF SyslogInv
    <3> HIDE DEF alive
    <3>3. /\ conn' \in Conns /\ conn'.kind = "open" /\ conn'.retry_after = -1
          /\ alive => conn'.alive
      BY <2>2, <3>1 DEF Conns, Never
    <3>4. peer'.first = peer.first /\ attempts'.last = attempts.last
      BY <2>4, <2>5
    <3>5. SyslogType' /\ conn'.retry_after <= now' + BACKOFF
      BY <1>1, <1>2, <2>1, <2>3, <2>4, <3>3, SyslogAssumption DEF SyslogType
    <3>6. CASE peer.first = Never
      BY <3>4, <3>5, <3>6 DEF SyslogInv
    <3>7. CASE peer.first # Never
      <4>1. peer'.up /\ conn'.alive
        BY <2>4, <3>2, <3>3, <3>7
      <4>2. peer'.first \in 0 .. now' /\ attempts'.last - peer'.first < BACKOFF
        BY <1>2, <2>1, <2>3, <3>4, <3>7 DEF SyslogInv
      <4>3. attempts'.last # Never
        BY <3>4, <3>7 DEF SyslogInv
      <4> QED
        BY <3>3, <3>4, <3>5, <3>7, <4>1, <4>2, <4>3 DEF SyslogInv
    <3> QED
      BY <3>6, <3>7
  <2>6. CASE ~ok
    <3>1. ~alive /\ conn.kind = "open" /\ conn' = Idle(end + BACKOFF)
      BY <2>1, <2>2, <2>6 DEF MayWrite, AfterWrite
    <3>2. peer.first = Never
      BY <3>1 DEF SyslogInv, alive
    <3>3. conn' \in Conns /\ conn'.kind = "idle" /\ conn'.retry_after = end + BACKOFF
      BY <2>3, <3>1, SyslogAssumption DEF Idle, Conns
    <3>4. SyslogType'
      BY <1>1, <1>2, <2>1, <2>3, <2>4, <3>3 DEF SyslogType
    <3>5. now' = end /\ end \in Nat /\ BACKOFF \in Nat /\ BACKOFF > 0
      BY <2>1, <2>3, SyslogAssumption
    <3>6. conn'.retry_after = end + BACKOFF /\ conn'.retry_after <= now' + BACKOFF
      BY <3>3, <3>5
    <3>7. CASE ~peer.up
      <4>1. peer'.first = Never /\ attempts'.last = Never
        BY <2>4, <3>2, <3>7 DEF SyslogInv
      <4> QED
        BY <3>4, <3>6, <4>1, NoRefusal
    <3>8. CASE peer.up
      <4>1. peer'.first = end /\ attempts'.last = end
        BY <2>4, <2>6, <3>2, <3>8
      <4>2. attempts'.last # Never /\ attempts'.last - peer'.first < BACKOFF
        BY <3>5, <4>1 DEF Never
      <4>3. conn'.retry_after <= peer'.first + BACKOFF /\ peer'.first \in 0 .. now'
        BY <3>5, <3>6, <4>1
      <4>4. peer'.up /\ conn'.kind # "open"
        BY <2>4, <3>3, <3>8
      <4> QED
        BY <3>4, <3>6, <4>2, <4>3, <4>4, InWindow
    <3> QED
      BY <1>2, <3>7, <3>8
  <2> QED
    BY <2>5, <2>6
<1> QED
  BY <1>3, <1>4, <1>5 DEF send

\* However often the peer comes and goes and whatever the transport: once it is back,
\* the events it costs lie within one quiet period of the first (send).
THEOREM OutageCostsOneWindow == FanoutSpec => []OneWindowPerOutage
<1>1. FanoutInit => SyslogInv
  BY SyslogAssumption
  DEF FanoutInit, SyslogInit, SyslogInv, SyslogType, Peers, Conns, Attempts, Idle, Never
<1>2. SyslogInv /\ [FanoutNext]_fanoutVars => SyslogInv'
  <2> SUFFICES ASSUME SyslogInv, [FanoutNext]_fanoutVars
               PROVE  SyslogInv'
    OBVIOUS
  <2>1. CASE UNCHANGED fanoutVars
    BY <2>1 DEF fanoutVars, syslogVars, SyslogInv, SyslogType
  <2>2. CASE Tick \/ PeerGoes \/ PeerReturns
    BY <2>2, SyslogEnv
  <2>3. CASE FanoutEmit
    BY <2>3, SyslogSend DEF FanoutEmit
  <2>4. CASE Crash
    BY <2>4, SyslogEnv DEF Crash
  <2> QED
    BY <2>1, <2>2, <2>3, <2>4 DEF FanoutNext
<1>3. SyslogInv => OneWindowPerOutage
  BY DEF SyslogInv, OneWindowPerOutage
<1> QED
  BY <1>1, <1>2, <1>3, PTL DEF FanoutSpec

----------------------------------------------------------------------------
(* The node-local record. *)

\* Pieces of the first l processes and the first e events.
Pieces(l, e) == {Newline} \cup [kind : {"line", "cut", "bare"}, ev : 1 .. e, life : 1 .. l]
Disks(l, e) == UNION {[D -> Seq(Pieces(l, e))] : D \in SUBSET (0 .. Keep)}
Sinks(l, e) == [files : Disks(l, e), open : BOOLEAN, len : Nat, torn : BOOLEAN]

\* Piece k follows a stub of its own process on the same line.
GluedAt(d, k) == /\ d[k].kind # "nl" /\ ~EndsLine(d[k - 1])
                 /\ d[k].life = d[k - 1].life
Unglued(f) == \A n \in DOMAIN f : \A k \in 2 .. Len(f[n]) : ~GluedAt(f[n], k)

Holds(f, n, k, i) == /\ n \in DOMAIN f /\ k \in DOMAIN f[n]
                     /\ f[n][k].kind = "line" /\ f[n][k].ev = i
OnDisk(f, i) == \E n \in DOMAIN f : \E k \in DOMAIN f[n] : Holds(f, n, k, i)

\* The lines of the files, from the highest number down, are in the order of the events.
FilesInOrder(f) ==
    \A n, m \in DOMAIN f : \A k \in DOMAIN f[n], l \in DOMAIN f[m] :
        f[n][k].kind = "line" /\ f[m][l].kind = "line" /\ f[n][k].ev < f[m][l].ev =>
            n > m \/ (n = m /\ k < l)

\* Of the events in A, a file that holds one holds or is followed by every later one.
KeepsLater(f, A) == \A i, j \in A : i < j /\ OnDisk(f, i) => OnDisk(f, j)

\* The active file ends in a stub that process l left.
EndsTorn(f, l) == /\ 0 \in DOMAIN f /\ f[0] # <<>>
                  /\ ~EndsLine(f[0][Len(f[0])]) /\ f[0][Len(f[0])].life = l

\* So are the processes that wrote them.
LivesInOrder(f) ==
    \A n, m \in DOMAIN f : \A k \in DOMAIN f[n], h \in DOMAIN f[m] :
        f[n][k].kind # "nl" /\ f[m][h].kind # "nl" /\ f[n][k].life < f[m][h].life =>
            n > m \/ (n = m /\ k < h)

\* A stub that has a record behind it on its line, or that ends the active file, is of
\* a process in U, unless it ends the file and is process l's own.
StubAt(d, k) == d[k].kind # "nl" /\ ~EndsLine(d[k - 1])
Excused(f, l, U) ==
    /\ \A n \in DOMAIN f : \A k \in 2 .. Len(f[n]) : StubAt(f[n], k) => f[n][k - 1].life \in U
    /\ 0 \in DOMAIN f /\ f[0] # <<>> /\ ~EndsLine(f[0][Len(f[0])]) =>
          f[0][Len(f[0])].life \in U \cup {l}

FilesOk(f, l, e, A, U) ==
    /\ f \in Disks(l, e) /\ Unglued(f) /\ FilesInOrder(f) /\ KeepsLater(f, A)
    /\ LivesInOrder(f) /\ Excused(f, l, U)

\* A sink between two operations: an open handle is on the active file, whose length
\* it knows at least not to be zero, and a stub of this process is known to be there.
SinkOk(s, l, e, A, U) ==
    /\ s \in Sinks(l, e) /\ FilesOk(s.files, l, e, A, U)
    /\ s.open => 0 \in DOMAIN s.files /\ (s.len = 0 => s.files[0] = <<>>)
    /\ ~s.torn => ~EndsTorn(s.files, l)

FanoutInv ==
    /\ life \in Nat \ {0} /\ emitted \in Nat
    /\ accepted \subseteq 1 .. emitted
    /\ durable \in {"file", "stdout"} /\ (durable = "stdout" => ~file.open)
    /\ SinkOk(file, life, emitted, accepted, untidy)

LEMMA OnADisk ==
  ASSUME NEW l, NEW e, NEW f \in Disks(l, e)
  PROVE  /\ DOMAIN f \subseteq 0 .. Keep
         /\ f \in [DOMAIN f -> Seq(Pieces(l, e))]
         /\ \A n \in DOMAIN f : /\ n \in Nat /\ f[n] \in Seq(Pieces(l, e))
                                /\ DOMAIN f[n] = 1 .. Len(f[n]) /\ Len(f[n]) \in Nat
                                /\ \A k \in DOMAIN f[n] : f[n][k] \in Pieces(l, e)
<1>1. PICK D \in SUBSET (0 .. Keep) : f \in [D -> Seq(Pieces(l, e))]
  BY DEF Disks
<1>2. DOMAIN f = D
  BY <1>1
<1>3. ASSUME NEW n \in DOMAIN f
      PROVE  /\ n \in Nat /\ f[n] \in Seq(Pieces(l, e))
             /\ DOMAIN f[n] = 1 .. Len(f[n]) /\ Len(f[n]) \in Nat
             /\ \A k \in DOMAIN f[n] : f[n][k] \in Pieces(l, e)
  BY <1>1, <1>2
<1> QED
  BY <1>1, <1>2, <1>3

LEMMA IsADisk ==
  ASSUME NEW l, NEW e, NEW D \in SUBSET (0 .. Keep), NEW f \in [D -> Seq(Pieces(l, e))]
  PROVE  f \in Disks(l, e)
BY DEF Disks

LEMMA PieceFacts ==
  ASSUME NEW l \in Nat, NEW e \in Nat, NEW x \in Pieces(l, e)
  PROVE  /\ x.kind \in {"nl", "line", "cut", "bare"}
         /\ EndsLine(x) <=> x.kind \in {"nl", "line"}
         /\ x.ev \in 0 .. e /\ x.life \in 0 .. l /\ Size(x) \in {1, 2}
         /\ x.kind # "nl" => x.ev \in 1 .. e /\ x.life \in 1 .. l
BY DEF Pieces, Newline, EndsLine, Size

\* What holds of the first processes and events holds of more.
LEMMA MorePieces ==
  ASSUME NEW l \in Nat, NEW e \in Nat, NEW m \in Nat, NEW d \in Nat, l <= m, e <= d
  PROVE  /\ Pieces(l, e) \subseteq Pieces(m, d)
         /\ \A q \in Seq(Pieces(l, e)) : q \in Seq(Pieces(m, d))
<1>1. 1 .. l \subseteq 1 .. m /\ 1 .. e \subseteq 1 .. d
  OBVIOUS
<1>2. Pieces(l, e) \subseteq Pieces(m, d)
  BY <1>1 DEF Pieces
<1> QED
  BY <1>2

LEMMA MoreFiles ==
  ASSUME NEW l \in Nat, NEW e \in Nat, NEW d \in Nat, e <= d,
         NEW A, NEW U, NEW f, FilesOk(f, l, e, A, U)
  PROVE  FilesOk(f, l, d, A, U)
<1>1. f \in [DOMAIN f -> Seq(Pieces(l, e))] /\ DOMAIN f \subseteq 0 .. Keep
  BY OnADisk DEF FilesOk
<1>2. f \in [DOMAIN f -> Seq(Pieces(l, d))]
  BY <1>1, MorePieces
<1> QED
  BY <1>1, <1>2, IsADisk DEF FilesOk

\* The active file with a piece more.
More(f, x) == [f EXCEPT ![0] = Append(f[0], x)]

\* One piece more in the active file: a newline, or a piece of a later event that is
\* not put behind a stub of its process.
MayAdd(f, x, l, e, d, A, U) ==
    /\ l \in Nat \ {0} /\ e \in Nat /\ d \in Nat /\ e <= d /\ A \in SUBSET (1 .. e)
    /\ FilesOk(f, l, e, A, U) /\ 0 \in DOMAIN f /\ x \in Pieces(l, d)
    /\ x.kind # "nl" => x.ev > e /\ x.life = l /\ ~EndsTorn(f, l)

Added(g, f, x, l, d, A, U) ==
    /\ FilesOk(g, l, d, A, U)
    /\ DOMAIN g = DOMAIN f /\ g[0] = Append(f[0], x) /\ g[0] # <<>>
    /\ EndsTorn(g, l) => ~EndsLine(x)
    /\ x.kind = "line" => KeepsLater(g, A \cup {x.ev})

LEMMA OnePieceMore ==
  ASSUME NEW l, NEW e, NEW d, NEW A, NEW U, NEW f, NEW x, MayAdd(f, x, l, e, d, A, U)
  PROVE  Added(More(f, x), f, x, l, d, A, U)
<1> /\ l \in Nat \ {0} /\ e \in Nat /\ d \in Nat /\ e <= d /\ A \in SUBSET (1 .. e)
    /\ FilesOk(f, l, e, A, U) /\ 0 \in DOMAIN f /\ x \in Pieces(l, d)
    /\ x.kind # "nl" => x.ev > e /\ x.life = l /\ ~EndsTorn(f, l)
  BY DEF MayAdd
<1> DEFINE g == More(f, x)
           n0 == Len(f[0]) + 1
<1>1. /\ DOMAIN f \subseteq 0 .. Keep
      /\ \A n \in DOMAIN f : /\ n \in Nat /\ f[n] \in Seq(Pieces(l, e))
                             /\ DOMAIN f[n] = 1 .. Len(f[n]) /\ Len(f[n]) \in Nat
                             /\ \A k \in DOMAIN f[n] : f[n][k] \in Pieces(l, e)
  BY OnADisk DEF FilesOk
<1>2. /\ f[0] \in Seq(Pieces(l, d)) /\ Append(f[0], x) \in Seq(Pieces(l, d))
      /\ Len(Append(f[0], x)) = n0 /\ DOMAIN Append(f[0], x) = 1 .. n0 /\ n0 \in Nat
      /\ Append(f[0], x)[n0] = x
      /\ \A k \in 1 .. Len(f[0]) : Append(f[0], x)[k] = f[0][k]
      /\ Append(f[0], x) # <<>>
  <2>1. f[0] \in Seq(Pieces(l, d))
    BY <1>1, MorePieces
  <2> QED
    BY <2>1
<1>3. /\ DOMAIN g = DOMAIN f /\ g[0] = Append(f[0], x)
      /\ \A n \in DOMAIN f : n # 0 => g[n] = f[n]
  <2>1. f \in [DOMAIN f -> Seq(Pieces(l, e))]
    BY OnADisk DEF FilesOk
  <2> QED
    BY <2>1 DEF More
<1>4. \A n \in DOMAIN f : g[n] \in Seq(Pieces(l, d))
  <2>1. \A q \in Seq(Pieces(l, e)) : q \in Seq(Pieces(l, d))
    BY MorePieces
  <2> QED
    BY <1>1, <1>2, <1>3, <2>1
<1>5. g \in Disks(l, d)
  <2>1. f \in [DOMAIN f -> Seq(Pieces(l, e))]
    BY OnADisk DEF FilesOk
  <2>2. g \in [DOMAIN f -> Seq(Pieces(l, d))]
    BY <1>3, <1>4, <2>1 DEF More
  <2> QED
    BY <1>1, <2>2, IsADisk
<1>6. \A n \in DOMAIN f : \A k \in DOMAIN f[n] : f[n][k].ev <= e /\ f[n][k].ev \in Nat
  BY <1>1, PieceFacts
<1>7. /\ x.kind \in {"nl", "line", "cut", "bare"} /\ (EndsLine(x) <=> x.kind \in {"nl", "line"})
      /\ x.ev \in Nat
  BY PieceFacts
<1> HIDE DEF n0, g
<1>8. ASSUME NEW n \in DOMAIN g, NEW k \in DOMAIN g[n]
      PROVE  \/ n = 0 /\ k = n0 /\ g[n][k] = x
             \/ k \in DOMAIN f[n] /\ g[n][k] = f[n][k]
  <2>1. CASE n = 0
    BY <1>1, <1>2, <1>3, <2>1 DEF n0
  <2>2. CASE n # 0
    BY <1>3, <2>2
  <2> QED
    BY <2>1, <2>2
<1>9. ASSUME NEW n \in DOMAIN f, NEW k \in DOMAIN f[n]
      PROVE  k \in DOMAIN g[n] /\ g[n][k] = f[n][k]
  <2>1. CASE n = 0
    BY <1>1, <1>2, <1>3, <2>1 DEF n0
  <2>2. CASE n # 0
    BY <1>3, <2>2
  <2> QED
    BY <2>1, <2>2
<1>17. /\ x.kind # "nl" => x.life = l
       /\ \A n \in DOMAIN f : \A k \in DOMAIN f[n] : f[n][k].life <= l /\ f[n][k].life \in Nat
  BY <1>1, PieceFacts
<1>19. ASSUME NEW n \in DOMAIN g, NEW k \in 2 .. Len(g[n]), ~(n = 0 /\ k = n0)
       PROVE  k \in 2 .. Len(f[n]) /\ g[n][k] = f[n][k] /\ g[n][k - 1] = f[n][k - 1]
  <2>1. CASE n = 0
    <3>1. k \in 2 .. n0 /\ k # n0
      BY <1>2, <1>3, <1>19, <2>1
    <3>2. k \in 2 .. Len(f[0]) /\ k - 1 \in 1 .. Len(f[0]) /\ k \in 1 .. Len(f[0])
      BY <1>1, <3>1 DEF n0
    <3> QED
      BY <1>2, <1>3, <2>1, <3>2
  <2>2. CASE n # 0
    BY <1>3, <2>2
  <2> QED
    BY <2>1, <2>2
<1>10. Unglued(g)
  <2> SUFFICES ASSUME NEW n \in DOMAIN g, NEW k \in 2 .. Len(g[n]), GluedAt(g[n], k)
               PROVE  FALSE
    BY DEF Unglued
  <2>1. CASE n = 0 /\ k = n0
    <3>1. g[n][k] = x /\ k - 1 = Len(f[0]) /\ f[0] # <<>> /\ g[n][k - 1] = f[0][Len(f[0])]
      BY <1>1, <1>2, <1>3, <2>1 DEF n0
    <3>2. x.kind # "nl" /\ ~EndsLine(f[0][Len(f[0])]) /\ x.life = f[0][Len(f[0])].life
      BY <3>1 DEF GluedAt
    <3> QED
      BY <3>1, <3>2 DEF EndsTorn
  <2>2. CASE ~(n = 0 /\ k = n0)
    <3>1. k \in 2 .. Len(f[n]) /\ g[n][k] = f[n][k] /\ g[n][k - 1] = f[n][k - 1]
      BY <1>19, <2>2
    <3>2. GluedAt(f[n], k)
      BY <3>1 DEF GluedAt
    <3> QED
      BY <1>3, <3>1, <3>2 DEF FilesOk, Unglued
  <2> QED
    BY <2>1, <2>2
<1>11. FilesInOrder(g)
  <2> SUFFICES ASSUME NEW n \in DOMAIN g, NEW m \in DOMAIN g,
                      NEW k \in DOMAIN g[n], NEW j \in DOMAIN g[m],
                      g[n][k].kind = "line", g[m][j].kind = "line", g[n][k].ev < g[m][j].ev
               PROVE  n > m \/ (n = m /\ k < j)
    BY DEF FilesInOrder
  <2>1. CASE m = 0 /\ j = n0 /\ g[m][j] = x
    <3>1. k \in DOMAIN f[n] /\ n \in Nat
      BY <1>1, <1>3, <1>7, <1>8, <2>1
    <3> QED
      BY <1>1, <1>3, <2>1, <3>1 DEF n0
  <2>2. CASE j \in DOMAIN f[m] /\ g[m][j] = f[m][j]
    <3>1. k \in DOMAIN f[n] /\ g[n][k] = f[n][k]
      BY <1>3, <1>6, <1>7, <1>8, <2>2
    <3> QED
      BY <1>3, <2>2, <3>1 DEF FilesOk, FilesInOrder
  <2> QED
    BY <1>8, <2>1, <2>2
<1>12. ASSUME NEW i \in A
       PROVE  OnDisk(g, i) <=> OnDisk(f, i)
  <2>1. ASSUME OnDisk(f, i)
        PROVE  OnDisk(g, i)
    <3>1. PICK n \in DOMAIN f : \E k \in DOMAIN f[n] : Holds(f, n, k, i)
      BY <2>1 DEF OnDisk
    <3>2. PICK k \in DOMAIN f[n] : Holds(f, n, k, i)
      BY <3>1
    <3> QED
      BY <1>3, <1>9, <3>2 DEF Holds, OnDisk
  <2>2. ASSUME OnDisk(g, i)
        PROVE  OnDisk(f, i)
    <3>1. PICK n \in DOMAIN g : \E k \in DOMAIN g[n] : Holds(g, n, k, i)
      BY <2>2 DEF OnDisk
    <3>2. PICK k \in DOMAIN g[n] : Holds(g, n, k, i)
      BY <3>1
    <3>3. g[n][k] # x
      BY <1>7, <3>2 DEF Holds
    <3>4. k \in DOMAIN f[n] /\ g[n][k] = f[n][k]
      BY <1>8, <3>3
    <3> QED
      BY <1>3, <3>2, <3>4 DEF Holds, OnDisk
  <2> QED
    BY <2>1, <2>2
<1>13. KeepsLater(g, A)
  BY <1>12 DEF FilesOk, KeepsLater
<1>16. LivesInOrder(g)
  <2> SUFFICES ASSUME NEW n \in DOMAIN g, NEW m \in DOMAIN g,
                      NEW k \in DOMAIN g[n], NEW j \in DOMAIN g[m],
                      g[n][k].kind # "nl", g[m][j].kind # "nl", g[n][k].life < g[m][j].life
               PROVE  n > m \/ (n = m /\ k < j)
    BY DEF LivesInOrder
  <2>1. CASE m = 0 /\ j = n0 /\ g[m][j] = x
    <3>1. k \in DOMAIN f[n] /\ n \in Nat
      BY <1>1, <1>3, <1>8, <2>1, <1>17
    <3> QED
      BY <1>1, <1>3, <2>1, <3>1 DEF n0
  <2>2. CASE j \in DOMAIN f[m] /\ g[m][j] = f[m][j]
    <3>1. k \in DOMAIN f[n] /\ g[n][k] = f[n][k]
      <4>1. f[m][j] \in Pieces(l, e) /\ m \in DOMAIN f
        BY <1>1, <1>3, <2>2
      <4>2. f[m][j].life <= l
        BY <4>1, PieceFacts
      <4>3. CASE n = 0 /\ k = n0 /\ g[n][k] = x
        BY <1>17, <2>2, <4>1, <4>2, <4>3, PieceFacts
      <4> QED
        BY <1>8, <4>3
    <3> QED
      BY <1>3, <2>2, <3>1 DEF FilesOk, LivesInOrder
  <2> QED
    BY <1>8, <2>1, <2>2
<1>18. Excused(g, l, U)
  <2>1. ASSUME NEW n \in DOMAIN g, NEW k \in 2 .. Len(g[n]), StubAt(g[n], k)
        PROVE  g[n][k - 1].life \in U
    <3>1. CASE n = 0 /\ k = n0
      <4>1. g[n][k] = x /\ k - 1 = Len(f[0]) /\ f[0] # <<>> /\ g[n][k - 1] = f[0][Len(f[0])]
        BY <1>1, <1>2, <1>3, <2>1, <3>1 DEF n0
      <4>2. x.kind # "nl" /\ ~EndsLine(f[0][Len(f[0])])
        BY <2>1, <4>1 DEF StubAt
      <4>3. f[0][Len(f[0])].life # l
        BY <4>1, <4>2 DEF EndsTorn
      <4> QED
        BY <4>1, <4>2, <4>3 DEF FilesOk, Excused
    <3>2. CASE ~(n = 0 /\ k = n0)
      <4>1. k \in 2 .. Len(f[n]) /\ g[n][k] = f[n][k] /\ g[n][k - 1] = f[n][k - 1]
        BY <1>19, <2>1, <3>2
      <4>2. StubAt(f[n], k)
        BY <2>1, <4>1 DEF StubAt
      <4> QED
        BY <1>3, <4>1, <4>2 DEF FilesOk, Excused
    <3> QED
      BY <3>1, <3>2
  <2>2. g[0][Len(g[0])] = x
    BY <1>2, <1>3
  <2>3. ~EndsLine(x) => x.life \in U \cup {l}
    BY <1>7
  <2> QED
    BY <2>1, <2>2, <2>3 DEF Excused
<1>14. EndsTorn(g, l) => ~EndsLine(x)
  BY <1>2, <1>3 DEF EndsTorn
<1>15. ASSUME x.kind = "line"
       PROVE  KeepsLater(g, A \cup {x.ev})
  <2>1. Holds(g, 0, n0, x.ev) /\ n0 \in DOMAIN g[0] /\ 0 \in DOMAIN g
    BY <1>2, <1>3, <1>15 DEF Holds, n0
  <2>2. OnDisk(g, x.ev)
    BY <2>1 DEF OnDisk
  <2>3. \A i \in A : ~(x.ev < i)
    BY <1>7, <1>15
  <2> QED
    BY <1>13, <2>2, <2>3 DEF KeepsLater
<1> QED
  BY <1>2, <1>3, <1>5, <1>10, <1>11, <1>13, <1>14, <1>15, <1>16, <1>18 DEF FilesOk, Added, g

\* The active file is created.
LEMMA NewFile ==
  ASSUME NEW l, NEW e, NEW A, NEW U, NEW f, FilesOk(f, l, e, A, U), 0 \notin DOMAIN f
  PROVE  /\ FilesOk(Put(f, 0, <<>>), l, e, A, U) /\ 0 \in DOMAIN Put(f, 0, <<>>)
         /\ Put(f, 0, <<>>)[0] = <<>> /\ ~EndsTorn(Put(f, 0, <<>>), l)
<1> DEFINE g == Put(f, 0, <<>>)
<1>1. /\ DOMAIN f \subseteq 0 .. Keep
      /\ \A n \in DOMAIN f : f[n] \in Seq(Pieces(l, e))
  BY OnADisk DEF FilesOk
<1>2. DOMAIN g = DOMAIN f \cup {0} /\ g[0] = <<>> /\ \A n \in DOMAIN f : g[n] = f[n]
  BY DEF Put
<1>a. g = [n \in DOMAIN f \cup {0} |-> IF n = 0 THEN <<>> ELSE f[n]]
  BY DEF Put
<1> HIDE DEF g
<1>3. g \in Disks(l, e)
  <2>2. g \in [DOMAIN f \cup {0} -> Seq(Pieces(l, e))]
    BY <1>1, <1>a
  <2>3. DOMAIN f \cup {0} \in SUBSET (0 .. Keep)
    BY <1>1, FileSinkAssumption
  <2> QED
    BY <2>2, <2>3, IsADisk
<1>4. \A n \in DOMAIN g : (n \in DOMAIN f /\ g[n] = f[n]) \/ (DOMAIN g[n] = {} /\ Len(g[n]) = 0)
  BY <1>2
<1>5. Unglued(g)
  BY <1>2, <1>4 DEF FilesOk, Unglued
<1>6. FilesInOrder(g)
  BY <1>4 DEF FilesOk, FilesInOrder
<1>7. ASSUME NEW i
      PROVE  OnDisk(g, i) <=> OnDisk(f, i)
  BY <1>2, <1>4 DEF OnDisk, Holds
<1>8. KeepsLater(g, A)
  BY <1>7 DEF FilesOk, KeepsLater
<1>10. LivesInOrder(g)
  BY <1>4 DEF FilesOk, LivesInOrder
<1>11. Excused(g, l, U)
  BY <1>2, <1>4 DEF FilesOk, Excused
<1>9. 0 \in DOMAIN g /\ g[0] = <<>> /\ FilesOk(g, l, e, A, U) /\ ~EndsTorn(g, l)
  BY <1>2, <1>3, <1>5, <1>6, <1>8, <1>10, <1>11 DEF FilesOk, EndsTorn
<1> QED
  BY <1>9 DEF g

\* A rotation, whole or cut short: what is lost is the file of the highest number.
LEMMA FilesShift ==
  ASSUME NEW l, NEW e, NEW A, NEW U, NEW f, FilesOk(f, l, e, A, U), NEW from \in 0 .. Keep + 1
  PROVE  /\ FilesOk(Shifted(f, from), l, e, A, U)
         /\ 0 \in DOMAIN Shifted(f, from) =>
              0 \in DOMAIN f /\ Shifted(f, from)[0] = f[0]
<1> DEFINE g == Shifted(f, from)
           D == {m \in DOMAIN f : m < from}
                  \cup {m + 1 : m \in {n \in DOMAIN f : n >= from /\ n < Keep}}
           Old(n) == IF n < from THEN n ELSE n - 1
           New(n) == IF n < from THEN n ELSE n + 1
<1>1. /\ DOMAIN f \subseteq 0 .. Keep /\ Keep \in Nat
      /\ \A n \in DOMAIN f : /\ n \in Nat /\ f[n] \in Seq(Pieces(l, e))
                             /\ DOMAIN f[n] = 1 .. Len(f[n]) /\ Len(f[n]) \in Nat
  BY OnADisk, FileSinkAssumption DEF FilesOk
<1>2. g = [n \in D |-> IF n < from THEN f[n] ELSE f[n - 1]] /\ DOMAIN g = D
  BY DEF Shifted
<1> HIDE DEF g
<1>3. ASSUME NEW n \in D
      PROVE  n \in 0 .. Keep /\ Old(n) \in DOMAIN f /\ g[n] = f[Old(n)]
  <2>1. CASE n < from
    <3>1. n \in DOMAIN f
      BY <1>1, <2>1
    <3> QED
      BY <1>1, <1>2, <2>1, <3>1
  <2>2. CASE ~(n < from)
    <3>1. PICK m \in DOMAIN f : n = m + 1 /\ m >= from /\ m < Keep
      BY <1>1, <2>2
    <3> QED
      BY <1>1, <1>2, <2>2, <3>1
  <2> QED
    BY <2>1, <2>2
<1>4. ASSUME NEW m \in DOMAIN f, m < from \/ m < Keep
      PROVE  New(m) \in D /\ Old(New(m)) = m
  BY <1>1, <1>4
<1>5. ASSUME NEW n \in D, NEW m \in D, Old(n) > Old(m)
      PROVE  n > m
  BY <1>1, <1>3, <1>5
<1>6. ASSUME NEW n \in D, NEW m \in D, Old(n) = Old(m)
      PROVE  n = m
  <2>1. ASSUME NEW i \in D, ~(i < from)
        PROVE  Old(i) >= from
    <3>1. PICK j \in DOMAIN f : i = j + 1 /\ j >= from
      BY <2>1
    <3> QED
      BY <1>1, <2>1, <3>1
  <2>2. n \in Nat /\ m \in Nat
    BY <1>1, <1>3
  <2> QED
    BY <1>6, <2>1, <2>2
<1>7. g \in Disks(l, e)
  <2>1. D \in SUBSET (0 .. Keep)
    BY <1>3
  <2>2. \A n \in D : g[n] \in Seq(Pieces(l, e))
    BY <1>1, <1>3
  <2>3. g \in [D -> Seq(Pieces(l, e))]
    BY <1>2, <2>2
  <2> QED
    BY <2>1, <2>3, IsADisk
<1>8. 0 \in DOMAIN g <=> from > 0 /\ 0 \in DOMAIN f
  BY <1>1, <1>2
<1>9. 0 \in DOMAIN g => g[0] = f[0]
  BY <1>1, <1>2, <1>8
<1> HIDE DEF D, Old, New
<1>10. Unglued(g)
  BY <1>2, <1>3 DEF FilesOk, Unglued
<1>11. FilesInOrder(g)
  <2> SUFFICES ASSUME NEW n \in D, NEW m \in D, NEW k \in DOMAIN g[n], NEW j \in DOMAIN g[m],
                      g[n][k].kind = "line", g[m][j].kind = "line", g[n][k].ev < g[m][j].ev
               PROVE  n > m \/ (n = m /\ k < j)
    BY <1>2 DEF FilesInOrder
  <2>1. Old(n) > Old(m) \/ (Old(n) = Old(m) /\ k < j)
    BY <1>3 DEF FilesOk, FilesInOrder
  <2> QED
    BY <1>5, <1>6, <2>1
<1>14. LivesInOrder(g)
  <2> SUFFICES ASSUME NEW n \in D, NEW m \in D, NEW k \in DOMAIN g[n], NEW j \in DOMAIN g[m],
                      g[n][k].kind # "nl", g[m][j].kind # "nl", g[n][k].life < g[m][j].life
               PROVE  n > m \/ (n = m /\ k < j)
    BY <1>2 DEF LivesInOrder
  <2>1. Old(n) > Old(m) \/ (Old(n) = Old(m) /\ k < j)
    BY <1>3 DEF FilesOk, LivesInOrder
  <2> QED
    BY <1>5, <1>6, <2>1
<1>15. Excused(g, l, U)
  BY <1>2, <1>3, <1>8, <1>9 DEF FilesOk, Excused
<1>12. ASSUME NEW i, OnDisk(g, i)
       PROVE  \E n \in D : \E k \in DOMAIN f[Old(n)] : Holds(f, Old(n), k, i)
  BY <1>2, <1>3, <1>12 DEF OnDisk, Holds
<1>13. KeepsLater(g, A)
  <2> SUFFICES ASSUME NEW i \in A, NEW j \in A, i < j, OnDisk(g, i)
               PROVE  OnDisk(g, j)
    BY DEF KeepsLater
  <2>1. PICK n \in D : \E k \in DOMAIN f[Old(n)] : Holds(f, Old(n), k, i)
    BY <1>12
  <2>2. PICK k \in DOMAIN f[Old(n)] : Holds(f, Old(n), k, i)
    BY <2>1
  <2>3. OnDisk(f, i)
    BY <2>2 DEF OnDisk, Holds
  <2>4. OnDisk(f, j)
    BY <2>3 DEF FilesOk, KeepsLater
  <2>5. PICK m \in DOMAIN f : \E q \in DOMAIN f[m] : Holds(f, m, q, j)
    BY <2>4 DEF OnDisk
  <2>6. PICK q \in DOMAIN f[m] : Holds(f, m, q, j)
    BY <2>5
  <2>7. Old(n) \in DOMAIN f /\ m <= Old(n)
    <3>1. Old(n) > m \/ Old(n) = m
      BY <1>3, <2>2, <2>6 DEF FilesOk, FilesInOrder, Holds
    <3> QED
      BY <1>1, <1>3, <3>1
  <2>8. Old(n) < from \/ Old(n) < Keep
    BY <1>1, <1>3 DEF D, Old
  <2>9. m < from \/ m < Keep
    BY <1>1, <2>7, <2>8
  <2>10. New(m) \in D /\ Old(New(m)) = m
    BY <1>4, <2>9
  <2>11. Holds(g, New(m), q, j)
    BY <1>2, <1>3, <2>6, <2>10 DEF Holds
  <2> QED
    BY <1>2, <2>10, <2>11 DEF OnDisk, Holds
<1> QED
  BY <1>7, <1>8, <1>9, <1>10, <1>11, <1>13, <1>14, <1>15 DEF FilesOk, g

\* A file of length zero is empty.
LEMMA NoLength ==
  ASSUME NEW l \in Nat, NEW e \in Nat, NEW d \in Seq(Pieces(l, e))
  PROVE  Length(d) \in Nat /\ (Length(d) = 0 => d = <<>>)
<1> DEFINE Two == {k \in DOMAIN d : Size(d[k]) = 2}
           Ones == {k \in DOMAIN d : Size(d[k]) = 1}
<1>1. DOMAIN d = 1 .. Len(d) /\ IsFiniteSet(1 .. Len(d))
  BY FS_Interval
<1>2. Two \subseteq 1 .. Len(d) /\ Ones \subseteq 1 .. Len(d)
  BY <1>1
<1>3. IsFiniteSet(Two) /\ IsFiniteSet(Ones)
  BY <1>1, <1>2, FS_Subset
<1>4. Cardinality(Two) \in Nat /\ Cardinality(Ones) \in Nat
  BY <1>3, FS_CardinalityType
<1>5. Length(d) = 2 * Cardinality(Two) + Cardinality(Ones)
  BY DEF Length
<1>6. ASSUME Length(d) = 0
      PROVE  d = <<>>
  <2>1. Cardinality(Two) = 0 /\ Cardinality(Ones) = 0
    BY <1>4, <1>5, <1>6
  <2>2. Two = {} /\ Ones = {}
    BY <1>3, <2>1, FS_EmptySet
  <2>3. \A k \in DOMAIN d : Size(d[k]) \in {1, 2}
    BY <1>1, PieceFacts
  <2>4. DOMAIN d = {}
    BY <2>2, <2>3
  <2> QED
    BY <1>1, <2>4
<1> QED
  BY <1>4, <1>5, <1>6

\* EnsureOpen and open_active: an emit goes on with an open handle.
LEMMA SinkOpens ==
  ASSUME NEW l \in Nat \ {0}, NEW e \in Nat, NEW A, NEW U, NEW s, SinkOk(s, l, e, A, U),
         NEW r \in open_active(s)
  PROVE  SinkOk(r.s, l, e, A, U) /\ r.s.torn = s.torn /\ (r.ok => r.s.open) /\ r.ok \in BOOLEAN
<1>1. s \in Sinks(l, e) /\ FilesOk(s.files, l, e, A, U) /\ (~s.torn => ~EndsTorn(s.files, l))
  BY DEF SinkOk
<1> DEFINE f == IF 0 \in DOMAIN s.files THEN s.files ELSE Put(s.files, 0, <<>>)
           t == [s EXCEPT !.files = f, !.open = TRUE, !.len = Length(f[0])]
<1>2. r = Failed(s) \/ r = Done(t)
  BY DEF open_active
<1>3. CASE r = Failed(s)
  BY <1>3 DEF Failed
<1>4. CASE r = Done(t)
  <2>1. FilesOk(f, l, e, A, U) /\ 0 \in DOMAIN f /\ (~s.torn => ~EndsTorn(f, l))
    <3>1. CASE 0 \in DOMAIN s.files
      BY <1>1, <3>1
    <3>2. CASE 0 \notin DOMAIN s.files
      <4>1. f = Put(s.files, 0, <<>>)
        BY <3>2
      <4> HIDE DEF f
      <4> QED
        BY <1>1, <3>2, <4>1, NewFile
    <3> QED
      BY <3>1, <3>2
  <2>2. f \in Disks(l, e) /\ f[0] \in Seq(Pieces(l, e))
    BY <2>1, OnADisk DEF FilesOk
  <2> HIDE DEF f
  <2>3. Length(f[0]) \in Nat /\ (Length(f[0]) = 0 => f[0] = <<>>)
    BY <2>2, NoLength
  <2>4. /\ t \in Sinks(l, e) /\ t.files = f /\ t.open = TRUE /\ t.len = Length(f[0])
        /\ t.torn = s.torn
    BY <1>1, <2>2, <2>3 DEF Sinks
  <2> HIDE DEF t
  <2>5. SinkOk(t, l, e, A, U)
    BY <2>1, <2>3, <2>4 DEF SinkOk
  <2> QED
    BY <1>4, <2>4, <2>5 DEF Done
<1> QED
  BY <1>2, <1>3, <1>4

\* TerminateStub: an emit goes on with no stub at the end of the file.
LEMMA StubEnds ==
  ASSUME NEW l \in Nat \ {0}, NEW e \in Nat, NEW A \in SUBSET (1 .. e), NEW U,
         NEW s, SinkOk(s, l, e, A, U), s.open, NEW r \in TerminateStub(s)
  PROVE  SinkOk(r.s, l, e, A, U) /\ (r.ok => r.s.open /\ ~r.s.torn) /\ r.ok \in BOOLEAN
<1>1. /\ s \in Sinks(l, e) /\ FilesOk(s.files, l, e, A, U) /\ (~s.torn => ~EndsTorn(s.files, l))
      /\ 0 \in DOMAIN s.files /\ (s.len = 0 => s.files[0] = <<>>)
  BY DEF SinkOk
<1>2. CASE ~s.torn
  <2>1. r = Done(s)
    BY <1>2 DEF TerminateStub
  <2>2. r.s = s /\ r.ok = TRUE
    BY <2>1 DEF Done
  <2> QED
    BY <1>2, <2>2
<1>3. CASE s.torn /\ s.len = 0
  <2> DEFINE t == [s EXCEPT !.torn = FALSE]
  <2>1. r = Done(t)
    BY <1>3 DEF TerminateStub
  <2>2. /\ t \in Sinks(l, e) /\ t.files = s.files /\ t.open = s.open /\ t.len = s.len
        /\ t.torn = FALSE
    BY <1>1 DEF Sinks
  <2> HIDE DEF t
  <2>3. ~EndsTorn(s.files, l)
    BY <1>1, <1>3 DEF EndsTorn
  <2>4. SinkOk(t, l, e, A, U)
    BY <1>1, <2>2, <2>3 DEF SinkOk
  <2> QED
    BY <2>1, <2>2, <2>4 DEF Done
<1>4. CASE s.torn /\ s.len # 0
  <2> DEFINE u == [s EXCEPT !.open = FALSE]
             g == More(s.files, Newline)
             t == [s EXCEPT !.files = g, !.len = s.len + 1, !.torn = FALSE]
  <2>1. r = Failed(u) \/ r = Done(t)
    BY <1>4 DEF TerminateStub, More
  <2>2. CASE r = Failed(u)
    <3>1. u \in Sinks(l, e) /\ u.files = s.files /\ u.open = FALSE /\ u.torn = s.torn
      BY <1>1 DEF Sinks
    <3> HIDE DEF u
    <3>2. SinkOk(u, l, e, A, U)
      BY <1>1, <3>1 DEF SinkOk
    <3> QED
      BY <2>2, <3>2 DEF Failed
  <2>3. CASE r = Done(t)
    <3>1. Newline \in Pieces(l, e) /\ Newline.kind = "nl" /\ EndsLine(Newline)
      BY DEF Pieces, Newline, EndsLine
    <3>2. FilesOk(g, l, e, A, U) /\ 0 \in DOMAIN g /\ g[0] # <<>> /\ ~EndsTorn(g, l)
      <4>1. MayAdd(s.files, Newline, l, e, e, A, U)
        BY <1>1, <3>1 DEF MayAdd
      <4>2. Added(More(s.files, Newline), s.files, Newline, l, e, A, U)
        BY <4>1, OnePieceMore
      <4> QED
        BY <1>1, <3>1, <4>2 DEF Added
    <3> HIDE DEF g
    <3>3. g \in Disks(l, e)
      BY <3>2 DEF FilesOk
    <3>4. s.len \in Nat /\ s.len + 1 \in Nat /\ s.len + 1 # 0
      BY <1>1 DEF Sinks
    <3>5. t = [files |-> g, open |-> s.open, len |-> s.len + 1, torn |-> FALSE]
      BY <1>1 DEF Sinks
    <3>6. /\ t \in Sinks(l, e) /\ t.files = g /\ t.open = s.open /\ t.len = s.len + 1
          /\ t.torn = FALSE /\ s.len \in Nat
      BY <1>1, <3>3, <3>4, <3>5 DEF Sinks
    <3> HIDE DEF t
    <3>7. SinkOk(t, l, e, A, U)
      BY <3>2, <3>4, <3>6 DEF SinkOk
    <3> QED
      BY <2>3, <3>6, <3>7 DEF Done
  <2> QED
    BY <2>1, <2>2, <2>3
<1> QED
  BY <1>2, <1>3, <1>4

\* RotateIfFull: a rotation that stops leaves the handle closed.
LEMMA SinkRotates ==
  ASSUME NEW l \in Nat \ {0}, NEW e \in Nat, NEW A \in SUBSET (1 .. e), NEW U,
         NEW s, SinkOk(s, l, e, A, U), s.open, ~s.torn, NEW r \in RotateIfFull(s)
  PROVE  SinkOk(r.s, l, e, A, U) /\ ~r.s.torn /\ (r.ok => r.s.open) /\ r.ok \in BOOLEAN
<1>1. s \in Sinks(l, e) /\ FilesOk(s.files, l, e, A, U) /\ ~EndsTorn(s.files, l)
  BY DEF SinkOk
<1> DEFINE u == [s EXCEPT !.open = FALSE, !.len = 0]
<1>2. CASE r = Done(s)
  BY <1>2 DEF Done
<1>3. CASE r \in Then(rotate(u), open_active)
  <2>1. /\ u \in Sinks(l, e) /\ u.files = s.files /\ u.open = FALSE /\ u.torn = FALSE
    BY <1>1 DEF Sinks
  <2> HIDE DEF u
  <2>2. ASSUME NEW from \in 0 .. Keep + 1
        PROVE  /\ SinkOk([u EXCEPT !.files = Shifted(u.files, from)], l, e, A, U)
               /\ ~[u EXCEPT !.files = Shifted(u.files, from)].torn
    <3> DEFINE g == Shifted(u.files, from)
               t == [u EXCEPT !.files = g]
    <3>0. g = Shifted(s.files, from)
      BY <2>1
    <3>1. /\ FilesOk(g, l, e, A, U) /\ (0 \in DOMAIN g => 0 \in DOMAIN s.files /\ g[0] = s.files[0])
      BY <1>1, <3>0, FilesShift
    <3> HIDE DEF g
    <3>2. g \in Disks(l, e) /\ ~EndsTorn(g, l)
      BY <1>1, <3>1 DEF FilesOk, EndsTorn
    <3>3. t \in Sinks(l, e) /\ t.files = g /\ t.open = FALSE /\ t.torn = FALSE
      BY <2>1, <3>2 DEF Sinks
    <3> HIDE DEF t
    <3>4. SinkOk(t, l, e, A, U) /\ ~t.torn
      BY <3>1, <3>2, <3>3 DEF SinkOk
    <3> QED
      BY <3>4 DEF t, g
  <2>3. ASSUME NEW x \in rotate(u)
        PROVE  SinkOk(x.s, l, e, A, U) /\ ~x.s.torn /\ x.ok \in BOOLEAN
    <3>1. PICK from \in 0 .. Keep + 1 :
            \/ x = Failed([u EXCEPT !.files = Shifted(u.files, from)])
            \/ x = Done([u EXCEPT !.files = Shifted(u.files, from)])
      BY <2>3, FileSinkAssumption DEF rotate
    <3> DEFINE t == [u EXCEPT !.files = Shifted(u.files, from)]
    <3>2. SinkOk(t, l, e, A, U) /\ ~t.torn
      BY <2>2
    <3> HIDE DEF t
    <3>3. x = Failed(t) \/ x = Done(t)
      BY <3>1 DEF t
    <3>4. x.s = t /\ (x.ok = FALSE \/ x.ok = TRUE)
      BY <3>3 DEF Failed, Done
    <3> QED
      BY <3>2, <3>4
  <2>4. \/ r \in rotate(u) /\ ~r.ok
        \/ \E x \in rotate(u) : r \in open_active(x.s)
    BY <1>3 DEF Then
  <2>5. CASE r \in rotate(u) /\ ~r.ok
    BY <2>3, <2>5
  <2>6. CASE \E x \in rotate(u) : r \in open_active(x.s)
    BY <2>3, <2>6, SinkOpens
  <2> QED
    BY <2>4, <2>5, <2>6
<1> QED
  BY <1>2, <1>3 DEF RotateIfFull

LEMMA MoreSinks ==
  ASSUME NEW l \in Nat, NEW e \in Nat, NEW A, NEW U, NEW s, SinkOk(s, l, e, A, U)
  PROVE  SinkOk(s, l, e + 1, A, U)
<1>1. s \in Sinks(l, e) /\ FilesOk(s.files, l, e, A, U)
  BY DEF SinkOk
<1>2. FilesOk(s.files, l, e + 1, A, U)
  BY <1>1, MoreFiles
<1>3. s.files \in Disks(l, e + 1)
  BY <1>2 DEF FilesOk
<1>4. s \in Sinks(l, e + 1)
  BY <1>1, <1>3 DEF Sinks
<1> QED
  BY <1>2, <1>4 DEF SinkOk

\* The outcome of an emit of event e + 1: nothing is lost that was there, and what was
\* taken is there.
EmitOk(r, l, e, A, U) ==
    /\ SinkOk(r.s, l, e + 1, A, U) /\ r.ok \in BOOLEAN
    /\ r.ok => KeepsLater(r.s.files, A \cup {e + 1})

\* The pieces a write of event e + 1 by process l may add.
LEMMA PiecesOfAnEvent ==
  ASSUME NEW l \in Nat \ {0}, NEW e \in Nat, NEW x,
         x = Line(e + 1, l) \/ \E kind \in {"cut", "bare"} : x = Stub(kind, e + 1, l)
  PROVE  /\ x \in Pieces(l, e + 1) /\ x.kind # "nl" /\ x.ev = e + 1 /\ x.life = l
         /\ x.kind = "line" <=> x = Line(e + 1, l)
         /\ x = Line(e + 1, l) => EndsLine(x)
BY DEF Pieces, Line, Stub, EndsLine

\* A piece of a later event may follow.
MayFollow(f, x, l, e, d, A, U) ==
    /\ l \in Nat \ {0} /\ e \in Nat /\ d \in Nat /\ e < d /\ A \in SUBSET (1 .. e)
    /\ FilesOk(f, l, e, A, U) /\ 0 \in DOMAIN f /\ ~EndsTorn(f, l)
    /\ x \in Pieces(l, d) /\ x.ev = d /\ x.life = l

LEMMA EventMore ==
  ASSUME NEW l, NEW e, NEW d, NEW A, NEW U, NEW f, NEW x, MayFollow(f, x, l, e, d, A, U)
  PROVE  /\ FilesOk(More(f, x), l, d, A, U)
         /\ DOMAIN More(f, x) = DOMAIN f /\ More(f, x)[0] # <<>>
         /\ EndsTorn(More(f, x), l) => ~EndsLine(x)
         /\ x.kind = "line" => KeepsLater(More(f, x), A \cup {d})
<1>1. MayAdd(f, x, l, e, d, A, U)
  BY DEF MayAdd, MayFollow
<1>2. x.ev = d
  BY DEF MayFollow
<1>3. Added(More(f, x), f, x, l, d, A, U)
  BY <1>1, OnePieceMore
<1> QED
  BY <1>2, <1>3 DEF Added

LEMMA OneEventMore ==
  ASSUME NEW l \in Nat \ {0}, NEW e \in Nat, NEW A \in SUBSET (1 .. e), NEW U,
         NEW f, FilesOk(f, l, e, A, U), 0 \in DOMAIN f, ~EndsTorn(f, l), NEW x,
         x = Line(e + 1, l) \/ \E kind \in {"cut", "bare"} : x = Stub(kind, e + 1, l)
  PROVE  /\ FilesOk(More(f, x), l, e + 1, A, U)
         /\ 0 \in DOMAIN More(f, x) /\ More(f, x)[0] # <<>>
         /\ x = Line(e + 1, l) => /\ ~EndsTorn(More(f, x), l)
                                  /\ KeepsLater(More(f, x), A \cup {e + 1})
<1>1. /\ x \in Pieces(l, e + 1) /\ x.kind # "nl" /\ x.ev = e + 1 /\ x.life = l
      /\ x.kind = "line" <=> x = Line(e + 1, l)
      /\ x = Line(e + 1, l) => EndsLine(x)
  BY PiecesOfAnEvent
<1>2. PICK d \in Nat : d = e + 1
  OBVIOUS
<1>3. e < d /\ x.ev = d /\ x \in Pieces(l, d)
  BY <1>1, <1>2
<1>4. /\ FilesOk(More(f, x), l, d, A, U)
      /\ DOMAIN More(f, x) = DOMAIN f /\ More(f, x)[0] # <<>>
      /\ EndsTorn(More(f, x), l) => ~EndsLine(x)
      /\ x.kind = "line" => KeepsLater(More(f, x), A \cup {d})
  <2>1. MayFollow(f, x, l, e, d, A, U)
    BY <1>1, <1>3 DEF MayFollow
  <2> QED
    BY <2>1, EventMore
<1> QED
  BY <1>1, <1>2, <1>4

LEMMA Concatenations ==
  ASSUME NEW P, NEW q \in Seq(P), NEW x \in P, NEW y \in P
  PROVE  /\ q \o <<>> = q /\ q \o <<x>> = Append(q, x)
         /\ q \o (<<>> \o <<x>>) = Append(q, x) /\ q \o (<<x>> \o <<>>) = Append(q, x)
         /\ q \o (<<x>> \o <<y>>) = Append(Append(q, x), y)
<1>1. q \o <<>> = q
  OBVIOUS
<1>2. q \o <<x>> = Append(q, x)
  OBVIOUS
<1>3. <<>> \o <<x>> = <<x>>
  OBVIOUS
<1>4. <<x>> \o <<>> = <<x>>
  OBVIOUS
<1>5. q \o (<<x>> \o <<y>>) = Append(Append(q, x), y)
  <2>1. <<x>> \in Seq(P) /\ <<y>> \in Seq(P) /\ Append(q, x) \in Seq(P)
    OBVIOUS
  <2>2. q \o (<<x>> \o <<y>>) = (q \o <<x>>) \o <<y>>
    BY <2>1, ConcatAssociative
  <2>3. Append(q, x) \o <<y>> = Append(Append(q, x), y)
    BY <2>1
  <2> QED
    BY <1>2, <2>2, <2>3
<1> QED
  BY <1>1, <1>2, <1>3, <1>4, <1>5

\* WriteLine, into an open file that does not end in a stub.
LEMMA LineWritten ==
  ASSUME NEW l \in Nat \ {0}, NEW e \in Nat, NEW A \in SUBSET (1 .. e), NEW U, NEW s,
         SinkOk(s, l, e, A, U), s.open, ~s.torn, NEW r \in WriteLine(s, e + 1, l)
  PROVE  EmitOk(r, l, e, A, U)
<1>1. /\ s \in Sinks(l, e) /\ FilesOk(s.files, l, e, A, U) /\ ~EndsTorn(s.files, l)
      /\ 0 \in DOMAIN s.files
  BY DEF SinkOk
<1>2. s.files[0] \in Seq(Pieces(l, e)) /\ s.files \in [DOMAIN s.files -> Seq(Pieces(l, e))]
      /\ s.files[0] \in Seq(Pieces(l, e + 1))
  <2>1. s.files[0] \in Seq(Pieces(l, e)) /\ s.files \in [DOMAIN s.files -> Seq(Pieces(l, e))]
    BY <1>1, OnADisk DEF FilesOk
  <2>2. e + 1 \in Nat /\ e <= e + 1
    OBVIOUS
  <2> QED
    BY <2>1, <2>2, MorePieces
<1>3. CASE r = Done([s EXCEPT !.files[0] = Append(@, Line(e + 1, l)), !.len = @ + 2])
  <2> DEFINE g == More(s.files, Line(e + 1, l))
             t == [s EXCEPT !.files = g, !.len = s.len + 2]
  <2>1. r = Done(t)
    BY <1>3 DEF More
  <2>2. /\ FilesOk(g, l, e + 1, A, U) /\ 0 \in DOMAIN g /\ g[0] # <<>> /\ ~EndsTorn(g, l)
        /\ KeepsLater(g, A \cup {e + 1})
    BY <1>1, OneEventMore
  <2> HIDE DEF g
  <2>3. g \in Disks(l, e + 1) /\ s.len + 2 \in Nat /\ s.len + 2 # 0
    BY <1>1, <2>2 DEF FilesOk, Sinks
  <2>4. t = [s EXCEPT !.files = g, !.len = s.len + 2]
    OBVIOUS
  <2>5. t \in Sinks(l, e + 1) /\ t.files = g /\ t.len = s.len + 2
    BY <1>1, <2>3, <2>4 DEF Sinks
  <2> HIDE DEF t
  <2>6. SinkOk(t, l, e + 1, A, U)
    BY <2>2, <2>3, <2>5 DEF SinkOk
  <2>7. r.s = t /\ r.ok = TRUE
    BY <2>1 DEF Done
  <2> QED
    BY <2>2, <2>5, <2>6, <2>7 DEF EmitOk
<1>4. ASSUME NEW rest \in Leftovers(e + 1, l),
             r = Failed([s EXCEPT !.files[0] = @ \o rest, !.open = FALSE, !.torn = TRUE])
      PROVE  EmitOk(r, l, e, A, U)
  <2> DEFINE g == [s.files EXCEPT ![0] = s.files[0] \o rest]
             t == [s EXCEPT !.files = g, !.open = FALSE, !.torn = TRUE]
  <2>1. r = Failed(t)
    BY <1>4
  <2>2. FilesOk(g, l, e + 1, A, U)
    <3>1. CASE rest = <<>>
      <4>1. g = s.files
        BY <1>1, <1>2, <3>1
      <4>2. e + 1 \in Nat /\ e <= e + 1 /\ l <= l /\ l \in Nat
        OBVIOUS
      <4> QED
        BY <1>1, <4>1, <4>2, MoreFiles
    <3>2. CASE rest # <<>>
      <4>1. PICK kind \in {"cut", "bare"} : rest = <<Stub(kind, e + 1, l)>>
        BY <1>4, <3>2 DEF Leftovers
      <4>2. Stub(kind, e + 1, l) \in Pieces(l, e + 1)
        BY PiecesOfAnEvent
      <4>3. s.files[0] \o rest = Append(s.files[0], Stub(kind, e + 1, l))
        BY <1>2, <4>1, <4>2, Concatenations
      <4>4. g = More(s.files, Stub(kind, e + 1, l))
        BY <4>3 DEF More
      <4> HIDE DEF g
      <4> QED
        BY <1>1, <4>4, OneEventMore
    <3> QED
      BY <3>1, <3>2
  <2> HIDE DEF g
  <2>3. g \in Disks(l, e + 1)
    BY <2>2 DEF FilesOk
  <2>4. t = [s EXCEPT !.files = g, !.open = FALSE, !.torn = TRUE]
    OBVIOUS
  <2>5. t \in Sinks(l, e + 1) /\ t.files = g /\ t.open = FALSE /\ t.torn = TRUE
    BY <1>1, <2>3, <2>4 DEF Sinks
  <2> HIDE DEF t
  <2>6. SinkOk(t, l, e + 1, A, U)
    BY <2>2, <2>5 DEF SinkOk
  <2>7. r.s = t /\ r.ok = FALSE
    BY <2>1 DEF Failed
  <2> QED
    BY <2>6, <2>7 DEF EmitOk
<1> QED
  BY <1>3, <1>4 DEF WriteLine

\* A failure before the write.
LEMMA EmitFails ==
  ASSUME NEW l \in Nat, NEW e \in Nat, NEW A, NEW U, NEW r, SinkOk(r.s, l, e, A, U), ~r.ok,
         r.ok \in BOOLEAN
  PROVE  EmitOk(r, l, e, A, U)
BY MoreSinks DEF EmitOk

LEMMA FileEmits ==
  ASSUME NEW l \in Nat \ {0}, NEW e \in Nat, NEW A \in SUBSET (1 .. e), NEW U, NEW s,
         SinkOk(s, l, e, A, U), NEW r \in try_emit(s, e + 1, l)
  PROVE  EmitOk(r, l, e, A, U)
<1> DEFINE R0 == EnsureOpen(s)
           R1 == Then(R0, TerminateStub)
           R2 == Then(R1, RotateIfFull)
<1>1. ASSUME NEW x \in R0
      PROVE  SinkOk(x.s, l, e, A, U) /\ (x.ok => x.s.open) /\ x.ok \in BOOLEAN
  <2>1. CASE s.open
    <3>1. x = Done(s)
      BY <2>1, <1>1 DEF EnsureOpen
    <3>2. x.s = s /\ x.ok = TRUE
      BY <3>1 DEF Done
    <3> QED
      BY <2>1, <3>2
  <2>2. CASE ~s.open
    <3>1. x \in open_active(s)
      BY <2>2, <1>1 DEF EnsureOpen
    <3> QED
      BY <3>1, SinkOpens
  <2> QED
    BY <2>1, <2>2
<1>2. ASSUME NEW x \in R1
      PROVE  SinkOk(x.s, l, e, A, U) /\ (x.ok => x.s.open /\ ~x.s.torn) /\ x.ok \in BOOLEAN
  <2>1. (x \in R0 /\ ~x.ok) \/ \E y \in R0 : y.ok /\ x \in TerminateStub(y.s)
    BY <1>2 DEF Then
  <2>2. CASE x \in R0 /\ ~x.ok
    BY <1>1, <2>2
  <2>3. CASE \E y \in R0 : y.ok /\ x \in TerminateStub(y.s)
    <3>1. PICK y \in R0 : y.ok /\ x \in TerminateStub(y.s)
      BY <2>3
    <3>2. SinkOk(y.s, l, e, A, U) /\ y.s.open
      BY <1>1, <3>1
    <3> QED
      BY <3>1, <3>2, StubEnds
  <2> QED
    BY <2>1, <2>2, <2>3
<1>3. ASSUME NEW x \in R2
      PROVE  SinkOk(x.s, l, e, A, U) /\ (x.ok => x.s.open /\ ~x.s.torn) /\ x.ok \in BOOLEAN
  <2>1. (x \in R1 /\ ~x.ok) \/ \E y \in R1 : y.ok /\ x \in RotateIfFull(y.s)
    BY <1>3 DEF Then
  <2>2. CASE x \in R1 /\ ~x.ok
    BY <1>2, <2>2
  <2>3. CASE \E y \in R1 : y.ok /\ x \in RotateIfFull(y.s)
    <3>1. PICK y \in R1 : y.ok /\ x \in RotateIfFull(y.s)
      BY <2>3
    <3>2. SinkOk(y.s, l, e, A, U) /\ y.s.open /\ ~y.s.torn
      BY <1>2, <3>1
    <3> QED
      BY <3>1, <3>2, SinkRotates
  <2> QED
    BY <2>1, <2>2, <2>3
<1>4. (r \in R2 /\ ~r.ok) \/ \E y \in R2 : y.ok /\ r \in WriteLine(y.s, e + 1, l)
  BY DEF try_emit, Then
<1> HIDE DEF R2
<1>5. CASE r \in R2 /\ ~r.ok
  BY <1>3, <1>5, EmitFails
<1>6. CASE \E y \in R2 : y.ok /\ r \in WriteLine(y.s, e + 1, l)
  <2>1. PICK y \in R2 : y.ok /\ r \in WriteLine(y.s, e + 1, l)
    BY <1>6
  <2>2. SinkOk(y.s, l, e, A, U) /\ y.s.open /\ ~y.s.torn
    BY <1>3, <2>1
  <2> QED
    BY <2>1, <2>2, LineWritten
<1> QED
  BY <1>4, <1>5, <1>6

----------------------------------------------------------------------------
(* The record on standard output: the stream is file 0 and there is no handle. *)

Active(f) == IF 0 \in DOMAIN f THEN f[0] ELSE <<>>
Opened(f) == Put(f, 0, Active(f))

LEMMA StreamOpens ==
  ASSUME NEW l, NEW e, NEW A, NEW U, NEW f, FilesOk(f, l, e, A, U)
  PROVE  /\ FilesOk(Opened(f), l, e, A, U) /\ 0 \in DOMAIN Opened(f)
         /\ Active(f) \in Seq(Pieces(l, e))
         /\ EndsTorn(Opened(f), l) => EndsTorn(f, l)
<1>1. CASE 0 \in DOMAIN f
  <2>1. f \in [DOMAIN f -> Seq(Pieces(l, e))]
    BY OnADisk DEF FilesOk
  <2>2. Opened(f) = f
    BY <1>1, <2>1 DEF Opened, Active, Put
  <2> QED
    BY <1>1, <2>1, <2>2 DEF Active
<1>2. CASE 0 \notin DOMAIN f
  <2>1. Active(f) = <<>> /\ Opened(f) = Put(f, 0, <<>>)
    BY <1>2 DEF Opened, Active
  <2> QED
    BY <1>2, <2>1, NewFile
<1> QED
  BY <1>1, <1>2

\* What is put on the stream is put behind what is there.
LEMMA StreamMore ==
  ASSUME NEW f, NEW x, NEW y
  PROVE  /\ Put(f, 0, Append(Active(f), x)) = More(Opened(f), x)
         /\ Put(f, 0, Append(Append(Active(f), x), y)) = More(More(Opened(f), x), y)
<1>1. 0 \in DOMAIN Opened(f) /\ Opened(f)[0] = Active(f) /\ DOMAIN Opened(f) = DOMAIN f \cup {0}
  BY DEF Opened, Put
<1>2. ASSUME NEW q
      PROVE  Put(f, 0, q) = [Opened(f) EXCEPT ![0] = q]
  BY DEF Opened, Put
<1>3. Put(f, 0, Append(Active(f), x)) = More(Opened(f), x)
  BY <1>1, <1>2 DEF More
<1>4. /\ More(Opened(f), x)[0] = Append(Active(f), x)
      /\ \A q : [More(Opened(f), x) EXCEPT ![0] = q] = [Opened(f) EXCEPT ![0] = q]
  BY <1>1 DEF More
<1>5. Put(f, 0, Append(Append(Active(f), x), y)) = More(More(Opened(f), x), y)
  BY <1>2, <1>4 DEF More
<1> QED
  BY <1>3, <1>5

LEMMA StreamEmits ==
  ASSUME NEW l \in Nat \ {0}, NEW e \in Nat, NEW A \in SUBSET (1 .. e), NEW U, NEW s,
         SinkOk(s, l, e, A, U), ~s.open, NEW r \in StreamEmit(s, e + 1, l)
  PROVE  EmitOk(r, l, e, A, U) /\ ~r.s.open
<1> DEFINE f == s.files
           b == Active(f)
           f0 == Opened(f)
           f1 == IF s.torn THEN More(f0, Newline) ELSE f0
           lead == IF s.torn THEN <<Newline>> ELSE <<>>
           P == Pieces(l, e + 1)
<1>1. /\ s \in Sinks(l, e) /\ FilesOk(f, l, e, A, U) /\ (~s.torn => ~EndsTorn(f, l))
  BY DEF SinkOk
<1>2. /\ FilesOk(f0, l, e, A, U) /\ 0 \in DOMAIN f0 /\ b \in Seq(Pieces(l, e))
      /\ EndsTorn(f0, l) => EndsTorn(f, l)
  BY <1>1, StreamOpens
<1>3. b \in Seq(P) /\ e + 1 \in Nat /\ e <= e + 1 /\ Newline \in P /\ Newline \in Pieces(l, e)
  <2>1. e + 1 \in Nat /\ e <= e + 1
    OBVIOUS
  <2>2. b \in Seq(P)
    BY <1>2, <2>1, MorePieces
  <2> QED
    BY <2>1, <2>2 DEF Pieces
<1>4. FilesOk(f1, l, e, A, U) /\ 0 \in DOMAIN f1 /\ ~EndsTorn(f1, l)
  <2>1. CASE s.torn
    <3>1. Newline.kind = "nl" /\ EndsLine(Newline)
      BY DEF Newline, EndsLine
    <3>2. LET g == More(f0, Newline)
          IN  FilesOk(g, l, e, A, U) /\ DOMAIN g = DOMAIN f0 /\ ~EndsTorn(g, l)
      <4>1. MayAdd(f0, Newline, l, e, e, A, U)
        BY <1>2, <1>3, <3>1 DEF MayAdd
      <4>2. Added(More(f0, Newline), f0, Newline, l, e, A, U)
        BY <4>1, OnePieceMore
      <4> QED
        BY <3>1, <4>2 DEF Added
    <3> QED
      BY <1>2, <2>1, <3>2
  <2>2. CASE ~s.torn
    BY <1>1, <1>2, <2>2
  <2> QED
    BY <2>1, <2>2
<1>5. ASSUME NEW x \in P
      PROVE  Put(f, 0, b \o (lead \o <<x>>)) = More(f1, x)
  <2>1. CASE s.torn
    <3>1. b \o (<<Newline>> \o <<x>>) = Append(Append(b, Newline), x)
      BY <1>3, Concatenations
    <3>2. Put(f, 0, Append(Append(b, Newline), x)) = More(More(f0, Newline), x)
      BY StreamMore
    <3> QED
      BY <2>1, <3>1, <3>2
  <2>2. CASE ~s.torn
    <3>1. b \o (<<>> \o <<x>>) = Append(b, x)
      BY <1>3, Concatenations
    <3>2. Put(f, 0, Append(b, x)) = More(f0, x)
      BY StreamMore
    <3> QED
      BY <2>2, <3>1, <3>2
  <2> QED
    BY <2>1, <2>2
<1>6. Put(f, 0, b \o <<>>) = f0 /\ Put(f, 0, b \o (lead \o <<>>)) = f1
  <2>1. b \o <<>> = b /\ b \o (<<Newline>> \o <<>>) = Append(b, Newline) /\ <<>> \o <<>> = <<>>
    BY <1>3, Concatenations
  <2>2. Put(f, 0, Append(b, Newline)) = More(f0, Newline)
    BY StreamMore
  <2> QED
    BY <2>1, <2>2 DEF Opened
<1>7. \/ r = Done([s EXCEPT !.files = Put(f, 0, b \o (lead \o <<Line(e + 1, l)>>)), !.torn = FALSE])
      \/ \E rest \in {<<>>} \cup {lead \o m : m \in Leftovers(e + 1, l)} :
           r = Failed([s EXCEPT !.files = Put(f, 0, b \o rest), !.torn = TRUE])
  BY DEF StreamEmit, Active
<1>8. CASE r = Done([s EXCEPT !.files = Put(f, 0, b \o (lead \o <<Line(e + 1, l)>>)), !.torn = FALSE])
  <2> DEFINE g == More(f1, Line(e + 1, l))
             t == [s EXCEPT !.files = g, !.torn = FALSE]
  <2>1. Line(e + 1, l) \in P
    BY PiecesOfAnEvent
  <2>2. r = Done(t)
    BY <1>5, <1>8, <2>1
  <2>3. /\ FilesOk(g, l, e + 1, A, U) /\ ~EndsTorn(g, l) /\ KeepsLater(g, A \cup {e + 1})
    <3> HIDE DEF f1
    <3> QED
      BY <1>4, OneEventMore
  <2> HIDE DEF g
  <2>4. g \in Disks(l, e + 1)
    BY <2>3 DEF FilesOk
  <2>5. t \in Sinks(l, e + 1) /\ t.files = g /\ t.torn = FALSE /\ ~t.open
    BY <1>1, <2>4 DEF Sinks
  <2> HIDE DEF t
  <2>6. SinkOk(t, l, e + 1, A, U)
    BY <2>3, <2>5 DEF SinkOk
  <2>7. r.s = t /\ r.ok = TRUE
    BY <2>2 DEF Done
  <2> QED
    BY <2>3, <2>5, <2>6, <2>7 DEF EmitOk
<1>9. ASSUME NEW rest \in {<<>>} \cup {lead \o m : m \in Leftovers(e + 1, l)},
             r = Failed([s EXCEPT !.files = Put(f, 0, b \o rest), !.torn = TRUE])
      PROVE  EmitOk(r, l, e, A, U) /\ ~r.s.open
  <2> DEFINE g == Put(f, 0, b \o rest)
             t == [s EXCEPT !.files = g, !.torn = TRUE]
  <2>1. FilesOk(g, l, e + 1, A, U)
    <3>1. CASE rest = <<>>
      BY <1>2, <1>3, <1>6, <3>1, MoreFiles
    <3>2. CASE rest = lead \o <<>>
      <4>1. g = f1
        BY <1>6, <3>2
      <4> HIDE DEF g, f1
      <4> QED
        BY <1>3, <1>4, <4>1, MoreFiles
    <3>3. ASSUME NEW kind \in {"cut", "bare"}, rest = lead \o <<Stub(kind, e + 1, l)>>
          PROVE  FilesOk(g, l, e + 1, A, U)
      <4>1. Stub(kind, e + 1, l) \in P
        BY DEF Pieces, Stub
      <4>2. g = More(f1, Stub(kind, e + 1, l))
        BY <1>5, <3>3, <4>1
      <4> HIDE DEF g, f1
      <4>3. PICK x : x = Stub(kind, e + 1, l)
        OBVIOUS
      <4>4. \E k \in {"cut", "bare"} : x = Stub(k, e + 1, l)
        BY <4>3
      <4>5. FilesOk(More(f1, x), l, e + 1, A, U)
        BY <1>4, <4>4, OneEventMore
      <4> QED
        BY <4>2, <4>3, <4>5
    <3>4. \/ rest = <<>> \/ rest = lead \o <<>>
          \/ \E kind \in {"cut", "bare"} : rest = lead \o <<Stub(kind, e + 1, l)>>
      BY <1>9 DEF Leftovers
    <3> QED
      BY <3>1, <3>2, <3>3, <3>4
  <2>2. r = Failed(t)
    BY <1>9
  <2> HIDE DEF g
  <2>3. g \in Disks(l, e + 1)
    BY <2>1 DEF FilesOk
  <2>4. t \in Sinks(l, e + 1) /\ t.files = g /\ t.torn = TRUE /\ ~t.open
    BY <1>1, <2>3 DEF Sinks
  <2> HIDE DEF t
  <2>5. SinkOk(t, l, e + 1, A, U)
    BY <2>1, <2>4 DEF SinkOk
  <2>6. r.s = t /\ r.ok = FALSE
    BY <2>2 DEF Failed
  <2> QED
    BY <2>4, <2>5, <2>6 DEF EmitOk
<1> QED
  BY <1>7, <1>8, <1>9

\* What a new process finds on the disk, or on its new and empty stream.
LEMMA SinkRestarts ==
  ASSUME NEW l \in Nat \ {0}, NEW e \in Nat, NEW A, NEW U, NEW s, SinkOk(s, l, e, A, U),
         NEW where \in {"file", "stdout"}
  PROVE  /\ SinkOk(Restarted(s, where), l + 1, e, A, IF s.torn THEN U \cup {l} ELSE U)
         /\ ~Restarted(s, where).open
<1> DEFINE V == IF s.torn THEN U \cup {l} ELSE U
           f == IF where = "file" THEN s.files ELSE <<>>
           t == Restarted(s, where)
<1>1. s \in Sinks(l, e) /\ FilesOk(s.files, l, e, A, U) /\ (~s.torn => ~EndsTorn(s.files, l))
  BY DEF SinkOk
<1>2. FilesOk(f, l, e, A, U) /\ (~s.torn => ~EndsTorn(f, l))
  <2>1. CASE where = "file"
    BY <1>1, <2>1
  <2>2. CASE where = "stdout"
    <3>1. f = <<>> /\ DOMAIN f = {} /\ f \in [{} -> Seq(Pieces(l, e))]
      BY <2>2
    <3>2. f \in Disks(l, e)
      BY <3>1, IsADisk
    <3> HIDE DEF f
    <3> QED
      BY <3>1, <3>2
      DEF FilesOk, Unglued, FilesInOrder, LivesInOrder, Excused, KeepsLater, OnDisk, EndsTorn
  <2> QED
    BY <2>1, <2>2
<1> HIDE DEF f
<1>3. l + 1 \in Nat /\ l <= l + 1 /\ e <= e /\ l \in Nat
  OBVIOUS
<1>4. FilesOk(f, l + 1, e, A, V)
  <2>1. f \in Disks(l + 1, e)
    <3>1. f \in [DOMAIN f -> Seq(Pieces(l, e))] /\ DOMAIN f \subseteq 0 .. Keep
      BY <1>2, OnADisk DEF FilesOk
    <3>2. f \in [DOMAIN f -> Seq(Pieces(l + 1, e))]
      BY <1>3, <3>1, MorePieces
    <3> QED
      BY <3>1, <3>2, IsADisk
  <2>2. Excused(f, l + 1, V)
    BY <1>2 DEF FilesOk, Excused, EndsTorn
  <2> QED
    BY <1>2, <2>1, <2>2 DEF FilesOk
<1>5. ~EndsTorn(f, l + 1)
  <2> SUFFICES ASSUME 0 \in DOMAIN f, f[0] # <<>>
               PROVE  f[0][Len(f[0])].life # l + 1
    BY DEF EndsTorn
  <2>1. f[0] \in Seq(Pieces(l, e))
    BY <1>2, OnADisk DEF FilesOk
  <2>2. f[0][Len(f[0])] \in Pieces(l, e)
    BY <2>1
  <2>3. f[0][Len(f[0])].life \in 0 .. l
    BY <2>2, <1>3, PieceFacts
  <2> QED
    BY <2>3
<1>6. t = [NewSink EXCEPT !.files = f]
  BY DEF Restarted, f
<1>7. f \in Disks(l + 1, e)
  BY <1>4 DEF FilesOk
<1>8. t \in Sinks(l + 1, e) /\ t.files = f /\ t.open = FALSE /\ t.torn = FALSE
  <2>1. /\ NewSink \in [files : {<<>>}, open : BOOLEAN, len : Nat, torn : BOOLEAN]
        /\ NewSink.open = FALSE /\ NewSink.torn = FALSE
    BY DEF NewSink
  <2> HIDE DEF t
  <2> QED
    BY <1>6, <1>7, <2>1 DEF Sinks
<1> HIDE DEF t
<1>9. SinkOk(t, l + 1, e, A, V) /\ ~t.open
  BY <1>4, <1>5, <1>8 DEF SinkOk
<1> QED
  BY <1>9 DEF t

\* FileEmit, whichever the node-local record is.
LEMMA RecordEmits ==
  ASSUME FanoutInv, NEW r \in FileEmit(emitted + 1)
  PROVE  EmitOk(r, life, emitted, accepted, untidy) /\ (durable = "stdout" => ~r.s.open)
<1>1. /\ life \in Nat \ {0} /\ emitted \in Nat /\ accepted \in SUBSET (1 .. emitted)
      /\ durable \in {"file", "stdout"} /\ (durable = "stdout" => ~file.open)
      /\ SinkOk(file, life, emitted, accepted, untidy)
  BY DEF FanoutInv
<1>2. CASE durable = "file"
  <2>1. r \in try_emit(file, emitted + 1, life)
    BY <1>2 DEF FileEmit
  <2> QED
    BY <1>1, <1>2, <2>1, FileEmits
<1>3. CASE durable = "stdout"
  <2>1. r \in StreamEmit(file, emitted + 1, life)
    BY <1>3 DEF FileEmit
  <2> QED
    BY <1>1, <1>3, <2>1, StreamEmits
<1> QED
  BY <1>1, <1>2, <1>3

LEMMA FanoutInitInv == ASSUME FanoutInit PROVE FanoutInv
<1>1. /\ life = 1 /\ emitted = 0 /\ accepted = {} /\ untidy = {} /\ durable \in {"file", "stdout"}
      /\ file = NewSink
  BY DEF FanoutInit
<1>2. <<>> \in Disks(1, 0)
  <2>1. <<>> \in [{} -> Seq(Pieces(1, 0))]
    OBVIOUS
  <2> QED
    BY <2>1, IsADisk
<1>3. FilesOk(<<>>, 1, 0, {}, {}) /\ ~EndsTorn(<<>>, 1)
  BY <1>2 DEF FilesOk, Unglued, FilesInOrder, LivesInOrder, Excused, KeepsLater, EndsTorn
<1>4. /\ NewSink \in Sinks(1, 0) /\ NewSink.files = <<>> /\ NewSink.open = FALSE
      /\ NewSink.torn = FALSE
  BY <1>2 DEF NewSink, Sinks
<1>5. SinkOk(NewSink, 1, 0, {}, {})
  BY <1>3, <1>4 DEF SinkOk
<1> QED
  BY <1>1, <1>4, <1>5 DEF FanoutInv

LEMMA FanoutEmitKeeps == ASSUME FanoutInv, FanoutEmit PROVE FanoutInv'
<1>1. PICK r \in FileEmit(emitted + 1) :
        /\ file' = r.s
        /\ accepted' = IF r.ok THEN accepted \cup {emitted + 1} ELSE accepted
  BY DEF FanoutEmit
<1>2. emitted' = emitted + 1 /\ durable' = durable /\ life' = life /\ untidy' = untidy
  BY DEF FanoutEmit
<1>3. /\ life \in Nat \ {0} /\ emitted \in Nat /\ accepted \in SUBSET (1 .. emitted)
      /\ durable \in {"file", "stdout"}
  BY DEF FanoutInv
<1>4. EmitOk(r, life, emitted, accepted, untidy) /\ (durable = "stdout" => ~r.s.open)
  BY RecordEmits
<1>5. /\ SinkOk(r.s, life, emitted + 1, accepted, untidy)
      /\ r.ok => KeepsLater(r.s.files, accepted \cup {emitted + 1})
  BY <1>4 DEF EmitOk
<1>6. SinkOk(r.s, life, emitted + 1, accepted', untidy')
  <2>1. CASE r.ok
    <3>1. accepted' = accepted \cup {emitted + 1}
      BY <1>1, <2>1
    <3> QED
      BY <1>2, <1>5, <2>1, <3>1 DEF SinkOk, FilesOk
  <2>2. CASE ~r.ok
    BY <1>1, <1>2, <1>5, <2>2
  <2> QED
    BY <2>1, <2>2
<1>7. accepted' \subseteq 1 .. emitted + 1
  <2>1. 1 .. emitted \subseteq 1 .. emitted + 1 /\ emitted + 1 \in 1 .. emitted + 1
    BY <1>3
  <2> QED
    BY <1>1, <1>3, <2>1
<1>8. SinkOk(file', life', emitted', accepted', untidy')
  BY <1>1, <1>2, <1>6
<1>9. /\ life' \in Nat \ {0} /\ emitted' \in Nat /\ accepted' \subseteq 1 .. emitted'
      /\ durable' \in {"file", "stdout"} /\ (durable' = "stdout" => ~(file').open)
  BY <1>1, <1>2, <1>3, <1>4, <1>7
<1> QED
  BY <1>8, <1>9 DEF FanoutInv

LEMMA CrashKeeps == ASSUME FanoutInv, Crash PROVE FanoutInv'
<1>1. /\ life \in Nat \ {0} /\ emitted \in Nat /\ accepted \in SUBSET (1 .. emitted)
      /\ durable \in {"file", "stdout"} /\ SinkOk(file, life, emitted, accepted, untidy)
  BY DEF FanoutInv
<1>2. life' = life + 1 /\ durable' = durable /\ accepted' = accepted
  BY DEF Crash
<1>3. ASSUME NEW s, NEW e \in Nat, SinkOk(s, life, e, accepted, untidy), emitted <= e,
             DiesWith(s), emitted' = e
      PROVE  FanoutInv'
  <2>0. file' = Restarted(s, durable) /\ untidy' = IF s.torn THEN untidy \cup {life} ELSE untidy
    BY <1>3 DEF DiesWith
  <2>1. /\ SinkOk(Restarted(s, durable), life + 1, e, accepted,
                  IF s.torn THEN untidy \cup {life} ELSE untidy)
        /\ ~Restarted(s, durable).open
    BY <1>1, <1>3, SinkRestarts
  <2>2. accepted \subseteq 1 .. e
    <3>1. 1 .. emitted \subseteq 1 .. e
      BY <1>1, <1>3
    <3> QED
      BY <1>1, <3>1
  <2>3. SinkOk(file', life', emitted', accepted', untidy') /\ ~file'.open
    BY <1>2, <1>3, <2>0, <2>1
  <2> QED
    BY <1>1, <1>2, <1>3, <2>2, <2>3 DEF FanoutInv
<1>4. CASE DiesWith(file) /\ emitted' = emitted
  BY <1>1, <1>3, <1>4
<1>5. CASE \E r \in FileEmit(emitted + 1) : DiesWith(r.s) /\ emitted' = emitted + 1
  <2>1. PICK r \in FileEmit(emitted + 1) : DiesWith(r.s) /\ emitted' = emitted + 1
    BY <1>5
  <2>2. SinkOk(r.s, life, emitted + 1, accepted, untidy)
    BY RecordEmits DEF EmitOk
  <2> QED
    BY <1>1, <1>3, <2>1, <2>2
<1> QED
  BY <1>4, <1>5 DEF Crash

LEMMA FanoutNextInv == ASSUME FanoutInv, [FanoutNext]_fanoutVars PROVE FanoutInv'
<1>1. CASE UNCHANGED <<fileVars, life, emitted, accepted, untidy>>
  BY <1>1 DEF FanoutInv, fileVars
<1>2. CASE FanoutEmit
  BY <1>2, FanoutEmitKeeps
<1>3. CASE Crash
  BY <1>3, CrashKeeps
<1> QED
  BY <1>1, <1>2, <1>3 DEF FanoutNext, fanoutVars

(* For every size and number of files, every number of events and of       *)
(* restarts: a record shares a line only with the stub of an earlier       *)
(* process that died with torn set, and as the first behind it (file.rs,   *)
(* torn).  A failed write marks the stub it may have left, the mark goes   *)
(* only once a newline or an empty file is behind it (SinkOk), a rotation  *)
(* moves whole files, and what an earlier process left unterminated it     *)
(* left because it died before it could (Excused).                         *)
THEOREM RecordsKeepTheirLines == FanoutSpec => []RecordsNeverGlue
<1>1. FanoutInv => RecordsNeverGlue
  <2> SUFFICES ASSUME FanoutInv, NEW p \in Glued(file)
               PROVE  LET stub == At(file, <<p[1], p[2] - 1>>)
                      IN  /\ stub.life < At(file, p).life
                          /\ stub.life \in untidy
                          /\ \A q \in Places(file) :
                                At(file, q).life = stub.life => ~Before(p, q)
    BY DEF RecordsNeverGlue
  <2> DEFINE f == file.files
  <2>1. /\ p \in Places(file) /\ p[2] > 1 /\ At(file, p).kind # "nl"
        /\ ~EndsLine(At(file, <<p[1], p[2] - 1>>))
    BY DEF Glued
  <2>2. PICK n \in DOMAIN f : \E k \in DOMAIN f[n] : p = <<n, k>>
    BY <2>1 DEF Places
  <2>3. PICK k \in DOMAIN f[n] : p = <<n, k>>
    BY <2>2
  <2>4. /\ Unglued(f) /\ f \in Disks(life, emitted) /\ LivesInOrder(f) /\ Excused(f, life, untidy)
        /\ life \in Nat /\ emitted \in Nat
    BY DEF FanoutInv, SinkOk, FilesOk
  <2>5. /\ \A m \in DOMAIN f : /\ m \in Nat /\ DOMAIN f[m] = 1 .. Len(f[m]) /\ Len(f[m]) \in Nat
                               /\ \A h \in DOMAIN f[m] : f[m][h] \in Pieces(life, emitted)
    BY <2>4, OnADisk
  <2>6. k \in 2 .. Len(f[n]) /\ k - 1 \in DOMAIN f[n] /\ k \in Nat
    BY <2>1, <2>3, <2>5
  <2>7. /\ f[n][k].kind # "nl" /\ ~EndsLine(f[n][k - 1])
        /\ At(file, p) = f[n][k] /\ At(file, <<p[1], p[2] - 1>>) = f[n][k - 1]
    BY <2>1, <2>3 DEF At
  <2>8. f[n][k].life # f[n][k - 1].life
    BY <2>4, <2>6, <2>7 DEF Unglued, GluedAt
  <2>9. f[n][k - 1].life \in untidy
    BY <2>4, <2>6, <2>7 DEF Excused, StubAt
  <2>10. /\ f[n][k].life \in Nat /\ f[n][k - 1].life \in Nat \ {0} /\ f[n][k - 1].kind # "nl"
    <3>1. f[n][k] \in Pieces(life, emitted) /\ f[n][k - 1] \in Pieces(life, emitted)
      BY <2>5, <2>6
    <3> QED
      BY <2>4, <2>7, <3>1, PieceFacts
  <2>11. f[n][k - 1].life < f[n][k].life
    <3>1. n \in Nat /\ ~(n > n) /\ ~(k < k - 1)
      BY <2>5, <2>6
    <3>2. f[n][k].life < f[n][k - 1].life => n > n \/ (n = n /\ k < k - 1)
      BY <2>4, <2>6, <2>7, <2>10, Zenon DEF LivesInOrder
    <3>3. ~(f[n][k].life < f[n][k - 1].life)
      BY <3>1, <3>2
    <3> QED
      BY <2>8, <2>10, <3>3
  <2>12. ASSUME NEW q \in Places(file), At(file, q).life = f[n][k - 1].life
         PROVE  ~Before(p, q)
    <3>1. PICK m \in DOMAIN f : \E h \in DOMAIN f[m] : q = <<m, h>>
      BY <2>12 DEF Places
    <3>2. PICK h \in DOMAIN f[m] : q = <<m, h>>
      BY <3>1
    <3>3. f[m][h].life = f[n][k - 1].life /\ f[m][h] \in Pieces(life, emitted)
      BY <2>5, <2>12, <3>2 DEF At
    <3>4. f[m][h].kind # "nl"
      BY <2>4, <2>10, <3>3 DEF Pieces, Newline
    <3>5. f[m][h].life < f[n][k].life
      BY <2>11, <3>3
    <3>6. m > n \/ (m = n /\ h < k)
      BY <2>4, <2>7, <3>4, <3>5 DEF LivesInOrder
    <3>7. m \in Nat /\ n \in Nat /\ h \in Nat
      BY <2>5
    <3> QED
      BY <2>3, <2>6, <3>2, <3>6, <3>7 DEF Before
  <2> QED
    BY <2>7, <2>9, <2>11, <2>12
<1> QED
  BY <1>1, FanoutInitInv, FanoutNextInv, PTL DEF FanoutSpec

\* The places of a record, read off the files.
LEMMA LinesAreHeld ==
  ASSUME NEW s, NEW i, NEW p
  PROVE  p \in LinesOf(s, i) <=>
           \E n \in DOMAIN s.files : \E k \in DOMAIN s.files[n] :
              p = <<n, k>> /\ Holds(s.files, n, k, i)
<1>1. p \in Places(s) <=> \E n \in DOMAIN s.files : \E k \in DOMAIN s.files[n] : p = <<n, k>>
  BY DEF Places
<1>2. ASSUME NEW n \in DOMAIN s.files, NEW k \in DOMAIN s.files[n], p = <<n, k>>
      PROVE  At(s, p).kind = "line" /\ At(s, p).ev = i <=> Holds(s.files, n, k, i)
  BY <1>2 DEF At, Holds
<1> QED
  BY <1>1, <1>2 DEF LinesOf

(* For the same bounds: of two records the sink took, the later is on disk *)
(* if the earlier is, and after it (file.rs, rotate).  The lines of the    *)
(* files are in the order of the events from the highest number down       *)
(* (FilesInOrder), also when a rotation has moved only some of them, and   *)
(* what goes is the file of the highest number.                            *)
THEOREM OldestAreLostFirst == FanoutSpec => []OldestGoFirst
<1>1. FanoutInv => OldestGoFirst
  <2> SUFFICES ASSUME FanoutInv, NEW i \in accepted, NEW j \in accepted, i < j,
                      LinesOf(file, i) # {}
               PROVE  /\ LinesOf(file, j) # {}
                      /\ \A p \in LinesOf(file, i), q \in LinesOf(file, j) : Before(p, q)
    BY DEF OldestGoFirst
  <2>1. FilesInOrder(file.files) /\ KeepsLater(file.files, accepted)
    BY DEF FanoutInv, SinkOk, FilesOk
  <2>2. OnDisk(file.files, i)
    BY LinesAreHeld DEF OnDisk
  <2>3. OnDisk(file.files, j)
    BY <2>1, <2>2 DEF KeepsLater
  <2>4. LinesOf(file, j) # {}
    <3>1. PICK n \in DOMAIN file.files : \E k \in DOMAIN file.files[n] : Holds(file.files, n, k, j)
      BY <2>3 DEF OnDisk
    <3>2. PICK k \in DOMAIN file.files[n] : Holds(file.files, n, k, j)
      BY <3>1
    <3>3. <<n, k>> \in LinesOf(file, j)
      BY <3>2, LinesAreHeld
    <3> QED
      BY <3>3
  <2>5. ASSUME NEW p \in LinesOf(file, i), NEW q \in LinesOf(file, j)
        PROVE  Before(p, q)
    <3>1. PICK n, k : p = <<n, k>> /\ Holds(file.files, n, k, i)
      BY LinesAreHeld
    <3>2. PICK m, h : q = <<m, h>> /\ Holds(file.files, m, h, j)
      BY LinesAreHeld
    <3>3. n > m \/ (n = m /\ k < h)
      BY <2>1, <3>1, <3>2 DEF FilesInOrder, Holds
    <3> QED
      BY <3>1, <3>2, <3>3 DEF Before
  <2> QED
    BY <2>4, <2>5
<1> QED
  BY <1>1, FanoutInitInv, FanoutNextInv, PTL DEF FanoutSpec
=============================================================================
