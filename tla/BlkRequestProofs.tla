-------------------------- MODULE BlkRequestProofs --------------------------
(***************************************************************************)
(* Proofs about one request, for any size of the descriptor table, any       *)
(* tables, contents of memory and disk, and transfers of the backend.        *)
(*                                                                           *)
(* Whatever the guest rewrites meanwhile: every variable keeps its type, the *)
(* staging buffer has room for every buffer, the walks are bounded, the      *)
(* backend is called at most once, and the device writes only where the      *)
(* guest has granted it (invariant IInv).                                    *)
(*                                                                           *)
(* While the table is at rest: every walk finds the chain (Traced), the data *)
(* gets where it belongs, and the request is answered as its kind asks       *)
(* (Served).                                                                 *)
(***************************************************************************)
EXTENDS BlkRequest, SequenceTheorems, FiniteSetTheorems, WellFoundedInduction, TLAPS

\* What a descriptor that has been read lets the device write has been granted.
Honest(descs) ==
  /\ descs \in Seq(Desc)
  /\ \A k \in 1 .. Len(descs) : descs[k].write => Cells(descs[k]) \subseteq granted

WalkOK ==
  /\ Honest(walk) /\ Len(walk) <= QueueSize + 1
  /\ outcome = "going" => Len(walk) <= QueueSize
  /\ outcome = "ended" => walk # <<>>

GuestOK == WritableCells(table) \subseteq granted

\* The backend is called on the way from "execute" to "deliver" or to the status byte.
CallsOK ==
  /\ calls \in {0, 1}
  /\ pc \in Parsing \cup {"execute", "gather"} => calls = 0 /\ status = "none"
  /\ pc = "deliver" => calls = 1 /\ status = "none"
  /\ status = "OK" => calls = 1

\* What has been copied so far, of the buffers of the request's direction.
CopyOK ==
  /\ pc \in Parsing \cup {"execute"} => next = 0 /\ off = 0
  /\ pc \in {"deliver", "gather"} =>
       /\ Len(data) = Total(buffers) /\ next <= Len(buffers)
       /\ off = SizeUpTo(buffers, {pc = "deliver"})[next]
  /\ status = "UNSUPP" => calls = 0 /\ pc \in {"complete", "done"}

IInv ==
  /\ TypeOK
  /\ GuestOK
  /\ WalkOK
  /\ Honest(buffers)
  /\ CallsOK
  /\ CopyOK

----------------------------------------------------------------------------
(* Induction over numbers, by sets: a set of numbers has a least element, so *)
(* one that holds 0 and the successors of its elements holds them all.       *)

LEMMA LeastElement ==
  ASSUME NEW T, T \subseteq Nat, T # {}
  PROVE  \E m \in T : \A n \in T : m <= n
  <1> DEFINE R == OpToRel(<, Nat)
  <1>1. IsWellFoundedOn(R, Nat)
    BY NatLessThanWellFounded
  <1>2. \A m, n \in Nat : m < n => <<m, n>> \in R
    BY DEF OpToRel
  <1> HIDE DEF R
  <1>3. PICK m \in T : \A n \in T : ~(<<n, m>> \in R)
    BY <1>1, WFMin
  <1>4. ASSUME NEW n \in T
        PROVE  m <= n
    <2>1. ~(n < m)
      BY <1>2, <1>3
    <2> QED BY <2>1
  <1> QED BY <1>4

LEMMA SetInduction ==
  ASSUME NEW T, 0 \in T, \A n \in Nat : n \in T => n + 1 \in T
  PROVE  \A n \in Nat : n \in T
  <1> SUFFICES ASSUME NEW b \in Nat, b \notin T
               PROVE  FALSE
    OBVIOUS
  <1>1. PICK m \in Nat \ T : \A n \in Nat \ T : m <= n
    BY LeastElement
  <1>2. m # 0 /\ m - 1 \in Nat
    BY <1>1
  <1>3. m - 1 \in T /\ (m - 1) + 1 = m
    BY <1>1, <1>2
  <1> QED BY <1>1, <1>2, <1>3

----------------------------------------------------------------------------
(* The sizes of buffers. *)

Share(d, flags) == IF d.write \in flags THEN d.len ELSE 0

LEMMA ShareType ==
  ASSUME NEW d \in Desc, NEW flags
  PROVE  /\ Share(d, flags) \in Nat
         /\ Share(d, BOOLEAN) = Share(d, {TRUE}) + Share(d, {FALSE})
  <1>1. d.len \in Nat /\ d.write \in BOOLEAN
    BY DEF Desc
  <1>2. Share(d, flags) \in {0, d.len}
    BY DEF Share
  <1>3. CASE d.write = TRUE
    <2>1. Share(d, BOOLEAN) = d.len /\ Share(d, {TRUE}) = d.len /\ Share(d, {FALSE}) = 0
      BY <1>3, Zenon DEF Share
    <2> QED BY <1>1, <1>2, <2>1
  <1>4. CASE d.write = FALSE
    <2>1. Share(d, BOOLEAN) = d.len /\ Share(d, {TRUE}) = 0 /\ Share(d, {FALSE}) = d.len
      BY <1>4, Zenon DEF Share
    <2> QED BY <1>1, <1>2, <2>1
  <1> QED BY <1>1, <1>3, <1>4

\* The equation of the recursive function in SizeUpTo, for the first n descriptors.
IsSize(f, descs, flags, n) ==
  f = [k \in 0 .. n |-> IF k = 0 THEN 0 ELSE f[k - 1] + Share(descs[k], flags)]

LEMMA SizeExists ==
  ASSUME NEW descs, NEW flags
  PROVE  \A n \in Nat : \E f : IsSize(f, descs, flags, n)
  <1> DEFINE T == {n \in Nat : \E f : IsSize(f, descs, flags, n)}
  <1>1. 0 \in T
    <2> DEFINE f == [k \in 0 .. 0 |-> 0]
    <2>1. IsSize(f, descs, flags, 0)
      BY DEF IsSize
    <2> QED BY <2>1
  <1>2. ASSUME NEW n \in Nat, n \in T
        PROVE  n + 1 \in T
    <2>1. PICK f : IsSize(f, descs, flags, n)
      BY <1>2
    <2> DEFINE g == [k \in 0 .. n + 1 |->
                       IF k <= n THEN f[k] ELSE f[n] + Share(descs[n + 1], flags)]
    <2>2. IsSize(g, descs, flags, n + 1)
      BY <2>1 DEF IsSize
    <2> QED BY <2>2
  <1> HIDE DEF T
  <1>3. \A n \in Nat : n \in T
    BY <1>1, <1>2, SetInduction
  <1> QED BY <1>3 DEF T

LEMMA SizeIs ==
  ASSUME NEW descs \in Seq(Desc), NEW flags
  PROVE  IsSize(SizeUpTo(descs, flags), descs, flags, Len(descs))
  <1>1. Len(descs) \in Nat
    OBVIOUS
  <1>2. PICK f : IsSize(f, descs, flags, Len(descs))
    BY <1>1, SizeExists
  <1> QED BY <1>2 DEF IsSize, SizeUpTo, Share

LEMMA SizeSteps ==
  ASSUME NEW descs \in Seq(Desc), NEW flags
  PROVE  /\ SizeUpTo(descs, flags)[0] = 0
         /\ \A n \in 1 .. Len(descs) :
              SizeUpTo(descs, flags)[n]
                = SizeUpTo(descs, flags)[n - 1] + Share(descs[n], flags)
         /\ \A n \in 0 .. Len(descs) : SizeUpTo(descs, flags)[n] \in Nat
  <1> DEFINE f == SizeUpTo(descs, flags)
             T == {n \in Nat : n <= Len(descs) => f[n] \in Nat}
  <1>1. IsSize(f, descs, flags, Len(descs)) /\ Len(descs) \in Nat
    BY SizeIs
  <1> HIDE DEF f
  <1>2. f[0] = 0 /\ \A n \in 1 .. Len(descs) : f[n] = f[n - 1] + Share(descs[n], flags)
    BY <1>1 DEF IsSize
  <1>3. \A n \in 1 .. Len(descs) : Share(descs[n], flags) \in Nat
    BY ShareType
  <1>4. 0 \in T
    BY <1>2
  <1>5. ASSUME NEW n \in Nat, n \in T
        PROVE  n + 1 \in T
    <2> SUFFICES ASSUME n + 1 <= Len(descs)
                 PROVE  f[n + 1] \in Nat
      OBVIOUS
    <2>1. f[n + 1] = f[n] + Share(descs[n + 1], flags) /\ Share(descs[n + 1], flags) \in Nat
      BY <1>1, <1>2, <1>3
    <2> QED BY <1>1, <1>5, <2>1
  <1> HIDE DEF T
  <1>6. \A n \in Nat : n \in T
    BY <1>4, <1>5, SetInduction
  <1> QED BY <1>1, <1>2, <1>6 DEF T, f

LEMMA SizeGrows ==
  ASSUME NEW descs \in Seq(Desc), NEW flags,
         NEW n \in 0 .. Len(descs), NEW m \in 0 .. n
  PROVE  SizeUpTo(descs, flags)[m] <= SizeUpTo(descs, flags)[n]
  <1> DEFINE f == SizeUpTo(descs, flags)
             T == {k \in Nat : m + k <= Len(descs) => f[m] <= f[m + k]}
  <1>1. /\ \A k \in 1 .. Len(descs) : f[k] = f[k - 1] + Share(descs[k], flags)
        /\ \A k \in 0 .. Len(descs) : f[k] \in Nat
    BY SizeSteps
  <1>2. \A k \in 1 .. Len(descs) : Share(descs[k], flags) \in Nat
    BY ShareType
  <1>l. Len(descs) \in Nat /\ m \in Nat /\ n \in Nat
    OBVIOUS
  <1> HIDE DEF f
  <1>3. 0 \in T
    BY <1>1, <1>l
  <1>4. ASSUME NEW k \in Nat, k \in T
        PROVE  k + 1 \in T
    <2> SUFFICES ASSUME m + (k + 1) <= Len(descs)
                 PROVE  f[m] <= f[m + (k + 1)]
      OBVIOUS
    <2>1. m + (k + 1) \in 1 .. Len(descs) /\ (m + (k + 1)) - 1 = m + k
      BY <1>l
    <2>2. f[m + (k + 1)] = f[m + k] + Share(descs[m + (k + 1)], flags)
      BY <1>1, <2>1
    <2>3. f[m] <= f[m + k] /\ f[m] \in Nat /\ f[m + k] \in Nat
      BY <1>1, <1>4, <1>l
    <2> QED BY <1>2, <2>1, <2>2, <2>3
  <1> HIDE DEF T
  <1>5. \A k \in Nat : k \in T
    BY <1>3, <1>4, SetInduction
  <1>6. n - m \in T /\ m + (n - m) = n
    BY <1>5, <1>l
  <1> QED BY <1>6 DEF T, f

\* The data of the two directions together.
LEMMA SizeSplits ==
  ASSUME NEW descs \in Seq(Desc), NEW n \in 0 .. Len(descs)
  PROVE  SizeUpTo(descs, BOOLEAN)[n]
           = SizeUpTo(descs, {TRUE})[n] + SizeUpTo(descs, {FALSE})[n]
  <1> DEFINE b == SizeUpTo(descs, BOOLEAN)
             t == SizeUpTo(descs, {TRUE})
             f == SizeUpTo(descs, {FALSE})
             T == {k \in Nat : k <= Len(descs) => b[k] = t[k] + f[k]}
  <1>1. /\ b[0] = 0
        /\ \A k \in 1 .. Len(descs) : b[k] = b[k - 1] + Share(descs[k], BOOLEAN)
        /\ \A k \in 0 .. Len(descs) : b[k] \in Nat
    BY SizeSteps
  <1>2. /\ t[0] = 0
        /\ \A k \in 1 .. Len(descs) : t[k] = t[k - 1] + Share(descs[k], {TRUE})
        /\ \A k \in 0 .. Len(descs) : t[k] \in Nat
    BY SizeSteps
  <1>3. /\ f[0] = 0
        /\ \A k \in 1 .. Len(descs) : f[k] = f[k - 1] + Share(descs[k], {FALSE})
        /\ \A k \in 0 .. Len(descs) : f[k] \in Nat
    BY SizeSteps
  <1>4. \A k \in 1 .. Len(descs) :
          /\ Share(descs[k], {TRUE}) \in Nat /\ Share(descs[k], {FALSE}) \in Nat
          /\ Share(descs[k], BOOLEAN) = Share(descs[k], {TRUE}) + Share(descs[k], {FALSE})
    BY ShareType
  <1> HIDE DEF b, t, f
  <1>5. 0 \in T
    BY <1>1, <1>2, <1>3
  <1>6. ASSUME NEW k \in Nat, k \in T
        PROVE  k + 1 \in T
    <2> SUFFICES ASSUME k + 1 <= Len(descs)
                 PROVE  b[k + 1] = t[k + 1] + f[k + 1]
      OBVIOUS
    <2>1. k + 1 \in 1 .. Len(descs) /\ (k + 1) - 1 = k /\ k \in 0 .. Len(descs)
      OBVIOUS
    <2>2. b[k] = t[k] + f[k] /\ t[k] \in Nat /\ f[k] \in Nat
      BY <1>2, <1>3, <1>6, <2>1
    <2>3. /\ b[k + 1] = b[k] + Share(descs[k + 1], BOOLEAN)
          /\ t[k + 1] = t[k] + Share(descs[k + 1], {TRUE})
          /\ f[k + 1] = f[k] + Share(descs[k + 1], {FALSE})
      BY <1>1, <1>2, <1>3, <2>1
    <2> QED BY <1>4, <2>1, <2>2, <2>3
  <1> HIDE DEF T
  <1>7. \A k \in Nat : k \in T
    BY <1>5, <1>6, SetInduction
  <1> QED BY <1>7 DEF T, b, t, f

\* One direction's data is part of the whole.
LEMMA SizeBounds ==
  ASSUME NEW descs \in Seq(Desc), NEW n \in 0 .. Len(descs), NEW w \in BOOLEAN
  PROVE  /\ SizeUpTo(descs, {w})[n] \in Nat
         /\ SizeUpTo(descs, {w})[n] <= SizeOf(descs, {w})
         /\ SizeOf(descs, {w}) <= Total(descs)
         /\ SizeOf(descs, {w}) \in Nat /\ Total(descs) \in Nat
  <1> DEFINE l == Len(descs)
             b == SizeUpTo(descs, BOOLEAN)[l]
             t == SizeUpTo(descs, {TRUE})[l]
             f == SizeUpTo(descs, {FALSE})[l]
             s == SizeUpTo(descs, {w})
  <1>1. l \in 0 .. Len(descs) /\ n \in 0 .. l /\ l = Len(descs)
    OBVIOUS
  <1> HIDE DEF l
  <1>2. s[n] \in Nat /\ s[n] <= s[l]
    BY <1>1, SizeSteps, SizeGrows
  <1>3. t \in Nat /\ f \in Nat /\ b \in Nat
    BY <1>1, SizeSteps
  <1>4. b = t + f
    BY <1>1, SizeSplits
  <1>5. s[l] = t \/ s[l] = f
    BY Zenon
  <1>6. SizeOf(descs, {w}) = s[l] /\ Total(descs) = b
    BY <1>1, Zenon DEF SizeOf, Total
  <1> HIDE DEF b, t, f, s
  <1>7. s[l] \in Nat /\ s[l] <= b
    BY <1>3, <1>4, <1>5
  <1>8. SizeOf(descs, {w}) \in Nat /\ SizeOf(descs, {w}) <= Total(descs) /\ Total(descs) \in Nat
    BY <1>3, <1>6, <1>7
  <1>9. s[n] \in Nat /\ s[n] <= SizeOf(descs, {w})
    BY <1>2, <1>6
  <1> QED BY <1>8, <1>9 DEF s

----------------------------------------------------------------------------
(* The staging buffer, and parts of a sequence or of memory replaced. *)

LEMMA StagingIs ==
  ASSUME NEW descs \in Seq(Desc)
  PROVE  /\ Staging(descs) \in Seq(Nat) /\ Len(Staging(descs)) = Total(descs)
         /\ \A k \in 1 .. Total(descs) : Staging(descs)[k] = 0
  <1>1. Total(descs) \in Nat
    BY SizeSteps DEF Total, SizeOf
  <1> QED BY <1>1 DEF Staging, Zeros

LEMMA StoredSeq ==
  ASSUME NEW f \in Seq(Nat), NEW a \in Nat, NEW n \in Nat, NEW s,
         \A k \in 1 .. n : s[k] \in Nat
  PROVE  /\ Stored(f, a, s, n) \in Seq(Nat) /\ Len(Stored(f, a, s, n)) = Len(f)
         /\ \A k \in 1 .. Len(f) :
              Stored(f, a, s, n)[k] = IF k \in a .. a + n - 1 THEN s[k - a + 1] ELSE f[k]
  <1> DEFINE g == Stored(f, a, s, n)
             m == Len(f)
  <1>1. m \in Nat /\ DOMAIN f = 1 .. m /\ \A k \in 1 .. m : f[k] \in Nat
    OBVIOUS
  <1>2. g = [k \in 1 .. m |-> IF k \in a .. a + n - 1 THEN s[k - a + 1] ELSE f[k]]
    BY <1>1 DEF Stored
  <1> HIDE DEF g, m
  <1>3. \A k \in 1 .. m : g[k] \in Nat
    BY <1>1, <1>2
  <1>4. g \in Seq(Nat) /\ Len(g) = m
    BY <1>1, <1>2, <1>3
  <1> QED BY <1>2, <1>4 DEF g, m

LEMMA StoredMem ==
  ASSUME NEW f \in [Mapped -> Nat], NEW a \in Nat, NEW n \in Nat, NEW s,
         \A k \in 1 .. n : s[k] \in Nat
  PROVE  /\ Stored(f, a, s, n) \in [Mapped -> Nat]
         /\ \A k \in Mapped :
              Stored(f, a, s, n)[k] = IF k \in a .. a + n - 1 THEN s[k - a + 1] ELSE f[k]
  BY RequestAssumption DEF Stored

\* A part of a sequence.
LEMMA Part ==
  ASSUME NEW s \in Seq(Nat), NEW from \in Nat, NEW n \in Nat, n = 0 \/ from + n <= Len(s)
  PROVE  \A k \in 1 .. n : /\ SubSeq(s, from + 1, from + n)[k] \in Nat
                           /\ SubSeq(s, from + 1, from + n)[k] = s[from + k]
  <1> SUFFICES ASSUME NEW k \in 1 .. n
               PROVE  /\ SubSeq(s, from + 1, from + n)[k] \in Nat
                      /\ SubSeq(s, from + 1, from + n)[k] = s[from + k]
    OBVIOUS
  <1>1. n # 0 /\ from + n <= Len(s) /\ Len(s) \in Nat
    OBVIOUS
  <1>2. \A i \in from + 1 .. from + n : s[i] \in Nat
    BY <1>1
  <1>3. k \in 1 .. (from + n) - (from + 1) + 1 /\ (from + 1) + k - 1 = from + k
    OBVIOUS
  <1>4. from + 1 \in Int /\ from + n \in Int
    OBVIOUS
  <1>5. SubSeq(s, from + 1, from + n)[k] = s[(from + 1) + k - 1]
    BY <1>2, <1>3, <1>4, SubSeqProperties
  <1> QED BY <1>1, <1>3, <1>5

----------------------------------------------------------------------------
(* Descriptors and what they grant. *)

LEMMA EmptyHonest == Honest(<<>>)
  BY DEF Honest

\* A descriptor of the table grants no more than the table.
LEMMA TableGrants ==
  ASSUME TypeOK, GuestOK, NEW i \in Index, table[i].write
  PROVE  Cells(table[i]) \subseteq granted
  BY DEF TypeOK, GuestOK, WritableCells

LEMMA AppendHonest ==
  ASSUME NEW s, Honest(s), NEW d \in Desc, d.write => Cells(d) \subseteq granted
  PROVE  Honest(Append(s, d)) /\ Len(Append(s, d)) = Len(s) + 1 /\ Append(s, d) # <<>>
  <1>1. /\ Append(s, d) \in Seq(Desc) /\ Len(Append(s, d)) = Len(s) + 1
        /\ \A k \in 1 .. Len(s) + 1 :
             Append(s, d)[k] = IF k = Len(s) + 1 THEN d ELSE s[k]
    BY AppendProperties DEF Honest
  <1>2. Len(s) \in Nat
    BY DEF Honest
  <1> QED BY <1>1, <1>2 DEF Honest

\* The data buffers of a chain are the descriptors between its first and its last.
LEMMA DataIs ==
  ASSUME NEW c \in Seq(Desc), Len(c) >= MinChain
  PROVE  /\ DataOf(c) \in Seq(Desc) /\ Len(DataOf(c)) = Len(c) - 2 /\ Len(c) \in Nat
         /\ \A k \in 1 .. Len(c) - 2 : DataOf(c)[k] = c[k + 1]
         /\ LastOf(c) \in Desc
  <1> DEFINE n == Len(c) - 1
  <1>1. Len(c) \in Nat /\ n \in Int /\ n >= 1
    BY DEF MinChain
  <1>2. \A k \in 2 .. n : c[k] \in Desc
    <2>1. \A k \in 2 .. n : k \in 1 .. Len(c)
      BY <1>1
    <2> QED BY <2>1, ElementOfSeq
  <1>3. LastOf(c) \in Desc
    <2>1. Len(c) \in 1 .. Len(c)
      BY <1>1
    <2> QED BY <2>1, ElementOfSeq DEF LastOf
  <1>4. n = Len(c) - 1
    OBVIOUS
  <1> HIDE DEF n
  <1>5. /\ SubSeq(c, 2, n) \in Seq(Desc)
        /\ Len(SubSeq(c, 2, n)) = IF 2 <= n THEN n - 2 + 1 ELSE 0
        /\ \A k \in 1 .. n - 2 + 1 : SubSeq(c, 2, n)[k] = c[2 + k - 1]
    BY <1>1, <1>2, SubSeqProperties
  <1>6. \A k \in 1 .. Len(c) - 2 : k \in 1 .. n - 2 + 1 /\ 2 + k - 1 = k + 1
    BY <1>1, <1>4
  <1>7. DataOf(c) = SubSeq(c, 2, n)
    BY <1>4 DEF DataOf
  <1>8. Len(SubSeq(c, 2, n)) = Len(c) - 2
    <2>1. Len(SubSeq(c, 2, n)) = IF 2 <= n THEN n - 2 + 1 ELSE 0
      BY <1>5
    <2>2. Len(SubSeq(c, 2, n)) = n - 1
      BY <1>1, <2>1
    <2> QED BY <1>1, <1>4, <2>2
  <1> QED BY <1>1, <1>3, <1>5, <1>6, <1>7, <1>8

\* get_data_buffers returns descriptors of the chain.
LEMMA MiddleHonest ==
  ASSUME NEW s, Honest(s)
  PROVE  Honest(Middle(s))
  <1>1. CASE Len(s) < MinChain
    BY <1>1, EmptyHonest DEF Middle
  <1>2. CASE ~(Len(s) < MinChain)
    <2>1. s \in Seq(Desc) /\ Len(s) \in Nat /\ Len(s) >= MinChain
      BY <1>2 DEF Honest, MinChain
    <2>2. /\ DataOf(s) \in Seq(Desc) /\ Len(DataOf(s)) = Len(s) - 2
          /\ \A k \in 1 .. Len(s) - 2 : DataOf(s)[k] = s[k + 1]
      BY <2>1, DataIs
    <2>3. \A k \in 1 .. Len(s) - 2 : k + 1 \in 1 .. Len(s)
      BY <2>1
    <2>4. Middle(s) = DataOf(s)
      BY <1>2 DEF Middle, DataOf
    <2> QED BY <2>1, <2>2, <2>3, <2>4 DEF Honest
  <1> QED BY <1>1, <1>2

\* The status byte lies in the last descriptor.
LEMMA StatusGranted ==
  ASSUME Honest(walk), walk # <<>>, IsStatus(LastOf(walk))
  PROVE  LastOf(walk).addr \in granted
  <1>1. Len(walk) \in 1 .. Len(walk) /\ walk[Len(walk)] \in Desc
    BY DEF Honest
  <1>2. LastOf(walk).addr \in Cells(LastOf(walk))
    BY <1>1 DEF IsStatus, LastOf, Cells, Desc
  <1> QED BY <1>1, <1>2 DEF Honest, LastOf, IsStatus

----------------------------------------------------------------------------
(* Steps. *)

\* What may happen to the table: the guest writes another descriptor.
LEMMA GuestStep ==
  ASSUME IInv, [Next]_vars
  PROVE  GuestOK' /\ granted \subseteq granted' /\ table' \in [Index -> Desc]
  <1> USE DEF IInv, TypeOK, GuestOK
  <1>1. CASE UNCHANGED <<table, granted>>
    BY <1>1 DEF WritableCells
  <1>2. ASSUME NEW r \in Rewrites, Rewrite(r[1], r[2])
        PROVE  GuestOK' /\ granted \subseteq granted' /\ table' \in [Index -> Desc]
    <2>1. r[1] \in Index /\ r[2] \in Desc
      BY RequestAssumption
    <2>2. table' = [table EXCEPT ![r[1]] = r[2]]
          /\ granted' = granted \cup WritableCells(table')
      BY <1>2 DEF Rewrite
    <2> QED BY <2>1, <2>2
  <1>3. CASE Handler
    <2>1. UNCHANGED <<table, granted>>
      BY <1>3 DEF Handler, ReadDesc, BadIndex, WalkFails, ParseHeader, ValidateLength,
                  GetDataBuffers, GetStatusAddr, ExecuteRead, ExecuteWrite, ExecuteFlush,
                  ExecuteUnsupported, SkipBuffer, CopyToGuest, CopyToGuestFails, Delivered,
                  CopyFromGuest, CopyFromGuestFails, StoreToBackend, Complete,
                  CompleteWithError, guest
    <2> QED BY <1>1, <2>1
  <1>4. CASE UNCHANGED vars
    BY <1>1, <1>4 DEF vars, guest
  <1> QED BY <1>2, <1>3, <1>4 DEF Next

\* What the device has read stays granted: a rewriting of the table takes nothing back.
LEMMA HonestStays ==
  ASSUME NEW s, Honest(s), granted \subseteq granted'
  PROVE  /\ s \in Seq(Desc)
         /\ \A k \in 1 .. Len(s) : s[k].write => Cells(s[k]) \subseteq granted'
  BY DEF Honest

\* follow_chain starts anew, takes a descriptor, or gives up.
LEMMA WalkMoves ==
  ASSUME [Next]_vars
  PROVE  \/ ReadDesc
         \/ BadIndex
         \/ walk' = <<>> /\ at' = RequestHead /\ outcome' = "going"
         \/ UNCHANGED walking
  <1>1. CASE Handler
    BY <1>1 DEF Handler, WalkFails, ParseHeader, ValidateLength, GetDataBuffers,
                GetStatusAddr, ExecuteRead, ExecuteWrite, ExecuteFlush, ExecuteUnsupported,
                SkipBuffer, CopyToGuest, CopyToGuestFails, Delivered, CopyFromGuest,
                CopyFromGuestFails, StoreToBackend, Complete, CompleteWithError,
                Follow, Respond
  <1>2. CASE \E r \in Rewrites : Rewrite(r[1], r[2])
    BY <1>2 DEF Rewrite
  <1> QED BY <1>1, <1>2 DEF Next, vars

LEMMA WalkStep ==
  ASSUME IInv, [Next]_vars
  PROVE  WalkOK'
  <1> USE DEF IInv
  <1>g. granted \subseteq granted' /\ QueueSize \in Nat
    BY GuestStep, RequestAssumption
  <1>1. CASE ReadDesc
    <2>1. at \in Index /\ table[at] \in Desc /\ outcome = "going" /\ granted' = granted
      BY <1>1, RequestAssumption DEF ReadDesc, TypeOK, guest
    <2>2. table[at].write => Cells(table[at]) \subseteq granted
      BY <2>1, TableGrants
    <2>3. /\ Honest(walk') /\ Len(walk') = Len(walk) + 1 /\ walk' # <<>>
      BY <1>1, <2>1, <2>2, AppendHonest DEF ReadDesc, WalkOK
    <2>4. Len(walk') <= QueueSize + 1 /\ Len(walk) \in Nat /\ Len(walk') \in Nat
      BY <1>g, <2>1, <2>3 DEF WalkOK, Honest
    <2>5. outcome' = "going" => ~TooLong(walk')
      BY <1>1 DEF ReadDesc
    <2> QED BY <1>g, <2>1, <2>3, <2>4, <2>5 DEF WalkOK, TooLong, Honest
  <1>2. CASE BadIndex
    BY <1>2, <1>g, HonestStays DEF BadIndex, WalkOK, Honest
  <1>3. CASE walk' = <<>> /\ outcome' = "going"
    BY <1>3, <1>g DEF WalkOK, Honest
  <1>4. CASE UNCHANGED walking
    BY <1>4, <1>g, HonestStays DEF walking, WalkOK, Honest
  <1> QED BY <1>1, <1>2, <1>3, <1>4, WalkMoves

LEMMA BuffersStep ==
  ASSUME IInv, [Next]_vars
  PROVE  Honest(buffers)'
  <1> USE DEF IInv
  <1>g. granted \subseteq granted'
    BY GuestStep
  <1>1. CASE GetDataBuffers
    <2>1. Honest(Middle(walk)) /\ granted' = granted
      BY <1>1, MiddleHonest DEF WalkOK, GetDataBuffers, guest
    <2> QED BY <1>1, <2>1 DEF GetDataBuffers, Honest
  <1>2. CASE buffers' = buffers
    BY <1>2, <1>g, HonestStays DEF Honest
  <1>3. CASE Handler /\ ~GetDataBuffers
    <2>1. buffers' = buffers
      BY <1>3 DEF Handler, ReadDesc, BadIndex, WalkFails, ParseHeader, ValidateLength,
                  GetStatusAddr, ExecuteRead, ExecuteWrite, ExecuteFlush,
                  ExecuteUnsupported, SkipBuffer, CopyToGuest, CopyToGuestFails, Delivered,
                  CopyFromGuest, CopyFromGuestFails, StoreToBackend, Complete,
                  CompleteWithError, request
    <2> QED BY <1>2, <2>1
  <1>4. CASE \E r \in Rewrites : Rewrite(r[1], r[2])
    BY <1>2, <1>4 DEF Rewrite, request
  <1>5. CASE UNCHANGED vars
    BY <1>2, <1>5 DEF vars, request
  <1> QED BY <1>1, <1>3, <1>4, <1>5 DEF Next

LEMMA CallsStep ==
  ASSUME IInv, [Next]_vars
  PROVE  CallsOK'
  <1> USE DEF IInv, CallsOK, Parsing
  <1>1. CASE UNCHANGED <<pc, status, calls>>
    BY <1>1
  <1>2. CASE ReadDesc \/ BadIndex \/ SkipBuffer \/ CopyToGuest \/ CopyFromGuest
    BY <1>1, <1>2 DEF ReadDesc, BadIndex, SkipBuffer, CopyToGuest, CopyFromGuest
  <1>3. CASE WalkFails \/ ParseHeader \/ ValidateLength \/ GetDataBuffers \/ GetStatusAddr
    BY <1>3 DEF WalkFails, ParseHeader, ValidateLength, GetDataBuffers, GetStatusAddr,
                Parsed, Follow
  <1>4. CASE ExecuteRead \/ ExecuteWrite \/ ExecuteFlush \/ ExecuteUnsupported
    BY <1>4 DEF ExecuteRead, ExecuteWrite, ExecuteFlush, ExecuteUnsupported, Executing,
                Respond, Follow
  <1>5. CASE CopyToGuestFails \/ CopyFromGuestFails
    BY <1>5 DEF CopyToGuestFails, CopyFromGuestFails, Copying, Respond, Follow, CopyError
  <1>6. CASE Delivered \/ StoreToBackend
    BY <1>6 DEF Delivered, StoreToBackend, Respond, Follow
  <1>7. CASE Complete \/ CompleteWithError
    BY <1>7 DEF Complete, CompleteWithError
  <1>8. CASE \E r \in Rewrites : Rewrite(r[1], r[2])
    BY <1>1, <1>8 DEF Rewrite
  <1>9. CASE UNCHANGED vars
    BY <1>1, <1>9 DEF vars
  <1> QED BY <1>2, <1>3, <1>4, <1>5, <1>6, <1>7, <1>8, <1>9 DEF Next, Handler

\* The buffer that is copied next, and that it has room in the staging buffer.
LEMMA NextBuffer ==
  ASSUME IInv, pc \in {"deliver", "gather"}, next < Len(buffers)
  PROVE  /\ Buffer \in Desc /\ next + 1 \in 1 .. Len(buffers) /\ Buffer = buffers[next + 1]
         /\ SizeUpTo(buffers, {pc = "deliver"})[next + 1]
              = off + Share(Buffer, {pc = "deliver"})
         /\ off + Share(Buffer, {pc = "deliver"}) <= Len(data)
  <1> DEFINE w == (pc = "deliver")
             s == SizeUpTo(buffers, {w})
             n == next + 1
  <1>1. /\ buffers \in Seq(Desc) /\ n \in 1 .. Len(buffers) /\ n \in 0 .. Len(buffers)
        /\ n - 1 = next /\ w \in BOOLEAN
    BY DEF IInv, TypeOK
  <1>2. Buffer = buffers[n]
    BY DEF Buffer
  <1>3. off = s[next] /\ Len(data) = Total(buffers)
    BY DEF IInv, CopyOK
  <1> HIDE DEF w, n
  <1>4. s[n] = s[n - 1] + Share(buffers[n], {w})
    BY <1>1, SizeSteps
  <1>5. s[n] <= Total(buffers)
    <2>1. /\ s[n] \in Nat /\ s[n] <= SizeOf(buffers, {w})
          /\ SizeOf(buffers, {w}) <= Total(buffers)
          /\ SizeOf(buffers, {w}) \in Nat /\ Total(buffers) \in Nat
      BY <1>1, SizeBounds
    <2> HIDE DEF s
    <2> QED BY <2>1
  <1> QED BY <1>1, <1>2, <1>3, <1>4, <1>5 DEF n, w

LEMMA NextFits ==
  ASSUME IInv,
         \/ Copying("deliver") /\ Buffer.write
         \/ Copying("gather") /\ ~Buffer.write
  PROVE  /\ Fits(Buffer) /\ Buffer \in Desc
         /\ SizeUpTo(buffers, {pc = "deliver"})[next + 1] = off + Buffer.len
  <1>1. pc \in {"deliver", "gather"} /\ next < Len(buffers)
    BY DEF Copying
  <1>2. Buffer.write \in {pc = "deliver"}
    BY <1>1, NextBuffer DEF Copying, Desc
  <1>3. Share(Buffer, {pc = "deliver"}) = Buffer.len
    BY <1>2, Zenon DEF Share
  <1> QED BY <1>1, <1>3, NextBuffer DEF Fits

LEMMA BufferContents ==
  ASSUME IInv, CopyFromGuest
  PROVE  \A k \in 1 .. Buffer.len :
           Contents(mem, Buffer)[k] = mem[Buffer.addr + k - 1] /\ Contents(mem, Buffer)[k] \in Nat
  <1> SUFFICES ASSUME NEW k \in 1 .. Buffer.len
               PROVE  /\ Contents(mem, Buffer)[k] = mem[Buffer.addr + k - 1]
                      /\ Contents(mem, Buffer)[k] \in Nat
    OBVIOUS
  <1>1. Buffer \in Desc /\ Cells(Buffer) \subseteq Mapped /\ mem \in [Mapped -> Nat]
    BY NextFits DEF CopyFromGuest, IInv, TypeOK
  <1>2. Buffer.addr + k - 1 \in Cells(Buffer)
    BY <1>1 DEF Cells, Desc
  <1> QED BY <1>1, <1>2 DEF Contents

LEMMA WalkTypes ==
  ASSUME IInv, [Next]_vars
  PROVE  /\ left' \in 0 .. MaxRewrites /\ granted' \subseteq Nat
         /\ at' \in Nat /\ outcome' \in {"going", "ended", "failed"} /\ pc' \in PC
  <1>t. at \in Nat /\ outcome \in {"going", "ended", "failed"} /\ pc \in PC
    BY DEF IInv, TypeOK
  <1> USE DEF IInv, TypeOK
  <1>1. CASE ReadDesc \/ BadIndex
    <2>1. at \in Readable => table[at].next \in Nat
      BY RequestAssumption DEF Desc
    <2> QED BY <1>1, <2>1 DEF ReadDesc, BadIndex, guest
  <1>2. CASE WalkFails \/ ParseHeader \/ ValidateLength \/ GetDataBuffers \/ GetStatusAddr
    BY <1>2, RequestAssumption
       DEF WalkFails, ParseHeader, ValidateLength, GetDataBuffers, GetStatusAddr, Follow,
           PC, Walking, Parsing, guest, walking
  <1>3. CASE ExecuteRead \/ ExecuteWrite \/ ExecuteFlush \/ ExecuteUnsupported
    BY <1>3, RequestAssumption
       DEF ExecuteRead, ExecuteWrite, ExecuteFlush, ExecuteUnsupported, Respond, Follow,
           PC, Walking, guest, walking
  <1>4. CASE \/ SkipBuffer \/ CopyToGuest \/ CopyToGuestFails \/ CopyFromGuest
             \/ CopyFromGuestFails
    BY <1>4, RequestAssumption
       DEF SkipBuffer, CopyToGuest, CopyToGuestFails, CopyFromGuest, CopyFromGuestFails,
           Respond, Follow, PC, Walking, guest, walking
  <1>5. CASE Delivered \/ StoreToBackend \/ Complete \/ CompleteWithError
    BY <1>5, RequestAssumption
       DEF Delivered, StoreToBackend, Complete, CompleteWithError, Respond, Follow,
           PC, Walking, guest, walking
  <1>6. ASSUME NEW r \in Rewrites, Rewrite(r[1], r[2])
        PROVE  /\ left' \in 0 .. MaxRewrites /\ granted' \subseteq Nat
               /\ at' \in Nat /\ outcome' \in {"going", "ended", "failed"} /\ pc' \in PC
    <2>1. WritableCells(table') \subseteq Nat
      <3>1. table' \in [Index -> Desc]
        BY GuestStep
      <3>2. \A i \in Index : Cells(table'[i]) \subseteq Nat
        BY <3>1 DEF Cells, Desc
      <3> QED BY <3>2 DEF WritableCells
    <2>2. /\ granted' = granted \cup WritableCells(table') /\ left > 0 /\ left' = left - 1
          /\ UNCHANGED <<at, outcome, pc>>
      BY <1>6 DEF Rewrite, walking
    <2>3. MaxRewrites \in Nat /\ left \in 0 .. MaxRewrites /\ granted \subseteq Nat
      BY RequestAssumption
    <2>4. left - 1 \in 0 .. MaxRewrites
      BY <2>2, <2>3
    <2> HIDE DEF IInv, TypeOK
    <2> QED BY <1>t, <2>1, <2>2, <2>3, <2>4
  <1>7. CASE UNCHANGED vars
    BY <1>7 DEF vars, guest, walking
  <1> QED BY <1>1, <1>2, <1>3, <1>4, <1>5, <1>6, <1>7 DEF Next, Handler

\* What a handler writes to guest memory and to the disk, and its staging buffer.
LEMMA DataTypes ==
  ASSUME IInv, [Next]_vars
  PROVE  mem' \in [Mapped -> Nat] /\ disk' \in Seq(Nat) /\ data' \in Seq(Nat)
  <1>t. /\ mem \in [Mapped -> Nat] /\ disk \in Seq(Nat) /\ data \in Seq(Nat)
        /\ sector \in Nat /\ off \in Nat /\ buffers \in Seq(Desc)
    BY DEF IInv, TypeOK
  <1>1. CASE UNCHANGED <<mem, disk, data>>
    BY <1>t, <1>1
  <1>2. CASE \/ ReadDesc \/ BadIndex \/ WalkFails \/ ParseHeader \/ ValidateLength
             \/ GetDataBuffers \/ GetStatusAddr \/ ExecuteFlush \/ ExecuteUnsupported
             \/ SkipBuffer \/ CopyFromGuestFails \/ Delivered
             \/ \E r \in Rewrites : Rewrite(r[1], r[2])
    BY <1>1, <1>2
       DEF ReadDesc, BadIndex, WalkFails, ParseHeader, ValidateLength, GetDataBuffers,
           GetStatusAddr, ExecuteFlush, ExecuteUnsupported, SkipBuffer, CopyFromGuestFails,
           Delivered, Rewrite, copying
  <1>3. CASE ExecuteRead
    <2>1. CASE data' = data
      BY <1>1, <1>3, <2>1 DEF ExecuteRead
    <2>2. ASSUME NEW n \in Transfers(sector, Len(Staging(buffers))),
                 data' = Stored(Staging(buffers), 1, SubSeq(disk, sector + 1, sector + n), n)
          PROVE  data' \in Seq(Nat)
      <3>1. n \in Nat /\ (n = 0 \/ sector + n <= Len(disk))
        BY <1>t, <2>2, StagingIs, SizeSteps DEF Transfers
      <3>2. \A k \in 1 .. n : SubSeq(disk, sector + 1, sector + n)[k] \in Nat
        BY <1>t, <3>1, Part
      <3>3. Staging(buffers) \in Seq(Nat)
        BY <1>t, StagingIs
      <3> QED BY <2>2, <3>1, <3>2, <3>3, StoredSeq
    <2>3. /\ mem' = mem /\ disk' = disk
          /\ \/ data' = data
             \/ \E n \in Transfers(sector, Len(Staging(buffers))) :
                  data' = Stored(Staging(buffers), 1,
                                 SubSeq(disk, sector + 1, sector + n), n)
      BY <1>3 DEF ExecuteRead
    <2> QED BY <1>t, <2>1, <2>2, <2>3
  <1>4. CASE ExecuteWrite
    BY <1>t, <1>4, StagingIs DEF ExecuteWrite
  <1>5. CASE CopyToGuest
    <2>1. Buffer \in Desc /\ off + Buffer.len <= Len(data)
      <3>1. Copying("deliver") /\ Buffer.write
        BY <1>5 DEF CopyToGuest
      <3> QED BY <3>1, NextFits DEF Fits
    <2>2. \A k \in 1 .. Buffer.len : SubSeq(data, off + 1, off + Buffer.len)[k] \in Nat
      BY <1>t, <2>1, Part DEF Desc
    <2>3. Stored(mem, Buffer.addr, SubSeq(data, off + 1, off + Buffer.len), Buffer.len)
            \in [Mapped -> Nat]
      BY <1>t, <2>1, <2>2, StoredMem DEF Desc
    <2> QED BY <1>t, <1>5, <2>3 DEF CopyToGuest
  <1>6. CASE CopyToGuestFails
    <2>1. Buffer \in Desc /\ off + Buffer.len <= Len(data) /\ Fits(Buffer)
      <3>1. Copying("deliver") /\ Buffer.write
        BY <1>6 DEF CopyToGuestFails
      <3> QED BY <3>1, NextFits DEF Fits
    <2>2. PICK n \in 0 .. Buffer.len :
            mem' = Stored(mem, Buffer.addr, SubSeq(data, off + 1, off + n), n)
      BY <1>6, <2>1 DEF CopyToGuestFails
    <2>3. n \in Nat /\ off + n <= Len(data) /\ Buffer.addr \in Nat
      BY <1>t, <2>1, <2>2 DEF Desc
    <2>4. \A k \in 1 .. n : SubSeq(data, off + 1, off + n)[k] \in Nat
      BY <1>t, <2>3, Part
    <2>5. Stored(mem, Buffer.addr, SubSeq(data, off + 1, off + n), n) \in [Mapped -> Nat]
      BY <1>t, <2>3, <2>4, StoredMem
    <2> QED BY <1>t, <1>6, <2>2, <2>5 DEF CopyToGuestFails, copying
  <1>7. CASE CopyFromGuest
    <2>1. Buffer \in Desc /\ Cells(Buffer) \subseteq Mapped
      BY <1>7, NextFits DEF CopyFromGuest
    <2>2. \A k \in 1 .. Buffer.len : Contents(mem, Buffer)[k] \in Nat
      BY <1>7, BufferContents
    <2>3. Stored(data, off + 1, Contents(mem, Buffer), Buffer.len) \in Seq(Nat)
      BY <1>t, <2>1, <2>2, StoredSeq DEF Desc
    <2> QED BY <1>t, <1>7, <2>3 DEF CopyFromGuest
  <1>8. CASE StoreToBackend
    <2>1. PICK n \in Transfers(sector, Len(data)) : disk' = Stored(disk, sector + 1, data, n)
      BY <1>8 DEF StoreToBackend
    <2>2. n \in Nat /\ \A k \in 1 .. n : data[k] \in Nat
      BY <1>t DEF Transfers
    <2>3. Stored(disk, sector + 1, data, n) \in Seq(Nat)
      BY <1>t, <2>2, StoredSeq
    <2> QED BY <1>t, <1>8, <2>1, <2>3 DEF StoreToBackend, copying
  <1>9. CASE Complete \/ CompleteWithError
    <2>1. \A s : StatusByte(s) \in Nat
      BY DEF StatusByte
    <2> QED BY <1>t, <1>9, <2>1 DEF Complete, CompleteWithError, WriteStatusByte, copying
  <1>10. CASE UNCHANGED vars
    BY <1>1, <1>10 DEF vars, copying
  <1> QED BY <1>2, <1>3, <1>4, <1>5, <1>6, <1>7, <1>8, <1>9, <1>10 DEF Next, Handler

LEMMA RequestTypes ==
  ASSUME IInv, [Next]_vars
  PROVE  type' \in Nat /\ sector' \in Nat
  <1>t. type \in Nat /\ sector \in Nat /\ mem \in [Mapped -> Nat]
    BY DEF IInv, TypeOK
  <1>1. CASE UNCHANGED <<type, sector>>
    BY <1>t, <1>1
  <1>2. CASE ParseHeader
    <2>1. outcome = "ended" /\ walk \in Seq(Desc) /\ walk # <<>>
      BY <1>2 DEF ParseHeader, Parsed, IInv, TypeOK, WalkOK
    <2>2. walk[1] \in Desc
      BY <2>1
    <2>3. walk[1].addr \in HeaderCells(walk[1]) /\ walk[1].addr + 1 \in HeaderCells(walk[1])
      BY <2>2 DEF HeaderCells, HeaderSize, Desc
    <2> QED BY <1>t, <1>2, <2>3 DEF ParseHeader
  <1>3. CASE Handler /\ ~ParseHeader
    BY <1>1, <1>3
       DEF Handler, ReadDesc, BadIndex, WalkFails, ValidateLength, GetDataBuffers,
           GetStatusAddr, ExecuteRead, ExecuteWrite, ExecuteFlush, ExecuteUnsupported,
           SkipBuffer, CopyToGuest, CopyToGuestFails, Delivered, CopyFromGuest,
           CopyFromGuestFails, StoreToBackend, Complete, CompleteWithError, request
  <1>4. CASE \E r \in Rewrites : Rewrite(r[1], r[2])
    BY <1>1, <1>4 DEF Rewrite, request
  <1>5. CASE UNCHANGED vars
    BY <1>1, <1>5 DEF vars, request
  <1> QED BY <1>2, <1>3, <1>4, <1>5 DEF Next

\* The buffers copied are counted, and the data they take.
LEMMA CopyTypes ==
  ASSUME IInv, [Next]_vars
  PROVE  next' \in Nat /\ off' \in Nat
  <1>t. next \in Nat /\ off \in Nat
    BY DEF IInv, TypeOK
  <1>1. CASE UNCHANGED <<next, off>>
    BY <1>t, <1>1
  <1>2. CASE SkipBuffer
    BY <1>t, <1>2 DEF SkipBuffer
  <1>3. CASE CopyToGuest \/ CopyFromGuest
    <2>1. Buffer.len \in Nat
      BY <1>3, NextFits DEF CopyToGuest, CopyFromGuest, Desc
    <2> QED BY <1>t, <1>3, <2>1 DEF CopyToGuest, CopyFromGuest
  <1>4. CASE Handler /\ ~SkipBuffer /\ ~CopyToGuest /\ ~CopyFromGuest
    BY <1>1, <1>4
       DEF Handler, ReadDesc, BadIndex, WalkFails, ParseHeader, ValidateLength,
           GetDataBuffers, GetStatusAddr, ExecuteRead, ExecuteWrite, ExecuteFlush,
           ExecuteUnsupported, CopyToGuestFails, Delivered, CopyFromGuestFails,
           StoreToBackend, Complete, CompleteWithError, copying
  <1>5. CASE \E r \in Rewrites : Rewrite(r[1], r[2])
    BY <1>1, <1>5 DEF Rewrite, copying
  <1>6. CASE UNCHANGED vars
    BY <1>1, <1>6 DEF vars, copying
  <1> QED BY <1>2, <1>3, <1>4, <1>5, <1>6 DEF Next

LEMMA ResultTypes ==
  ASSUME IInv, [Next]_vars
  PROVE  /\ status' \in Status /\ answer' \in {"none", "used", "dropped"}
         /\ usedLen' \in 0 .. LenMod - 1
  <1>t. /\ status \in Status /\ answer \in {"none", "used", "dropped"}
        /\ usedLen \in 0 .. LenMod - 1 /\ LenMod \in Nat \ {0}
    BY RequestAssumption DEF IInv, TypeOK
  <1>1. CASE UNCHANGED <<status, result>>
    BY <1>t, <1>1 DEF result
  <1>2. CASE Complete
    <2>1. Total(buffers) \in Nat
      BY SizeSteps DEF IInv, TypeOK, Total, SizeOf
    <2>2. UsedLength(buffers) \in 0 .. LenMod - 1
      BY <1>t, <2>1 DEF UsedLength
    <2> QED BY <1>t, <1>2, <2>2 DEF Complete
  <1>3. CASE CompleteWithError
    BY <1>t, <1>3 DEF CompleteWithError, Status
  <1>4. CASE \/ ExecuteRead \/ ExecuteFlush \/ ExecuteUnsupported \/ CopyToGuestFails
             \/ CopyFromGuestFails \/ Delivered \/ StoreToBackend
    BY <1>t, <1>4
       DEF ExecuteRead, ExecuteFlush, ExecuteUnsupported, CopyToGuestFails,
           CopyFromGuestFails, Delivered, StoreToBackend, Respond, CopyError, Status, result
  <1>5. CASE \/ ReadDesc \/ BadIndex \/ WalkFails \/ ParseHeader \/ ValidateLength
             \/ GetDataBuffers \/ GetStatusAddr \/ ExecuteWrite \/ SkipBuffer
             \/ CopyToGuest \/ CopyFromGuest
    BY <1>1, <1>5
       DEF ReadDesc, BadIndex, WalkFails, ParseHeader, ValidateLength, GetDataBuffers,
           GetStatusAddr, ExecuteWrite, SkipBuffer, CopyToGuest, CopyFromGuest
  <1>6. CASE \E r \in Rewrites : Rewrite(r[1], r[2])
    BY <1>1, <1>6 DEF Rewrite
  <1>7. CASE UNCHANGED vars
    BY <1>1, <1>7 DEF vars
  <1> QED BY <1>2, <1>3, <1>4, <1>5, <1>6, <1>7 DEF Next, Handler

LEMMA TypeStep ==
  ASSUME IInv, [Next]_vars
  PROVE  TypeOK'
  <1>1. walk' \in Seq(Desc) /\ buffers' \in Seq(Desc) /\ calls' \in Nat
    BY WalkStep, BuffersStep, CallsStep DEF WalkOK, Honest, CallsOK
  <1> QED BY <1>1, GuestStep, WalkTypes, DataTypes, RequestTypes, CopyTypes, ResultTypes
          DEF TypeOK

LEMMA CopyStep ==
  ASSUME IInv, [Next]_vars
  PROVE  CopyOK'
  <1>t. /\ buffers \in Seq(Desc) /\ next \in Nat /\ off \in Nat /\ data \in Seq(Nat)
        /\ TypeOK' /\ CopyOK /\ CallsOK
    BY TypeStep DEF IInv, TypeOK
  <1>1. CASE UNCHANGED <<pc, buffers, copying, status, calls>>
    BY <1>t, <1>1 DEF CopyOK, copying
  <1>2. CASE ReadDesc \/ BadIndex
    BY <1>1, <1>2 DEF ReadDesc, BadIndex, request
  <1>3. CASE WalkFails \/ ParseHeader \/ ValidateLength \/ GetDataBuffers \/ GetStatusAddr
    BY <1>t, <1>3
       DEF WalkFails, ParseHeader, ValidateLength, GetDataBuffers, GetStatusAddr, Parsed,
           Follow, CopyOK, CallsOK, Parsing, copying
  <1>4. CASE ExecuteRead \/ ExecuteWrite
    <2>1. pc = "execute" /\ next' = 0 /\ off' = 0 /\ buffers' = buffers
      BY <1>t, <1>4 DEF ExecuteRead, ExecuteWrite, Executing, CopyOK, request
    <2>2. pc' \in {"deliver", "gather"} => Len(data') = Total(buffers)
      <3>1. ASSUME ExecuteRead, pc' # "complete"
            PROVE  Len(data') = Total(buffers)
        <4>1. PICK n \in Transfers(sector, Len(Staging(buffers))) :
                data' = Stored(Staging(buffers), 1, SubSeq(disk, sector + 1, sector + n), n)
          BY <3>1 DEF ExecuteRead, Respond, Follow
        <4>2. /\ sector \in Nat /\ disk \in Seq(Nat) /\ n \in Nat
              /\ n = 0 \/ sector + n <= Len(disk)
          BY <1>t, <4>1, StagingIs, SizeSteps DEF Transfers, IInv, TypeOK
        <4>3. \A k \in 1 .. n : SubSeq(disk, sector + 1, sector + n)[k] \in Nat
          BY <4>2, Part
        <4>4. Staging(buffers) \in Seq(Nat) /\ Len(Staging(buffers)) = Total(buffers)
          BY <1>t, StagingIs
        <4>5. Len(Stored(Staging(buffers), 1, SubSeq(disk, sector + 1, sector + n), n))
                = Len(Staging(buffers))
          BY <4>2, <4>3, <4>4, StoredSeq
        <4> QED BY <4>1, <4>4, <4>5
      <3> QED BY <1>t, <1>4, <3>1, StagingIs DEF ExecuteWrite
    <2>3. SizeUpTo(buffers, {pc' = "deliver"})[0] = 0 /\ 0 <= Len(buffers)
      BY <1>t, SizeSteps
    <2>4. pc' \in {"deliver", "gather", "complete"} /\ status' # "UNSUPP"
      BY <1>t, <1>4 DEF ExecuteRead, ExecuteWrite, Executing, Respond, Follow, CallsOK
    <2> QED BY <2>1, <2>2, <2>3, <2>4 DEF CopyOK, Parsing
  <1>5. CASE ExecuteFlush \/ ExecuteUnsupported
    BY <1>t, <1>5
       DEF ExecuteFlush, ExecuteUnsupported, Executing, Respond, Follow, CopyOK, CallsOK, Parsing
  <1>6. CASE SkipBuffer
    <2>1. /\ pc \in {"deliver", "gather"} /\ next < Len(buffers) /\ pc' = pc
          /\ UNCHANGED <<buffers, data, off, status, calls>> /\ next' = next + 1
          /\ Buffer.write # (pc = "deliver")
      BY <1>6, NextBuffer DEF SkipBuffer, Copying, request, Desc
    <2>2. Share(Buffer, {pc = "deliver"}) = 0
      BY <2>1, Zenon DEF Share
    <2>3. SizeUpTo(buffers, {pc = "deliver"})[next + 1] = off
      BY <1>t, <2>1, <2>2, NextBuffer
    <2> QED BY <1>t, <2>1, <2>3 DEF CopyOK, Parsing
  <1>7. CASE CopyToGuest \/ CopyFromGuest
    <2>1. /\ pc \in {"deliver", "gather"} /\ next < Len(buffers) /\ pc' = pc
          /\ UNCHANGED <<buffers, status, calls>> /\ next' = next + 1
          /\ off' = off + Buffer.len
      BY <1>7 DEF CopyToGuest, CopyFromGuest, Copying, request
    <2>2. /\ SizeUpTo(buffers, {pc = "deliver"})[next + 1] = off + Buffer.len
          /\ Buffer \in Desc
      BY <1>7, NextFits DEF CopyToGuest, CopyFromGuest
    <2>3. Len(data') = Len(data)
      <3>1. CASE CopyToGuest
        BY <3>1 DEF CopyToGuest
      <3>2. CASE CopyFromGuest
        <4>1. \A k \in 1 .. Buffer.len : Contents(mem, Buffer)[k] \in Nat
          BY <3>2, BufferContents
        <4> QED BY <1>t, <2>2, <3>2, <4>1, StoredSeq DEF CopyFromGuest, Desc
      <3> QED BY <1>7, <3>1, <3>2
    <2> QED BY <1>t, <2>1, <2>2, <2>3 DEF CopyOK, Parsing
  <1>8. CASE CopyToGuestFails \/ CopyFromGuestFails
    <2>1. Fits(Buffer) /\ pc \in {"deliver", "gather"}
      BY <1>8, NextFits DEF CopyToGuestFails, CopyFromGuestFails, Copying
    <2> QED BY <1>t, <1>8, <2>1
            DEF CopyToGuestFails, CopyFromGuestFails, CopyError, Respond, Follow, CopyOK, Parsing
  <1>9. CASE Delivered \/ StoreToBackend
    BY <1>t, <1>9 DEF Delivered, StoreToBackend, Respond, Follow, CopyOK, Parsing
  <1>10. CASE Complete \/ CompleteWithError
    BY <1>t, <1>10
       DEF Complete, CompleteWithError, WalkOver, CopyOK, Parsing
  <1>11. CASE \E r \in Rewrites : Rewrite(r[1], r[2])
    BY <1>1, <1>11 DEF Rewrite, request
  <1>12. CASE UNCHANGED vars
    BY <1>1, <1>12 DEF vars, request
  <1> QED BY <1>2, <1>3, <1>4, <1>5, <1>6, <1>7, <1>8, <1>9, <1>10, <1>11, <1>12
          DEF Next, Handler

----------------------------------------------------------------------------
(* The theorems. *)

LEMMA InitIInv ==
  ASSUME Init
  PROVE  IInv
  <1>1. GuestOK /\ CallsOK /\ CopyOK
    BY DEF Init, GuestOK, CallsOK, CopyOK, Parsing
  <1>2. WalkOK /\ Honest(buffers)
    BY EmptyHonest, RequestAssumption DEF Init, WalkOK
  <1>3. TypeOK
    <2>1. WritableCells(table) \subseteq Nat
      BY RequestAssumption DEF Init, WritableCells, Cells, Desc
    <2> QED BY <2>1, RequestAssumption DEF Init, TypeOK, PC, Walking, Parsing, Status
  <1> QED BY <1>1, <1>2, <1>3 DEF IInv

\* The inductive invariant: types; every descriptor that has been read, on a walk or as
\* a data buffer, lets the device write only where the guest has granted it; calls of
\* the backend and the place in the staging buffer follow the handler's way.
THEOREM Inductive == Spec => []IInv
  <1>1. IInv /\ [Next]_vars => IInv'
    BY TypeStep, GuestStep, WalkStep, BuffersStep, CallsStep, CopyStep DEF IInv
  <1> QED BY <1>1, InitIInv, PTL DEF Spec

\* Every variable keeps its type, the length of the used element among them, whatever
\* the tables, and however the guest rewrites them.
THEOREM TypeCorrect == Spec => []TypeOK
  <1>1. IInv => TypeOK
    BY DEF IInv
  <1> QED BY <1>1, Inductive, PTL

\* The staging buffer has room for every buffer that is copied, so that no request that
\* has reached the backend is reported as unsupported.
THEOREM BuffersFitIn == Spec => []BuffersFit
  <1>1. IInv => BuffersFit
    BY NextFits DEF IInv, CopyOK, BuffersFit
  <1> QED BY <1>1, Inductive, PTL

\* However the guest rewrites its table, a walk over it takes at most one descriptor
\* more than the table has.
THEOREM WalksBounded == Spec => []WalkBounded
  <1>1. IInv => WalkBounded
    BY DEF IInv, WalkOK, WalkBounded
  <1> QED BY <1>1, Inductive, PTL

\* A request reaches the backend at most once, and is reported as done only if it has.
THEOREM CalledOnce == Spec => []OneCall
  <1>1. IInv => OneCall
    BY DEF IInv, CallsOK, OneCall
  <1> QED BY <1>1, Inductive, PTL

\* The device never writes memory that the guest has not granted it by a device-writable
\* descriptor, although it reads the chain five times and the guest may rewrite it
\* between any two reads.
THEOREM Granted == Spec => WritesGranted
  <1>1. IInv /\ [Next]_vars => [\A a \in Mapped : mem'[a] # mem[a] => a \in granted]_vars
    <2> SUFFICES ASSUME IInv, Next, NEW a \in Mapped, mem'[a] # mem[a]
                 PROVE  a \in granted
      OBVIOUS
    <2> USE DEF IInv
    <2>1. CASE CopyToGuest
      <3>1. Buffer.write /\ next + 1 \in 1 .. Len(buffers) /\ Buffer \in Desc
        BY <2>1 DEF CopyToGuest, Copying, Buffer, Honest, TypeOK
      <3>2. a \in Cells(Buffer)
        BY <2>1 DEF CopyToGuest, Stored, Cells, TypeOK
      <3> QED BY <3>1, <3>2 DEF Honest, Buffer
    <2>2. CASE CopyToGuestFails
      <3>1. Buffer.write /\ next + 1 \in 1 .. Len(buffers) /\ Buffer \in Desc
        BY <2>2 DEF CopyToGuestFails, Copying, Buffer, Honest, TypeOK
      <3>2. PICK n \in IF Fits(Buffer) THEN 0 .. Buffer.len ELSE {0} :
              mem' = Stored(mem, Buffer.addr, SubSeq(data, off + 1, off + n), n)
        BY <2>2 DEF CopyToGuestFails
      <3>3. n \in Nat /\ n <= Buffer.len /\ Buffer.addr \in Nat /\ Buffer.len \in Nat
        BY <3>1, <3>2 DEF Desc
      <3>4. a \in Buffer.addr .. Buffer.addr + n - 1
        BY <3>2 DEF Stored, TypeOK
      <3>5. a \in Cells(Buffer)
        BY <3>3, <3>4 DEF Cells
      <3> QED BY <3>1, <3>5 DEF Honest, Buffer
    <2>3. CASE Complete \/ CompleteWithError
      <3>1. CanWriteStatus /\ \E s : WriteStatusByte(s)
        BY <2>3 DEF Complete, CompleteWithError
      <3>2. a = LastOf(walk).addr
        BY <3>1 DEF WriteStatusByte, TypeOK
      <3> QED BY <3>1, <3>2, StatusGranted DEF CanWriteStatus, WalkOK
    <2>4. CASE \E r \in Rewrites : Rewrite(r[1], r[2])
      BY <2>4 DEF Rewrite
    <2>5. CASE Handler /\ ~CopyToGuest /\ ~CopyToGuestFails /\ ~Complete
                 /\ ~CompleteWithError
      BY <2>5 DEF Handler, ReadDesc, BadIndex, WalkFails, ParseHeader, ValidateLength,
                  GetDataBuffers, GetStatusAddr, ExecuteRead, ExecuteWrite, ExecuteFlush,
                  ExecuteUnsupported, SkipBuffer, Delivered, CopyFromGuest,
                  CopyFromGuestFails, StoreToBackend
    <2> QED BY <2>1, <2>2, <2>3, <2>4, <2>5 DEF Next
  <1> QED BY <1>1, Inductive, PTL DEF Spec, WritesGranted

----------------------------------------------------------------------------
(* The chain of a table at rest.  *)

\* Where the k-th descriptor of a walk was read.
Place(w, k) == IF k = 1 THEN RequestHead ELSE w[k - 1].next

\* A walk so far: every descriptor was read where the one before it says.
Traces(t, w) ==
  /\ w \in Seq(Desc)
  /\ \A k \in 1 .. Len(w) : Place(w, k) \in Readable /\ w[k] = t[Place(w, k)]
  /\ \A k \in 1 .. Len(w) - 1 : w[k].more

\* The path that a walk has taken.
PathOf(w) == [k \in 1 .. Len(w) |-> Place(w, k)]
ChainAt(t, p) == [k \in DOMAIN p |-> t[p[k]]]

LEMMA PathIs ==
  ASSUME NEW t, NEW p \in PathsOf(t)
  PROVE  /\ Len(p) \in 1 .. QueueSize /\ DOMAIN p = 1 .. Len(p)
         /\ \A k \in 1 .. Len(p) : p[k] \in Readable
         /\ p[1] = RequestHead /\ ~t[p[Len(p)]].more
         /\ \A k \in 1 .. Len(p) - 1 : t[p[k]].more /\ t[p[k]].next = p[k + 1]
  <1>1. PICK n \in 1 .. QueueSize : p \in [1 .. n -> Readable]
    BY DEF PathsOf
  <1>2. p \in Seq(Readable) /\ n \in Nat
    BY <1>1, SeqDef, RequestAssumption
  <1>3. Len(p) = n
    BY <1>1, <1>2, LenProperties
  <1> QED BY <1>1, <1>3 DEF PathsOf

\* A path and a walk agree as far as both go.
LEMMA PathAgrees ==
  ASSUME NEW t, NEW w, Traces(t, w), NEW p \in PathsOf(t)
  PROVE  \A k \in 1 .. Len(p) : k <= Len(w) + 1 => p[k] = Place(w, k)
  <1> DEFINE T == {k \in Nat : k + 1 \in 1 .. Len(p) /\ k <= Len(w) => p[k + 1] = Place(w, k + 1)}
  <1>l. Len(p) \in Nat /\ Len(w) \in Nat /\ QueueSize \in Nat
    BY PathIs, RequestAssumption DEF Traces
  <1>1. 0 \in T
    BY PathIs DEF Place
  <1>2. ASSUME NEW k \in Nat, k \in T
        PROVE  k + 1 \in T
    <2> SUFFICES ASSUME (k + 1) + 1 \in 1 .. Len(p), k + 1 <= Len(w)
                 PROVE  p[(k + 1) + 1] = Place(w, (k + 1) + 1)
      OBVIOUS
    <2>1. k + 1 \in 1 .. Len(p) - 1 /\ k + 1 \in 1 .. Len(w) /\ k <= Len(w) /\ k + 1 \in 1 .. Len(p)
      BY <1>l
    <2>2. p[k + 1] = Place(w, k + 1)
      BY <1>2, <2>1
    <2>3. w[k + 1] = t[p[k + 1]]
      BY <2>1, <2>2 DEF Traces
    <2>4. t[p[k + 1]].next = p[(k + 1) + 1]
      BY <2>1, PathIs
    <2>5. Place(w, (k + 1) + 1) = w[k + 1].next
      BY DEF Place
    <2> QED BY <2>3, <2>4, <2>5
  <1> HIDE DEF T
  <1>4. \A k \in Nat : k \in T
    BY <1>1, <1>2, SetInduction
  <1>5. ASSUME NEW k \in 1 .. Len(p), k <= Len(w) + 1
        PROVE  p[k] = Place(w, k)
    <2>1. k - 1 \in Nat /\ (k - 1) + 1 = k /\ k - 1 <= Len(w)
      BY <1>l, <1>5
    <2> QED BY <1>4, <1>5, <2>1 DEF T
  <1> QED BY <1>5

\* A walk that has come to an end has taken no descriptor twice: what follows the one
\* time would follow the other.
LEMMA EndedNoRepeat ==
  ASSUME NEW t, NEW w, Traces(t, w), w # <<>>, ~w[Len(w)].more,
         NEW j \in 1 .. Len(w), NEW k \in 1 .. Len(w), j < k
  PROVE  Place(w, j) # Place(w, k)
  <1> SUFFICES ASSUME Place(w, j) = Place(w, k)
               PROVE  FALSE
    OBVIOUS
  <1> DEFINE T == {i \in Nat : k + i <= Len(w) => Place(w, j + i) = Place(w, k + i)}
  <1>l. Len(w) \in Nat /\ j \in Nat /\ k \in Nat
    BY DEF Traces
  <1>1. 0 \in T
    BY <1>l
  <1>2. ASSUME NEW i \in Nat, i \in T
        PROVE  i + 1 \in T
    <2> SUFFICES ASSUME k + (i + 1) <= Len(w)
                 PROVE  Place(w, j + (i + 1)) = Place(w, k + (i + 1))
      OBVIOUS
    <2>1. j + i \in 1 .. Len(w) /\ k + i \in 1 .. Len(w) /\ k + i <= Len(w)
      BY <1>l
    <2>2. Place(w, j + i) = Place(w, k + i)
      BY <1>2, <2>1
    <2>3. w[j + i] = w[k + i]
      BY <2>1, <2>2 DEF Traces
    <2>4. /\ j + (i + 1) # 1 /\ (j + (i + 1)) - 1 = j + i
          /\ k + (i + 1) # 1 /\ (k + (i + 1)) - 1 = k + i
      BY <1>l
    <2> QED BY <2>3, <2>4 DEF Place
  <1> HIDE DEF T
  <1>4. \A i \in Nat : i \in T
    BY <1>1, <1>2, SetInduction
  <1> DEFINE e == Len(w) - k
  <1>5. e \in Nat /\ k + e = Len(w) /\ j + e \in 1 .. Len(w) - 1 /\ j + e \in 1 .. Len(w)
        /\ Len(w) \in 1 .. Len(w)
    BY <1>l
  <1> HIDE DEF e
  <1>6. Place(w, j + e) = Place(w, Len(w))
    BY <1>l, <1>4, <1>5 DEF T
  <1>7. w[j + e] = w[Len(w)] /\ w[j + e].more
    BY <1>5, <1>6 DEF Traces
  <1> QED BY <1>7

LEMMA EndedFits ==
  ASSUME NEW t, NEW w, Traces(t, w), w # <<>>, ~w[Len(w)].more
  PROVE  Len(w) \in 1 .. QueueSize /\ PathOf(w) \in [1 .. Len(w) -> Readable]
  <1> DEFINE n == Len(w)
             S == 1 .. n
             I == 0 .. QueueSize - 1
             f == PathOf(w)
  <1>1. n \in Nat /\ n # 0 /\ QueueSize \in Nat /\ Readable \subseteq Index
    BY RequestAssumption DEF Traces
  <1>2. f \in [S -> Readable]
    BY DEF PathOf, Traces
  <1>3. Readable \subseteq I /\ QueueSize - 1 \in Int /\ n \in Int
    BY <1>1 DEF Index
  <1>4. /\ IsFiniteSet(S) /\ Cardinality(S) = n
        /\ IsFiniteSet(I) /\ Cardinality(I) <= QueueSize /\ Cardinality(I) \in Nat
    <2>3. \A b \in Int : /\ IsFiniteSet(1 .. b) /\ IsFiniteSet(0 .. b)
                        /\ Cardinality(1 .. b) = (IF 1 > b THEN 0 ELSE b - 1 + 1)
                        /\ Cardinality(0 .. b) = (IF 0 > b THEN 0 ELSE b - 0 + 1)
      BY FS_Interval, 0 \in Int, 1 \in Int
    <2>1. IsFiniteSet(S) /\ Cardinality(S) = IF 1 > n THEN 0 ELSE n - 1 + 1
      BY <1>3, <2>3
    <2>2. /\ IsFiniteSet(I)
          /\ Cardinality(I) = IF 0 > QueueSize - 1 THEN 0 ELSE (QueueSize - 1) - 0 + 1
      BY <1>3, <2>3
    <2> HIDE DEF I, S
    <2> QED BY <1>1, <2>1, <2>2
  <1>5. ASSUME NEW x \in S, NEW y \in S, x # y, f[x] = f[y]
        PROVE  FALSE
    <2>1. x < y \/ y < x
      BY <1>1, <1>5
    <2>2. f[x] = Place(w, x) /\ f[y] = Place(w, y)
      BY DEF PathOf
    <2> QED BY <1>5, <2>1, <2>2, EndedNoRepeat
  <1> HIDE DEF n, S, I, f
  <1>6. n <= QueueSize
    <2> SUFFICES ASSUME QueueSize < n
                 PROVE  FALSE
      BY <1>1
    <2>1. Cardinality(I) < Cardinality(S) /\ f \in [S -> I]
      BY <1>1, <1>2, <1>3, <1>4
    <2> QED BY <1>4, <1>5, <2>1, FS_PigeonHole
  <1> QED BY <1>1, <1>2, <1>6 DEF n, S, f

\* A walk that has ended is the chain, and there is no other.
LEMMA EndedIsChain ==
  ASSUME NEW t \in Tables, NEW w, Traces(t, w), w # <<>>, ~w[Len(w)].more
  PROVE  ChainsOf[t] = {w}
  <1> DEFINE n == Len(w)
             f == PathOf(w)
  <1>1. n \in 1 .. QueueSize /\ n \in Nat /\ f \in [1 .. n -> Readable]
        /\ \A k \in 1 .. n : f[k] = Place(w, k) /\ t[f[k]] = w[k]
    BY EndedFits DEF PathOf, Traces
  <1>2. f \in Seq(Readable)
    BY <1>1, SeqDef
  <1>3. Len(f) = n /\ DOMAIN f = 1 .. n
    BY <1>1, <1>2, LenProperties
  <1>4. f \in PathsOf(t)
    <2>1. f \in UNION {[1 .. m -> Readable] : m \in 1 .. QueueSize}
      BY <1>1
    <2>2. f[1] = RequestHead /\ ~t[f[Len(f)]].more
      BY <1>1, <1>3 DEF Place
    <2>3. ASSUME NEW j \in DOMAIN f, NEW k \in DOMAIN f, f[j] = f[k]
          PROVE  j = k
      <3>1. j \in 1 .. n /\ k \in 1 .. n /\ Place(w, j) = Place(w, k)
        BY <1>1, <1>3, <2>3
      <3>2. ~(j < k) /\ ~(k < j)
        BY <3>1, EndedNoRepeat
      <3> QED BY <3>1, <3>2
    <2>4. ASSUME NEW k \in 1 .. Len(f) - 1
          PROVE  t[f[k]].more /\ t[f[k]].next = f[k + 1]
      <3>1. k \in 1 .. n - 1 /\ k \in 1 .. n /\ k + 1 \in 1 .. n /\ k + 1 # 1 /\ (k + 1) - 1 = k
        BY <1>1, <1>3
      <3>2. w[k].more /\ t[f[k]] = w[k] /\ f[k + 1] = Place(w, k + 1)
        BY <1>1, <3>1 DEF Traces
      <3> QED BY <3>1, <3>2 DEF Place
    <2> HIDE DEF f
    <2> QED BY <2>1, <2>2, <2>3, <2>4 DEF PathsOf
  <1>5. ChainAt(t, f) = w
    <2>1. ChainAt(t, f) = [k \in 1 .. n |-> w[k]]
      BY <1>1, <1>3 DEF ChainAt
    <2>2. w \in Seq(Desc) /\ w = [k \in 1 .. n |-> w[k]]
      BY LenProperties DEF Traces
    <2> QED BY <2>1, <2>2
  <1>6. ASSUME NEW p \in PathsOf(t)
        PROVE  p = f
    <2>1. Len(p) \in Nat /\ Len(p) >= 1 /\ DOMAIN p = 1 .. Len(p)
      BY PathIs, RequestAssumption
    <2>2. \A k \in 1 .. Len(p) : k <= n => p[k] = f[k] /\ t[p[k]] = w[k]
      BY <1>1, <2>1, PathAgrees
    <2>3. ~(Len(p) < n)
      <3> SUFFICES ASSUME Len(p) < n
                   PROVE  FALSE
        OBVIOUS
      <3>1. Len(p) \in 1 .. n - 1 /\ Len(p) \in 1 .. Len(p) /\ Len(p) <= n
        BY <1>1, <2>1
      <3>2. w[Len(p)].more /\ t[p[Len(p)]] = w[Len(p)]
        BY <2>2, <3>1 DEF Traces
      <3> QED BY <3>2, PathIs
    <2>4. ~(n < Len(p))
      <3> SUFFICES ASSUME n < Len(p)
                   PROVE  FALSE
        OBVIOUS
      <3>1. n \in 1 .. Len(p) - 1 /\ n \in 1 .. Len(p)
        BY <1>1, <2>1
      <3>2. t[p[n]].more
        BY <3>1, PathIs
      <3>3. t[p[n]] = w[n]
        BY <1>1, <2>2, <3>1
      <3> QED BY <3>2, <3>3
    <2>5. Len(p) = n
      BY <1>1, <2>1, <2>3, <2>4
    <2>6. p \in [1 .. n -> Readable]
      <3>1. PICK m \in 1 .. QueueSize : p \in [1 .. m -> Readable]
        BY DEF PathsOf
      <3>2. 1 .. m = 1 .. n
        BY <2>1, <2>5, <3>1
      <3> QED BY <3>1, <3>2
    <2> HIDE DEF f, n
    <2>7. \A k \in 1 .. n : p[k] = f[k]
      BY <1>1, <2>1, <2>2, <2>5
    <2> QED BY <1>1, <2>6, <2>7
  <1> HIDE DEF f
  <1>7. PathsOf(t) = {f}
    BY <1>4, <1>6
  <1>8. ChainsOf[t] = {ChainAt(t, p) : p \in PathsOf(t)}
    BY DEF ChainsOf, ChainAt
  <1> QED BY <1>5, <1>7, <1>8

\* A walk that leaves the table or becomes too long shows that there is none.
LEMMA FailedNoChain ==
  ASSUME NEW t \in Tables, NEW w, Traces(t, w), w # <<>> => w[Len(w)].more,
         Place(w, Len(w) + 1) \notin Readable \/ Len(w) = QueueSize + 1
  PROVE  ChainsOf[t] = {}
  <1>1. ASSUME NEW p \in PathsOf(t)
        PROVE  FALSE
    <2>1. /\ Len(p) \in Nat /\ Len(p) >= 1 /\ Len(p) <= QueueSize /\ Len(w) \in Nat
          /\ QueueSize \in Nat
      BY PathIs, RequestAssumption DEF Traces
    <2>2. CASE Len(p) <= Len(w)
      <3>1. Len(p) \in 1 .. Len(w) /\ Len(p) \in 1 .. Len(p) /\ Len(p) <= Len(w) + 1
        BY <2>1, <2>2
      <3>2. p[Len(p)] = Place(w, Len(p))
        BY <3>1, PathAgrees
      <3>3. t[p[Len(p)]] = w[Len(p)]
        BY <3>1, <3>2 DEF Traces
      <3>4. w[Len(p)].more
        <4>1. CASE Len(p) = Len(w)
          BY <2>1, <4>1
        <4>2. CASE Len(p) # Len(w)
          <5>1. Len(p) \in 1 .. Len(w) - 1
            BY <2>1, <2>2, <4>2
          <5> QED BY <5>1 DEF Traces
        <4> QED BY <4>1, <4>2
      <3> QED BY <3>3, <3>4, PathIs
    <2>3. CASE Len(w) + 1 <= Len(p)
      <3>1. Len(w) + 1 \in 1 .. Len(p) /\ Len(w) + 1 <= Len(w) + 1
        BY <2>1, <2>3
      <3>2. p[Len(w) + 1] = Place(w, Len(w) + 1)
        BY <3>1, PathAgrees
      <3>3. p[Len(w) + 1] \in Readable
        BY <3>1, PathIs
      <3> QED BY <2>1, <2>3, <3>2, <3>3
    <2> QED BY <2>1, <2>2, <2>3
  <1>2. PathsOf(t) = {}
    BY <1>1
  <1> QED BY <1>2 DEF ChainsOf

\* While the table is at rest, a walk traces it; and how it has come to an end.
WalkEnd ==
  /\ outcome # "ended" /\ walk # <<>> => walk[Len(walk)].more
  /\ outcome = "going" => at = Place(walk, Len(walk) + 1)
  /\ outcome = "ended" => ~walk[Len(walk)].more
  /\ outcome = "failed" =>
       Place(walk, Len(walk) + 1) \notin Readable \/ Len(walk) = QueueSize + 1

Traced == Steady => table \in Tables /\ Traces(table, walk) /\ WalkEnd

\* A table that is at rest after a step was so before, and is the same.
LEMMA SteadyStep ==
  ASSUME IInv, [Next]_vars, Steady'
  PROVE  Steady /\ UNCHANGED <<table, left>> /\ (Handler \/ UNCHANGED vars)
  <1>1. left \in Nat /\ left <= MaxRewrites /\ MaxRewrites \in Nat
    BY RequestAssumption DEF IInv, TypeOK
  <1>2. CASE Handler
    BY <1>2 DEF Handler, ReadDesc, BadIndex, WalkFails, ParseHeader, ValidateLength,
                GetDataBuffers, GetStatusAddr, ExecuteRead, ExecuteWrite, ExecuteFlush,
                ExecuteUnsupported, SkipBuffer, CopyToGuest, CopyToGuestFails, Delivered,
                CopyFromGuest, CopyFromGuestFails, StoreToBackend, Complete,
                CompleteWithError, guest, Steady
  <1>3. CASE \E r \in Rewrites : Rewrite(r[1], r[2])
    BY <1>1, <1>3 DEF Rewrite, Steady
  <1>4. CASE UNCHANGED vars
    BY <1>4 DEF vars, guest, Steady
  <1> QED BY <1>2, <1>3, <1>4 DEF Next

LEMMA TraceStep ==
  ASSUME IInv, Traced, [Next]_vars
  PROVE  Traced'
  <1> SUFFICES ASSUME Steady'
               PROVE  (table \in Tables /\ Traces(table, walk) /\ WalkEnd)'
    BY DEF Traced
  <1>1. /\ table' = table /\ table \in Tables /\ Traces(table, walk) /\ WalkEnd
        /\ walk \in Seq(Desc) /\ Len(walk) \in Nat /\ WalkOK
    BY SteadyStep DEF Traced, Traces, IInv
  <1>2. CASE ReadDesc
    <2> DEFINE n == Len(walk)
               d == table[at]
    <2>1. /\ at \in Readable /\ outcome = "going" /\ walk' = Append(walk, d) /\ d \in Desc
          /\ at = Place(walk, n + 1)
      BY <1>1, <1>2, RequestAssumption DEF ReadDesc, IInv, TypeOK, WalkEnd
    <2>2. /\ walk' \in Seq(Desc) /\ Len(walk') = n + 1 /\ walk' # <<>>
          /\ \A k \in 1 .. n + 1 : walk'[k] = IF k = n + 1 THEN d ELSE walk[k]
      BY <1>1, <2>1, AppendProperties
    <2>3. walk'[n + 1] = d /\ \A k \in 1 .. n : walk'[k] = walk[k]
      BY <1>1, <2>2
    <2> HIDE DEF n
    <2>n. n \in Nat /\ n = Len(walk)
      BY <1>1 DEF n
    <2>4. \A k \in 1 .. n + 1 : Place(walk', k) = Place(walk, k)
      BY <2>n, <2>3 DEF Place
    <2>5. Place(walk', (n + 1) + 1) = d.next
      BY <2>n, <2>3 DEF Place
    <2>6. ASSUME NEW k \in 1 .. n + 1
          PROVE  Place(walk', k) \in Readable /\ walk'[k] = table[Place(walk', k)]
      <3>1. CASE k = n + 1
        BY <2>1, <2>3, <2>4, <3>1
      <3>2. CASE k # n + 1
        <4>1. k \in 1 .. n
          BY <2>n, <3>2
        <4> QED BY <1>1, <2>n, <2>3, <2>4, <4>1 DEF Traces
      <3> QED BY <3>1, <3>2
    <2>7. ASSUME NEW k \in 1 .. n
          PROVE  walk'[k].more
      <3>1. CASE k = n
        BY <1>1, <2>1, <2>n, <2>3, <3>1 DEF WalkEnd
      <3>2. CASE k # n
        <4>1. k \in 1 .. n - 1
          BY <2>n, <3>2
        <4> QED BY <1>1, <2>n, <2>3, <4>1 DEF Traces
      <3> QED BY <3>1, <3>2
    <2>8. Traces(table, walk')
      <3>1. (n + 1) - 1 = n
        BY <2>n
      <3> QED BY <2>2, <2>6, <2>7, <3>1 DEF Traces
    <2>9. WalkEnd'
      <3>1. \/ d.more /\ at' = d.next /\ outcome' = IF TooLong(walk') THEN "failed" ELSE "going"
            \/ ~d.more /\ outcome' = "ended"
        BY <1>2 DEF ReadDesc
      <3>2. TooLong(walk') => Len(walk') = QueueSize + 1
        BY <1>1, <2>1, <2>n, <2>2, RequestAssumption DEF WalkOK, TooLong
      <3> QED BY <2>2, <2>3, <2>5, <3>1, <3>2 DEF WalkEnd
    <2> QED BY <1>1, <2>8, <2>9
  <1>3. CASE BadIndex
    BY <1>1, <1>3 DEF BadIndex, WalkEnd
  <1>4. CASE walk' = <<>> /\ outcome' = "going" /\ at' = RequestHead
    BY <1>1, <1>4 DEF Traces, WalkEnd, Place
  <1>5. CASE UNCHANGED walking
    BY <1>1, <1>5 DEF walking, WalkEnd
  <1> QED BY <1>2, <1>3, <1>4, <1>5, WalkMoves

\* What a walk that is over shows of the chain.
LEMMA Walked ==
  ASSUME IInv, Traced, Steady
  PROVE  /\ table \in Tables
         /\ outcome = "ended" => ChainsOf[table] = {walk} /\ walk \in Seq(Desc) /\ walk # <<>>
         /\ outcome = "failed" => ChainsOf[table] = {}
  <1>1. table \in Tables /\ Traces(table, walk) /\ WalkEnd
    BY DEF Traced
  <1>2. outcome = "ended" => ChainsOf[table] = {walk} /\ walk \in Seq(Desc) /\ walk # <<>>
    BY <1>1, EndedIsChain DEF WalkEnd, IInv, WalkOK, Traces
  <1>3. outcome = "failed" => ChainsOf[table] = {}
    BY <1>1, FailedNoChain DEF WalkEnd
  <1> QED BY <1>1, <1>2, <1>3

\* Every walk over a table at rest returns the chain that it describes, and fails
\* exactly if there is none, for any table.
THEOREM WalksFindChain == Spec => []WalkIsChain
  <1>1. Init => Traced
    BY DEF Init, Traced, Traces, WalkEnd, Place, Steady
  <1>2. IInv /\ Traced => WalkIsChain
    BY Walked DEF WalkIsChain, IInv, TypeOK
  <1> QED BY <1>1, <1>2, TraceStep, Inductive, PTL DEF Spec

----------------------------------------------------------------------------
(* A request whose table is at rest, from the walks to the used element.     *)

\* What the handler has found of the chain c.
Knows(c) ==
  /\ c \in Seq(Desc)
  /\ IsHeader(c[1]) /\ HeaderCells(c[1]) \subseteq Mapped
  /\ type = AskedType(c) /\ sector = AskedSector(c)
  /\ pc # "length" => Len(c) >= MinChain
  /\ pc \notin {"length", "buffers"} => buffers = DataOf(c)
  /\ pc \notin Parsing => IsStatus(LastOf(c))

\* The buffers that the device is to write.
Dests(descs) == UNION {Cells(d) : d \in {d \in ToSet(descs) : d.write}}

\* The first buffers of the request's direction are in the staging buffer, in their places.
Gathered ==
  /\ type = T_OUT
  /\ \A k \in 1 .. next : ~buffers[k].write =>
       /\ Cells(buffers[k]) \subseteq Mapped
       /\ \A i \in 1 .. buffers[k].len :
            data[OffsetOf(buffers, k) + i] = mem[buffers[k].addr + i - 1]
  /\ \A p \in off + 1 .. Len(data) : data[p] = 0

\* The staging buffer has come from the backend, and the first buffers are in memory.
Fetched(n) == \A p \in 1 .. Len(data) : data[p] = IF p <= n THEN disk[sector + p] ELSE 0

Delivering(c) ==
  /\ type = T_IN
  /\ \E n \in Transfers(sector, Total(buffers)) : Fetched(n)
  /\ \A a \in Mapped \ Dests(buffers) : mem[a] = before.mem[a]
  /\ \A k \in 1 .. next : buffers[k].write =>
       /\ Cells(buffers[k]) \subseteq Mapped
       /\ DestsApart(c) => \A i \in 1 .. buffers[k].len :
            mem[buffers[k].addr + i - 1] = data[OffsetOf(buffers, k) + i]

\* What the handler is about to report.
Outcome(c) ==
  /\ type \notin {T_IN, T_OUT, T_FLUSH} => status = "UNSUPP" /\ calls = 0
  /\ type = T_OUT /\ ~SourcesMapped(c) => status = "IOERR" /\ calls = 0
  /\ type \in {T_IN, T_FLUSH} \/ (type = T_OUT /\ SourcesMapped(c)) =>
       status \in {"OK", "IOERR"} /\ calls = 1
  /\ type = T_IN /\ status = "OK" => Dests(buffers) \subseteq Mapped

Serving(c) ==
  /\ Knows(c)
  /\ pc = "gather" => Gathered
  /\ pc = "deliver" => Delivering(c)
  /\ pc = "complete" => Outcome(c) /\ DiskIntact(c) /\ MemoryIntact(c)

\* A request whose table is at rest, from the parsing of the chain to the used element.
Served ==
  /\ pc # "done" => answer = "none" /\ usedLen = 0
  /\ pc \notin {"complete", "done"} => disk = before.disk
  /\ pc \notin {"deliver", "complete", "done"} => mem = before.mem
  /\ pc = "error" => calls = 0 
  /\ Steady =>
       /\ pc \notin {"header", "error", "done"} =>
            \E c : ChainsOf[table] = {c} /\ Serving(c)
       /\ pc = "error" => \A c \in ChainsOf[table] : ~Parses(c)
       /\ DataIntact

----------------------------------------------------------------------------
(* Copying a buffer. *)

\* Buffers that have been copied lie before the offset, in the staging buffer.
LEMMA CopiedBelow ==
  ASSUME IInv, pc \in {"deliver", "gather"}, NEW k \in 1 .. next,
         buffers[k].write = (pc = "deliver")
  PROVE  /\ OffsetOf(buffers, k) \in Nat /\ buffers[k] \in Desc /\ k \in 1 .. Len(buffers)
         /\ OffsetOf(buffers, k) + buffers[k].len <= off
         /\ off <= Len(data)
  <1> DEFINE w == (pc = "deliver")
             s == SizeUpTo(buffers, {w})
             l == Len(buffers)
             d == buffers[k]
  <1>1. /\ buffers \in Seq(Desc) /\ l \in Nat /\ next \in Nat /\ next <= l /\ w \in BOOLEAN
        /\ off = s[next] /\ Len(data) = Total(buffers)
    BY DEF IInv, TypeOK, CopyOK
  <1>2. k \in 1 .. l /\ k \in 0 .. l /\ k - 1 \in 0 .. l /\ k \in 0 .. next /\ next \in 0 .. l
    BY <1>1
  <1>3. d \in Desc /\ d.len \in Nat
    <2>1. d \in Desc
      BY <1>1, <1>2, ElementOfSeq
    <2> QED BY <2>1 DEF Desc
  <1>4. OffsetOf(buffers, k) = s[k - 1]
    BY DEF OffsetOf
  <1> HIDE DEF w, l, d
  <1>5. s[k] = s[k - 1] + Share(d, {w}) /\ s[k - 1] \in Nat /\ s[k] \in Nat
    BY <1>1, <1>2, SizeSteps DEF d, l
  <1>6. Share(d, {w}) = d.len
    BY Zenon DEF Share, d, w
  <1>7. s[k] <= s[next]
    BY <1>1, <1>2, SizeGrows DEF l
  <1>8. s[next] <= Total(buffers)
    <2>1. /\ s[next] \in Nat /\ s[next] <= SizeOf(buffers, {w})
          /\ SizeOf(buffers, {w}) <= Total(buffers)
          /\ SizeOf(buffers, {w}) \in Nat /\ Total(buffers) \in Nat
      BY <1>1, <1>2, SizeBounds DEF l
    <2> HIDE DEF s
    <2> QED BY <2>1
  <1> HIDE DEF s
  <1>9. s[k - 1] + d.len <= off
    BY <1>1, <1>3, <1>5, <1>6, <1>7
  <1> QED BY <1>1, <1>2, <1>3, <1>4, <1>5, <1>8, <1>9 DEF d, l

\* The buffer to be copied next has its place at the offset.
LEMMA NextOffset ==
  ASSUME IInv,
         \/ Copying("deliver") /\ Buffer.write
         \/ Copying("gather") /\ ~Buffer.write
  PROVE  /\ Buffer \in Desc /\ Buffer = buffers[next + 1] /\ next + 1 \in 1 .. Len(buffers)
         /\ Buffer.write = (pc = "deliver")
         /\ OffsetOf(buffers, next + 1) = off
         /\ off \in Nat /\ off + Buffer.len <= Len(data)
  <1>1. /\ pc \in {"deliver", "gather"} /\ next < Len(buffers) /\ next \in Nat /\ off \in Nat
        /\ off = SizeUpTo(buffers, {pc = "deliver"})[next]
    BY DEF Copying, IInv, TypeOK, CopyOK
  <1>2. /\ Buffer \in Desc /\ Buffer = buffers[next + 1] /\ next + 1 \in 1 .. Len(buffers)
        /\ off + Buffer.len <= Len(data)
    BY <1>1, NextBuffer, NextFits DEF Fits
  <1>3. Buffer.write = (pc = "deliver")
    BY <1>2 DEF Copying, Desc
  <1>4. OffsetOf(buffers, next + 1) = SizeUpTo(buffers, {Buffer.write})[(next + 1) - 1]
    BY <1>2, Zenon DEF OffsetOf
  <1>5. SizeUpTo(buffers, {Buffer.write}) = SizeUpTo(buffers, {pc = "deliver"})
    BY <1>3, Zenon
  <1>6. (next + 1) - 1 = next
    BY <1>1
  <1> QED BY <1>1, <1>2, <1>3, <1>4, <1>5, <1>6

LEMMA GatherBegins ==
  ASSUME IInv, ExecuteWrite
  PROVE  Gathered'
  <1>1. buffers \in Seq(Desc) /\ data' = Staging(buffers) /\ next' = 0 /\ off' = 0 /\ type' = T_OUT
    BY DEF ExecuteWrite, Executing, IInv, TypeOK, CopyOK, request
  <1>2. /\ Len(data') = Total(buffers) /\ Total(buffers) \in Nat
        /\ \A k \in 1 .. Total(buffers) : data'[k] = 0
    BY <1>1, StagingIs, SizeSteps DEF Total, SizeOf
  <1> QED BY <1>1, <1>2 DEF Gathered

LEMMA GatherSkips ==
  ASSUME IInv, Gathered, SkipBuffer, pc = "gather"
  PROVE  Gathered'
  <1>1. /\ next' = next + 1 /\ UNCHANGED <<type, buffers, data, off, mem>> /\ next \in Nat
        /\ buffers[next + 1].write
    BY DEF SkipBuffer, Copying, Buffer, request, IInv, TypeOK
  <1>2. \A k \in 1 .. next' : ~buffers[k].write => k \in 1 .. next
    BY <1>1
  <1> QED BY <1>1, <1>2 DEF Gathered

LEMMA GatherCopies ==
  ASSUME IInv, Gathered, CopyFromGuest
  PROVE  Gathered'
  <1> DEFINE l == Buffer.len
             s == Contents(mem, Buffer)
  <1>1. /\ pc = "gather" /\ next' = next + 1 /\ off' = off + l
        /\ UNCHANGED <<type, buffers, mem>>
        /\ data' = Stored(data, off + 1, s, l)
        /\ Cells(Buffer) \subseteq Mapped
        /\ next \in Nat /\ data \in Seq(Nat) /\ Len(data) \in Nat /\ buffers \in Seq(Desc)
    BY DEF CopyFromGuest, Copying, request, IInv, TypeOK
  <1>2. /\ Buffer \in Desc /\ Buffer = buffers[next + 1] /\ OffsetOf(buffers, next + 1) = off
        /\ off \in Nat /\ off + l <= Len(data) /\ l \in Nat /\ next + 1 \in 1 .. Len(buffers)
    BY NextOffset DEF CopyFromGuest, Desc
  <1>3. \A k \in 1 .. l : s[k] = mem[Buffer.addr + k - 1] /\ s[k] \in Nat
    BY BufferContents
  <1> HIDE DEF l, s
  <1>4. /\ Len(data') = Len(data)
        /\ \A p \in 1 .. Len(data) :
             data'[p] = IF p \in off + 1 .. (off + 1) + l - 1 THEN s[p - (off + 1) + 1] ELSE data[p]
    <2>1. off + 1 \in Nat /\ l \in Nat /\ data \in Seq(Nat) /\ \A k \in 1 .. l : s[k] \in Nat
      BY <1>1, <1>2, <1>3
    <2>2. data' = Stored(data, off + 1, s, l)
      BY <1>1
    <2> QED BY <2>1, <2>2, StoredSeq
  <1>5. ASSUME NEW k \in 1 .. next, ~buffers[k].write, NEW i \in 1 .. buffers[k].len
        PROVE  data'[OffsetOf(buffers, k) + i] = mem[buffers[k].addr + i - 1]
    <2> DEFINE o == OffsetOf(buffers, k)
    <2>1. buffers[k].write = (pc = "deliver")
      <3>1. k \in 1 .. Len(buffers) /\ buffers \in Seq(Desc)
        BY <1>1, <1>2, LenProperties
      <3>2. buffers[k] \in Desc
        BY <3>1, ElementOfSeq
      <3> QED BY <1>1, <1>5, <3>2 DEF Desc
    <2>2. /\ o \in Nat /\ buffers[k] \in Desc /\ buffers[k].len \in Nat
          /\ o + buffers[k].len <= off
      BY <1>1, <2>1, CopiedBelow DEF Desc
    <2>3. data[o + i] = mem[buffers[k].addr + i - 1]
      BY <1>5 DEF Gathered
    <2> HIDE DEF o
    <2>4. o + i \in 1 .. Len(data) /\ o + i <= off
      <3>1. off <= Len(data) /\ Len(data) \in Nat /\ off \in Nat
        BY <1>1, <1>2
      <3> QED BY <2>2, <3>1
    <2>5. data'[o + i] = data[o + i]
      BY <1>2, <1>4, <2>4
    <2> QED BY <2>3, <2>5 DEF o
  <1>6. ASSUME NEW i \in 1 .. l
        PROVE  data'[off + i] = mem[Buffer.addr + i - 1]
    <2>1. off + i \in 1 .. Len(data) /\ off + i \in off + 1 .. (off + 1) + l - 1
          /\ (off + i) - (off + 1) + 1 = i
      BY <1>1, <1>2
    <2> QED BY <1>3, <1>4, <2>1
  <1>7. ASSUME NEW p \in off' + 1 .. Len(data')
        PROVE  data'[p] = 0
    <2>1. /\ p \in 1 .. Len(data) /\ p \in off + 1 .. Len(data)
          /\ p \notin off + 1 .. (off + 1) + l - 1
      BY <1>1, <1>2, <1>4
    <2> QED BY <1>4, <2>1 DEF Gathered
  <1>8. ASSUME NEW k \in 1 .. next', ~buffers[k].write
        PROVE  /\ Cells(buffers[k]) \subseteq Mapped
               /\ \A i \in 1 .. buffers[k].len :
                    data'[OffsetOf(buffers, k) + i] = mem[buffers[k].addr + i - 1]
    <2>1. CASE k \in 1 .. next
      BY <1>5, <1>8, <2>1 DEF Gathered
    <2>2. CASE k \notin 1 .. next
      <3>1. k = next + 1
        BY <1>1, <2>2
      <3> QED BY <1>1, <1>2, <1>6, <3>1 DEF l
    <2> QED BY <2>1, <2>2
  <1> QED BY <1>1, <1>7, <1>8 DEF Gathered

\* Buffers for the device to write that are apart, and the status byte from them all.
LEMMA Apart ==
  ASSUME NEW c \in Seq(Desc), Len(c) >= MinChain, DestsApart(c), IsStatus(LastOf(c)),
         NEW k \in 1 .. Len(DataOf(c)), DataOf(c)[k].write
  PROVE  /\ \A j \in 1 .. Len(DataOf(c)) :
              j # k /\ DataOf(c)[j].write =>
                Cells(DataOf(c)[j]) \cap Cells(DataOf(c)[k]) = {}
         /\ LastOf(c).addr \notin Cells(DataOf(c)[k])
  <1>1. /\ Len(DataOf(c)) = Len(c) - 2 /\ Len(c) \in Nat /\ LastOf(c) \in Desc
        /\ \A i \in 1 .. Len(c) - 2 : DataOf(c)[i] = c[i + 1]
    BY DataIs
  <1>2. \A i \in 1 .. Len(c) - 2 : i + 1 \in 2 .. Len(c) /\ i + 1 # Len(c)
    BY <1>1
  <1>3. Len(c) \in 2 .. Len(c)
    BY <1>1 DEF MinChain
  <1>4. LastOf(c).addr \in Cells(LastOf(c)) /\ LastOf(c).write
    <2> DEFINE d == LastOf(c)
    <2>1. d \in Desc /\ d.write /\ d.len >= 1
      BY <1>1 DEF IsStatus
    <2> HIDE DEF d
    <2>2. d.addr \in Cells(d)
      BY <2>1 DEF Cells, Desc
    <2> QED BY <2>1, <2>2 DEF d
  <1>5. LastOf(c).addr \notin Cells(DataOf(c)[k])
    <2>1. Cells(c[k + 1]) \cap Cells(c[Len(c)]) = {}
      BY <1>1, <1>2, <1>3, <1>4 DEF DestsApart, LastOf
    <2> QED BY <1>1, <1>4, <2>1 DEF LastOf
  <1>6. ASSUME NEW j \in 1 .. Len(DataOf(c)), j # k, DataOf(c)[j].write
        PROVE  Cells(DataOf(c)[j]) \cap Cells(DataOf(c)[k]) = {}
    <2>1. /\ j + 1 # k + 1 /\ j + 1 \in 2 .. Len(c) /\ k + 1 \in 2 .. Len(c)
          /\ DataOf(c)[j] = c[j + 1] /\ DataOf(c)[k] = c[k + 1]
      BY <1>1, <1>2, <1>6
    <2> QED BY <1>6, <2>1 DEF DestsApart
  <1> QED BY <1>5, <1>6

LEMMA DeliverBegins ==
  ASSUME IInv, Served, ExecuteRead, pc' = "deliver", NEW c
  PROVE  Delivering(c)'
  <1>1. /\ buffers \in Seq(Desc) /\ disk \in Seq(Nat) /\ Len(disk) \in Nat /\ sector \in Nat
        /\ pc = "execute" /\ type = T_IN /\ next' = 0 /\ mem = before.mem
        /\ UNCHANGED <<type, sector, buffers, mem, disk, before>>
    BY DEF ExecuteRead, Executing, IInv, TypeOK, CopyOK, Served, Parsing, request, guest
  <1> DEFINE z == Staging(buffers)
  <1>2. /\ z \in Seq(Nat) /\ Len(z) = Total(buffers) /\ Total(buffers) \in Nat
        /\ \A k \in 1 .. Total(buffers) : z[k] = 0
    BY <1>1, StagingIs, SizeSteps DEF Total, SizeOf
  <1>3. PICK n \in Transfers(sector, Len(z)) :
          data' = Stored(z, 1, SubSeq(disk, sector + 1, sector + n), n)
    BY DEF ExecuteRead, Respond, Follow
  <1> HIDE DEF z
  <1>4. n \in 0 .. Total(buffers) /\ n \in Nat /\ (n = 0 \/ sector + n <= Len(disk))
    BY <1>2, <1>3 DEF Transfers
  <1> DEFINE s == SubSeq(disk, sector + 1, sector + n)
  <1>5. \A k \in 1 .. n : s[k] \in Nat /\ s[k] = disk[sector + k]
    BY <1>1, <1>4, Part
  <1> HIDE DEF s
  <1>6. /\ Len(data') = Len(z)
        /\ \A k \in 1 .. Len(z) : data'[k] = IF k \in 1 .. 1 + n - 1 THEN s[k - 1 + 1] ELSE z[k]
    <2>1. data' = Stored(z, 1, s, n) /\ 1 \in Nat
      BY <1>3 DEF s
    <2> QED BY <1>2, <1>4, <1>5, <2>1, StoredSeq
  <1>7. ASSUME NEW p \in 1 .. Total(buffers)
        PROVE  data'[p] = IF p <= n THEN disk[sector + p] ELSE 0
    <2>1. p - 1 + 1 = p /\ (p <= n <=> p \in 1 .. 1 + n - 1) /\ (p <= n <=> p \in 1 .. n)
      BY <1>4
    <2> QED BY <1>2, <1>5, <1>6, <2>1
  <1>8. Fetched(n)' /\ (n \in Transfers(sector, Total(buffers)))'
    BY <1>1, <1>2, <1>3, <1>6, <1>7 DEF Fetched, Transfers
  <1> QED BY <1>1, <1>8 DEF Delivering

LEMMA DeliverSkips ==
  ASSUME IInv, NEW c, Delivering(c), SkipBuffer, pc = "deliver"
  PROVE  Delivering(c)'
  <1>1. /\ next' = next + 1 /\ next \in Nat /\ ~buffers[next + 1].write
        /\ UNCHANGED <<type, sector, buffers, data, mem, disk, before>>
    BY DEF SkipBuffer, Copying, Buffer, request, guest, IInv, TypeOK
  <1>2. \A k \in 1 .. next' : buffers[k].write => k \in 1 .. next
    BY <1>1
  <1>3. PICK n \in Transfers(sector, Total(buffers)) : Fetched(n)
    BY DEF Delivering
  <1>4. Fetched(n)' /\ (n \in Transfers(sector, Total(buffers)))'
    BY <1>1, <1>3 DEF Fetched, Transfers
  <1> QED BY <1>1, <1>2, <1>4 DEF Delivering

\* Cells of a buffer that takes part in the request are among those of its direction.
LEMMA BufferIsDest ==
  ASSUME NEW descs \in Seq(Desc), NEW k \in 1 .. Len(descs), descs[k].write
  PROVE  Cells(descs[k]) \subseteq Dests(descs)
  <1>1. k \in DOMAIN descs
    OBVIOUS
  <1>2. descs[k] \in {d \in ToSet(descs) : d.write}
    BY <1>1 DEF ToSet
  <1> QED BY <1>2 DEF Dests

LEMMA DeliverCopies ==
  ASSUME IInv, NEW c, Knows(c), Delivering(c), CopyToGuest
  PROVE  Delivering(c)'
  <1> DEFINE l == Buffer.len
             a == Buffer.addr
             s == SubSeq(data, off + 1, off + l)
  <1>1. /\ pc = "deliver" /\ next' = next + 1 /\ next \in Nat
        /\ UNCHANGED <<type, sector, buffers, data, disk, before>>
        /\ mem' = Stored(mem, a, s, l) /\ mem \in [Mapped -> Nat]
        /\ Cells(Buffer) \subseteq Mapped
        /\ data \in Seq(Nat) /\ buffers \in Seq(Desc) /\ Len(buffers) \in Nat
    BY DEF CopyToGuest, Copying, request, guest, IInv, TypeOK
  <1>2. /\ Buffer \in Desc /\ Buffer = buffers[next + 1] /\ OffsetOf(buffers, next + 1) = off
        /\ Buffer.write /\ next + 1 \in 1 .. Len(buffers)
        /\ off \in Nat /\ off + l <= Len(data) /\ l \in Nat /\ a \in Nat
    BY NextOffset DEF CopyToGuest, Desc
  <1>3. Cells(Buffer) = a .. a + l - 1
    BY DEF Cells
  <1> HIDE DEF l, a
  <1>4. \A k \in 1 .. l : s[k] \in Nat /\ s[k] = data[off + k]
    BY <1>1, <1>2, Part
  <1> HIDE DEF s
  <1>5. \A k \in Mapped : mem'[k] = IF k \in Cells(Buffer) THEN s[k - a + 1] ELSE mem[k]
    <2>1. /\ mem \in [Mapped -> Nat] /\ a \in Nat /\ l \in Nat
          /\ \A k \in 1 .. l : s[k] \in Nat
      BY <1>1, <1>2, <1>4
    <2>2. mem' = Stored(mem, a, s, l)
      BY <1>1 DEF s
    <2>3. \A k \in Mapped :
            Stored(mem, a, s, l)[k] = IF k \in a .. a + l - 1 THEN s[k - a + 1] ELSE mem[k]
      BY <2>1 DEF Stored
    <2> QED BY <1>3, <2>2, <2>3
  <1>6. \A k \in Mapped \ Dests(buffers) : mem'[k] = before.mem[k]
    <2>1. Cells(Buffer) \subseteq Dests(buffers)
      BY <1>1, <1>2, BufferIsDest
    <2> QED BY <1>5, <2>1 DEF Delivering
  <1>7. ASSUME DestsApart(c), NEW k \in 1 .. next', buffers[k].write,
               NEW i \in 1 .. buffers[k].len
        PROVE  mem'[buffers[k].addr + i - 1] = data[OffsetOf(buffers, k) + i]
    <2> DEFINE x == buffers[k].addr + i - 1
    <2>1. buffers[k] \in Desc /\ k \in 1 .. Len(buffers)
      <3>1. k \in 1 .. Len(buffers)
        BY <1>1, <1>2
      <3> QED BY <1>1, <3>1, ElementOfSeq
    <2>2. x \in Cells(buffers[k])
      BY <2>1 DEF Cells, Desc
    <2>3. CASE k = next + 1
      <3>1. x = a + i - 1 /\ x \in Cells(Buffer) /\ i \in 1 .. l
        BY <1>2, <2>2, <2>3 DEF a, l
      <3> HIDE DEF x
      <3>2. x - a + 1 = i /\ x \in Mapped
        BY <1>1, <1>2, <3>1
      <3>3. mem'[x] = data[off + i]
        BY <1>4, <1>5, <3>1, <3>2
      <3> QED BY <1>2, <2>3, <3>3 DEF x
    <2>4. CASE k # next + 1
      <3>1. k \in 1 .. next
        BY <1>1, <2>4
      <3>2. mem[x] = data[OffsetOf(buffers, k) + i]
        BY <1>7, <3>1 DEF Delivering
      <3>3. /\ buffers = DataOf(c) /\ c \in Seq(Desc) /\ Len(c) >= MinChain
            /\ IsStatus(LastOf(c))
        BY <1>1 DEF Knows, Parsing
      <3>4. Cells(buffers[k]) \cap Cells(Buffer) = {}
        BY <1>2, <1>7, <2>1, <2>4, <3>3, Apart
      <3>5. x \notin Cells(Buffer)
        BY <2>2, <3>4
      <3>6. x \in Mapped
        BY <1>7, <2>2, <3>1 DEF Delivering
      <3> HIDE DEF x
      <3>7. mem'[x] = mem[x]
        BY <1>5, <3>5, <3>6
      <3> QED BY <3>2, <3>7 DEF x
    <2> QED BY <2>3, <2>4
  <1>8. PICK n \in Transfers(sector, Total(buffers)) : Fetched(n)
    BY DEF Delivering
  <1>9. Fetched(n)' /\ (n \in Transfers(sector, Total(buffers)))'
    BY <1>1, <1>8 DEF Fetched, Transfers
  <1>10. ASSUME NEW k \in 1 .. next', buffers[k].write
         PROVE  Cells(buffers[k]) \subseteq Mapped
    <2>1. CASE k \in 1 .. next
      BY <1>10, <2>1 DEF Delivering
    <2>2. CASE k \notin 1 .. next
      <3>1. k = next + 1
        BY <1>1, <2>2
      <3> QED BY <1>1, <1>2, <3>1
    <2> QED BY <2>1, <2>2
  <1> QED BY <1>1, <1>6, <1>7, <1>9, <1>10 DEF Delivering

----------------------------------------------------------------------------
(* What has come of a request when its status byte is to be written. *)

\* What is known of the chain when the request is executed.
LEMMA Known ==
  ASSUME NEW c, Knows(c), pc \in {"execute", "deliver", "gather", "complete"}
  PROVE  /\ c \in Seq(Desc) /\ Len(c) >= MinChain /\ buffers = DataOf(c)
         /\ type = AskedType(c) /\ sector = AskedSector(c)
         /\ Parses(c) /\ IsStatus(LastOf(c))
  BY DEF Knows, Parsing, Parses

LEMMA KnowsStays ==
  ASSUME NEW c, Knows(c), pc \notin Parsing, pc' \notin Parsing, UNCHANGED <<request, before>>
  PROVE  Knows(c)'
  BY DEF Knows, Parsing, request, AskedType, AskedSector

LEMMA DiskQuiet ==
  ASSUME NEW c, disk' = before'.disk, UNCHANGED before,
         AskedType(c) # T_OUT \/ ~SourcesMapped(c)
  PROVE  DiskIntact(c)'
  BY DEF DiskIntact, AskedType

LEMMA MemoryQuiet ==
  ASSUME NEW c, mem' = before'.mem, UNCHANGED before, AskedType(c) # T_IN \/ status' # "OK"
  PROVE  MemoryIntact(c)'
  BY DEF MemoryIntact, AskedType

\* The requests that are answered without any copying.
LEMMA QuietOutcome ==
  ASSUME IInv, Served, NEW c, Knows(c), pc' = "complete",
         ExecuteRead \/ ExecuteFlush \/ ExecuteUnsupported
  PROVE  Outcome(c)' /\ DiskIntact(c)' /\ MemoryIntact(c)'
  <1>1. /\ pc = "execute" /\ calls = 0 /\ mem = before.mem /\ disk = before.disk
        /\ UNCHANGED <<before, mem, disk, type>>
    BY DEF IInv, CallsOK, Served, ExecuteRead, ExecuteFlush, ExecuteUnsupported, Executing,
           Parsing, guest, request
  <1>2. type = AskedType(c)
    BY <1>1, Known
  <1>3. CASE ExecuteRead
    <2>1. type = T_IN /\ status' = "IOERR" /\ calls' = 1
      BY <1>1, <1>3 DEF ExecuteRead, Executing, Respond
    <2>2. type # T_OUT
      BY <2>1 DEF T_IN, T_OUT
    <2> QED BY <1>1, <1>2, <2>1, <2>2, DiskQuiet, MemoryQuiet DEF Outcome
  <1>4. CASE ExecuteFlush
    <2>1. type = T_FLUSH /\ status' \in {"OK", "IOERR"} /\ calls' = 1
      BY <1>1, <1>4 DEF ExecuteFlush, Executing, Respond
    <2>2. type # T_OUT /\ type # T_IN
      BY <2>1 DEF T_IN, T_OUT, T_FLUSH
    <2> QED BY <1>1, <1>2, <2>1, <2>2, DiskQuiet, MemoryQuiet DEF Outcome
  <1>5. CASE ExecuteUnsupported
    <2>1. type \notin {T_IN, T_OUT, T_FLUSH} /\ status' = "UNSUPP" /\ calls' = 0
      BY <1>1, <1>5 DEF ExecuteUnsupported, Respond
    <2> QED BY <1>1, <1>2, <2>1, DiskQuiet, MemoryQuiet DEF Outcome
  <1> QED BY <1>3, <1>4, <1>5

LEMMA GatherFails ==
  ASSUME IInv, Served, NEW c, Knows(c), Gathered, CopyFromGuestFails
  PROVE  Outcome(c)' /\ DiskIntact(c)' /\ MemoryIntact(c)'
  <1>1. /\ pc = "gather" /\ calls = 0 /\ mem = before.mem /\ disk = before.disk /\ type = T_OUT
        /\ UNCHANGED <<before, mem, disk, type, calls>>
    BY DEF IInv, CallsOK, Served, CopyFromGuestFails, Copying, guest, request, Gathered
  <1>2. /\ type = AskedType(c) /\ buffers = DataOf(c) /\ buffers \in Seq(Desc)
    BY <1>1, Known DEF IInv, TypeOK
  <1>3. Fits(Buffer) /\ Buffer = buffers[next + 1] /\ next + 1 \in 1 .. Len(buffers)
    BY NextOffset, NextFits DEF CopyFromGuestFails
  <1>4. status' = "IOERR" /\ ~(Cells(Buffer) \subseteq Mapped) /\ ~Buffer.write
    BY <1>3 DEF CopyFromGuestFails, Respond, CopyError
  <1>5. ~SourcesMapped(c)
    <2>1. Buffer \in ToSet(DataOf(c))
      BY <1>2, <1>3 DEF ToSet
    <2> QED BY <1>4, <2>1 DEF SourcesMapped
  <1>6. type # T_IN
    BY <1>1 DEF T_IN, T_OUT
  <1>7. Outcome(c)'
    BY <1>1, <1>4, <1>5 DEF Outcome, T_IN, T_OUT, T_FLUSH
  <1> QED BY <1>1, <1>2, <1>5, <1>6, <1>7, DiskQuiet, MemoryQuiet

LEMMA DeliverFails ==
  ASSUME IInv, Served, NEW c, Knows(c), Delivering(c), CopyToGuestFails
  PROVE  Outcome(c)' /\ DiskIntact(c)' /\ MemoryIntact(c)'
  <1>1. /\ pc = "deliver" /\ calls = 1 /\ disk = before.disk /\ type = T_IN
        /\ UNCHANGED <<before, disk, type, calls>>
        /\ mem \in [Mapped -> Nat]
    BY DEF IInv, TypeOK, CallsOK, Served, CopyToGuestFails, Copying, guest, request, Delivering
  <1>2. /\ type = AskedType(c) /\ buffers = DataOf(c) /\ buffers \in Seq(Desc) /\ Parses(c)
    BY <1>1, Known DEF IInv, TypeOK
  <1>3. /\ Fits(Buffer) /\ Buffer = buffers[next + 1] /\ next + 1 \in 1 .. Len(buffers)
        /\ Buffer.write /\ Buffer \in Desc
    BY NextOffset, NextFits DEF CopyToGuestFails
  <1>4. status' = "IOERR"
    BY <1>3 DEF CopyToGuestFails, Respond, CopyError
  <1>5. PICK n \in 0 .. Buffer.len :
          mem' = Stored(mem, Buffer.addr, SubSeq(data, off + 1, off + n), n)
    BY <1>3 DEF CopyToGuestFails
  <1>6. \A a \in Mapped \ Dests(buffers) : mem'[a] = before.mem[a]
    <2>1. Cells(Buffer) \subseteq Dests(buffers)
      BY <1>2, <1>3, BufferIsDest
    <2>2. \A a \in Mapped \ (Buffer.addr .. Buffer.addr + n - 1) : mem'[a] = mem[a]
      BY <1>1, <1>5 DEF Stored
    <2>3. Buffer.addr .. Buffer.addr + n - 1 \subseteq Cells(Buffer)
      BY <1>3, <1>5 DEF Cells, Desc
    <2> QED BY <2>1, <2>2, <2>3 DEF Delivering
  <1>7. MemoryIntact(c)'
    BY <1>1, <1>2, <1>4, <1>6 DEF MemoryIntact, Dests, AskedType
  <1>8. type # T_OUT
    BY <1>1 DEF T_IN, T_OUT
  <1> QED BY <1>1, <1>2, <1>4, <1>7, <1>8, DiskQuiet DEF Outcome

LEMMA DeliverEnds ==
  ASSUME IInv, Served, NEW c, Knows(c), Delivering(c), Delivered
  PROVE  Outcome(c)' /\ DiskIntact(c)' /\ MemoryIntact(c)'
  <1>1. /\ pc = "deliver" /\ calls = 1 /\ disk = before.disk /\ type = T_IN
        /\ UNCHANGED <<before, mem, disk, type, calls>> /\ status' = "OK"
        /\ next = Len(buffers) /\ Len(data) = Total(buffers) /\ Len(data) \in Nat
    BY DEF IInv, TypeOK, CallsOK, CopyOK, Served, Delivered, guest, request, Delivering, Respond
  <1>2. /\ type = AskedType(c) /\ sector = AskedSector(c) /\ buffers = DataOf(c)
        /\ buffers \in Seq(Desc) /\ Parses(c)
    BY <1>1, Known DEF IInv, TypeOK
  <1>3. PICK n \in Transfers(sector, Total(buffers)) : Fetched(n)
    BY DEF Delivering
  <1>4. ASSUME DestsApart(c), NEW k \in 1 .. Len(buffers), buffers[k].write,
               NEW i \in 1 .. buffers[k].len
        PROVE  mem[buffers[k].addr + i - 1]
                 = IF OffsetOf(buffers, k) + i <= n
                   THEN disk[sector + (OffsetOf(buffers, k) + i)] ELSE 0
    <2> DEFINE o == OffsetOf(buffers, k)
    <2>1. mem[buffers[k].addr + i - 1] = data[o + i]
      BY <1>1, <1>4 DEF Delivering
    <2>2. o + i \in 1 .. Len(data)
      <3>1. buffers[k].write = (pc = "deliver")
        <4>1. buffers[k] \in Desc
          BY <1>2, ElementOfSeq
        <4> QED BY <1>1, <1>4, <4>1 DEF Desc
      <3>2. o \in Nat /\ buffers[k] \in Desc /\ o + buffers[k].len <= off /\ off <= Len(data)
        BY <1>1, <3>1, CopiedBelow
      <3>3. off \in Nat /\ buffers[k].len \in Nat
        BY <3>2 DEF IInv, TypeOK, Desc
      <3> HIDE DEF o
      <3> QED BY <1>1, <3>2, <3>3
    <2> HIDE DEF o
    <2>3. data[o + i] = IF o + i <= n THEN disk[sector + (o + i)] ELSE 0
      BY <2>2, <1>3 DEF Fetched
    <2> QED BY <2>1, <2>3 DEF o
  <1>5. MemoryIntact(c)'
    <2>1. \A a \in Mapped \ (Dests(DataOf(c)) \cup {LastOf(c).addr}) : mem'[a] = before'.mem[a]
      BY <1>1, <1>2 DEF Delivering
    <2>2. ASSUME DestsApart(c)
          PROVE  \E m \in Transfers(AskedSector(c), Total(DataOf(c))) :
                   \A k \in DOMAIN DataOf(c) : DataOf(c)[k].write =>
                     \A i \in 1 .. DataOf(c)[k].len :
                       mem[DataOf(c)[k].addr + i - 1]
                         = IF OffsetOf(DataOf(c), k) + i <= m
                           THEN before.disk[AskedSector(c) + (OffsetOf(DataOf(c), k) + i)] ELSE 0
      <3>1. DOMAIN DataOf(c) = 1 .. Len(buffers)
        BY <1>2, LenProperties
      <3> QED BY <1>1, <1>2, <1>3, <1>4, <2>2, <3>1
    <2> QED BY <1>1, <1>2, <2>1, <2>2 DEF MemoryIntact, Dests, AskedType, AskedSector, Transfers
  <1>6. type # T_OUT
    BY <1>1 DEF T_IN, T_OUT
  <1>7. Dests(buffers) \subseteq Mapped /\ buffers' = buffers
    <2>1. \A k \in 1 .. Len(buffers) : buffers[k].write => Cells(buffers[k]) \subseteq Mapped
      BY <1>1 DEF Delivering
    <2> QED BY <1>2, <2>1 DEF Dests, ToSet, Delivered, request
  <1>8. Outcome(c)'
    BY <1>1, <1>6, <1>7 DEF Outcome, T_IN, T_OUT, T_FLUSH
  <1> QED BY <1>1, <1>2, <1>5, <1>6, <1>8, DiskQuiet

LEMMA StoreEnds ==
  ASSUME IInv, Served, NEW c, Knows(c), Gathered, StoreToBackend
  PROVE  Outcome(c)' /\ DiskIntact(c)' /\ MemoryIntact(c)'
  <1>1. /\ pc = "gather" /\ calls' = 1 /\ mem = before.mem /\ disk = before.disk /\ type = T_OUT
        /\ UNCHANGED <<before, mem, type>> /\ status' \in {"OK", "IOERR"}
        /\ next = Len(buffers) /\ Len(data) = Total(buffers) /\ Len(data) \in Nat
        /\ disk \in Seq(Nat) /\ data \in Seq(Nat) /\ sector \in Nat
        /\ off = SizeUpTo(buffers, {FALSE})[Len(buffers)]
    <2>1. pc = "gather" /\ off = SizeUpTo(buffers, {pc = "deliver"})[Len(buffers)]
      BY DEF IInv, CopyOK, StoreToBackend
    <2>2. (pc = "deliver") = FALSE
      BY <2>1
    <2>3. off = SizeUpTo(buffers, {FALSE})[Len(buffers)]
      BY <2>1, <2>2, Zenon
    <2> QED BY <2>1, <2>3
            DEF IInv, TypeOK, CallsOK, CopyOK, Served, StoreToBackend, guest, request,
                Gathered, Respond
  <1>2. /\ type = AskedType(c) /\ sector = AskedSector(c) /\ buffers = DataOf(c)
        /\ buffers \in Seq(Desc) /\ Parses(c)
    BY <1>1, Known DEF IInv, TypeOK
  <1>3. PICK n \in Transfers(sector, Len(data)) : disk' = Stored(disk, sector + 1, data, n)
    BY DEF StoreToBackend
  <1>4. n \in Nat /\ n <= Len(data) /\ (n = 0 \/ sector + n <= Len(disk)) /\ Len(disk) \in Nat
    BY <1>1, <1>3 DEF Transfers
  <1>5. \A k \in 1 .. n : data[k] \in Nat
    BY <1>1, <1>4
  <1>6. /\ Len(disk') = Len(disk) /\ disk' \in Seq(Nat)
        /\ \A k \in 1 .. Len(disk) :
             disk'[k] = IF k \in sector + 1 .. (sector + 1) + n - 1
                        THEN data[k - (sector + 1) + 1] ELSE disk[k]
    <2>1. sector + 1 \in Nat /\ disk \in Seq(Nat)
      BY <1>1
    <2> DEFINE a == sector + 1
    <2> HIDE DEF a
    <2>2. a \in Nat /\ n \in Nat
      BY <1>4, <2>1 DEF a
    <2>3. /\ Stored(disk, a, data, n) \in Seq(Nat) /\ Len(Stored(disk, a, data, n)) = Len(disk)
          /\ \A k \in 1 .. Len(disk) :
               Stored(disk, a, data, n)[k] = IF k \in a .. a + n - 1 THEN data[k - a + 1] ELSE disk[k]
      BY <1>5, <2>1, <2>2, StoredSeq
    <2>4. disk' = Stored(disk, a, data, n)
      BY <1>3 DEF a
    <2> QED BY <2>3, <2>4 DEF a
  <1>7. \A p \in 1 .. n : disk'[sector + p] = data[p]
    <2>1. \A p \in 1 .. n : /\ sector + p \in 1 .. Len(disk)
                            /\ sector + p \in sector + 1 .. (sector + 1) + n - 1
                            /\ (sector + p) - (sector + 1) + 1 = p
      BY <1>1, <1>4
    <2> QED BY <1>6, <2>1
  <1>8. SourcesMapped(c)
    <2>1. \A k \in 1 .. Len(buffers) : ~buffers[k].write => Cells(buffers[k]) \subseteq Mapped
      BY <1>1 DEF Gathered
    <2> QED BY <1>2, <2>1 DEF SourcesMapped, ToSet
  <1>9. ASSUME NEW k \in 1 .. Len(buffers), ~buffers[k].write, NEW i \in 1 .. buffers[k].len,
               OffsetOf(buffers, k) + i <= n
        PROVE  disk'[sector + (OffsetOf(buffers, k) + i)] = before.mem[buffers[k].addr + i - 1]
    <2> DEFINE o == OffsetOf(buffers, k)
    <2>1. data[o + i] = mem[buffers[k].addr + i - 1]
      BY <1>1, <1>9 DEF Gathered
    <2>2. buffers[k] \in Desc
      BY <1>2, ElementOfSeq
    <2>3. buffers[k].write = (pc = "deliver")
      BY <1>1, <1>9, <2>2 DEF Desc
    <2>4. o \in Nat
      BY <1>1, <2>3, CopiedBelow
    <2> HIDE DEF o
    <2>5. o + i \in 1 .. n
      BY <1>4, <1>9, <2>4 DEF o
    <2> QED BY <1>1, <1>7, <2>1, <2>5 DEF o
  <1>10. ASSUME NEW p \in SizeOf(buffers, {FALSE}) + 1 .. n
         PROVE  disk'[sector + p] = 0
    <2>1. off = SizeOf(buffers, {FALSE}) /\ off \in Nat
      BY <1>1 DEF SizeOf, IInv, TypeOK
    <2>2. p \in off + 1 .. Len(data) /\ p \in 1 .. n
      BY <1>1, <1>4, <2>1
    <2> QED BY <1>7, <2>2 DEF Gathered
  <1>11. ASSUME NEW p \in DOMAIN before.disk \ (sector + 1 .. sector + n)
         PROVE  disk'[p] = before.disk[p]
    <2>1. p \in 1 .. Len(disk) /\ p \notin sector + 1 .. (sector + 1) + n - 1
      BY <1>1, <1>4
    <2> QED BY <1>1, <1>6, <2>1
  <1>12. (n \in Transfers(sector, Total(buffers)))'
    BY <1>1, <1>2, <1>3, <1>6 DEF Transfers, StoreToBackend, request
  <1>13. DiskIntact(c)'
    <2>1. DOMAIN buffers = 1 .. Len(buffers)
      BY <1>2, LenProperties
    <2>2. n \in Transfers(AskedSector(c), Total(DataOf(c)))' /\ UNCHANGED before
      BY <1>1, <1>2, <1>12 DEF AskedSector, StoreToBackend, request
    <2>3. AskedType(c)' = T_OUT /\ AskedSector(c)' = sector
      BY <1>1, <1>2 DEF AskedType, AskedSector
    <2>4. \A k \in DOMAIN DataOf(c) : ~DataOf(c)[k].write =>
            \A i \in 1 .. DataOf(c)[k].len : OffsetOf(DataOf(c), k) + i <= n =>
              disk'[sector + (OffsetOf(DataOf(c), k) + i)] = before.mem[DataOf(c)[k].addr + i - 1]
      BY <1>2, <1>9, <2>1
    <2> QED BY <1>2, <1>8, <1>10, <1>11, <2>2, <2>3, <2>4 DEF DiskIntact
  <1>14. MemoryIntact(c)'
    <2>1. type # T_IN
      BY <1>1 DEF T_IN, T_OUT
    <2> QED BY <1>1, <1>2, <2>1, MemoryQuiet
  <1>15. Outcome(c)'
    BY <1>1, <1>8 DEF Outcome, T_IN, T_OUT, T_FLUSH
  <1> QED BY <1>13, <1>14, <1>15

----------------------------------------------------------------------------
(* Steps. *)

LEMMA BeforeStays ==
  ASSUME Handler \/ UNCHANGED vars
  PROVE  UNCHANGED before
  BY DEF vars, Handler, ReadDesc, BadIndex, WalkFails, ParseHeader, ValidateLength,
         GetDataBuffers, GetStatusAddr, ExecuteRead, ExecuteWrite, ExecuteFlush,
         ExecuteUnsupported, SkipBuffer, CopyToGuest, CopyToGuestFails, Delivered,
         CopyFromGuest, CopyFromGuestFails, StoreToBackend, Complete,
         CompleteWithError, guest

\* The chain of the request that is being served.
LEMMA ServedChain ==
  ASSUME IInv, Traced, Served, Steady, pc \notin {"header", "error", "done"}
  PROVE  \E c : /\ ChainsOf[table] = {c} /\ Serving(c)
                /\ outcome = "ended" => c = walk
                /\ outcome # "failed"
  <1>1. PICK c : ChainsOf[table] = {c} /\ Serving(c)
    BY DEF Served
  <1> QED BY <1>1, Walked

LEMMA ServingStays ==
  ASSUME NEW c, Serving(c),
         UNCHANGED <<pc, mem, disk, request, copying, status, calls, before>>
  PROVE  Serving(c)'
  <1>1. UNCHANGED <<type, sector, buffers, data, next, off>>
    BY DEF request, copying
  <1>2. Knows(c)'
    BY <1>1 DEF Serving, Knows, AskedType, AskedSector
  <1>3. pc' = "gather" => Gathered'
    BY <1>1 DEF Serving, Gathered
  <1>4. pc' = "deliver" => Delivering(c)'
    <2> SUFFICES ASSUME pc = "deliver", Delivering(c)
                 PROVE  Delivering(c)'
      BY DEF Serving
    <2>1. PICK n \in Transfers(sector, Total(buffers)) : Fetched(n)
      BY DEF Delivering
    <2>2. Fetched(n)' /\ (n \in Transfers(sector, Total(buffers)))'
      BY <1>1, <2>1 DEF Fetched, Transfers
    <2> QED BY <1>1, <2>2 DEF Delivering
  <1>5. pc' = "complete" => Outcome(c)' /\ DiskIntact(c)' /\ MemoryIntact(c)'
    <2> SUFFICES ASSUME pc = "complete", Outcome(c), DiskIntact(c), MemoryIntact(c)
                 PROVE  Outcome(c)' /\ DiskIntact(c)' /\ MemoryIntact(c)'
      BY DEF Serving
    <2>1. Outcome(c)'
      BY <1>1 DEF Outcome
    <2>2. DiskIntact(c)'
      BY DEF DiskIntact, AskedType, AskedSector, Transfers
    <2>3. MemoryIntact(c)'
      BY DEF MemoryIntact, AskedType, AskedSector, Transfers
    <2> QED BY <2>1, <2>2, <2>3
  <1> QED BY <1>2, <1>3, <1>4, <1>5 DEF Serving

\* The four walks of parse_virtio_request.
LEMMA ParsingStep ==
  ASSUME IInv, Traced, Served, Steady, UNCHANGED before, pc' # "error",
         ParseHeader \/ ValidateLength \/ GetDataBuffers \/ GetStatusAddr
  PROVE  \E c : ChainsOf[table] = {c} /\ Serving(c)'
  <1>1. /\ pc \in Parsing /\ pc' \in {"length", "buffers", "statusAddr", "execute"}
        /\ outcome = "ended"
    BY DEF ParseHeader, ValidateLength, GetDataBuffers, GetStatusAddr, Parsed, Follow, Parsing
  <1>2. PICK c : c = walk
    OBVIOUS
  <1>3. ChainsOf[table] = {c} /\ c \in Seq(Desc) /\ c # <<>>
    BY <1>1, <1>2, Walked
  <1>4. pc # "header" => Knows(c)
    <2> SUFFICES ASSUME pc # "header"
                 PROVE  Knows(c)
      OBVIOUS
    <2>1. pc \notin {"header", "error", "done"}
      BY <1>1 DEF Parsing
    <2> QED BY <1>1, <1>2, <2>1, ServedChain DEF Serving
  <1>5. CASE ParseHeader
    <2>1. /\ IsHeader(c[1]) /\ HeaderCells(c[1]) \subseteq Mapped /\ pc' = "length"
          /\ type' = mem[c[1].addr] /\ sector' = mem[c[1].addr + 1] /\ mem = before.mem
      BY <1>2, <1>5 DEF ParseHeader, Follow, Parsed, Served
    <2> QED BY <1>3, <2>1 DEF Knows, Serving, AskedType, AskedSector, Parsing
  <1>6. CASE ValidateLength
    <2>1. pc = "length" /\ pc' = "buffers" /\ Len(c) >= MinChain /\ UNCHANGED request
      BY <1>2, <1>6 DEF ValidateLength, Follow, Parsed
    <2> QED BY <1>3, <1>4, <2>1 DEF Knows, Serving, AskedType, AskedSector, Parsing, request
  <1>7. CASE GetDataBuffers
    <2>1. /\ pc = "buffers" /\ pc' = "statusAddr" /\ buffers' = Middle(c)
          /\ UNCHANGED <<type, sector>>
      BY <1>2, <1>7 DEF GetDataBuffers, Follow, Parsed
    <2>2. Len(c) >= MinChain /\ Len(c) \in Nat
      BY <1>3, <1>4, <2>1 DEF Knows
    <2>3. buffers' = DataOf(c)
      BY <2>1, <2>2 DEF Middle, DataOf, MinChain
    <2> QED BY <1>3, <1>4, <2>1, <2>2, <2>3
            DEF Knows, Serving, AskedType, AskedSector, Parsing, request
  <1>8. CASE GetStatusAddr
    <2>1. pc = "statusAddr" /\ pc' = "execute" /\ IsStatus(LastOf(c)) /\ UNCHANGED request
      BY <1>2, <1>8 DEF GetStatusAddr, Follow, Parsed
    <2> QED BY <1>3, <1>4, <2>1 DEF Knows, Serving, AskedType, AskedSector, Parsing, request
  <1> QED BY <1>5, <1>6, <1>7, <1>8

\* Executing the request and copying its data.
LEMMA ExecutingStep ==
  ASSUME IInv, Served, NEW c, Serving(c), UNCHANGED before,
         \/ ExecuteRead \/ ExecuteWrite \/ ExecuteFlush \/ ExecuteUnsupported
         \/ SkipBuffer \/ CopyToGuest \/ CopyToGuestFails \/ Delivered
         \/ CopyFromGuest \/ CopyFromGuestFails \/ StoreToBackend
  PROVE  Serving(c)'
  <1>1. /\ pc \in {"execute", "deliver", "gather"} /\ pc' \in {"deliver", "gather", "complete"}
        /\ UNCHANGED request
    BY DEF ExecuteRead, ExecuteWrite, ExecuteFlush, ExecuteUnsupported, SkipBuffer,
           CopyToGuest, CopyToGuestFails, Delivered, CopyFromGuest, CopyFromGuestFails,
           StoreToBackend, Executing, Copying, Respond, Follow
  <1>2. Knows(c) /\ Knows(c)'
    BY <1>1, KnowsStays DEF Serving, Parsing
  <1>3. CASE ExecuteRead \/ ExecuteFlush \/ ExecuteUnsupported
    <2>1. pc' \in {"deliver", "complete"}
      BY <1>3 DEF ExecuteRead, ExecuteFlush, ExecuteUnsupported, Respond, Follow
    <2>2. CASE pc' = "complete"
      BY <1>2, <1>3, <2>2, QuietOutcome DEF Serving
    <2>3. CASE pc' = "deliver"
      <3>1. ExecuteRead
        BY <1>3, <2>3 DEF ExecuteFlush, ExecuteUnsupported, Respond, Follow
      <3> QED BY <1>2, <2>3, <3>1, DeliverBegins DEF Serving
    <2> QED BY <2>1, <2>2, <2>3
  <1>4. CASE ExecuteWrite
    <2>1. pc' = "gather"
      BY <1>4 DEF ExecuteWrite
    <2> QED BY <1>2, <1>4, <2>1, GatherBegins DEF Serving
  <1>5. CASE SkipBuffer
    <2>1. pc \in {"deliver", "gather"} /\ pc' = pc
      BY <1>5 DEF SkipBuffer, Copying
    <2>2. CASE pc = "deliver"
      BY <1>2, <1>5, <2>1, <2>2, DeliverSkips DEF Serving
    <2>3. CASE pc = "gather"
      BY <1>2, <1>5, <2>1, <2>3, GatherSkips DEF Serving
    <2> QED BY <2>1, <2>2, <2>3
  <1>6. CASE CopyToGuest
    <2>1. pc = "deliver" /\ pc' = "deliver"
      BY <1>6 DEF CopyToGuest, Copying
    <2> QED BY <1>2, <1>6, <2>1, DeliverCopies DEF Serving
  <1>7. CASE CopyFromGuest
    <2>1. pc = "gather" /\ pc' = "gather"
      BY <1>7 DEF CopyFromGuest, Copying
    <2> QED BY <1>2, <1>7, <2>1, GatherCopies DEF Serving
  <1>8. CASE CopyToGuestFails \/ Delivered
    <2>1. pc = "deliver" /\ pc' = "complete"
      BY <1>8 DEF CopyToGuestFails, Delivered, Copying, Respond, Follow
    <2> QED BY <1>2, <1>8, <2>1, DeliverFails, DeliverEnds DEF Serving
  <1>9. CASE CopyFromGuestFails \/ StoreToBackend
    <2>1. pc = "gather" /\ pc' = "complete"
      BY <1>9 DEF CopyFromGuestFails, StoreToBackend, Copying, Respond, Follow
    <2> QED BY <1>2, <1>9, <2>1, GatherFails, StoreEnds DEF Serving
  <1> QED BY <1>3, <1>4, <1>5, <1>6, <1>7, <1>8, <1>9

LEMMA ServingStep ==
  ASSUME IInv, Traced, Served, [Next]_vars, Steady', pc' \notin {"header", "error", "done"}
  PROVE  \E c : ChainsOf[table'] = {c} /\ Serving(c)'
  <1>1. Steady /\ table' = table /\ UNCHANGED before /\ (Handler \/ UNCHANGED vars)
    BY SteadyStep, BeforeStays
  <1>2. CASE ReadDesc \/ BadIndex \/ UNCHANGED vars
    <2>1. UNCHANGED <<pc, mem, disk, request, copying, status, calls>>
      BY <1>2 DEF ReadDesc, BadIndex, vars
    <2>2. PICK c : ChainsOf[table] = {c} /\ Serving(c)
      BY <1>1, <2>1, ServedChain
    <2>3. Serving(c)'
      BY <1>1, <2>1, <2>2, ServingStays
    <2> QED BY <1>1, <2>2, <2>3
  <1>3. CASE ParseHeader \/ ValidateLength \/ GetDataBuffers \/ GetStatusAddr
    BY <1>1, <1>3, ParsingStep
  <1>4. CASE \/ ExecuteRead \/ ExecuteWrite \/ ExecuteFlush \/ ExecuteUnsupported
             \/ SkipBuffer \/ CopyToGuest \/ CopyToGuestFails \/ Delivered
             \/ CopyFromGuest \/ CopyFromGuestFails \/ StoreToBackend
    <2>1. pc \in {"execute", "deliver", "gather"}
      BY <1>4 DEF ExecuteRead, ExecuteWrite, ExecuteFlush, ExecuteUnsupported, SkipBuffer,
             CopyToGuest, CopyToGuestFails, Delivered, CopyFromGuest, CopyFromGuestFails,
             StoreToBackend, Executing, Copying
    <2>2. PICK c : ChainsOf[table] = {c} /\ Serving(c)
      BY <1>1, <2>1, ServedChain
    <2>3. Serving(c)'
      BY <1>1, <1>4, <2>2, ExecutingStep
    <2> QED BY <1>1, <2>2, <2>3
  <1>5. CASE WalkFails \/ Complete \/ CompleteWithError
    BY <1>5 DEF WalkFails, Complete, CompleteWithError, Follow
  <1> QED BY <1>1, <1>2, <1>3, <1>4, <1>5 DEF Handler

\* The error branch is taken only by a request that does not parse.
LEMMA ErrorStep ==
  ASSUME IInv, Traced, Served, [Next]_vars, Steady', pc' = "error"
  PROVE  \A c \in ChainsOf[table'] : ~Parses(c)'
  <1>1. Steady /\ table' = table /\ UNCHANGED before /\ (Handler \/ UNCHANGED vars)
    BY SteadyStep, BeforeStays
  <1>2. CASE pc = "error"
    BY <1>1, <1>2 DEF Served, Parses
  <1>3. CASE WalkFails
    BY <1>1, <1>3, Walked DEF WalkFails
  <1>4. CASE ParseHeader \/ ValidateLength \/ GetStatusAddr
    <2>1. outcome = "ended" /\ ~Parses(walk)
      BY <1>4 DEF ParseHeader, ValidateLength, GetStatusAddr, Parsed, Follow, Parses
    <2> QED BY <1>1, <2>1, Walked DEF Parses
  <1>5. CASE /\ Handler /\ pc # "error"
             /\ ~WalkFails /\ ~ParseHeader /\ ~ValidateLength /\ ~GetStatusAddr
    BY <1>5 DEF Handler, ReadDesc, BadIndex, GetDataBuffers, ExecuteRead, ExecuteWrite,
         ExecuteFlush, ExecuteUnsupported, SkipBuffer, CopyToGuest, CopyToGuestFails,
         Delivered, CopyFromGuest, CopyFromGuestFails, StoreToBackend, Complete,
         CompleteWithError, Follow, Respond, Copying
  <1>6. CASE UNCHANGED vars
    BY <1>2, <1>6 DEF vars
  <1> QED BY <1>1, <1>2, <1>3, <1>4, <1>5, <1>6

\* What holds of a request whatever the guest rewrites.
LEMMA PlainStep ==
  ASSUME IInv, Served, [Next]_vars
  PROVE  /\ pc' # "done" => answer' = "none" /\ usedLen' = 0
         /\ pc' \notin {"complete", "done"} => disk' = before'.disk
         /\ pc' \notin {"deliver", "complete", "done"} => mem' = before'.mem
         /\ pc' = "error" => calls' = 0
  <1> USE DEF Served
  <1>1. CASE \E r \in Rewrites : Rewrite(r[1], r[2])
    BY <1>1 DEF Rewrite, result
  <1>2. CASE UNCHANGED vars
    BY <1>2 DEF vars, result, guest
  <1>3. CASE \/ ReadDesc \/ BadIndex \/ WalkFails \/ ParseHeader \/ ValidateLength
             \/ GetDataBuffers \/ GetStatusAddr
    <2>1. calls = 0 \/ pc \notin Parsing
      BY DEF IInv, CallsOK
    <2> QED BY <1>3, <2>1 DEF ReadDesc, BadIndex, WalkFails, ParseHeader, ValidateLength,
                GetDataBuffers, GetStatusAddr, Parsed, Follow, Parsing, result, guest
  <1>4. CASE ExecuteRead \/ ExecuteWrite \/ ExecuteFlush \/ ExecuteUnsupported
    BY <1>4 DEF ExecuteRead, ExecuteWrite, ExecuteFlush, ExecuteUnsupported, Executing,
                Respond, Follow, result, guest
  <1>5. CASE SkipBuffer \/ CopyToGuest \/ CopyToGuestFails \/ Delivered
    BY <1>5 DEF SkipBuffer, CopyToGuest, CopyToGuestFails, Delivered, Copying, Respond,
                Follow, result, guest
  <1>6. CASE CopyFromGuest \/ CopyFromGuestFails \/ StoreToBackend
    BY <1>6 DEF CopyFromGuest, CopyFromGuestFails, StoreToBackend, Copying, Respond,
                Follow, result, guest
  <1>7. CASE Complete \/ CompleteWithError
    BY <1>7 DEF Complete, CompleteWithError
  <1> QED BY <1>1, <1>2, <1>3, <1>4, <1>5, <1>6, <1>7 DEF Next, Handler

\* The status byte is written where no data is.
LEMMA StatusApart ==
  ASSUME IInv, NEW c, Serving(c), pc = "complete", c = walk,
         UNCHANGED <<before, disk, status>>,
         (CanWriteStatus /\ WriteStatusByte(status)) \/ mem' = mem
  PROVE  MemoryIntact(c)'
  <1>1. /\ c \in Seq(Desc) /\ Len(c) >= MinChain /\ Parses(c) /\ IsStatus(LastOf(c))
        /\ MemoryIntact(c)
    BY Known DEF Serving
  <1>2. \A a \in Mapped \ {LastOf(c).addr} : mem'[a] = mem[a]
    BY DEF WriteStatusByte, IInv, TypeOK
  <1>d. /\ DataOf(c) \in Seq(Desc) /\ DOMAIN DataOf(c) = 1 .. Len(DataOf(c))
        /\ type = AskedType(c) /\ buffers = DataOf(c) /\ UNCHANGED disk
    BY <1>1, Known, DataIs, LenProperties DEF Serving
  <1>3. Parses(c)' /\ AskedType(c)' = AskedType(c) /\ AskedSector(c)' = AskedSector(c)
    BY <1>1 DEF Parses, AskedType, AskedSector
  <1>4. ASSUME AskedType(c) = T_IN, status = "OK", DestsApart(c)
        PROVE  \E n \in Transfers(AskedSector(c), Total(DataOf(c)))' :
                 \A k \in DOMAIN DataOf(c) : DataOf(c)[k].write =>
                   \A i \in 1 .. DataOf(c)[k].len :
                     mem'[DataOf(c)[k].addr + i - 1]
                       = IF OffsetOf(DataOf(c), k) + i <= n
                         THEN before.disk[AskedSector(c) + (OffsetOf(DataOf(c), k) + i)] ELSE 0
    <2>1. PICK n \in Transfers(AskedSector(c), Total(DataOf(c))) :
            \A k \in DOMAIN DataOf(c) : DataOf(c)[k].write =>
              \A i \in 1 .. DataOf(c)[k].len :
                mem[DataOf(c)[k].addr + i - 1]
                  = IF OffsetOf(DataOf(c), k) + i <= n
                    THEN before.disk[AskedSector(c) + (OffsetOf(DataOf(c), k) + i)] ELSE 0
      BY <1>1, <1>4 DEF MemoryIntact
    <2>2. Dests(DataOf(c)) \subseteq Mapped
      BY <1>d, <1>4 DEF Serving, Outcome
    <2>3. ASSUME NEW k \in DOMAIN DataOf(c), DataOf(c)[k].write, NEW i \in 1 .. DataOf(c)[k].len
          PROVE  mem'[DataOf(c)[k].addr + i - 1] = mem[DataOf(c)[k].addr + i - 1]
      <3> DEFINE d == DataOf(c)[k]
                 a == d.addr + i - 1
      <3>1. d \in Desc /\ k \in 1 .. Len(DataOf(c))
        BY <1>d, ElementOfSeq
      <3>2. a \in Cells(d)
        <4> HIDE DEF d
        <4> QED BY <3>1, <2>3 DEF Cells, Desc, d
      <3>3. LastOf(c).addr \notin Cells(d) /\ Cells(d) \subseteq Dests(DataOf(c))
        BY <1>1, <1>4, <1>d, <2>3, <3>1, Apart, BufferIsDest
      <3>4. a \in Mapped \ {LastOf(c).addr}
        BY <2>2, <3>2, <3>3
      <3> QED BY <1>2, <3>4
    <2>4. n \in Transfers(AskedSector(c), Total(DataOf(c)))'
      BY <1>d, <2>1 DEF Transfers, AskedSector
    <2> QED BY <2>1, <2>3, <2>4
  <1>5. \A a \in Mapped \ ((IF AskedType(c) = T_IN THEN Dests(DataOf(c)) ELSE {})
                             \cup {LastOf(c).addr}) :
          mem'[a] = before.mem[a]
    BY <1>1, <1>2 DEF MemoryIntact, Dests
  <1> QED BY <1>1, <1>3, <1>4, <1>5 DEF MemoryIntact, Dests

LEMMA CompletedIntact ==
  ASSUME IInv, Traced, Served, Steady, Complete, UNCHANGED <<table, before>>
  PROVE  DataIntact'
  <1>1. /\ pc = "complete" /\ outcome # "going" /\ pc' = "done"
        /\ UNCHANGED <<disk, status, buffers>> /\ outcome \in {"going", "ended", "failed"}
    BY DEF Complete, WalkOver, request, IInv, TypeOK
  <1>2. PICK c : ChainsOf[table] = {c} /\ Serving(c) /\ c = walk
    BY <1>1, ServedChain
  <1>3. MemoryIntact(c)'
    <2>1. (CanWriteStatus /\ WriteStatusByte(status)) \/ mem' = mem
      BY DEF Complete
    <2> QED BY <1>1, <1>2, <2>1, StatusApart
  <1>4. DiskIntact(c)'
    BY <1>1, <1>2 DEF Serving, DiskIntact, AskedType, AskedSector, Transfers
  <1>5. ChainsOf[table'] = {c}
    BY <1>2
  <1> QED BY <1>1, <1>3, <1>4, <1>5 DEF DataIntact

LEMMA ErrorIntact ==
  ASSUME IInv, Traced, Served, Steady, CompleteWithError, UNCHANGED <<table, before>>
  PROVE  DataIntact'
  <1>1. /\ pc = "error" /\ outcome # "going" /\ pc' = "done" /\ disk' = before.disk
        /\ mem = before.mem /\ mem \in [Mapped -> Nat]
        /\ outcome \in {"going", "ended", "failed"}
    BY DEF CompleteWithError, WalkOver, IInv, TypeOK, Served
  <1>2. ASSUME NEW c \in ChainsOf[table]
        PROVE  DiskIntact(c)' /\ MemoryIntact(c)'
    <2>1. c = walk
      BY <1>1, Walked
    <2>2. ~Parses(c) /\ ~Parses(c)'
      BY <1>1 DEF Served, Parses
    <2>3. \A a \in Mapped \ {LastOf(c).addr} : mem'[a] = before.mem[a]
      BY <1>1, <2>1 DEF CompleteWithError, WriteStatusByte
    <2> QED BY <1>1, <2>2, <2>3 DEF DiskIntact, MemoryIntact
  <1>3. ASSUME ChainsOf[table] = {}
        PROVE  mem' = before.mem
    <2>1. ~CanWriteStatus
      BY <1>3, Walked DEF CanWriteStatus
    <2> QED BY <1>1, <2>1 DEF CompleteWithError
  <1> QED BY <1>1, <1>2, <1>3 DEF DataIntact

LEMMA IntactStep ==
  ASSUME IInv, Traced, Served, [Next]_vars
  PROVE  DataIntact'
  <1> SUFFICES ASSUME Steady', pc' = "done"
               PROVE  DataIntact'
    BY DEF DataIntact
  <1>1. Steady /\ table' = table /\ UNCHANGED before /\ (Handler \/ UNCHANGED vars)
    BY SteadyStep, BeforeStays
  <1>2. CASE Complete
    BY <1>1, <1>2, CompletedIntact
  <1>3. CASE CompleteWithError
    BY <1>1, <1>3, ErrorIntact
  <1>4. CASE UNCHANGED vars
    <2>1. UNCHANGED <<pc, mem, disk, usedLen, status, answer>> /\ DataIntact /\ pc = "done"
      BY <1>1, <1>4 DEF vars, result, Served
    <2>2. ASSUME NEW c \in ChainsOf[table]
          PROVE  DiskIntact(c)' /\ MemoryIntact(c)'
      <3>1. DiskIntact(c) /\ MemoryIntact(c)
        BY <1>1, <2>1 DEF DataIntact
      <3>2. DiskIntact(c)'
        BY <1>1, <2>1, <3>1 DEF DiskIntact, AskedType, AskedSector, Transfers, Parses
      <3>3. MemoryIntact(c)'
        BY <1>1, <2>1, <3>1 DEF MemoryIntact, AskedType, AskedSector, Transfers, Parses
      <3> QED BY <3>2, <3>3
    <2> QED BY <1>1, <2>1, <2>2 DEF DataIntact
  <1>5. CASE Handler /\ ~Complete /\ ~CompleteWithError
    <2>1. pc # "done" /\ pc' # "done"
      BY <1>5 DEF Handler, ReadDesc, BadIndex, WalkFails, ParseHeader, ValidateLength,
           GetDataBuffers, GetStatusAddr, ExecuteRead, ExecuteWrite, ExecuteFlush,
           ExecuteUnsupported, SkipBuffer, CopyToGuest, CopyToGuestFails, Delivered,
           CopyFromGuest, CopyFromGuestFails, StoreToBackend, Executing, Parsed, Parsing,
           Walking, Copying, Follow, Respond
    <2> QED BY <2>1
  <1> QED BY <1>1, <1>2, <1>3, <1>4, <1>5

LEMMA InitServed ==
  ASSUME Init
  PROVE  Served
  BY DEF Init, Served, DataIntact

LEMMA ServedStep ==
  ASSUME IInv, Traced, Served, [Next]_vars
  PROVE  Served'
  <1>1. ASSUME Steady'
        PROVE  /\ pc' \notin {"header", "error", "done"} =>
                    \E c : ChainsOf[table'] = {c} /\ Serving(c)'
               /\ pc' = "error" => \A c \in ChainsOf[table'] : ~Parses(c)'
    BY <1>1, ServingStep, ErrorStep
  <1>2. DataIntact'
    BY IntactStep
  <1> QED BY <1>1, <1>2, PlainStep DEF Served

\* A request is served as its chain asks, from the parsing to the used element.
THEOREM Serves == Spec => [](Traced /\ Served)
  <1>1. Init => Traced
    BY DEF Init, Traced, Traces, WalkEnd, Place, Steady
  <1> QED BY <1>1, InitServed, TraceStep, ServedStep, Inductive, PTL DEF Spec

\* The data of a request whose table is at rest is where it belongs when it is over, and
\* nothing else has changed, for any table, memory, disk and transfer of the backend.
THEOREM DataStays == Spec => []DataIntact
  <1>1. Served => DataIntact
    BY DEF Served, DataIntact
  <1> QED BY <1>1, Serves, PTL

LEMMA KindOfNone == KindOf({}) = "nostatus"
  BY DEF KindOf

LEMMA KindOfOne ==
  ASSUME NEW c
  PROVE  KindOf({c}) = IF ~Answerable(c) /\ ~Parses(c) THEN "nostatus"
                       ELSE IF ~Answerable(c) THEN "unmapped"
                       ELSE IF ~Parses(c) THEN "bad"
                       ELSE IF AskedType(c) \notin {T_IN, T_OUT, T_FLUSH} THEN "unsupp"
                       ELSE IF AskedType(c) = T_OUT /\ ~SourcesMapped(c) THEN "nodata"
                       ELSE "ok"
  <1>1. (CHOOSE d \in {c} : TRUE) = c
    OBVIOUS
  <1> QED BY <1>1 DEF KindOf

\* A step of the service, from what is reported before and after it.
LEMMA ServiceCompletes ==
  ASSUME answer = "none", NEW k, k = KindOf(ChainsOf[table]), NEW s \in Service!Answers(k),
         Reported' = [h \in {RequestHead} |->
                        [state |-> "done", kind |-> k, status |-> s, calls |-> Service!Calls(k)]]
  PROVE  Service!Complete({RequestHead})
  <1> DEFINE R == {RequestHead}
             r == [state |-> "done", kind |-> k, status |-> s, calls |-> Service!Calls(k)]
             end == [h \in R |-> r]
  <1>1. \A h \in R : Reported[h].state = "pending" /\ Reported[h].kind = k
    BY DEF Reported
  <1>2. r \in Service!Completed(k)
    BY DEF Service!Completed
  <1>3. Reported' = end
    OBVIOUS
  <1> HIDE DEF r
  <1>4. end \in [R -> UNION {Service!Completed(Reported[h].kind) : h \in R}]
    BY <1>1, <1>2
  <1>5. \A h \in R : end[h] \in Service!Completed(Reported[h].kind)
    BY <1>1, <1>2
  <1>6. Reported' = [h \in R |-> IF h \in R THEN end[h] ELSE Reported[h]]
    BY <1>3
  <1> HIDE DEF end
  <1> QED BY <1>1, <1>4, <1>5, <1>6 DEF Service!Complete

\* What is reported when a status byte has been written, or none.
LEMMA ReportedNext ==
  ASSUME UNCHANGED <<table, before>>, answer' = "used"
  PROVE  LET written == \E c \in ChainsOf[table] :
                          Answerable(c) /\ mem'[LastOf(c).addr] = StatusByte(status')
         IN  Reported' = [h \in {RequestHead} |->
               [state |-> "done", kind |-> KindOf(ChainsOf[table]),
                status |-> IF written THEN status' ELSE "none", calls |-> calls']]
  <1>1. KindOf(ChainsOf[table])' = KindOf(ChainsOf[table])
    BY DEF KindOf, Parses, AskedType
  <1> QED BY <1>1 DEF Reported

LEMMA CompleteAnswers ==
  ASSUME IInv, Traced, Served, Steady, Complete, UNCHANGED <<table, before>>
  PROVE  IF KindOf(ChainsOf[table]) = "unmapped" THEN answer' = "dropped"
         ELSE answer' = "used" /\ Service!Complete({RequestHead})
  <1>1. /\ pc = "complete" /\ outcome # "going" /\ answer = "none"
        /\ UNCHANGED <<status, calls>> /\ outcome \in {"going", "ended", "failed"}
        /\ mem \in [Mapped -> Nat]
    BY DEF Complete, WalkOver, IInv, TypeOK, Served
  <1>2. PICK c : ChainsOf[table] = {c} /\ Serving(c) /\ c = walk /\ outcome = "ended"
    BY <1>1, ServedChain
  <1>3. type = AskedType(c) /\ Parses(c) /\ Outcome(c)
    BY <1>1, <1>2, Known DEF Serving
  <1>4. CanWriteStatus <=> Answerable(c)
    BY <1>2 DEF CanWriteStatus, Answerable
  <1>5. CASE ~Answerable(c)
    <2>1. KindOf(ChainsOf[table]) = "unmapped" /\ answer' = "dropped"
      BY <1>2, <1>3, <1>4, <1>5, KindOfOne DEF Complete
    <2> QED BY <2>1
  <1>6. CASE Answerable(c)
    <2> DEFINE k == KindOf(ChainsOf[table])
    <2>1. k # "unmapped" /\ status \in Service!Answers(k) /\ calls = Service!Calls(k)
      <3>1. k = IF AskedType(c) \notin {T_IN, T_OUT, T_FLUSH} THEN "unsupp"
                ELSE IF AskedType(c) = T_OUT /\ ~SourcesMapped(c) THEN "nodata" ELSE "ok"
        BY <1>2, <1>3, <1>6, KindOfOne
      <3> HIDE DEF k
      <3>2. CASE AskedType(c) \notin {T_IN, T_OUT, T_FLUSH}
        BY <1>3, <3>1, <3>2 DEF Outcome, Service!Answers, Service!Calls
      <3>3. CASE AskedType(c) = T_OUT /\ ~SourcesMapped(c)
        BY <1>3, <3>1, <3>3 DEF Outcome, Service!Answers, Service!Calls, T_OUT
      <3>4. CASE AskedType(c) \in {T_IN, T_FLUSH} \/ (AskedType(c) = T_OUT /\ SourcesMapped(c))
        <4>1. k = "ok"
          BY <3>1, <3>4 DEF T_IN, T_OUT, T_FLUSH
        <4> QED BY <1>3, <3>4, <4>1 DEF Outcome, Service!Answers, Service!Calls
      <3> QED BY <3>2, <3>3, <3>4
    <2>2. answer' = "used" /\ mem' = [mem EXCEPT ![LastOf(c).addr] = StatusByte(status)]
      BY <1>2, <1>4, <1>6 DEF Complete, WriteStatusByte
    <2>3. mem'[LastOf(c).addr] = StatusByte(status')
      BY <1>1, <1>6, <2>2 DEF Answerable
    <2>4. Reported' = [h \in {RequestHead} |->
             [state |-> "done", kind |-> k, status |-> status, calls |-> calls]]
      BY <1>1, <1>2, <1>6, <2>2, <2>3, ReportedNext
    <2>5. Service!Complete({RequestHead})
      <3> HIDE DEF k
      <3>1. k = KindOf(ChainsOf[table])
        BY DEF k
      <3> QED BY <1>1, <2>1, <2>4, <3>1, ServiceCompletes
    <2> QED BY <2>1, <2>2, <2>5
  <1> QED BY <1>5, <1>6

LEMMA ErrorAnswers ==
  ASSUME IInv, Traced, Served, Steady, CompleteWithError, UNCHANGED <<table, before>>
  PROVE  IF KindOf(ChainsOf[table]) = "unmapped" THEN answer' = "dropped"
         ELSE answer' = "used" /\ Service!Complete({RequestHead})
  <1>1. /\ pc = "error" /\ outcome # "going" /\ answer = "none" /\ answer' = "used"
        /\ calls' = 0 /\ outcome \in {"going", "ended", "failed"} /\ mem \in [Mapped -> Nat]
    BY DEF CompleteWithError, WalkOver, IInv, TypeOK, Served
  <1> DEFINE k == KindOf(ChainsOf[table])
             written == \E c \in ChainsOf[table] :
                          Answerable(c) /\ mem'[LastOf(c).addr] = StatusByte(status')
  <1>2. Reported' = [h \in {RequestHead} |->
          [state |-> "done", kind |-> k, status |-> IF written THEN status' ELSE "none",
           calls |-> 0]]
    BY <1>1, ReportedNext
  <1>3. /\ k \in {"bad", "nostatus"}
        /\ (IF written THEN status' ELSE "none") \in Service!Answers(k)
    <2>1. CASE ChainsOf[table] = {}
      <3>1. k = "nostatus" /\ ~written
        BY <2>1, KindOfNone
      <3> QED BY <3>1 DEF Service!Answers
    <2>2. CASE ChainsOf[table] # {}
      <3>1. ChainsOf[table] = {walk} /\ outcome = "ended" /\ ~Parses(walk)
        BY <1>1, <2>2, Walked DEF Served
      <3>2. CanWriteStatus <=> Answerable(walk)
        BY <3>1 DEF CanWriteStatus, Answerable
      <3>3. CASE Answerable(walk)
        <4>1. k = "bad"
          BY <3>1, <3>3, KindOfOne
        <4>2. /\ status' = "IOERR" /\ mem' = [mem EXCEPT ![LastOf(walk).addr] = StatusByte("IOERR")]
          BY <3>2, <3>3 DEF CompleteWithError, WriteStatusByte
        <4>3. written
          BY <1>1, <3>1, <3>3, <4>2 DEF Answerable
        <4> QED BY <4>1, <4>2, <4>3 DEF Service!Answers
      <3>4. CASE ~Answerable(walk)
        <4>1. k = "nostatus" /\ ~written
          BY <3>1, <3>4, KindOfOne
        <4> QED BY <4>1 DEF Service!Answers
      <3> QED BY <3>3, <3>4
    <2> QED BY <2>1, <2>2
  <1>4. Service!Calls(k) = 0 /\ k # "unmapped"
    BY <1>3 DEF Service!Calls
  <1>5. Service!Complete({RequestHead})
    <2> DEFINE s == IF written THEN status' ELSE "none"
    <2>1. k = KindOf(ChainsOf[table])
      OBVIOUS
    <2>2. /\ Reported' = [h \in {RequestHead} |->
               [state |-> "done", kind |-> k, status |-> s, calls |-> Service!Calls(k)]]
          /\ s \in Service!Answers(k)
      BY <1>2, <1>3, <1>4
    <2> HIDE DEF k, s
    <2> QED BY <1>1, <2>1, <2>2, ServiceCompletes
  <1> QED BY <1>1, <1>4, <1>5

\* A request whose table is at rest is answered as the block service has it, for every
\* table, memory and disk: the kinds of module BlkDevice stand for what the chains do.
THEOREM AnsweredAsService == Spec => AnswersAsService
  <1>1. ASSUME IInv, Traced, Served, [Next]_vars, Steady', answer' # answer
        PROVE  IF KindOf(ChainsOf[table]) = "unmapped" THEN answer' = "dropped"
               ELSE answer' = "used" /\ Service!Complete({RequestHead})
    <2>1. Steady /\ UNCHANGED <<table, before>> /\ (Handler \/ UNCHANGED vars)
      BY <1>1, SteadyStep, BeforeStays
    <2>2. Complete \/ CompleteWithError
      BY <1>1, <2>1 DEF vars, Handler, ReadDesc, BadIndex, WalkFails, ParseHeader,
         ValidateLength, GetDataBuffers, GetStatusAddr, ExecuteRead, ExecuteWrite,
         ExecuteFlush, ExecuteUnsupported, SkipBuffer, CopyToGuest, CopyToGuestFails,
         Delivered, CopyFromGuest, CopyFromGuestFails, StoreToBackend, result
    <2> QED BY <1>1, <2>1, <2>2, CompleteAnswers, ErrorAnswers
  <1>2. IInv /\ Traced /\ Served /\ [Next]_vars
          => [Steady' /\ answer' # answer
                => IF KindOf(ChainsOf[table]) = "unmapped" THEN answer' = "dropped"
                   ELSE answer' = "used" /\ Service!Complete({RequestHead})]_result
    BY <1>1
  <1> QED BY <1>2, Serves, Inductive, PTL DEF Spec, AnswersAsService
=============================================================================
