-------------------------- MODULE InstancesProofs --------------------------
(* Proofs about the edits of an account file, for every file, and about      *)
(* Instances: what an edit, or several that overwrite each other, can do to  *)
(* the files and to the records.                                             *)
EXTENDS Instances, WellFoundedInduction, FiniteSetTheorems, SequenceTheorems, TLAPS

-----------------------------------------------------------------------------
(* Least elements.                                                           *)

LEMMA LeastElement ==
  ASSUME NEW S, S \subseteq Nat, S # {}
  PROVE  \E m \in S : \A n \in S : m <= n
<1> DEFINE R == OpToRel(<, Nat)
<1>1. IsWellFoundedOn(R, Nat)
  BY NatLessThanWellFounded
<1>2. \A m, n \in Nat : m < n => <<m, n>> \in R
  BY DEF OpToRel
<1> HIDE DEF R
<1>3. PICK m \in S : \A n \in S : ~ (<<n, m>> \in R)
  <2>1. \E m \in S : \A n \in S : ~ (<<n, m>> \in R)
    BY <1>1, WFMin
  <2> QED BY <2>1
<1>4. ASSUME NEW n \in S PROVE m <= n
  <2>1. m \in Nat /\ n \in Nat
    OBVIOUS
  <2>2. ~ (<<n, m>> \in R)
    BY <1>3
  <2>3. n < m => <<n, m>> \in R
    BY <1>2, <2>1
  <2>4. ~ (n < m)
    BY <2>2, <2>3
  <2> QED BY <2>1, <2>4
<1> QED BY <1>4

LEMMA MinIsLeast ==
  ASSUME NEW S, S \subseteq Nat, S # {}
  PROVE  Min(S) \in S /\ \A n \in S : Min(S) <= n
BY LeastElement DEF Min

LEMMA LeastIsMin ==
  ASSUME NEW S, S \subseteq Nat, NEW m \in S, \A n \in S : m <= n
  PROVE  Min(S) = m
<1>1. Min(S) \in S /\ \A n \in S : Min(S) <= n
  BY MinIsLeast
<1>2. Min(S) \in Nat /\ m \in Nat /\ Min(S) <= m /\ m <= Min(S)
  BY <1>1
<1> QED BY <1>2

-----------------------------------------------------------------------------
(* Blocks.                                                                   *)

Lines == Seq(Line)

Top(lines) == 1 .. Len(lines) + 1

(* A block ends at the next section header, or after the last line.          *)
LEMMA BlockEndIs ==
  ASSUME NEW lines \in Lines, NEW b \in DOMAIN lines
  PROVE  /\ BlockEnd(lines, b) \in Top(lines)
         /\ b < BlockEnd(lines, b)
         /\ BlockEnd(lines, b) <= Len(lines) => IsSection(lines[BlockEnd(lines, b)])
         /\ \A i \in DOMAIN lines : b < i /\ IsSection(lines[i]) => BlockEnd(lines, b) <= i
<1> DEFINE S == {i \in b + 1 .. Len(lines) : IsSection(lines[i])} \cup {Len(lines) + 1}
<1>1. Len(lines) \in Nat /\ DOMAIN lines = 1 .. Len(lines)
  BY DEF Lines
<1>2. S \subseteq Nat /\ S # {}
  BY <1>1
<1>3. Min(S) \in S /\ \A n \in S : Min(S) <= n
  BY <1>2, MinIsLeast
<1>4. BlockEnd(lines, b) = Min(S)
  BY DEF BlockEnd
<1>5. Min(S) \in Nat /\ b < Min(S) /\ Min(S) <= Len(lines) + 1
  BY <1>1, <1>3
<1>6. Min(S) <= Len(lines) => IsSection(lines[Min(S)])
  BY <1>1, <1>3
<1>7. ASSUME NEW i \in DOMAIN lines, b < i, IsSection(lines[i]) PROVE Min(S) <= i
  <2>1. i \in S
    BY <1>1, <1>7
  <2> QED BY <1>3, <2>1
<1> HIDE DEF S
<1> QED BY <1>1, <1>4, <1>5, <1>6, <1>7 DEF Top

LEMMA BlockEndUnique ==
  ASSUME NEW lines \in Lines, NEW b \in DOMAIN lines, NEW e \in Top(lines), b < e,
         e <= Len(lines) => IsSection(lines[e]),
         \A i \in DOMAIN lines : b < i /\ IsSection(lines[i]) => e <= i
  PROVE  BlockEnd(lines, b) = e
<1>1. Len(lines) \in Nat /\ DOMAIN lines = 1 .. Len(lines)
  BY DEF Lines
<1> DEFINE d == BlockEnd(lines, b)
<1>2. /\ d \in Top(lines) /\ b < d /\ (d <= Len(lines) => IsSection(lines[d]))
      /\ \A i \in DOMAIN lines : b < i /\ IsSection(lines[i]) => d <= i
  BY BlockEndIs
<1> HIDE DEF d
<1>3. d <= e
  <2>1. CASE e <= Len(lines)
    BY <1>1, <1>2, <2>1 DEF Top
  <2>2. CASE e = Len(lines) + 1
    BY <1>1, <1>2, <2>2 DEF Top
  <2> QED BY <1>1, <2>1, <2>2 DEF Top
<1>4. e <= d
  <2>1. CASE d <= Len(lines)
    BY <1>1, <1>2, <2>1 DEF Top
  <2>2. CASE d = Len(lines) + 1
    BY <1>1, <1>2, <2>2 DEF Top
  <2> QED BY <1>1, <1>2, <2>1, <2>2 DEF Top
<1> QED BY <1>1, <1>2, <1>3, <1>4 DEF Top, d

(* The lines of `old` are those of `new`, in their order and at the places   *)
(* f, but for the values of disabled lines and for further disabled lines.   *)
Embeds(old, new, f) ==
    /\ old \in Lines /\ new \in Lines
    /\ f \in [Top(old) -> Top(new)]
    /\ \A i, j \in Top(old) : i < j => f[i] < f[j]
    /\ f[Len(old) + 1] = Len(new) + 1
    /\ \A i \in DOMAIN old :
          /\ new[f[i]].kind = old[i].kind
          /\ old[i].kind # "disabled" => new[f[i]].value = old[i].value
    /\ \A j \in DOMAIN new : new[j].kind = "disabled" \/ \E i \in DOMAIN old : j = f[i]

Image(f, S) == {f[i] : i \in S}

LEMMA EmbedsPlaces ==
  ASSUME NEW old, NEW new, NEW f, Embeds(old, new, f)
  PROVE  /\ DOMAIN old = 1 .. Len(old) /\ DOMAIN new = 1 .. Len(new)
         /\ Len(old) \in Nat /\ Len(new) \in Nat
         /\ \A i \in DOMAIN old : i \in Top(old) /\ f[i] \in DOMAIN new
         /\ \A i, j \in Top(old) : f[i] < f[j] => i < j
         /\ \A i \in Top(old) : f[i] \in Nat /\ i \in Nat
<1>1. /\ DOMAIN old = 1 .. Len(old) /\ DOMAIN new = 1 .. Len(new)
      /\ Len(old) \in Nat /\ Len(new) \in Nat
  BY DEF Embeds, Lines
<1>2. \A i \in Top(old) : f[i] \in Nat /\ i \in Nat /\ f[i] \in Top(new)
  BY <1>1 DEF Embeds, Top
<1>3. ASSUME NEW i \in DOMAIN old PROVE i \in Top(old) /\ f[i] \in DOMAIN new
  <2>1. i \in Top(old) /\ Len(old) + 1 \in Top(old) /\ i < Len(old) + 1
    BY <1>1 DEF Top
  <2>2. f[i] < f[Len(old) + 1]
    BY <2>1 DEF Embeds
  <2>3. f[i] \in Top(new) /\ f[i] < Len(new) + 1
    BY <1>2, <2>1, <2>2 DEF Embeds
  <2> QED BY <1>1, <2>1, <2>3 DEF Top
<1>4. ASSUME NEW i \in Top(old), NEW j \in Top(old), f[i] < f[j] PROVE i < j
  <2>1. j < i => f[j] < f[i]
    BY DEF Embeds
  <2>2. i \in Nat /\ j \in Nat /\ f[i] \in Nat /\ f[j] \in Nat
    BY <1>2
  <2>3. i # j
    BY <1>4, <2>2
  <2>4. ~ (j < i)
    BY <1>4, <2>1, <2>2
  <2> QED BY <2>2, <2>3, <2>4
<1> QED BY <1>1, <1>2, <1>3, <1>4

LEMMA MinOfImage ==
  ASSUME NEW old, NEW new, NEW f, Embeds(old, new, f),
         NEW S, S \subseteq DOMAIN old, S # {}
  PROVE  Min(Image(f, S)) = f[Min(S)]
<1>1. /\ \A i \in DOMAIN old : i \in Top(old) /\ f[i] \in Nat /\ i \in Nat
  BY EmbedsPlaces
<1>2. Min(S) \in S /\ \A n \in S : Min(S) <= n
  BY <1>1, MinIsLeast
<1>3. f[Min(S)] \in Image(f, S) /\ Image(f, S) \subseteq Nat
  BY <1>1, <1>2 DEF Image
<1>4. ASSUME NEW n \in S PROVE f[Min(S)] <= f[n]
  <2>1. n \in Top(old) /\ Min(S) \in Top(old) /\ n \in Nat /\ Min(S) \in Nat
    BY <1>1, <1>2
  <2>2. Min(S) < n => f[Min(S)] < f[n]
    BY <2>1 DEF Embeds
  <2>3. Min(S) = n \/ Min(S) < n
    BY <1>2, <2>1
  <2>4. f[n] \in Nat /\ f[Min(S)] \in Nat
    BY <1>1, <1>2
  <2> QED BY <2>2, <2>3, <2>4
<1>5. \A n \in Image(f, S) : f[Min(S)] <= n
  BY <1>4 DEF Image
<1> QED BY <1>3, <1>5, LeastIsMin

(* A block keeps its lines, and gains at most disabled lines.                *)
LEMMA EmbedsBlock ==
  ASSUME NEW old, NEW new, NEW f, Embeds(old, new, f), NEW b \in DOMAIN old
  PROVE  /\ BlockEnd(new, f[b]) = f[BlockEnd(old, b)]
         /\ \A kind \in Kinds \ {"disabled"} :
              InBlock(new, f[b], kind) = Image(f, InBlock(old, b, kind))
         /\ Image(f, InBlock(old, b, "disabled")) \subseteq InBlock(new, f[b], "disabled")
         /\ \A j \in InBlock(new, f[b], "disabled") :
              \/ j \in Image(f, InBlock(old, b, "disabled"))
              \/ j \in DOMAIN new /\ \A i \in DOMAIN old : j # f[i]
<1> DEFINE e == BlockEnd(old, b)
<1>1. /\ DOMAIN old = 1 .. Len(old) /\ DOMAIN new = 1 .. Len(new)
      /\ Len(old) \in Nat /\ Len(new) \in Nat
      /\ \A i \in DOMAIN old : i \in Top(old) /\ f[i] \in DOMAIN new
      /\ \A i, j \in Top(old) : f[i] < f[j] => i < j
      /\ \A i \in Top(old) : f[i] \in Nat /\ i \in Nat
  BY EmbedsPlaces
<1>2. old \in Lines /\ new \in Lines
  BY DEF Embeds
<1>3. /\ e \in Top(old) /\ b < e
      /\ e <= Len(old) => IsSection(old[e])
      /\ \A i \in DOMAIN old : b < i /\ IsSection(old[i]) => e <= i
  BY <1>2, BlockEndIs
<1> HIDE DEF e
<1>4. BlockEnd(new, f[b]) = f[e]
  <2>1. f[b] \in DOMAIN new /\ f[e] \in Top(new) /\ f[b] < f[e]
    BY <1>1, <1>3 DEF Embeds
  <2>2. ASSUME f[e] <= Len(new) PROVE IsSection(new[f[e]])
    <3>1. e # Len(old) + 1
      BY <1>1, <2>2 DEF Embeds
    <3>2. e \in DOMAIN old
      BY <1>1, <1>3, <3>1 DEF Top
    <3> QED BY <1>1, <1>3, <3>2 DEF Embeds, IsSection
  <2>3. ASSUME NEW j \in DOMAIN new, f[b] < j, IsSection(new[j]) PROVE f[e] <= j
    <3>1. PICK i \in DOMAIN old : j = f[i]
      BY <2>3 DEF Embeds, IsSection
    <3>2. IsSection(old[i]) /\ b < i
      BY <1>1, <2>3, <3>1 DEF Embeds, IsSection
    <3>3. e <= i
      BY <1>3, <3>2
    <3>4. e < i => f[e] < f[i]
      BY <1>1, <1>3 DEF Embeds
    <3>5. e = i \/ e < i
      BY <1>1, <1>3, <3>3
    <3> QED BY <1>1, <1>3, <3>1, <3>4, <3>5
  <2> QED BY <1>2, <2>1, <2>2, <2>3, BlockEndUnique
<1>5. ASSUME NEW kind, NEW i \in InBlock(old, b, kind) PROVE f[i] \in InBlock(new, f[b], kind)
  <2>1. i \in DOMAIN old /\ b < i /\ i < e /\ old[i].kind = kind
    BY <1>1, <1>3 DEF InBlock, e, Top
  <2>2. f[b] < f[i] /\ f[i] < f[e] /\ new[f[i]].kind = kind /\ f[i] \in DOMAIN new
    BY <1>1, <1>3, <2>1 DEF Embeds
  <2>3. f[b] \in Nat /\ f[e] \in Nat /\ f[i] \in Nat
    BY <1>1, <1>3, <2>1
  <2> QED BY <1>4, <2>2, <2>3 DEF InBlock
<1>6. ASSUME NEW kind, NEW i \in DOMAIN old, f[i] \in InBlock(new, f[b], kind)
      PROVE  i \in InBlock(old, b, kind)
  <2>1. f[b] \in Nat /\ f[e] \in Nat /\ f[i] \in Nat /\ i \in Nat /\ e \in Nat /\ b \in Nat
    BY <1>1, <1>3
  <2>2. f[b] < f[i] /\ f[i] < f[e] /\ new[f[i]].kind = kind
    BY <1>4, <1>6, <2>1 DEF InBlock
  <2>3. b < i /\ i < e /\ old[i].kind = kind
    BY <1>1, <1>3, <2>2 DEF Embeds
  <2> QED BY <2>1, <2>3 DEF InBlock, e
<1>7. ASSUME NEW kind, NEW j \in InBlock(new, f[b], kind)
      PROVE  j \in DOMAIN new /\ new[j].kind = kind
  <2>1. f[e] \in Top(new) /\ f[b] \in DOMAIN new
    BY <1>1, <1>3 DEF Embeds
  <2> QED BY <1>1, <1>4, <2>1 DEF InBlock, Top
<1>8. ASSUME NEW kind \in Kinds \ {"disabled"}
      PROVE  InBlock(new, f[b], kind) = Image(f, InBlock(old, b, kind))
  <2>1. ASSUME NEW j \in InBlock(new, f[b], kind) PROVE j \in Image(f, InBlock(old, b, kind))
    <3>1. PICK i \in DOMAIN old : j = f[i]
      BY <1>7, <1>8 DEF Embeds
    <3> QED BY <1>6, <3>1 DEF Image
  <2> QED BY <1>5, <2>1 DEF Image
<1>9. Image(f, InBlock(old, b, "disabled")) \subseteq InBlock(new, f[b], "disabled")
  BY <1>5 DEF Image
<1>10. ASSUME NEW j \in InBlock(new, f[b], "disabled"), NEW i \in DOMAIN old, j = f[i]
       PROVE  j \in Image(f, InBlock(old, b, "disabled"))
  BY <1>6, <1>10 DEF Image
<1> QED BY <1>4, <1>7, <1>8, <1>9, <1>10 DEF e

(* The accounts, and the order of their blocks, are the same.                *)
LEMMA EmbedsAccounts ==
  ASSUME NEW old, NEW new, NEW f, Embeds(old, new, f)
  PROVE  /\ Blocks(new) = Image(f, Blocks(old))
         /\ \A b \in Blocks(old) : BlockUser(new, f[b]) = BlockUser(old, b)
         /\ \A u : BlocksOf(new, u) = Image(f, BlocksOf(old, u))
         /\ \A u : HasAccount(new, u) <=> HasAccount(old, u)
         /\ \A u : HasAccount(old, u) => Target(new, u) = f[Target(old, u)]
<1>1. /\ DOMAIN old = 1 .. Len(old) /\ Len(old) \in Nat
      /\ \A i \in DOMAIN old : i \in Top(old) /\ f[i] \in DOMAIN new
  BY EmbedsPlaces
<1>2. Blocks(new) = Image(f, Blocks(old))
  <2>1. ASSUME NEW j \in Blocks(new) PROVE j \in Image(f, Blocks(old))
    <3>1. PICK i \in DOMAIN old : j = f[i]
      BY DEF Embeds, Blocks
    <3>2. i \in Blocks(old)
      BY <3>1 DEF Embeds, Blocks
    <3> QED BY <3>1, <3>2 DEF Image
  <2>2. ASSUME NEW i \in Blocks(old) PROVE f[i] \in Blocks(new)
    BY <1>1 DEF Embeds, Blocks
  <2> QED BY <2>1, <2>2 DEF Image
<1>3. ASSUME NEW b \in Blocks(old) PROVE BlockUser(new, f[b]) = BlockUser(old, b)
  <2> DEFINE named == InBlock(old, b, "user")
  <2>1. b \in DOMAIN old
    BY DEF Blocks
  <2>2. InBlock(new, f[b], "user") = Image(f, named)
    BY <2>1, EmbedsBlock DEF Kinds
  <2>3. named \subseteq DOMAIN old /\ \A i \in named : old[i].kind = "user"
    <3>1. BlockEnd(old, b) \in Top(old) /\ old \in Lines
      BY <2>1, BlockEndIs DEF Embeds
    <3> QED BY <1>1, <2>1, <3>1 DEF InBlock, Top
  <2>4. CASE named = {}
    BY <2>2, <2>4 DEF BlockUser, Image
  <2>5. CASE named # {}
    <3>1. Min(named) \in named
      <4>1. named \subseteq Nat
        BY <1>1, <2>3
      <4> HIDE DEF named
      <4> QED BY <4>1, <2>5, MinIsLeast
    <3>2. Min(Image(f, named)) = f[Min(named)]
      <4> HIDE DEF named
      <4> QED BY <2>3, <2>5, MinOfImage
    <3>3. Image(f, named) # {}
      BY <2>5 DEF Image
    <3>4. BlockUser(new, f[b]) = new[f[Min(named)]].value
      BY <2>2, <3>2, <3>3 DEF BlockUser
    <3>5. BlockUser(old, b) = old[Min(named)].value
      BY <2>5 DEF BlockUser
    <3> HIDE DEF named
    <3>6. new[f[Min(named)]].value = old[Min(named)].value
      BY <2>3, <3>1 DEF Embeds
    <3> QED BY <3>4, <3>5, <3>6
  <2> QED BY <2>4, <2>5
<1>4. ASSUME NEW u PROVE BlocksOf(new, u) = Image(f, BlocksOf(old, u))
  BY <1>2, <1>3 DEF BlocksOf, Image
<1>5. ASSUME NEW u PROVE HasAccount(new, u) <=> HasAccount(old, u)
  BY <1>4 DEF HasAccount, Image
<1>6. ASSUME NEW u, HasAccount(old, u) PROVE Target(new, u) = f[Target(old, u)]
  <2>1. BlocksOf(old, u) \subseteq DOMAIN old /\ BlocksOf(old, u) # {}
    BY <1>6 DEF HasAccount, BlocksOf, Blocks
  <2>2. Min(Image(f, BlocksOf(old, u))) = f[Min(BlocksOf(old, u))]
    BY <2>1, MinOfImage
  <2> QED BY <1>4, <2>2 DEF Target
<1> QED BY <1>2, <1>3, <1>4, <1>5, <1>6

(* The lines a flag has no part in are the same, in the same order.          *)
LEMMA EmbedsOthers ==
  ASSUME NEW old, NEW new, NEW f, Embeds(old, new, f)
  PROVE  OtherLines(new) = OtherLines(old)
<1> DEFINE UpTo(lines, i) == {j \in Others(lines) : j <= i}
<1>1. /\ DOMAIN old = 1 .. Len(old) /\ DOMAIN new = 1 .. Len(new)
      /\ Len(old) \in Nat /\ Len(new) \in Nat
      /\ \A i \in DOMAIN old : i \in Top(old) /\ f[i] \in DOMAIN new
      /\ \A i, j \in Top(old) : f[i] < f[j] => i < j
      /\ \A i \in Top(old) : f[i] \in Nat /\ i \in Nat
  BY EmbedsPlaces
<1>2. Others(new) = Image(f, Others(old))
  <2>1. ASSUME NEW j \in Others(new) PROVE j \in Image(f, Others(old))
    <3>1. PICK i \in DOMAIN old : j = f[i]
      BY DEF Embeds, Others
    <3>2. i \in Others(old)
      BY <3>1 DEF Embeds, Others
    <3> QED BY <3>1, <3>2 DEF Image
  <2>2. ASSUME NEW i \in Others(old) PROVE f[i] \in Others(new)
    BY <1>1 DEF Embeds, Others
  <2> QED BY <2>1, <2>2 DEF Image
<1>3. ASSUME NEW i \in Others(old)
      PROVE  Cardinality(UpTo(new, f[i])) = Cardinality(UpTo(old, i))
  <2> DEFINE S == UpTo(old, i)
             T == UpTo(new, f[i])
             g == [j \in S |-> f[j]]
  <2>1. i \in DOMAIN old /\ i \in Nat /\ f[i] \in Nat /\ i \in Top(old)
    BY <1>1 DEF Others
  <2>2. \A j \in S : j \in Top(old) /\ j \in Nat /\ f[j] \in Nat /\ j \in Others(old) /\ j <= i
    BY <1>1 DEF Others
  <2>3. IsFiniteSet(S)
    <3>1. S \in SUBSET (1 .. Len(old)) /\ IsFiniteSet(1 .. Len(old))
      BY <1>1, FS_Interval DEF Others
    <3> HIDE DEF S
    <3> QED BY <3>1, FS_Subset
  <2>4. ASSUME NEW j \in S PROVE f[j] \in T
    <3>1. f[j] \in Others(new)
      BY <1>2, <2>2 DEF Image
    <3>2. j < i => f[j] < f[i]
      BY <2>1, <2>2 DEF Embeds
    <3>3. f[j] <= f[i]
      BY <2>1, <2>2, <3>2
    <3> QED BY <3>1, <3>3
  <2>5. ASSUME NEW k \in T PROVE \E j \in S : k = f[j]
    <3>1. PICK j \in Others(old) : k = f[j]
      BY <1>2 DEF Image
    <3>2. f[j] <= f[i] /\ j \in Top(old) /\ j \in Nat /\ f[j] \in Nat
      BY <1>1, <3>1 DEF Others
    <3>3. i < j => f[i] < f[j]
      BY <2>1, <3>2 DEF Embeds
    <3>4. j <= i
      BY <2>1, <3>2, <3>3
    <3> QED BY <3>1, <3>4
  <2>6. ASSUME NEW j \in S, NEW k \in S, f[j] = f[k] PROVE j = k
    <3>1. (j < k => f[j] < f[k]) /\ (k < j => f[k] < f[j])
      BY <2>2 DEF Embeds
    <3> QED BY <2>2, <2>6, <3>1
  <2> HIDE DEF S, T
  <2>7. g \in Bijection(S, T)
    BY <2>4, <2>5, <2>6 DEF Bijection, Injection, Surjection, IsInjective
  <2>8. ExistsBijection(S, T)
    BY <2>7 DEF ExistsBijection
  <2>9. Cardinality(T) = Cardinality(S)
    BY <2>3, <2>8, FS_Bijection
  <2> QED BY <2>9 DEF S, T
<1>4. \A i \in Others(old) : new[f[i]].kind = old[i].kind /\ new[f[i]].value = old[i].value
  BY DEF Others, Embeds
<1> DEFINE Entry(lines, i) == <<Cardinality(UpTo(lines, i)), lines[i].kind, lines[i].value>>
<1>5. \A i \in Others(old) : Entry(new, f[i]) = Entry(old, i)
  BY <1>3, <1>4
<1>6. /\ OtherLines(old) = {Entry(old, i) : i \in Others(old)}
      /\ OtherLines(new) = {Entry(new, i) : i \in Others(new)}
  BY DEF OtherLines
<1> HIDE DEF Entry
<1> QED BY <1>2, <1>5, <1>6 DEF Image

-----------------------------------------------------------------------------
(* Edits.                                                                    *)

LEMMA InsertAtProperties ==
  ASSUME NEW S, NEW s \in Seq(S), NEW i \in 1 .. Len(s) + 1, NEW e \in S
  PROVE  /\ InsertAt(s, i, e) \in Seq(S)
         /\ Len(InsertAt(s, i, e)) = Len(s) + 1
         /\ \A j \in 1 .. Len(s) + 1 :
              InsertAt(s, i, e)[j] = IF j < i THEN s[j] ELSE IF j = i THEN e ELSE s[j - 1]
<1> DEFINE a == SubSeq(s, 1, i - 1)
           c == SubSeq(s, i, Len(s))
           l == a \o <<e>>
<1>1. Len(s) \in Nat /\ i \in Nat /\ 1 <= i /\ i <= Len(s) + 1
  BY LenProperties
<1>2. \A j \in 1 .. Len(s) : s[j] \in S
  BY LenProperties
<1>3. /\ a \in Seq(S) /\ Len(a) = i - 1
      /\ \A j \in 1 .. i - 1 : a[j] = s[j]
  <2>1. \A j \in 1 .. i - 1 : s[j] \in S
    BY <1>1, <1>2
  <2> QED BY <1>1, <2>1, SubSeqProperties
<1>4. /\ c \in Seq(S) /\ Len(c) = Len(s) - i + 1
      /\ \A j \in 1 .. Len(s) - i + 1 : c[j] = s[i + j - 1]
  <2>1. \A j \in i .. Len(s) : s[j] \in S
    BY <1>1, <1>2
  <2> QED BY <1>1, <2>1, SubSeqProperties
<1> HIDE DEF a, c
<1>5. <<e>> \in Seq(S) /\ Len(<<e>>) = 1 /\ <<e>>[1] = e
  OBVIOUS
<1>6. /\ l \in Seq(S) /\ Len(l) = i
      /\ \A j \in 1 .. i : l[j] = IF j < i THEN s[j] ELSE e
  <2>1. /\ l \in Seq(S) /\ Len(l) = Len(a) + Len(<<e>>)
        /\ \A j \in 1 .. Len(a) + Len(<<e>>) :
              l[j] = IF j <= Len(a) THEN a[j] ELSE <<e>>[j - Len(a)]
    BY <1>3, <1>5, ConcatProperties
  <2>2. l \in Seq(S) /\ Len(l) = i
    BY <1>1, <1>3, <1>5, <2>1
  <2>3. ASSUME NEW j \in 1 .. i PROVE l[j] = IF j < i THEN s[j] ELSE e
    <3>1. CASE j < i
      <4>1. j <= Len(a) /\ j \in 1 .. i - 1 /\ j \in 1 .. Len(a) + Len(<<e>>)
        BY <1>1, <1>3, <1>5, <3>1
      <4>2. l[j] = a[j] /\ a[j] = s[j]
        BY <1>3, <2>1, <4>1
      <4> QED BY <3>1, <4>2
    <3>2. CASE j = i
      <4>1. j - Len(a) = 1 /\ ~ (j <= Len(a)) /\ j \in 1 .. Len(a) + Len(<<e>>)
        BY <1>1, <1>3, <1>5, <3>2
      <4>2. l[j] = <<e>>[j - Len(a)]
        BY <2>1, <4>1
      <4> QED BY <1>5, <3>2, <4>1, <4>2
    <3>3. j < i \/ j = i
      BY <1>1
    <3> QED BY <3>1, <3>2, <3>3
  <2> QED BY <2>2, <2>3
<1> HIDE DEF l
<1>7. /\ l \o c \in Seq(S) /\ Len(l \o c) = Len(l) + Len(c)
      /\ \A j \in 1 .. Len(l) + Len(c) :
            (l \o c)[j] = IF j <= Len(l) THEN l[j] ELSE c[j - Len(l)]
  BY <1>4, <1>6, ConcatProperties
<1>8. Len(l) + Len(c) = Len(s) + 1
  BY <1>1, <1>4, <1>6
<1>9. ASSUME NEW j \in 1 .. Len(s) + 1
      PROVE  (l \o c)[j] = IF j < i THEN s[j] ELSE IF j = i THEN e ELSE s[j - 1]
  <2>1. CASE j <= i
    <3>1. j \in 1 .. Len(l) + Len(c) /\ j <= Len(l) /\ j \in 1 .. i
      BY <1>1, <1>6, <1>8, <2>1
    <3>2. (l \o c)[j] = l[j]
      BY <1>7, <3>1
    <3>3. l[j] = IF j < i THEN s[j] ELSE e
      BY <1>6, <3>1
    <3> QED BY <1>1, <2>1, <3>2, <3>3
  <2>2. CASE i < j
    <3>1. (l \o c)[j] = c[j - i]
      <4>1. j \in 1 .. Len(l) + Len(c) /\ ~ (j <= Len(l)) /\ Len(l) = i
        BY <1>1, <1>6, <1>8, <2>2
      <4> QED BY <1>7, <4>1
    <3>2. j - i \in 1 .. Len(s) - i + 1 /\ i + (j - i) - 1 = j - 1
      BY <1>1, <2>2
    <3>3. c[j - i] = s[i + (j - i) - 1]
      BY <1>4, <3>2
    <3> QED BY <1>1, <2>2, <3>1, <3>2, <3>3
  <2>3. j <= i \/ i < j
    BY <1>1
  <2> QED BY <2>1, <2>2, <2>3
<1>10. InsertAt(s, i, e) = l \o c
  BY DEF InsertAt, l, a, c
<1> QED BY <1>7, <1>8, <1>9, <1>10

(* Two blocks have no line in common.                                        *)
LEMMA BlocksApart ==
  ASSUME NEW lines \in Lines, NEW b \in Blocks(lines), NEW c \in Blocks(lines), b # c
  PROVE  BlockEnd(lines, b) <= c \/ BlockEnd(lines, c) <= b
<1>1. b \in DOMAIN lines /\ c \in DOMAIN lines /\ DOMAIN lines \subseteq Nat
  BY DEF Blocks, Lines
<1>2. IsSection(lines[b]) /\ IsSection(lines[c])
  BY DEF Blocks, IsSection
<1>3. b < c \/ c < b
  BY <1>1
<1> QED BY <1>1, <1>2, <1>3, BlockEndIs

(* The lines of a block are those between its header and its end.            *)
LEMMA InBlockIs ==
  ASSUME NEW lines \in Lines, NEW b \in DOMAIN lines, NEW kind
  PROVE  /\ InBlock(lines, b, kind) \subseteq DOMAIN lines
         /\ InBlock(lines, b, kind) \subseteq Nat
         /\ \A i \in InBlock(lines, b, kind) :
              b < i /\ i < BlockEnd(lines, b) /\ lines[i].kind = kind
<1>1. DOMAIN lines = 1 .. Len(lines) /\ Len(lines) \in Nat
  BY DEF Lines
<1>2. BlockEnd(lines, b) \in Top(lines)
  BY BlockEndIs
<1> QED BY <1>1, <1>2 DEF InBlock, Top

(* What an edit of the block b makes of a file.                              *)
Edited(old, new, b, flg) ==
    /\ new \in Text
    /\ \E f : /\ Embeds(old, new, f)
              /\ InBlock(new, f[b], "disabled") # {} /\ BlockFlag(new, f[b]) = flg
              /\ \A c \in Blocks(old) \ {b} : BlockFlag(new, f[c]) = BlockFlag(old, c)

LEMMA ReplaceEdits ==
  ASSUME NEW lines \in Text, NEW b \in Blocks(lines), NEW flg \in Flags,
         InBlock(lines, b, "disabled") # {}
  PROVE  Edited(lines, SetInBlock(lines, b, flg), b, flg)
<1> DEFINE set == InBlock(lines, b, "disabled")
           k   == Min(set)
           new == [lines EXCEPT ![k].value = flg]
           f   == [i \in Top(lines) |-> i]
<1>1. /\ lines \in Lines /\ DOMAIN lines = 1 .. Len(lines) /\ Len(lines) \in Nat
      /\ b \in DOMAIN lines /\ Lines = Seq(Line)
  BY DEF Text, Blocks, Lines
<1>2. /\ set \subseteq Nat /\ set \subseteq DOMAIN lines
      /\ \A i \in set : b < i /\ i < BlockEnd(lines, b) /\ lines[i].kind = "disabled"
  <2>1. lines \in Lines /\ b \in DOMAIN lines
    BY <1>1
  <2>2. /\ InBlock(lines, b, "disabled") \subseteq Nat
        /\ InBlock(lines, b, "disabled") \subseteq DOMAIN lines
        /\ \A i \in InBlock(lines, b, "disabled") :
              b < i /\ i < BlockEnd(lines, b) /\ lines[i].kind = "disabled"
    <3> HIDE DEF set, k, new, f
    <3> QED BY <2>1, InBlockIs
  <2> HIDE DEF k, new, f
  <2> QED BY <2>2
<1>3. k \in set /\ \A n \in set : k <= n
  <2>1. set # {}
    OBVIOUS
  <2> HIDE DEF set
  <2> QED BY <1>2, <2>1, MinIsLeast
<1> HIDE DEF set, k
<1>4. SetInBlock(lines, b, flg) = new
  BY DEF SetInBlock, set, k
<1>5. k \in DOMAIN lines /\ lines[k] \in Line /\ lines[k].kind = "disabled"
  BY <1>1, <1>2, <1>3
<1>6. /\ new \in Lines /\ Len(new) = Len(lines) /\ DOMAIN new = DOMAIN lines
      /\ \A i \in DOMAIN lines : i # k => new[i] = lines[i]
      /\ new[k].kind = "disabled" /\ new[k].value = flg /\ new[k].nl = lines[k].nl
  <2>1. [lines[k] EXCEPT !.value = flg] \in Line
    BY <1>5 DEF Line, Values
  <2>2. new = [lines EXCEPT ![k] = [lines[k] EXCEPT !.value = flg]]
    OBVIOUS
  <2>3. /\ new \in Seq(Line) /\ Len(new) = Len(lines)
        /\ \A i \in 1 .. Len(lines) :
              new[i] = IF i = k THEN [lines[k] EXCEPT !.value = flg] ELSE lines[i]
    BY <1>1, <1>5, <2>1, <2>2, ExceptSeq
  <2> HIDE DEF new
  <2>4. DOMAIN new = DOMAIN lines
    BY <1>1, <2>3
  <2>5. new[k] = [lines[k] EXCEPT !.value = flg]
    BY <1>1, <1>5, <2>3
  <2>6. new[k].kind = "disabled" /\ new[k].value = flg /\ new[k].nl = lines[k].nl
    BY <1>5, <2>5 DEF Line
  <2> QED BY <1>1, <2>3, <2>4, <2>6
<1>7. new \in Text
  <2>1. \A i \in 1 .. Len(lines) - 1 : lines[i].nl /\ i \in DOMAIN lines
    BY <1>1 DEF Text
  <2> HIDE DEF new
  <2> QED BY <1>1, <1>6, <2>1 DEF Text
<1>8. Embeds(lines, new, f)
  <2>1. f \in [Top(lines) -> Top(new)]
    BY <1>6 DEF Top
  <2>2. \A i \in DOMAIN lines : i \in Top(lines) /\ f[i] = i
    BY <1>1 DEF Top
  <2>3. f[Len(lines) + 1] = Len(new) + 1
    BY <1>1, <1>6 DEF Top
  <2>4. \A i \in DOMAIN lines : new[i].kind = lines[i].kind
    BY <1>5, <1>6
  <2>5. \A i \in DOMAIN lines : lines[i].kind # "disabled" => new[i].value = lines[i].value
    BY <1>5, <1>6
  <2>6. \A i, j \in Top(lines) : i < j => f[i] < f[j]
    OBVIOUS
  <2> HIDE DEF f, new
  <2> QED BY <1>1, <1>6, <2>1, <2>2, <2>3, <2>4, <2>5, <2>6 DEF Embeds
<1>9. ASSUME NEW c \in Blocks(lines)
      PROVE  /\ f[c] = c
             /\ InBlock(new, c, "disabled") = InBlock(lines, c, "disabled")
  <2>1. c \in DOMAIN lines /\ c \in Top(lines) /\ f[c] = c
    BY <1>1 DEF Blocks, Top
  <2>2. BlockEnd(new, c) = BlockEnd(lines, c) /\ BlockEnd(lines, c) \in Top(lines)
    <3>1. BlockEnd(new, f[c]) = f[BlockEnd(lines, c)]
      BY <1>8, <2>1, EmbedsBlock
    <3>2. BlockEnd(lines, c) \in Top(lines)
      BY <1>1, <2>1, BlockEndIs
    <3> QED BY <2>1, <3>1, <3>2
  <2>3. \A i \in DOMAIN lines : new[i].kind = lines[i].kind
    BY <1>5, <1>6
  <2> HIDE DEF f, new
  <2>4. \A i \in c + 1 .. BlockEnd(lines, c) - 1 : i \in DOMAIN lines
    BY <1>1, <2>1, <2>2 DEF Top
  <2> QED BY <2>1, <2>2, <2>3, <2>4 DEF InBlock
<1>10. InBlock(new, f[b], "disabled") # {} /\ BlockFlag(new, f[b]) = flg
  BY <1>3, <1>6, <1>9 DEF BlockFlag, set, k
<1>11. ASSUME NEW c \in Blocks(lines) \ {b} PROVE BlockFlag(new, f[c]) = BlockFlag(lines, c)
  <2> DEFINE other == InBlock(lines, c, "disabled")
  <2>1. f[c] = c /\ InBlock(new, c, "disabled") = other
    BY <1>9
  <2>2. c \in DOMAIN lines
    BY DEF Blocks
  <2>3. /\ other \subseteq Nat /\ other \subseteq DOMAIN lines
        /\ \A i \in other : c < i /\ i < BlockEnd(lines, c)
    BY <1>1, <2>2, InBlockIs
  <2>4. k \notin other
    <3>1. BlockEnd(lines, b) <= c \/ BlockEnd(lines, c) <= b
      BY <1>1, BlocksApart
    <3>2. BlockEnd(lines, b) \in Nat /\ BlockEnd(lines, c) \in Nat
      BY <1>1, <2>2, BlockEndIs DEF Top
    <3> QED BY <1>1, <1>2, <1>3, <2>2, <2>3, <3>1, <3>2
  <2>5. other # {} => new[Min(other)] = lines[Min(other)]
    <3>1. other # {} => Min(other) \in other
      <4> HIDE DEF other
      <4> QED BY <2>3, MinIsLeast
    <3> HIDE DEF other, new
    <3> QED BY <1>6, <2>3, <2>4, <3>1
  <2> HIDE DEF new, f
  <2> QED BY <2>1, <2>5 DEF BlockFlag
<1> HIDE DEF new, f
<1>12. Edited(lines, new, b, flg)
  BY <1>7, <1>8, <1>10, <1>11 DEF Edited
<1> QED BY <1>4, <1>12

LEMMA CompletedProperties ==
  ASSUME NEW lines \in Text, NEW e \in Top(lines), lines # <<>>
  PROVE  LET mid == Completed(lines, e)
         IN  /\ mid \in Seq(Line) /\ Len(mid) = Len(lines)
             /\ \A i \in 1 .. Len(lines) :
                  /\ mid[i].kind = lines[i].kind /\ mid[i].value = lines[i].value
                  /\ i < e => mid[i].nl
                  /\ i < Len(lines) => mid[i].nl
<1> DEFINE n   == Len(lines)
           mid == Completed(lines, e)
<1>1. /\ lines \in Seq(Line) /\ n \in Nat /\ n # 0 /\ e \in 1 .. n + 1
      /\ \A i \in 1 .. n - 1 : lines[i].nl
  BY DEF Text, Top
<1>2. CASE e > n
  <2> DEFINE last == [lines[n] EXCEPT !.nl = TRUE]
  <2>1. n \in 1 .. n /\ lines[n] \in Line
    BY <1>1
  <2>2. last \in Line /\ last.kind = lines[n].kind /\ last.value = lines[n].value /\ last.nl
    BY <2>1 DEF Line
  <2>3. mid = [lines EXCEPT ![n] = last]
    BY <1>2 DEF Completed
  <2> HIDE DEF last, mid
  <2>4. /\ mid \in Seq(Line) /\ Len(mid) = n
        /\ \A i \in 1 .. n : mid[i] = IF i = n THEN last ELSE lines[i]
    BY <1>1, <2>1, <2>2, <2>3, ExceptSeq
  <2>5. ASSUME NEW i \in 1 .. n
        PROVE  mid[i].kind = lines[i].kind /\ mid[i].value = lines[i].value /\ mid[i].nl
    <3>1. CASE i = n
      BY <2>2, <2>4, <3>1
    <3>2. CASE i # n
      BY <1>1, <2>4, <3>2
    <3> QED BY <3>1, <3>2
  <2> QED BY <2>4, <2>5 DEF mid
<1>3. CASE e <= n
  <2>1. mid = lines
    BY <1>1, <1>3 DEF Completed
  <2>2. \A i \in 1 .. n : (i < e \/ i < n) => i \in 1 .. n - 1
    BY <1>1, <1>3
  <2> QED BY <1>1, <2>1, <2>2
<1> QED BY <1>1, <1>2, <1>3

LEMMA InsertEdits ==
  ASSUME NEW lines \in Text, NEW b \in Blocks(lines), NEW flg \in Flags,
         InBlock(lines, b, "disabled") = {}
  PROVE  Edited(lines, SetInBlock(lines, b, flg), b, flg)
<1> DEFINE n    == Len(lines)
           e    == BlockEnd(lines, b)
           mid  == Completed(lines, e)
           line == DisabledLine(flg)
           new  == InsertAt(mid, e, line)
           f    == [i \in Top(lines) |-> IF i < e THEN i ELSE i + 1]
<1>1. /\ lines \in Lines /\ DOMAIN lines = 1 .. n /\ n \in Nat
      /\ b \in DOMAIN lines /\ Lines = Seq(Line) /\ lines # <<>>
  BY DEF Text, Blocks, Lines
<1>2. /\ e \in Top(lines) /\ b < e /\ e \in Nat /\ e \in 1 .. n + 1
      /\ \A i \in DOMAIN lines : b < i /\ IsSection(lines[i]) => e <= i
  BY <1>1, BlockEndIs DEF Top
<1>3. SetInBlock(lines, b, flg) = new
  BY DEF SetInBlock
<1> HIDE DEF e
<1>4. /\ mid \in Seq(Line) /\ Len(mid) = n
      /\ \A i \in 1 .. n : /\ mid[i].kind = lines[i].kind /\ mid[i].value = lines[i].value
                           /\ i < e => mid[i].nl
                           /\ i < n => mid[i].nl
  BY <1>1, <1>2, CompletedProperties
<1>5. line \in Line /\ line.kind = "disabled" /\ line.value = flg /\ line.nl
  BY DEF DisabledLine, Line, Kinds, Values
<1> HIDE DEF mid, line
<1>6. /\ new \in Seq(Line) /\ Len(new) = n + 1
      /\ \A j \in 1 .. n + 1 :
            new[j] = IF j < e THEN mid[j] ELSE IF j = e THEN line ELSE mid[j - 1]
  <2>1. e \in 1 .. Len(mid) + 1
    BY <1>2, <1>4
  <2>2. /\ new \in Seq(Line) /\ Len(new) = Len(mid) + 1
        /\ \A j \in 1 .. Len(mid) + 1 :
              new[j] = IF j < e THEN mid[j] ELSE IF j = e THEN line ELSE mid[j - 1]
    <3>1. /\ InsertAt(mid, e, line) \in Seq(Line)
          /\ Len(InsertAt(mid, e, line)) = Len(mid) + 1
          /\ \A j \in 1 .. Len(mid) + 1 :
                InsertAt(mid, e, line)[j] =
                  IF j < e THEN mid[j] ELSE IF j = e THEN line ELSE mid[j - 1]
      <4>1. mid \in Seq(Line) /\ line \in Line
        BY <1>4, <1>5
      <4> HIDE DEF n, f, new
      <4> QED BY <2>1, <4>1, InsertAtProperties
    <3> HIDE DEF n, f
    <3> QED BY <3>1
  <2> QED BY <1>4, <2>2
<1> HIDE DEF new
<1>7. new \in Text
  <2>1. ASSUME NEW j \in 1 .. Len(new) - 1 PROVE new[j].nl
    <3>1. j \in 1 .. n
      BY <1>1, <1>6
    <3>2. CASE j < e
      BY <1>4, <1>6, <3>1, <3>2
    <3>3. CASE j = e
      BY <1>5, <1>6, <3>1, <3>3
    <3>4. CASE j > e
      <4>1. j - 1 \in 1 .. n /\ j - 1 < n /\ ~ (j < e) /\ j # e
        BY <1>1, <1>2, <3>1, <3>4
      <4> QED BY <1>4, <1>6, <3>1, <4>1
    <3>5. j < e \/ j = e \/ j > e
      BY <1>2, <3>1
    <3> QED BY <3>2, <3>3, <3>4, <3>5
  <2> QED BY <1>6, <2>1 DEF Text
<1>8. ASSUME NEW i \in 1 .. n
      PROVE  /\ f[i] = (IF i < e THEN i ELSE i + 1) /\ f[i] \in 1 .. n + 1
             /\ new[f[i]].kind = lines[i].kind /\ new[f[i]].value = lines[i].value
  <2>1. f[i] = (IF i < e THEN i ELSE i + 1) /\ f[i] \in 1 .. n + 1
    BY <1>1 DEF Top
  <2>2. new[f[i]] = mid[i]
    <3>1. CASE i < e
      BY <1>6, <2>1, <3>1
    <3>2. CASE ~ (i < e)
      <4>1. i + 1 \in 1 .. n + 1 /\ ~ (i + 1 < e) /\ i + 1 # e /\ (i + 1) - 1 = i
        BY <1>1, <1>2, <3>2
      <4> QED BY <1>6, <2>1, <3>2, <4>1
    <3> QED BY <3>1, <3>2
  <2> QED BY <1>4, <2>1, <2>2
<1>9. Embeds(lines, new, f)
  <2>1. f \in [Top(lines) -> Top(new)]
    BY <1>1, <1>2, <1>6 DEF Top
  <2>2. f[n + 1] = Len(new) + 1
    <3>1. n + 1 \in Top(lines) /\ ~ (n + 1 < e)
      BY <1>1, <1>2 DEF Top
    <3> QED BY <1>6, <3>1
  <2>3. \A i, j \in Top(lines) : i < j => f[i] < f[j]
    BY <1>1, <1>2 DEF Top
  <2>4. ASSUME NEW j \in DOMAIN new, new[j].kind # "disabled"
        PROVE  \E i \in DOMAIN lines : j = f[i]
    <3>1. j \in 1 .. n + 1 /\ j # e
      BY <1>5, <1>6, <2>4
    <3>2. CASE j < e
      <4>1. j \in 1 .. n
        BY <1>1, <1>2, <3>1, <3>2
      <4> QED BY <1>1, <1>8, <3>2, <4>1
    <3>3. CASE j > e
      <4>1. j - 1 \in 1 .. n /\ ~ (j - 1 < e) /\ (j - 1) + 1 = j
        BY <1>1, <1>2, <3>1, <3>3
      <4> QED BY <1>1, <1>8, <4>1
    <3>4. j < e \/ j > e
      BY <1>2, <3>1
    <3> QED BY <3>2, <3>3, <3>4
  <2> HIDE DEF f
  <2> QED BY <1>1, <1>6, <1>8, <2>1, <2>2, <2>3, <2>4 DEF Embeds
<1>10. \A i \in 1 .. n : e # f[i]
  BY <1>1, <1>2, <1>8
<1>11. ASSUME NEW j \in DOMAIN new, \A i \in DOMAIN lines : j # f[i] PROVE j = e
  <2>1. j \in 1 .. n + 1 /\ \A i \in 1 .. n : j # f[i]
    <3>1. DOMAIN new = 1 .. n + 1
      BY <1>1, <1>6
    <3>2. \A i \in 1 .. n : j # f[i]
      <4> HIDE DEF f
      <4> QED BY <1>1, <1>11
    <3> QED BY <3>1, <3>2
  <2>2. ASSUME j < e PROVE FALSE
    <3>1. j \in 1 .. n
      BY <1>1, <1>2, <2>1, <2>2
    <3> QED BY <1>8, <2>1, <2>2, <3>1
  <2>3. ASSUME j > e PROVE FALSE
    <3>1. j - 1 \in 1 .. n /\ ~ (j - 1 < e) /\ (j - 1) + 1 = j
      BY <1>1, <1>2, <2>1, <2>3
    <3> QED BY <1>8, <2>1, <3>1
  <2> QED BY <1>2, <2>1, <2>2, <2>3
<1>12. f[e] = e + 1 /\ f[b] = b
  BY <1>1, <1>2, <1>8
<1> HIDE DEF f
<1>13. InBlock(new, b, "disabled") = {e}
  <2>1. InBlock(new, f[b], "disabled") \subseteq {e}
    <3>1. ASSUME NEW j \in InBlock(new, f[b], "disabled") PROVE j = e
      <4>1. Image(f, InBlock(lines, b, "disabled")) = {}
        BY DEF Image
      <4>2. j \in DOMAIN new /\ \A i \in DOMAIN lines : j # f[i]
        BY <1>1, <1>9, <4>1, EmbedsBlock
      <4> QED BY <1>11, <4>2
    <3> QED BY <3>1
  <2>2. BlockEnd(new, b) = e + 1
    BY <1>1, <1>9, <1>12, EmbedsBlock DEF e
  <2>3. new[e].kind = "disabled"
    BY <1>2, <1>5, <1>6
  <2>4. e \in InBlock(new, b, "disabled")
    BY <1>1, <1>2, <2>2, <2>3 DEF InBlock
  <2> QED BY <1>12, <2>1, <2>4
<1>14. BlockFlag(new, f[b]) = flg
  <2>1. Min({e}) = e
    BY <1>2, LeastIsMin
  <2>2. new[e].value = flg
    BY <1>2, <1>5, <1>6
  <2> QED BY <1>12, <1>13, <2>1, <2>2 DEF BlockFlag
<1>15. ASSUME NEW c \in Blocks(lines) \ {b} PROVE BlockFlag(new, f[c]) = BlockFlag(lines, c)
  <2> DEFINE other == InBlock(lines, c, "disabled")
  <2>1. c \in DOMAIN lines /\ c \in 1 .. n
    BY <1>1 DEF Blocks
  <2>2. other \subseteq DOMAIN lines /\ other \subseteq Nat
    BY <1>1, <2>1, InBlockIs
  <2>3. e \notin InBlock(new, f[c], "disabled")
    <3>1. BlockEnd(lines, b) <= c \/ BlockEnd(lines, c) <= b
      BY <1>1, BlocksApart
    <3>2. BlockEnd(new, f[c]) = f[BlockEnd(lines, c)]
      BY <1>9, <2>1, EmbedsBlock
    <3>3. CASE e <= c
      <4>1. f[c] = c + 1
        BY <1>2, <1>8, <2>1, <3>3
      <4>2. ~ (e >= f[c] + 1)
        BY <1>2, <2>1, <3>3, <4>1
      <4> QED BY <4>2 DEF InBlock
    <3>4. CASE BlockEnd(lines, c) <= b
      <4>1. BlockEnd(lines, c) \in 1 .. n
        BY <1>1, <1>2, <2>1, <3>4, BlockEndIs DEF Top
      <4>2. f[BlockEnd(lines, c)] = BlockEnd(lines, c)
        BY <1>1, <1>2, <1>8, <3>4, <4>1
      <4>3. ~ (e <= BlockEnd(lines, c) - 1)
        BY <1>1, <1>2, <3>4, <4>1
      <4> QED BY <3>2, <4>2, <4>3 DEF InBlock
    <3> QED BY <3>1, <3>3, <3>4 DEF e
  <2>4. InBlock(new, f[c], "disabled") = Image(f, other)
    <3>1. ASSUME NEW j \in InBlock(new, f[c], "disabled") PROVE j \in Image(f, other)
      <4>1. \/ j \in Image(f, other)
            \/ j \in DOMAIN new /\ \A i \in DOMAIN lines : j # f[i]
        BY <1>9, <2>1, EmbedsBlock
      <4> QED BY <1>11, <2>3, <4>1
    <3>2. Image(f, other) \subseteq InBlock(new, f[c], "disabled")
      BY <1>9, <2>1, EmbedsBlock
    <3> QED BY <3>1, <3>2
  <2> HIDE DEF other
  <2>5. CASE other = {}
    BY <2>4, <2>5 DEF BlockFlag, Image, other
  <2>6. CASE other # {}
    <3>1. Min(Image(f, other)) = f[Min(other)] /\ Min(other) \in other
      BY <1>9, <2>2, <2>6, MinOfImage, MinIsLeast
    <3>2. new[f[Min(other)]].value = lines[Min(other)].value
      BY <1>1, <1>8, <2>2, <3>1
    <3>3. Image(f, other) # {}
      BY <2>6 DEF Image
    <3> QED BY <2>4, <2>6, <3>1, <3>2, <3>3 DEF BlockFlag, other
  <2> QED BY <2>5, <2>6
<1>16. Edited(lines, new, b, flg)
  BY <1>7, <1>9, <1>12, <1>13, <1>14, <1>15 DEF Edited
<1> QED BY <1>3, <1>16

(* What an edit of the block that counts for u leaves of every account.      *)
LEMMA EditedAccounts ==
  ASSUME NEW lines \in Text, NEW new, NEW u, NEW flg, HasAccount(lines, u),
         Edited(lines, new, Target(lines, u), flg)
  PROVE  /\ new \in Text
         /\ OtherLines(new) = OtherLines(lines)
         /\ AccountUsers(new) = AccountUsers(lines)
         /\ \A v : HasAccount(new, v) <=> HasAccount(lines, v)
         /\ InBlock(new, Target(new, u), "disabled") # {} /\ Flag(new, u) = flg
         /\ \A v : HasAccount(lines, v) /\ v # u => Flag(new, v) = Flag(lines, v)
<1> DEFINE b == Target(lines, u)
<1>1. PICK f : /\ Embeds(lines, new, f)
               /\ InBlock(new, f[b], "disabled") # {} /\ BlockFlag(new, f[b]) = flg
               /\ \A c \in Blocks(lines) \ {b} : BlockFlag(new, f[c]) = BlockFlag(lines, c)
  BY DEF Edited
<1>2. /\ Blocks(new) = Image(f, Blocks(lines))
      /\ \A c \in Blocks(lines) : BlockUser(new, f[c]) = BlockUser(lines, c)
      /\ \A v : HasAccount(new, v) <=> HasAccount(lines, v)
      /\ \A v : HasAccount(lines, v) => Target(new, v) = f[Target(lines, v)]
  BY <1>1, EmbedsAccounts
<1>3. ASSUME NEW v, HasAccount(lines, v)
      PROVE  Target(lines, v) \in Blocks(lines) /\ BlockUser(lines, Target(lines, v)) = v
  <2>1. BlocksOf(lines, v) \subseteq Nat /\ BlocksOf(lines, v) # {}
    BY <1>3 DEF BlocksOf, Blocks, HasAccount, Text
  <2>2. Target(lines, v) \in BlocksOf(lines, v)
    BY <2>1, MinIsLeast DEF Target
  <2> QED BY <2>2 DEF BlocksOf
<1>4. AccountUsers(new) = AccountUsers(lines)
  BY <1>2 DEF AccountUsers, Image
<1>5. InBlock(new, Target(new, u), "disabled") # {} /\ Flag(new, u) = flg
  BY <1>1, <1>2 DEF Flag
<1>6. ASSUME NEW v, HasAccount(lines, v), v # u PROVE Flag(new, v) = Flag(lines, v)
  <2>1. Target(lines, v) \in Blocks(lines) \ {b}
    BY <1>3, <1>6
  <2> HIDE DEF b
  <2> QED BY <1>1, <1>2, <1>6, <2>1 DEF Flag
<1>7. new \in Text
  BY DEF Edited
<1> QED BY <1>1, <1>2, <1>4, <1>5, <1>6, <1>7, EmbedsOthers

(* What set_account_disabled makes of a file with this account.              *)
LEMMA SetFlagEdits ==
  ASSUME NEW lines \in Text, NEW u, NEW flg \in Flags, HasAccount(lines, u)
  PROVE  Edited(lines, SetFlag(lines, u, flg), Target(lines, u), flg)
<1> DEFINE b == Target(lines, u)
<1>1. b \in Blocks(lines)
  <2>1. BlocksOf(lines, u) \subseteq Nat /\ BlocksOf(lines, u) # {}
    BY DEF BlocksOf, Blocks, HasAccount, Text
  <2> QED BY <2>1, MinIsLeast DEF Target, BlocksOf
<1> HIDE DEF b
<1>2. Edited(lines, SetInBlock(lines, b, flg), b, flg)
  BY <1>1, ReplaceEdits, InsertEdits
<1> QED BY <1>2 DEF SetFlag, b

(* set_account_disabled, whatever the file: the flag it reads back is the    *)
(* one it wrote, and nothing else is changed, neither an account nor a line. *)
THEOREM EditIsExact ==
  ASSUME NEW lines \in Text, NEW u, NEW flg \in Flags, HasAccount(lines, u)
  PROVE  LET new == SetFlag(lines, u, flg)
         IN  /\ new \in Text
             /\ OtherLines(new) = OtherLines(lines)
             /\ AccountUsers(new) = AccountUsers(lines)
             /\ \A v : HasAccount(new, v) <=> HasAccount(lines, v)
             /\ Flag(new, u) = flg
             /\ \A v : HasAccount(lines, v) /\ v # u => Flag(new, v) = Flag(lines, v)
BY SetFlagEdits, EditedAccounts

(* An edit that was made already changes nothing: disabling a disabled       *)
(* account leaves the file as it is (_set_disabled_in_block), and so writes  *)
(* nothing.                                                                  *)
THEOREM EditTwice ==
  ASSUME NEW lines \in Text, NEW u, NEW flg \in Flags, HasAccount(lines, u)
  PROVE  LET new == SetFlag(lines, u, flg)
         IN  SetFlag(new, u, flg) = new /\ Written(new, new, u, flg) = new
<1> DEFINE new == SetFlag(lines, u, flg)
           b   == Target(new, u)
           set == InBlock(new, b, "disabled")
           k   == Min(set)
<1>1. /\ new \in Text /\ set # {} /\ Flag(new, u) = flg /\ HasAccount(new, u)
  BY SetFlagEdits, EditedAccounts
<1> HIDE DEF new
<1>2. b \in Blocks(new)
  <2>1. BlocksOf(new, u) \subseteq Nat /\ BlocksOf(new, u) # {}
    BY <1>1 DEF BlocksOf, Blocks, HasAccount, Text
  <2> QED BY <2>1, MinIsLeast DEF Target, BlocksOf
<1>3. SetFlag(new, u, flg) = SetInBlock(new, b, flg) /\ Flag(new, u) = BlockFlag(new, b)
  BY DEF SetFlag, Flag
<1> HIDE DEF b
<1>4. new \in Seq(Line) /\ b \in DOMAIN new /\ new \in Lines
  BY <1>1, <1>2 DEF Text, Blocks, Lines
<1>5. set \subseteq Nat /\ set \subseteq DOMAIN new
  BY <1>4, InBlockIs
<1>6. /\ SetInBlock(new, b, flg) = [new EXCEPT ![k].value = flg]
      /\ BlockFlag(new, b) = new[k].value
  BY <1>1 DEF SetInBlock, BlockFlag
<1> HIDE DEF set
<1>7. k \in DOMAIN new
  BY <1>1, <1>5, MinIsLeast
<1> HIDE DEF k
<1>8. new[k] \in Line /\ new[k].value = flg
  BY <1>1, <1>3, <1>4, <1>6, <1>7
<1>9. [new[k] EXCEPT !.value = flg] = new[k]
  BY <1>8 DEF Line
<1>10. [new EXCEPT ![k].value = flg] = new
  <2>1. [new EXCEPT ![k] = new[k]] = new
    BY <1>4, <1>7
  <2> QED BY <1>9, <2>1
<1>11. SetFlag(new, u, flg) = new
  BY <1>3, <1>6, <1>10
<1> QED BY <1>11 DEF new, Written

(* What an edit writes, even when others have written since it read.         *)
LEMMA WrittenKeeps ==
  ASSUME NEW file \in Text, NEW lines \in Text, NEW u, NEW flg \in Flags,
         HasAccount(lines, u), OtherLines(lines) = OtherLines(file)
  PROVE  LET new == Written(file, lines, u, flg)
         IN  /\ new \in Text
             /\ OtherLines(new) = OtherLines(file)
             /\ lines = file => new = SetFlag(file, u, flg)
<1>1. /\ SetFlag(lines, u, flg) \in Text
      /\ OtherLines(SetFlag(lines, u, flg)) = OtherLines(lines)
  BY EditIsExact
<1> QED BY <1>1 DEF Written

-----------------------------------------------------------------------------
(* Lists of instances.                                                       *)

Listed(s) == s \in Seq(Ids) /\ IsInjective(s)

LEMMA ListedIs ==
  ASSUME NEW s
  PROVE  /\ Listed(s) => Range(s) \subseteq Ids
         /\ Listed(<<>>)
BY DEF Listed, Range, IsInjective

LEMMA ListedTail ==
  ASSUME NEW s, Listed(s), s # <<>>
  PROVE  Head(s) \in Ids /\ Listed(Tail(s))
<1>1. s \in Seq(Ids) /\ Len(s) \in Nat /\ DOMAIN s = 1 .. Len(s)
  BY DEF Listed
<1>2. /\ Head(s) \in Ids /\ Tail(s) \in Seq(Ids) /\ Len(Tail(s)) = Len(s) - 1
      /\ \A i \in 1 .. Len(s) - 1 : Tail(s)[i] = s[i + 1]
  BY <1>1, HeadTailProperties
<1>3. DOMAIN Tail(s) = 1 .. Len(s) - 1
  BY <1>1, <1>2
<1>4. ASSUME NEW i \in DOMAIN Tail(s), NEW j \in DOMAIN Tail(s), Tail(s)[i] = Tail(s)[j]
      PROVE  i = j
  <2>1. i + 1 \in DOMAIN s /\ j + 1 \in DOMAIN s /\ s[i + 1] = s[j + 1]
    BY <1>1, <1>2, <1>3, <1>4
  <2>2. i + 1 = j + 1
    BY <2>1 DEF Listed, IsInjective
  <2> QED BY <1>1, <1>3, <2>2
<1> QED BY <1>2, <1>4 DEF Listed, IsInjective

LEMMA ListedAppend ==
  ASSUME NEW s, Listed(s), NEW id \in Ids, id \notin Range(s)
  PROVE  Listed(Append(s, id))
<1> DEFINE t == Append(s, id)
<1>1. s \in Seq(Ids) /\ Len(s) \in Nat /\ DOMAIN s = 1 .. Len(s)
  BY DEF Listed
<1>2. /\ t \in Seq(Ids) /\ Len(t) = Len(s) + 1
      /\ \A i \in 1 .. Len(s) : t[i] = s[i]
      /\ t[Len(s) + 1] = id
  BY <1>1, AppendProperties
<1> HIDE DEF t
<1>3. DOMAIN t = 1 .. Len(s) + 1
  BY <1>1, <1>2
<1>4. \A i \in 1 .. Len(s) : s[i] # id
  BY <1>1 DEF Range
<1>5. ASSUME NEW i \in DOMAIN t, NEW j \in DOMAIN t, t[i] = t[j] PROVE i = j
  <2>1. CASE i \in 1 .. Len(s) /\ j \in 1 .. Len(s)
    BY <1>1, <1>2, <1>5, <2>1 DEF Listed, IsInjective
  <2>2. CASE i = Len(s) + 1 \/ j = Len(s) + 1
    BY <1>1, <1>2, <1>3, <1>4, <1>5, <2>2
  <2> QED BY <1>1, <1>3, <2>1, <2>2
<1>6. IsInjective(t)
  BY <1>5 DEF IsInjective
<1> QED BY <1>2, <1>6 DEF Listed, t

LEMMA ListedRemoveAt ==
  ASSUME NEW s, Listed(s), NEW k \in DOMAIN s
  PROVE  Listed(RemoveAt(s, k))
<1> DEFINE n == Len(s)
           a == SubSeq(s, 1, k - 1)
           c == SubSeq(s, k + 1, n)
           t == a \o c
           Old(i) == IF i < k THEN i ELSE i + 1
<1>1. s \in Seq(Ids) /\ n \in Nat /\ DOMAIN s = 1 .. n /\ k \in 1 .. n
  BY DEF Listed
<1>2. \A i \in 1 .. n : s[i] \in Ids
  BY <1>1
<1>3. a \in Seq(Ids) /\ Len(a) = k - 1 /\ \A i \in 1 .. k - 1 : a[i] = s[i]
  <2>1. \A i \in 1 .. k - 1 : s[i] \in Ids
    BY <1>1, <1>2
  <2> QED BY <1>1, <2>1, SubSeqProperties
<1>4. c \in Seq(Ids) /\ Len(c) = n - k /\ \A i \in 1 .. n - k : c[i] = s[k + i]
  <2>1. /\ k + 1 \in 1 .. n + 1 /\ n \in k .. n /\ n - (k + 1) + 1 = n - k
        /\ \A i \in 1 .. n - k : (k + 1) + i - 1 = k + i
    BY <1>1
  <2>2. \A i \in k + 1 .. n : s[i] \in Ids
    BY <1>1, <1>2
  <2>3. /\ c \in Seq(Ids)
        /\ Len(c) = (IF k + 1 <= n THEN n - (k + 1) + 1 ELSE 0)
        /\ \A i \in 1 .. n - (k + 1) + 1 : c[i] = s[(k + 1) + i - 1]
    BY <1>1, <2>1, <2>2, SubSeqProperties
  <2> HIDE DEF c
  <2>4. Len(c) = n - k
    BY <1>1, <2>1, <2>3
  <2> QED BY <2>1, <2>3, <2>4
<1> HIDE DEF a, c
<1>5. /\ t \in Seq(Ids) /\ Len(t) = Len(a) + Len(c)
      /\ \A i \in 1 .. Len(a) + Len(c) :
            t[i] = IF i <= Len(a) THEN a[i] ELSE c[i - Len(a)]
  BY <1>3, <1>4, ConcatProperties
<1> HIDE DEF t
<1>6. DOMAIN t = 1 .. n - 1
  BY <1>1, <1>3, <1>4, <1>5
<1>7. ASSUME NEW i \in DOMAIN t PROVE t[i] = s[Old(i)] /\ Old(i) \in DOMAIN s
  <2>1. Old(i) \in DOMAIN s
    BY <1>1, <1>6
  <2>2. CASE i < k
    <3>1. i \in 1 .. Len(a) + Len(c) /\ i <= Len(a) /\ i \in 1 .. k - 1
      BY <1>1, <1>3, <1>4, <1>6, <2>2
    <3> QED BY <1>3, <1>5, <2>1, <2>2, <3>1
  <2>3. CASE ~ (i < k)
    <3>1. /\ i \in 1 .. Len(a) + Len(c) /\ ~ (i <= Len(a))
          /\ i - Len(a) \in 1 .. n - k /\ k + (i - Len(a)) = i + 1
      BY <1>1, <1>3, <1>4, <1>6, <2>3
    <3>2. t[i] = c[i - Len(a)]
      BY <1>5, <3>1
    <3>3. c[i - Len(a)] = s[k + (i - Len(a))]
      BY <1>4, <3>1
    <3> QED BY <2>1, <2>3, <3>1, <3>2, <3>3
  <2> QED BY <2>2, <2>3
<1>8. ASSUME NEW i \in DOMAIN t, NEW j \in DOMAIN t, t[i] = t[j] PROVE i = j
  <2>1. Old(i) = Old(j)
    <3> HIDE DEF Old
    <3> QED BY <1>7, <1>8 DEF Listed, IsInjective
  <2> QED BY <1>1, <1>6, <2>1
<1>9. IsInjective(t)
  BY <1>8 DEF IsInjective
<1>10. RemoveAt(s, k) = t
  BY DEF RemoveAt, t, a, c
<1> QED BY <1>5, <1>9, <1>10 DEF Listed

-----------------------------------------------------------------------------
(* The inductive invariant.                                                  *)

Inside(p) == pc[p] \in {"work", "write"}

(* What TypeOK says beyond the lists.                                        *)
Types ==
    /\ base \in [Ids -> Paths]
    /\ files \in [Paths -> Text]
    /\ records \in [Ids -> [Users -> Statuses]]
    /\ lock \in [Ids -> Procs \cup {Free}]
    /\ pc \in [Procs -> Labels]
    /\ at \in [Procs -> Ids \cup {NoId}]
    /\ mem \in [Procs -> [Users -> Statuses]]
    /\ todo \in [Procs -> SUBSET Users]
    /\ flag \in [Procs -> Flags]
    /\ cur \in [Procs -> Users \cup {NoUser}]
    /\ copy \in [Procs -> Text]
    /\ edited \in [Procs -> SUBSET Users]
    /\ requests \in Nat

Lists ==
    /\ Listed(instances)
    /\ list \in [Procs -> Seq(Ids)]
    /\ \A p \in Procs : Listed(list[p])

(* What a process has at hand where it is.                                   *)
Place(p) ==
    /\ pc[p] \in {"idle", "next"} => at[p] = NoId
    /\ pc[p] \notin {"idle", "next"} => at[p] \in Ids
    /\ pc[p] = "next" => p = Timer
    /\ pc[p] \in {"lock", "sync", "syncSave", "saveConfig"} => p \in Sessions
    /\ pc[p] = "write" => cur[p] \in Users /\ HasAccount(copy[p], cur[p])
    /\ edited[p] # {} => Inside(p)

Placed == \A p \in Procs : Place(p)

(* The lock of an instance is that of the process in its critical section.   *)
Locked == \A id \in Ids, p \in Procs : lock[id] = p <=> at[p] = id /\ Inside(p)

(* The lines that a process has read may be out of date, when another        *)
(* instance shares the file, but only in flags.                              *)
Copied ==
    \A p \in Procs :
        pc[p] = "write" =>
            LET file == files[base[at[p]]]
            IN  /\ OtherLines(copy[p]) = OtherLines(file)
                /\ Sole(base[at[p]]) => copy[p] = file

(* An account that was edited is still there.                                *)
Edits ==
    \A p \in Procs : \A u \in edited[p] :
        Sole(base[at[p]]) => HasAccount(files[base[at[p]]], u)

Inv == Types /\ Lists /\ Placed /\ Locked /\ Copied /\ Edits /\ SavedAsFiled

LEMMA TypesGive ==
  ASSUME Types, Lists PROVE TypeOK
BY ListedIs DEF Types, Lists, TypeOK, Listed

LEMMA EmptyText == <<>> \in Text
<1>1. <<>> \in Seq(Line) /\ Len(<<>>) = 0
  OBVIOUS
<1> QED BY <1>1 DEF Text

LEMMA InitHolds == Init => Inv
<1> SUFFICES ASSUME Init PROVE Inv
  OBVIOUS
<1>1. "idle" \in Labels /\ "0" \in Flags /\ NoRecords \in [Users -> Statuses]
  BY DEF Labels, Flags, NoRecords, Statuses
<1>2. records \in [Ids -> [Users -> Statuses]]
  BY DEF Init, LeftOver, Statuses
<1>3. Types
  BY <1>1, <1>2, LayoutsAssumption, ContentAssumption, EmptyText DEF Init, Types
<1>4. Lists
  <2>1. Listed(instances)
    BY InitialAssumption DEF Init, Listed
  <2>2. list = [p \in Procs |-> <<>>] /\ <<>> \in Seq(Ids)
    BY DEF Init
  <2> QED BY <2>1, <2>2, ListedIs DEF Lists
<1>5. Placed
  BY DEF Init, Placed, Place
<1>6. Locked
  BY FreeAssumption, NoIdAssumption DEF Init, Locked, Inside
<1>7. Copied /\ Edits /\ SavedAsFiled
  BY DEF Init, Copied, Edits, SavedAsFiled
<1> QED BY <1>3, <1>4, <1>5, <1>6, <1>7 DEF Inv

(* A file that a process in its critical section alone uses has no other     *)
(* user.                                                                     *)
LEMMA SoleUser ==
  ASSUME Inv, NEW p \in Procs, Inside(p), Sole(base[at[p]]),
         NEW q \in Procs, Inside(q), base[at[q]] = base[at[p]]
  PROVE  q = p
<1>1. at[p] \in Ids /\ at[q] \in Ids
  BY DEF Inv, Placed, Place, Inside
<1>2. at[q] = at[p]
  BY <1>1 DEF Sole
<1>3. lock[at[p]] = p /\ lock[at[p]] = q
  BY <1>1, <1>2 DEF Inv, Locked
<1> QED BY <1>3

(* What a process that writes makes of the file of its instance.             *)
LEMMA ReplaceKeeps ==
  ASSUME Inv, NEW p \in Procs, pc[p] = "write", Replace(p)
  PROVE  LET path == base[at[p]]
         IN  /\ path \in Paths
             /\ files' \in [Paths -> Text]
             /\ \A other \in Paths \ {path} : files'[other] = files[other]
             /\ OtherLines(files'[path]) = OtherLines(files[path])
             /\ Sole(path) => /\ HasAccount(files[path], cur[p])
                              /\ files'[path] = SetFlag(files[path], cur[p], flag[p])
<1> DEFINE path == base[at[p]]
           new  == Written(files[path], copy[p], cur[p], flag[p])
<1>1. /\ files \in [Paths -> Text] /\ copy[p] \in Text /\ flag[p] \in Flags
      /\ base \in [Ids -> Paths] /\ at[p] \in Ids
      /\ HasAccount(copy[p], cur[p])
      /\ OtherLines(copy[p]) = OtherLines(files[path])
      /\ Sole(path) => copy[p] = files[path]
  BY DEF Inv, Types, Placed, Place, Copied
<1>2. path \in Paths /\ files[path] \in Text
  BY <1>1
<1>3. /\ new \in Text /\ OtherLines(new) = OtherLines(files[path])
      /\ copy[p] = files[path] => new = SetFlag(files[path], cur[p], flag[p])
  <2> HIDE DEF path
  <2> QED BY <1>1, <1>2, WrittenKeeps
<1> HIDE DEF new
<1>4. files' = [files EXCEPT ![path] = new]
  BY DEF Replace, new
<1> HIDE DEF path
<1>5. files' \in [Paths -> Text] /\ files'[path] = new
      /\ \A other \in Paths \ {path} : files'[other] = files[other]
  BY <1>1, <1>2, <1>3, <1>4
<1> QED BY <1>1, <1>2, <1>3, <1>5 DEF path

LEMMA TypesStep ==
  ASSUME Inv, [Next]_vars
  PROVE  Types'
<1>1. Types /\ Lists /\ Placed
  BY DEF Inv
<1>2. Timer \in Procs /\ Sessions \subseteq Procs
  BY DEF Procs
<1>3. \A lab \in {"idle", "next", "lock", "work", "write", "sync", "syncSave", "saveConfig"} :
        lab \in Labels
  BY DEF Labels
<1>4. {"0", "1"} = Flags /\ {"ok", "timed", "expired", "endless"} = Statuses
  BY DEF Flags, Statuses
<1>5. NoRecords \in [Users -> Statuses]
  BY DEF NoRecords, Statuses
<1>6. ASSUME NEW p \in Procs, pc[p] \notin {"idle", "next"}
      PROVE  at[p] \in Ids /\ base[at[p]] \in Paths
  BY <1>1, <1>6 DEF Placed, Place, Types
<1>7. CASE RunAll
  BY <1>1, <1>2, <1>3, <1>7 DEF RunAll, Goto, shared, Types
<1>8. CASE RunAllEnd
  BY <1>1, <1>2, <1>3, <1>8 DEF RunAllEnd, Goto, shared, Types
<1>9. CASE BeginCycle
  <2>1. Head(list[Timer]) \in Ids
    BY <1>1, <1>2, <1>9, ListedTail DEF BeginCycle, Lists
  <2> QED BY <1>1, <1>2, <1>3, <1>9, <2>1 DEF BeginCycle, Goto, Take, Due, Types
<1>10. CASE Evaluate
  BY <1>1, <1>2, <1>4, <1>10, UsersAssumption DEF Evaluate, shared, Types
<1>11. ASSUME NEW p \in Procs, StartCommand(p) PROVE Types'
  <2>1. Range(instances) \subseteq Ids
    BY <1>1, ListedIs DEF Lists
  <2>2. at' \in [Procs -> Ids \cup {NoId}]
    BY <1>1, <1>11, <2>1 DEF StartCommand, Types
  <2>3. todo' \in [Procs -> SUBSET Users] /\ flag' \in [Procs -> Flags]
    BY <1>1, <1>11, UsersAssumption DEF StartCommand, Types
  <2>4. pc' \in [Procs -> Labels] /\ requests' \in Nat
    BY <1>1, <1>3, <1>11 DEF StartCommand, CountRequest, Goto, Types
  <2> QED BY <1>1, <1>11, <2>2, <2>3, <2>4 DEF StartCommand, shared, Types
<1>12. ASSUME NEW p \in Procs, StartSaveInstance(p) PROVE Types'
  BY <1>1, <1>2, <1>3, <1>12 DEF StartSaveInstance, CountRequest, Goto, shared, Types
<1>13. ASSUME NEW p \in Procs, StartDeleteInstance(p) PROVE Types'
  BY <1>1, <1>2, <1>3, <1>13 DEF StartDeleteInstance, CountRequest, Goto, shared, Types
<1>14. ASSUME NEW p \in Procs, BeginCommand(p) PROVE Types'
  BY <1>1, <1>3, <1>6, <1>14 DEF BeginCommand, Goto, Take, Types
<1>15. ASSUME NEW p \in Procs, ReadFile(p) PROVE Types'
  <2>1. files[base[at[p]]] \in Text
    BY <1>1, <1>6, <1>15 DEF ReadFile, Types
  <2> QED BY <1>1, <1>3, <1>15, <2>1 DEF ReadFile, Goto, shared, Types
<1>16. ASSUME NEW p \in Procs, AccountMissing(p) PROVE Types'
  BY <1>1, <1>3, <1>4, <1>5, EmptyText, <1>16
     DEF AccountMissing, Abort, Goto, Leave, Types
<1>17. ASSUME NEW p \in Procs, WriteFile(p) PROVE Types'
  <2>1. files' \in [Paths -> Text] /\ cur[p] \in Users
    BY <1>1, <1>17, ReplaceKeeps DEF WriteFile, Placed, Place
  <2>2. mem' \in [Procs -> [Users -> Statuses]]
    BY <1>1, <1>4, <1>17, <2>1 DEF WriteFile, Types
  <2> QED BY <1>1, <1>3, <1>17, <2>1, <2>2, EmptyText DEF WriteFile, Goto, Types
<1>18. ASSUME NEW p \in Procs, Save(p) PROVE Types'
  BY <1>1, <1>3, <1>4, <1>5, <1>6, EmptyText, <1>18 DEF Save, Goto, Leave, Types
<1>19. ASSUME NEW p \in Procs, SyncLoad(p) PROVE Types'
  BY <1>1, <1>3, <1>6, <1>19 DEF SyncLoad, Goto, shared, Types
<1>20. ASSUME NEW p \in Procs, SyncSave(p) PROVE Types'
  BY <1>1, <1>3, <1>6, <1>20 DEF SyncSave, Goto, Types
<1>21. ASSUME NEW p \in Procs, SaveConfig(p) PROVE Types'
  BY <1>1, <1>3, <1>4, <1>5, EmptyText, <1>21 DEF SaveConfig, Goto, Leave, Types
<1>22. ASSUME NEW p \in Procs, ReinitFails(p) PROVE Types'
  <2>1. files' \in [Paths -> Text]
    BY <1>22, ReplaceKeeps DEF ReinitFails
  <2> QED BY <1>1, <1>3, <1>4, <1>5, <1>22, <2>1, EmptyText
          DEF ReinitFails, Abort, Goto, Leave, Types
<1>23. ASSUME NEW p \in Procs, Fail(p) PROVE Types'
  BY <1>1, <1>3, <1>4, <1>5, EmptyText, <1>23 DEF Fail, Abort, Goto, Leave, Types
<1>24. ASSUME NEW id \in Ids, NEW u \in Users, Expire(id, u) PROVE Types'
  BY <1>1, <1>4, <1>24 DEF Expire, Aged, Types
<1>25. CASE UNCHANGED vars
  BY <1>1, <1>25 DEF vars, Types
<1> QED BY <1>7, <1>8, <1>9, <1>10, <1>11, <1>12, <1>13, <1>14, <1>15, <1>16, <1>17,
          <1>18, <1>19, <1>20, <1>21, <1>22, <1>23, <1>24, <1>25
       DEF Next, Loop, Start, Work

LEMMA ListsStep ==
  ASSUME Inv, [Next]_vars
  PROVE  Lists'
<1>1. /\ Lists /\ Placed /\ pc \in [Procs -> Labels]
      /\ Timer \in Procs /\ Sessions \subseteq Procs
  BY DEF Inv, Types, Procs
<1>2. Listed(<<>>) /\ <<>> \in Seq(Ids)
  BY ListedIs DEF Listed
<1>3. \A s : Listed(s) => s \in Seq(Ids)
  BY DEF Listed
<1>4. CASE RunAll
  BY <1>1, <1>3, <1>4 DEF RunAll, shared, Lists
<1>5. CASE RunAllEnd
  BY <1>1, <1>5 DEF RunAllEnd, shared, Lists
<1>6. CASE BeginCycle
  <2>1. Listed(Tail(list[Timer]))
    BY <1>1, <1>6, ListedTail DEF BeginCycle, Lists
  <2> QED BY <1>1, <1>3, <1>6, <2>1 DEF BeginCycle, Lists
<1>7. CASE Evaluate
  BY <1>1, <1>7 DEF Evaluate, shared, Lists
<1>8. ASSUME NEW p \in Procs, StartCommand(p) PROVE Lists'
  BY <1>1, <1>8 DEF StartCommand, shared, Lists
<1>9. ASSUME NEW p \in Procs, StartSaveInstance(p) PROVE Lists'
  <2>1. \A id \in Ids : ~ Configured(id) => Listed(Append(instances, id))
    BY <1>1, ListedAppend DEF Configured, Lists
  <2> QED BY <1>1, <1>3, <1>9, <2>1 DEF StartSaveInstance, shared, Lists
<1>10. ASSUME NEW p \in Procs, StartDeleteInstance(p) PROVE Lists'
  <2>1. \A k \in DOMAIN instances : Listed(RemoveAt(instances, k))
    BY <1>1, ListedRemoveAt DEF Lists
  <2>2. \E s : Listed(s) /\ list' = [list EXCEPT ![p] = s]
    BY <1>1, <1>10, <2>1 DEF StartDeleteInstance, Lists
  <2> QED BY <1>1, <1>3, <1>10, <2>2 DEF StartDeleteInstance, shared, Lists
<1>11. ASSUME NEW p \in Procs, BeginCommand(p) PROVE Lists'
  BY <1>1, <1>11 DEF BeginCommand, Lists
<1>12. ASSUME NEW p \in Procs, ReadFile(p) PROVE Lists'
  BY <1>1, <1>12 DEF ReadFile, shared, Lists
<1>13. ASSUME NEW p \in Procs, AccountMissing(p) PROVE Lists'
  BY <1>1, <1>2, <1>13 DEF AccountMissing, Abort, Lists
<1>14. ASSUME NEW p \in Procs, WriteFile(p) PROVE Lists'
  BY <1>1, <1>14 DEF WriteFile, Lists
<1>15. ASSUME NEW p \in Procs, Save(p) PROVE Lists'
  BY <1>1, <1>15 DEF Save, Lists
<1>16. ASSUME NEW p \in Procs, SyncLoad(p) PROVE Lists'
  BY <1>1, <1>16 DEF SyncLoad, shared, Lists
<1>17. ASSUME NEW p \in Procs, SyncSave(p) PROVE Lists'
  BY <1>1, <1>17 DEF SyncSave, Lists
<1>18. ASSUME NEW p \in Procs, SaveConfig(p) PROVE Lists'
  BY <1>1, <1>2, <1>18 DEF SaveConfig, Lists
<1>19. ASSUME NEW p \in Procs, ReinitFails(p) PROVE Lists'
  BY <1>1, <1>2, <1>19 DEF ReinitFails, Abort, Lists
<1>20. ASSUME NEW p \in Procs, Fail(p) PROVE Lists'
  BY <1>1, <1>2, <1>20 DEF Fail, Abort, Lists
<1>21. ASSUME NEW id \in Ids, NEW u \in Users, Expire(id, u) PROVE Lists'
  BY <1>1, <1>21 DEF Expire, Lists
<1>22. CASE UNCHANGED vars
  BY <1>1, <1>22 DEF vars, Lists
<1> QED BY <1>4, <1>5, <1>6, <1>7, <1>8, <1>9, <1>10, <1>11, <1>12, <1>13, <1>14, <1>15,
          <1>16, <1>17, <1>18, <1>19, <1>20, <1>21, <1>22
       DEF Next, Loop, Start, Work

LEMMA PlacedStep ==
  ASSUME Inv, [Next]_vars
  PROVE  Placed'
<1>1. /\ Placed /\ Lists /\ Types
      /\ Timer \in Procs /\ Sessions \subseteq Procs /\ Timer \notin Sessions
  BY TimerAssumption DEF Inv, Procs
<1>2. CASE RunAll
  BY <1>1, <1>2 DEF RunAll, Goto, shared, Types, Placed, Place, Inside
<1>3. CASE RunAllEnd
  BY <1>1, <1>3 DEF RunAllEnd, Goto, shared, Types, Placed, Place, Inside
<1>4. CASE BeginCycle
  <2>1. Head(list[Timer]) \in Ids
    BY <1>1, <1>4, ListedTail DEF BeginCycle, Lists
  <2> QED BY <1>1, <1>4, <2>1 DEF BeginCycle, Goto, Types, Placed, Place, Inside
<1>5. CASE Evaluate
  BY <1>1, <1>5 DEF Evaluate, shared, Types, Placed, Place, Inside
<1>6. ASSUME NEW p \in Procs, StartCommand(p) PROVE Placed'
  <2>1. Range(instances) \subseteq Ids
    BY <1>1, ListedIs DEF Lists
  <2> QED BY <1>1, <1>6, <2>1
          DEF StartCommand, CountRequest, Goto, shared, Types, Placed, Place, Inside
<1>7. ASSUME NEW p \in Procs, StartSaveInstance(p) PROVE Placed'
  BY <1>1, <1>7
     DEF StartSaveInstance, CountRequest, Goto, shared, Types, Placed, Place, Inside
<1>8. ASSUME NEW p \in Procs, StartDeleteInstance(p) PROVE Placed'
  BY <1>1, <1>8
     DEF StartDeleteInstance, CountRequest, Goto, shared, Types, Placed, Place, Inside
<1>9. ASSUME NEW p \in Procs, BeginCommand(p) PROVE Placed'
  BY <1>1, <1>9 DEF BeginCommand, Goto, Types, Placed, Place, Inside
<1>10. ASSUME NEW p \in Procs, ReadFile(p) PROVE Placed'
  BY <1>1, <1>10 DEF ReadFile, Goto, shared, Types, Placed, Place, Inside
<1>11. ASSUME NEW p \in Procs, AccountMissing(p) PROVE Placed'
  BY <1>1, <1>11 DEF AccountMissing, Abort, Goto, Leave, Types, Placed, Place, Inside
<1>12. ASSUME NEW p \in Procs, WriteFile(p) PROVE Placed'
  BY <1>1, <1>12 DEF WriteFile, Goto, Types, Placed, Place, Inside
<1>13. ASSUME NEW p \in Procs, Save(p) PROVE Placed'
  BY <1>1, <1>13 DEF Save, Goto, Leave, Types, Placed, Place, Inside
<1>14. ASSUME NEW p \in Procs, SyncLoad(p) PROVE Placed'
  BY <1>1, <1>14 DEF SyncLoad, Goto, shared, Types, Placed, Place, Inside
<1>15. ASSUME NEW p \in Procs, SyncSave(p) PROVE Placed'
  BY <1>1, <1>15 DEF SyncSave, Goto, Types, Placed, Place, Inside
<1>16. ASSUME NEW p \in Procs, SaveConfig(p) PROVE Placed'
  BY <1>1, <1>16 DEF SaveConfig, Goto, Leave, Types, Placed, Place, Inside
<1>17. ASSUME NEW p \in Procs, ReinitFails(p) PROVE Placed'
  BY <1>1, <1>17 DEF ReinitFails, Abort, Goto, Leave, Types, Placed, Place, Inside
<1>18. ASSUME NEW p \in Procs, Fail(p) PROVE Placed'
  BY <1>1, <1>18 DEF Fail, Abort, Goto, Leave, Types, Placed, Place, Inside
<1>19. ASSUME NEW id \in Ids, NEW u \in Users, Expire(id, u) PROVE Placed'
  BY <1>1, <1>19 DEF Expire, Types, Placed, Place, Inside
<1>20. CASE UNCHANGED vars
  BY <1>1, <1>20 DEF vars, Placed, Place, Inside
<1> QED BY <1>2, <1>3, <1>4, <1>5, <1>6, <1>7, <1>8, <1>9, <1>10, <1>11, <1>12, <1>13,
          <1>14, <1>15, <1>16, <1>17, <1>18, <1>19, <1>20
       DEF Next, Loop, Start, Work

LEMMA LockedStep ==
  ASSUME Inv, [Next]_vars
  PROVE  Locked'
<1>1. /\ Placed /\ Locked /\ Lists /\ Types
      /\ Timer \in Procs /\ Sessions \subseteq Procs /\ Free \notin Procs /\ NoId \notin Ids
  BY FreeAssumption, NoIdAssumption DEF Inv, Procs
<1>2. CASE RunAll
  BY <1>1, <1>2 DEF RunAll, Goto, shared, Types, Placed, Place, Locked, Inside
<1>3. CASE RunAllEnd
  BY <1>1, <1>3 DEF RunAllEnd, Goto, shared, Types, Placed, Place, Locked, Inside
<1>4. CASE BeginCycle
  <2>1. Head(list[Timer]) \in Ids
    BY <1>1, <1>4, ListedTail DEF BeginCycle, Lists
  <2> QED BY <1>1, <1>4, <2>1
          DEF BeginCycle, Goto, Take, Types, Placed, Place, Locked, Inside
<1>5. CASE Evaluate
  BY <1>1, <1>5 DEF Evaluate, shared, Types, Placed, Place, Locked, Inside
<1>6. ASSUME NEW p \in Procs, StartCommand(p) PROVE Locked'
  BY <1>1, <1>6
     DEF StartCommand, CountRequest, Goto, shared, Types, Placed, Place, Locked, Inside
<1>7. ASSUME NEW p \in Procs, StartSaveInstance(p) PROVE Locked'
  BY <1>1, <1>7
     DEF StartSaveInstance, CountRequest, Goto, shared, Types, Placed, Place, Locked, Inside
<1>8. ASSUME NEW p \in Procs, StartDeleteInstance(p) PROVE Locked'
  BY <1>1, <1>8
     DEF StartDeleteInstance, CountRequest, Goto, shared, Types, Placed, Place, Locked, Inside
<1>9. ASSUME NEW p \in Procs, BeginCommand(p) PROVE Locked'
  BY <1>1, <1>9 DEF BeginCommand, Goto, Take, Types, Placed, Place, Locked, Inside
<1>10. ASSUME NEW p \in Procs, ReadFile(p) PROVE Locked'
  BY <1>1, <1>10 DEF ReadFile, Goto, shared, Types, Placed, Place, Locked, Inside
<1>11. ASSUME NEW p \in Procs, AccountMissing(p) PROVE Locked'
  BY <1>1, <1>11
     DEF AccountMissing, Abort, Goto, Leave, Holds, Types, Placed, Place, Locked, Inside
<1>12. ASSUME NEW p \in Procs, WriteFile(p) PROVE Locked'
  BY <1>1, <1>12 DEF WriteFile, Goto, Types, Placed, Place, Locked, Inside
<1>13. ASSUME NEW p \in Procs, Save(p) PROVE Locked'
  BY <1>1, <1>13 DEF Save, Goto, Leave, Types, Placed, Place, Locked, Inside
<1>14. ASSUME NEW p \in Procs, SyncLoad(p) PROVE Locked'
  BY <1>1, <1>14 DEF SyncLoad, Goto, shared, Types, Placed, Place, Locked, Inside
<1>15. ASSUME NEW p \in Procs, SyncSave(p) PROVE Locked'
  BY <1>1, <1>15 DEF SyncSave, Goto, Types, Placed, Place, Locked, Inside
<1>16. ASSUME NEW p \in Procs, SaveConfig(p) PROVE Locked'
  BY <1>1, <1>16 DEF SaveConfig, Goto, Leave, Types, Placed, Place, Locked, Inside
<1>17. ASSUME NEW p \in Procs, ReinitFails(p) PROVE Locked'
  BY <1>1, <1>17
     DEF ReinitFails, Abort, Goto, Leave, Holds, Types, Placed, Place, Locked, Inside
<1>18. ASSUME NEW p \in Procs, Fail(p) PROVE Locked'
  BY <1>1, <1>18 DEF Fail, Abort, Goto, Leave, Holds, Types, Placed, Place, Locked, Inside
<1>19. ASSUME NEW id \in Ids, NEW u \in Users, Expire(id, u) PROVE Locked'
  BY <1>1, <1>19 DEF Expire, Types, Placed, Place, Locked, Inside
<1>20. CASE UNCHANGED vars
  BY <1>1, <1>20 DEF vars, Locked, Inside
<1> QED BY <1>2, <1>3, <1>4, <1>5, <1>6, <1>7, <1>8, <1>9, <1>10, <1>11, <1>12, <1>13,
          <1>14, <1>15, <1>16, <1>17, <1>18, <1>19, <1>20
       DEF Next, Loop, Start, Work

(* A process that is not in its critical section has not edited anything,    *)
(* and one that is has at least its instance.                                *)
LEMMA CriticalIs ==
  ASSUME Inv, NEW p \in Procs
  PROVE  /\ pc[p] = "write" => Inside(p)
         /\ edited[p] # {} => Inside(p)
         /\ Inside(p) => at[p] \in Ids /\ base[at[p]] \in Paths
BY DEF Inv, Placed, Place, Types, Inside

(* The process p writes; what the others have read and edited stays true of  *)
(* their files.                                                              *)
LEMMA OthersUntouched ==
  ASSUME Inv, NEW p \in Procs, pc[p] = "write", Replace(p), UNCHANGED base,
         NEW q \in Procs \ {p}, Inside(q)
  PROVE  LET path == base[at[q]]
         IN  /\ OtherLines(files'[path]) = OtherLines(files[path])
             /\ Sole(path) => files'[path] = files[path]
<1>1. /\ Inside(p) /\ base[at[q]] \in Paths
      /\ \A other \in Paths \ {base[at[p]]} : files'[other] = files[other]
      /\ OtherLines(files'[base[at[p]]]) = OtherLines(files[base[at[p]]])
  BY CriticalIs, ReplaceKeeps
<1>2. CASE base[at[q]] = base[at[p]]
  BY <1>1, <1>2, SoleUser
<1>3. CASE base[at[q]] # base[at[p]]
  BY <1>1, <1>3
<1> QED BY <1>2, <1>3

(* A process that leaves takes nothing with it.                              *)
LEMMA LeavingKeeps ==
  ASSUME Inv, NEW p \in Procs, Leave(p), NEW label, label # "write", Goto(p, label),
         UNCHANGED <<base, files>>
  PROVE  Copied' /\ Edits' /\ SavedAsFiled'
<1>1. Types /\ Copied /\ Edits /\ SavedAsFiled
  BY DEF Inv
<1>2. /\ pc'[p] # "write" /\ edited'[p] = {} /\ base' = base /\ files' = files
      /\ \A q \in Procs \ {p} : /\ pc'[q] = pc[q] /\ at'[q] = at[q] /\ mem'[q] = mem[q]
                               /\ copy'[q] = copy[q] /\ edited'[q] = edited[q]
  BY <1>1 DEF Leave, Goto, Types
<1>3. Copied'
  BY <1>1, <1>2 DEF Copied, Sole
<1>4. Edits'
  BY <1>1, <1>2 DEF Edits, Sole
<1>5. SavedAsFiled'
  BY <1>1, <1>2 DEF SavedAsFiled, Sole
<1> QED BY <1>3, <1>4, <1>5

(* A process that has not edited anything yet may go elsewhere and load what *)
(* it likes.                                                                 *)
LEMMA StartingKeeps ==
  ASSUME Inv, NEW p \in Procs, edited[p] = {}, NEW label, label # "write", Goto(p, label),
         \A q \in Procs \ {p} : at'[q] = at[q] /\ mem'[q] = mem[q],
         UNCHANGED <<base, files, copy, edited>>
  PROVE  Copied' /\ Edits' /\ SavedAsFiled'
<1>1. Types /\ Copied /\ Edits /\ SavedAsFiled
  BY DEF Inv
<1>2. /\ pc'[p] # "write" /\ base' = base /\ files' = files
      /\ copy' = copy /\ edited' = edited
      /\ \A q \in Procs \ {p} : pc'[q] = pc[q] /\ at'[q] = at[q] /\ mem'[q] = mem[q]
  BY <1>1 DEF Goto, Types
<1>3. Copied'
  BY <1>1, <1>2 DEF Copied, Sole
<1>4. Edits'
  BY <1>1, <1>2 DEF Edits, Sole
<1>5. SavedAsFiled'
  BY <1>1, <1>2 DEF SavedAsFiled, Sole
<1> QED BY <1>3, <1>4, <1>5

LEMMA FilesStep ==
  ASSUME Inv, [Next]_vars
  PROVE  Copied' /\ Edits' /\ SavedAsFiled'
<1>1. /\ Types /\ Placed /\ Copied /\ Edits /\ SavedAsFiled
      /\ Timer \in Procs /\ Sessions \subseteq Procs
  BY DEF Inv, Procs
<1>2. \A q \in Procs : edited[q] # {} => pc[q] \in {"work", "write"}
  BY CriticalIs DEF Inside
<1>3. CASE RunAll
  <2>1. edited[Timer] = {} /\ Goto(Timer, "next")
    BY <1>1, <1>2, <1>3 DEF RunAll
  <2> QED BY <1>1, <2>1, <1>3, StartingKeeps DEF RunAll, shared
<1>4. CASE RunAllEnd
  BY <1>1, <1>2, <1>4
  DEF RunAllEnd, Goto, shared, Types, Copied, Edits, SavedAsFiled, Sole
<1>5. CASE BeginCycle
  <2>1. edited[Timer] = {} /\ Goto(Timer, "work")
    BY <1>1, <1>2, <1>5 DEF BeginCycle
  <2>2. /\ \A q \in Procs \ {Timer} : at'[q] = at[q] /\ mem'[q] = mem[q]
        /\ UNCHANGED <<base, files, copy, edited>>
    BY <1>1, <1>5 DEF BeginCycle, Types
  <2> QED BY <1>1, <2>1, <2>2, StartingKeeps
<1>6. CASE Evaluate
  BY <1>1, <1>2, <1>6
  DEF Evaluate, shared, Types, Copied, Edits, SavedAsFiled, Sole
<1>7. ASSUME NEW p \in Procs, StartCommand(p) PROVE Copied' /\ Edits' /\ SavedAsFiled'
  <2>1. edited[p] = {} /\ Goto(p, "lock")
    BY <1>2, <1>7 DEF StartCommand, CountRequest
  <2>2. /\ \A q \in Procs \ {p} : at'[q] = at[q] /\ mem'[q] = mem[q]
        /\ UNCHANGED <<base, files, copy, edited>>
    BY <1>1, <1>7 DEF StartCommand, shared, Types
  <2> QED BY <2>1, <2>2, StartingKeeps
<1>8. ASSUME NEW p \in Procs, StartSaveInstance(p) PROVE Copied' /\ Edits' /\ SavedAsFiled'
  <2>1. edited[p] = {} /\ Goto(p, "sync")
    BY <1>2, <1>8 DEF StartSaveInstance, CountRequest
  <2>2. /\ \A q \in Procs \ {p} : at'[q] = at[q] /\ mem'[q] = mem[q]
        /\ UNCHANGED <<base, files, copy, edited>>
    BY <1>1, <1>8 DEF StartSaveInstance, shared, Types
  <2> QED BY <2>1, <2>2, StartingKeeps
<1>9. ASSUME NEW p \in Procs, StartDeleteInstance(p) PROVE Copied' /\ Edits' /\ SavedAsFiled'
  <2>1. edited[p] = {} /\ Goto(p, "saveConfig")
    BY <1>2, <1>9 DEF StartDeleteInstance, CountRequest
  <2>2. /\ \A q \in Procs \ {p} : at'[q] = at[q] /\ mem'[q] = mem[q]
        /\ UNCHANGED <<base, files, copy, edited>>
    BY <1>1, <1>9 DEF StartDeleteInstance, shared, Types
  <2> QED BY <2>1, <2>2, StartingKeeps
<1>10. ASSUME NEW p \in Procs, BeginCommand(p) PROVE Copied' /\ Edits' /\ SavedAsFiled'
  <2>1. edited[p] = {} /\ Goto(p, "work")
    BY <1>2, <1>10 DEF BeginCommand
  <2>2. /\ \A q \in Procs \ {p} : at'[q] = at[q] /\ mem'[q] = mem[q]
        /\ UNCHANGED <<base, files, copy, edited>>
    BY <1>1, <1>10 DEF BeginCommand, Types
  <2> QED BY <2>1, <2>2, StartingKeeps
<1>11. ASSUME NEW p \in Procs, ReadFile(p) PROVE Copied' /\ Edits' /\ SavedAsFiled'
  BY <1>1, <1>2, <1>11
  DEF ReadFile, Goto, shared, Types, Copied, Edits, SavedAsFiled, Sole
<1>12. ASSUME NEW p \in Procs, AccountMissing(p) PROVE Copied' /\ Edits' /\ SavedAsFiled'
  BY <1>12, LeavingKeeps DEF AccountMissing, Abort
<1>13. ASSUME NEW p \in Procs, WriteFile(p) PROVE Copied' /\ Edits' /\ SavedAsFiled'
  <2> DEFINE path == base[at[p]]
  <2>1. ASSUME NEW q \in Procs \ {p}, Inside(q)
        PROVE  /\ OtherLines(files'[base[at[q]]]) = OtherLines(files[base[at[q]]])
               /\ Sole(base[at[q]]) => files'[base[at[q]]] = files[base[at[q]]]
    BY <1>13, <2>1, OthersUntouched DEF WriteFile
  <2>2. /\ cur[p] \in Users /\ flag[p] \in {"0", "1"} /\ flag[p] \in Flags
        /\ path \in Paths /\ files[path] \in Text
        /\ Sole(path) => /\ HasAccount(files[path], cur[p])
                         /\ files'[path] = SetFlag(files[path], cur[p], flag[p])
    BY <1>1, <1>13, ReplaceKeeps DEF WriteFile, Types, Placed, Place, Flags
  <2>3. ASSUME NEW u \in edited'[p], Sole(path)
        PROVE  /\ HasAccount(files'[path], u)
               /\ Flag(files'[path], u) = IF mem'[p][u] = "ok" THEN "0" ELSE "1"
    <3>1. /\ HasAccount(files'[path], u) <=> HasAccount(files[path], u)
          /\ Flag(files'[path], cur[p]) = flag[p]
          /\ HasAccount(files[path], u) /\ u # cur[p] =>
                Flag(files'[path], u) = Flag(files[path], u)
      <4> HIDE DEF path
      <4> QED BY <2>2, <2>3, EditIsExact
    <3>2. CASE u = cur[p]
      <4>1. mem'[p][u] = IF flag[p] = "0" THEN "ok"
                         ELSE IF p = Timer THEN "timed" ELSE "endless"
        BY <1>1, <1>13, <2>2, <3>2 DEF WriteFile, Types
      <4> QED BY <2>2, <2>3, <3>1, <3>2, <4>1
    <3>3. CASE u # cur[p]
      <4>1. u \in edited[p] /\ mem'[p][u] = mem[p][u]
        BY <1>1, <1>13, <2>2, <3>3 DEF WriteFile, Types
      <4> QED BY <1>1, <2>3, <3>1, <3>3, <4>1 DEF Edits, SavedAsFiled
    <3> QED BY <3>2, <3>3
  <2>4. /\ pc'[p] = "work" /\ at'[p] = at[p] /\ base' = base
        /\ \A q \in Procs \ {p} : /\ pc'[q] = pc[q] /\ at'[q] = at[q] /\ mem'[q] = mem[q]
                                 /\ copy'[q] = copy[q] /\ edited'[q] = edited[q]
    BY <1>1, <1>13 DEF WriteFile, Goto, Types
  <2>5. Copied'
    BY <1>1, <2>1, <2>4 DEF Copied, Inside, Sole
  <2>6. Edits'
    BY <1>1, <1>2, <2>1, <2>3, <2>4 DEF Edits, Inside, Sole
  <2>7. SavedAsFiled'
    BY <1>1, <1>2, <2>1, <2>3, <2>4 DEF SavedAsFiled, Inside, Sole
  <2> QED BY <2>5, <2>6, <2>7
<1>14. ASSUME NEW p \in Procs, Save(p) PROVE Copied' /\ Edits' /\ SavedAsFiled'
  <2>1. "next" # "write" /\ "idle" # "write"
    OBVIOUS
  <2> QED BY <1>14, <2>1, LeavingKeeps DEF Save
<1>15. ASSUME NEW p \in Procs, SyncLoad(p) PROVE Copied' /\ Edits' /\ SavedAsFiled'
  <2>1. edited[p] = {} /\ Goto(p, "syncSave")
    BY <1>2, <1>15 DEF SyncLoad
  <2>2. /\ \A q \in Procs \ {p} : at'[q] = at[q] /\ mem'[q] = mem[q]
        /\ UNCHANGED <<base, files, copy, edited>>
    BY <1>1, <1>15 DEF SyncLoad, shared, Types
  <2> QED BY <2>1, <2>2, StartingKeeps
<1>16. ASSUME NEW p \in Procs, SyncSave(p) PROVE Copied' /\ Edits' /\ SavedAsFiled'
  BY <1>1, <1>2, <1>16
  DEF SyncSave, Goto, Types, Copied, Edits, SavedAsFiled, Sole
<1>17. ASSUME NEW p \in Procs, SaveConfig(p) PROVE Copied' /\ Edits' /\ SavedAsFiled'
  BY <1>17, LeavingKeeps DEF SaveConfig
<1>18. ASSUME NEW p \in Procs, ReinitFails(p) PROVE Copied' /\ Edits' /\ SavedAsFiled'
  <2>1. ASSUME NEW q \in Procs \ {p}, Inside(q)
        PROVE  /\ OtherLines(files'[base[at[q]]]) = OtherLines(files[base[at[q]]])
               /\ Sole(base[at[q]]) => files'[base[at[q]]] = files[base[at[q]]]
    BY <1>18, <2>1, OthersUntouched DEF ReinitFails, Abort
  <2>2. /\ pc'[p] = "idle" /\ edited'[p] = {} /\ base' = base
        /\ \A q \in Procs \ {p} : /\ pc'[q] = pc[q] /\ at'[q] = at[q] /\ mem'[q] = mem[q]
                                 /\ copy'[q] = copy[q] /\ edited'[q] = edited[q]
    BY <1>1, <1>18 DEF ReinitFails, Abort, Goto, Leave, Types
  <2>3. Copied'
    BY <1>1, <2>1, <2>2 DEF Copied, Inside, Sole
  <2>4. Edits'
    BY <1>1, <1>2, <2>1, <2>2 DEF Edits, Inside, Sole
  <2>5. SavedAsFiled'
    BY <1>1, <1>2, <2>1, <2>2 DEF SavedAsFiled, Inside, Sole
  <2> QED BY <2>3, <2>4, <2>5
<1>19. ASSUME NEW p \in Procs, Fail(p) PROVE Copied' /\ Edits' /\ SavedAsFiled'
  BY <1>19, LeavingKeeps DEF Fail, Abort
<1>20. ASSUME NEW id \in Ids, NEW u \in Users, Expire(id, u)
       PROVE  Copied' /\ Edits' /\ SavedAsFiled'
  <2>1. \A q \in Procs, v \in Users : mem'[q][v] = "ok" <=> mem[q][v] = "ok"
    BY <1>1, <1>20 DEF Expire, Aged, Types
  <2> QED BY <1>1, <1>20, <2>1 DEF Expire, Types, Copied, Edits, SavedAsFiled, Sole
<1>21. CASE UNCHANGED vars
  BY <1>1, <1>21 DEF vars, Copied, Edits, SavedAsFiled, Sole
<1> QED BY <1>3, <1>4, <1>5, <1>6, <1>7, <1>8, <1>9, <1>10, <1>11, <1>12, <1>13, <1>14,
          <1>15, <1>16, <1>17, <1>18, <1>19, <1>20, <1>21
       DEF Next, Loop, Start, Work

LEMMA InvNext == Inv /\ [Next]_vars => Inv'
<1> SUFFICES ASSUME Inv, [Next]_vars PROVE Inv'
  OBVIOUS
<1> QED BY TypesStep, ListsStep, PlacedStep, LockedStep, FilesStep DEF Inv

LEMMA InvHolds == Spec => []Inv
BY InitHolds, InvNext, PTL DEF Spec

-----------------------------------------------------------------------------
(* What the steps do to the files.                                           *)

(* A file only changes in the hands of a process that writes to it.          *)
LEMMA WhoWrites ==
  ASSUME Inv, [Next]_vars, files' # files
  PROVE  \E p \in Procs : pc[p] = "write" /\ Replace(p)
<1>1. CASE Loop
  BY <1>1 DEF Loop, RunAll, BeginCycle, Evaluate, RunAllEnd, shared
<1>2. ASSUME NEW p \in Procs, Start(p) PROVE FALSE
  BY <1>2 DEF Start, StartCommand, StartSaveInstance, StartDeleteInstance, shared
<1>3. ASSUME NEW p \in Procs, Work(p), ~ WriteFile(p) PROVE FALSE
  BY <1>3 DEF Work, BeginCommand, ReadFile, AccountMissing, Save, SyncLoad, SyncSave,
              SaveConfig, shared
<1>4. ASSUME NEW p \in Procs, WriteFile(p) \/ ReinitFails(p)
      PROVE  pc[p] = "write" /\ Replace(p)
  BY <1>4 DEF WriteFile, ReinitFails
<1>5. ASSUME NEW p \in Procs, Fail(p) PROVE FALSE
  BY <1>5 DEF Fail
<1>6. ASSUME NEW id \in Ids, NEW u \in Users, Expire(id, u) PROVE FALSE
  BY <1>6 DEF Expire
<1>7. CASE UNCHANGED vars
  BY <1>7 DEF vars
<1> QED BY <1>1, <1>2, <1>3, <1>4, <1>5, <1>6, <1>7 DEF Next

(* The file is of text, and its users have accounts in it.                   *)
LEMMA UsersHaveAccounts ==
  ASSUME NEW lines, NEW u \in AccountUsers(lines) PROVE HasAccount(lines, u)
BY DEF AccountUsers, HasAccount, BlocksOf

-----------------------------------------------------------------------------
(* The theorems.                                                             *)

(* However many instances, sessions and users, and whatever fails: every     *)
(* variable has its type, and every account file can be read back.           *)
THEOREM TypeCorrect == Spec => []TypeOK
<1>1. Inv => TypeOK
  BY TypesGive DEF Inv
<1> QED BY <1>1, InvHolds, PTL

(* The records that a cycle or a command of an instance is about to save     *)
(* agree with the account file on every account it has edited, where the     *)
(* file is that instance's alone.                                            *)
THEOREM SavedIsFiled == Spec => []SavedAsFiled
<1>1. Inv => SavedAsFiled
  BY DEF Inv
<1> QED BY <1>1, InvHolds, PTL

(* Every step that changes such a file sets the flag of the one account it   *)
(* was asked to, and leaves all others as they were.                         *)
THEOREM EditIsTarget == Spec => OnlyTarget
<1>1. ASSUME Inv, [Next]_vars, NEW path \in Paths, files'[path] # files[path], Sole(path)
      PROVE  \E p \in Procs :
                /\ pc[p] = "write"
                /\ \A u \in AccountUsers(files[path]) :
                      Flag(files'[path], u) =
                         IF u = cur[p] THEN flag[p] ELSE Flag(files[path], u)
  <2>1. files' # files
    BY <1>1
  <2>2. PICK p \in Procs : pc[p] = "write" /\ Replace(p)
    BY <1>1, <2>1, WhoWrites
  <2>3. path = base[at[p]]
    BY <1>1, <2>2, ReplaceKeeps
  <2>4. /\ HasAccount(files[path], cur[p])
        /\ files'[path] = SetFlag(files[path], cur[p], flag[p])
    BY <1>1, <2>2, <2>3, ReplaceKeeps
  <2>5. files[path] \in Text /\ flag[p] \in Flags
    BY <1>1 DEF Inv, Types
  <2>6. /\ Flag(files'[path], cur[p]) = flag[p]
        /\ \A v : HasAccount(files[path], v) /\ v # cur[p] =>
                     Flag(files'[path], v) = Flag(files[path], v)
    BY <2>4, <2>5, EditIsExact
  <2> QED BY <2>2, <2>6, UsersHaveAccounts
<1>2. Inv /\ [Next]_vars =>
        [\A path \in Paths :
            files'[path] # files[path] /\ Sole(path) =>
               \E p \in Procs :
                  /\ pc[p] = "write"
                  /\ \A u \in AccountUsers(files[path]) :
                        Flag(files'[path], u) =
                           IF u = cur[p] THEN flag[p] ELSE Flag(files[path], u)]_vars
  BY <1>1
<1> QED BY <1>2, InvHolds, PTL DEF Spec, OnlyTarget

(* Even in a file that instances share, whose edits overwrite each other,    *)
(* every step keeps all lines but the disabled ones, in their order.         *)
THEOREM OthersStay == Spec => LinesKept
<1>1. ASSUME Inv, [Next]_vars, NEW path \in Paths
      PROVE  OtherLines(files'[path]) = OtherLines(files[path])
  <2>1. CASE files' = files
    BY <2>1
  <2>2. CASE files' # files
    BY <1>1, <2>2, WhoWrites, ReplaceKeeps
  <2> QED BY <2>1, <2>2
<1>2. Inv /\ [Next]_vars =>
        [\A path \in Paths : OtherLines(files'[path]) = OtherLines(files[path])]_vars
  BY <1>1
<1> QED BY <1>2, InvHolds, PTL DEF Spec, LinesKept

=============================================================================
