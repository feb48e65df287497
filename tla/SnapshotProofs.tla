--------------------------- MODULE SnapshotProofs ---------------------------
(***************************************************************************)
(* Theorems about Snapshot, for any schedule, retention, number of         *)
(* VolumeSnapshots, edits, faults and restarts.                            *)
(***************************************************************************)
EXTENDS Snapshot, SequenceTheorems, WellFoundedInduction, TLAPS

-----------------------------------------------------------------------------
(* What the loop over the entries computes *)

\* Induction, with the property as a set of numbers.
LEMMA Induction ==
    ASSUME NEW S, 0 \in S, \A n \in Nat : n \in S => n + 1 \in S
    PROVE  Nat \subseteq S
<1> DEFINE T == Nat \ S
<1> SUFFICES ASSUME T # {}
             PROVE  FALSE
  OBVIOUS
<1>1. IsWellFoundedOn(OpToRel(<, Nat), Nat)
  BY NatLessThanWellFounded
<1>2. PICK x \in T : \A y \in T : ~(<<y, x>> \in OpToRel(<, Nat))
  BY <1>1, WFMin
<1>3. x \in Nat /\ x # 0 /\ x - 1 \in Nat
  OBVIOUS
<1>4. \A y \in T : ~(y < x)
  BY <1>2 DEF OpToRel
<1>5. x - 1 \in S
  BY <1>3, <1>4
<1>6. (x - 1) + 1 \in S
  BY <1>3, <1>5
<1> QED  BY <1>3, <1>6

\* Ages are natural numbers.
LEMMA EntryAge ==
    \A e \in Entries : e.age \in Nat
BY SnapshotAssumption DEF Entries, Horizon

\* One round of the loop.
Round(F, entries, i) ==
    IF i = 0 THEN <<>>
    ELSE IF Young(entries[i]) THEN Append(F[i - 1], entries[i]) ELSE F[i - 1]

\* The loop computes what it says.
LEMMA YoungAfterDef ==
    ASSUME NEW entries \in Seq(Entries)
    PROVE  YoungAfter(entries) = [i \in 0..Len(entries) |-> Round(YoungAfter(entries), entries, i)]
<1> DEFINE S == {n \in Nat : n =< Len(entries) =>
                               \E F : F = [i \in 0..n |-> Round(F, entries, i)]}
<1>0. Len(entries) \in Nat
  OBVIOUS
<1>1. 0 \in S
  <2> DEFINE F == [i \in 0..0 |-> <<>>]
  <2>1. F = [i \in 0..0 |-> Round(F, entries, i)]
    BY DEF Round
  <2> QED  BY <2>1
<1>2. ASSUME NEW n \in Nat, n \in S
      PROVE  n + 1 \in S
  <2> SUFFICES ASSUME n + 1 =< Len(entries)
               PROVE  \E F : F = [i \in 0..(n + 1) |-> Round(F, entries, i)]
    OBVIOUS
  <2>1. PICK G : G = [i \in 0..n |-> Round(G, entries, i)]
    BY <1>0, <1>2
  <2> DEFINE F == [i \in 0..(n + 1) |-> Round(G, entries, i)]
  <2>2. \A i \in 0..n : F[i] = G[i]
    BY <2>1
  <2>3. ASSUME NEW i \in 0..(n + 1)
        PROVE  Round(F, entries, i) = Round(G, entries, i)
    <3>1. CASE i = 0
      BY <3>1 DEF Round
    <3>2. CASE i # 0
      <4>1. i - 1 \in 0..n
        BY <3>2
      <4>2. F[i - 1] = G[i - 1]
        BY <2>2, <4>1
      <4> HIDE DEF F
      <4> QED  BY <4>2 DEF Round
    <3> QED  BY <3>1, <3>2
  <2>4. F = [i \in 0..(n + 1) |-> Round(F, entries, i)]
    BY <2>3
  <2> QED  BY <2>4
<1>3. Len(entries) \in S
  <2> HIDE DEF S
  <2> QED  BY <1>0, <1>1, <1>2, Induction
<1>4. \E F : F = [i \in 0..Len(entries) |-> Round(F, entries, i)]
  BY <1>3
<1> QED  BY <1>4 DEF YoungAfter, Round

\* What is known after i rounds: the young entries among the first i, in their
\* order, and how far from the end they are.
Sound(entries, i) ==
    LET young == YoungAfter(entries)[i] IN
    /\ young \in Seq(Entries)
    /\ Len(young) =< i
    /\ \A j \in 1..Len(young) : \E k \in 1..i : young[j] = entries[k] /\ Young(entries[k])
    /\ \A k \in 1..i : Young(entries[k]) =>
         \E j \in 1..Len(young) : young[j] = entries[k] /\ Len(young) - j =< i - k
    /\ i > 0 /\ Young(entries[i]) => Len(young) > 0 /\ young[Len(young)] = entries[i]

\* The entries are in the order of their age.
InOrder(entries) ==
    \A j, k \in DOMAIN entries : j =< k => entries[k].age =< entries[j].age

LEMMA LoopSound ==
    ASSUME NEW entries \in Seq(Entries)
    PROVE  \A i \in 0..Len(entries) : Sound(entries, i)
<1> DEFINE S == {n \in Nat : n =< Len(entries) => Sound(entries, n)}
           Y == YoungAfter(entries)
<1>0. Len(entries) \in Nat /\ DOMAIN entries = 1..Len(entries)
  OBVIOUS
<1>def. \A i \in 0..Len(entries) : Y[i] = Round(Y, entries, i)
  BY YoungAfterDef
<1>1. 0 \in S
  <2>1. Y[0] = <<>>
    BY <1>0, <1>def DEF Round
  <2>2. Y[0] \in Seq(Entries) /\ Len(Y[0]) = 0
    BY <2>1
  <2>3. Sound(entries, 0)
    BY <2>2 DEF Sound
  <2> QED  BY <2>3
<1>2. ASSUME NEW n \in Nat, n \in S
      PROVE  n + 1 \in S
  <2> SUFFICES ASSUME n + 1 =< Len(entries)
               PROVE  Sound(entries, n + 1)
    OBVIOUS
  <2> DEFINE e == entries[n + 1]
             old == Y[n]
             new == Y[n + 1]
  <2>1. Sound(entries, n) /\ e \in Entries
    BY <1>0, <1>2
  <2>2. new = IF Young(e) THEN Append(old, e) ELSE old
    <3>1. n + 1 \in 0..Len(entries) /\ n + 1 # 0 /\ (n + 1) - 1 = n
      BY <1>0
    <3> QED  BY <1>def, <3>1 DEF Round
  <2>3. /\ old \in Seq(Entries)
        /\ Len(old) =< n
        /\ \A j \in 1..Len(old) : \E k \in 1..n : old[j] = entries[k] /\ Young(entries[k])
        /\ \A k \in 1..n : Young(entries[k]) =>
             \E j \in 1..Len(old) : old[j] = entries[k] /\ Len(old) - j =< n - k
    BY <2>1 DEF Sound
  <2> HIDE DEF e, old, new
  <2>4. CASE Young(e)
    <3>1. /\ new \in Seq(Entries) /\ Len(new) = Len(old) + 1
          /\ \A j \in 1..Len(old) : new[j] = old[j]
          /\ new[Len(new)] = e
      BY <2>1, <2>2, <2>3, <2>4
    <3>2. Len(old) \in Nat
      BY <2>3
    <3>3. ASSUME NEW j \in 1..Len(new)
          PROVE  \E k \in 1..(n + 1) : new[j] = entries[k] /\ Young(entries[k])
      <4>1. CASE j = Len(new)
        BY <2>4, <3>1, <4>1 DEF e
      <4>2. CASE j # Len(new)
        <5>1. j \in 1..Len(old)
          BY <3>1, <3>2, <4>2
        <5>2. PICK k \in 1..n : old[j] = entries[k] /\ Young(entries[k])
          BY <2>3, <5>1
        <5> QED  BY <3>1, <5>1, <5>2
      <4> QED  BY <4>1, <4>2
    <3>4. ASSUME NEW k \in 1..(n + 1), Young(entries[k])
          PROVE  \E j \in 1..Len(new) : new[j] = entries[k] /\ Len(new) - j =< (n + 1) - k
      <4>1. CASE k = n + 1
        <5>1. Len(new) \in 1..Len(new) /\ Len(new) - Len(new) =< (n + 1) - k
          BY <3>1, <3>2, <4>1
        <5> QED  BY <3>1, <4>1, <5>1 DEF e
      <4>2. CASE k # n + 1
        <5>1. k \in 1..n
          BY <4>2
        <5>2. PICK j \in 1..Len(old) : old[j] = entries[k] /\ Len(old) - j =< n - k
          BY <2>3, <3>4, <5>1
        <5>3. j \in 1..Len(new) /\ Len(new) - j =< (n + 1) - k
          BY <3>1, <3>2, <5>1, <5>2
        <5> QED  BY <3>1, <5>2, <5>3
      <4> QED  BY <4>1, <4>2
    <3> QED  BY <2>3, <3>1, <3>2, <3>3, <3>4 DEF Sound, e, new
  <2>5. CASE ~Young(e)
    <3>1. new = old
      BY <2>2, <2>5
    <3>2. \A k \in 1..(n + 1) : Young(entries[k]) => k \in 1..n
      BY <2>5 DEF e
    <3>3. ASSUME NEW k \in 1..(n + 1), Young(entries[k])
          PROVE  \E j \in 1..Len(new) : new[j] = entries[k] /\ Len(new) - j =< (n + 1) - k
      <4>1. PICK j \in 1..Len(old) : old[j] = entries[k] /\ Len(old) - j =< n - k
        BY <2>3, <3>2, <3>3
      <4>2. Len(old) \in Nat
        BY <2>3
      <4> QED  BY <3>1, <4>1, <4>2
    <3>4. \A j \in 1..Len(new) : \E k \in 1..(n + 1) : new[j] = entries[k] /\ Young(entries[k])
      BY <2>3, <3>1
    <3>5. new \in Seq(Entries) /\ Len(new) =< n + 1
      BY <2>3, <3>1
    <3> QED  BY <2>5, <3>3, <3>4, <3>5 DEF Sound, e, new
  <2> QED  BY <2>4, <2>5
<1> HIDE DEF S
<1>3. Nat \subseteq S
  BY <1>1, <1>2, Induction
<1> QED  BY <1>0, <1>3 DEF S

LEMMA LoopInOrder ==
    ASSUME NEW entries \in Seq(Entries), InOrder(entries)
    PROVE  \A i \in 0..Len(entries) : InOrder(YoungAfter(entries)[i])
<1> DEFINE S == {n \in Nat : n =< Len(entries) => InOrder(YoungAfter(entries)[n])}
           Y == YoungAfter(entries)
<1>0. Len(entries) \in Nat /\ DOMAIN entries = 1..Len(entries)
  OBVIOUS
<1>def. \A i \in 0..Len(entries) : Y[i] = Round(Y, entries, i)
  BY YoungAfterDef
<1>sound. \A i \in 0..Len(entries) : Sound(entries, i)
  BY LoopSound
<1>1. 0 \in S
  <2>1. Y[0] = <<>>
    BY <1>0, <1>def DEF Round
  <2>2. DOMAIN Y[0] = {}
    BY <2>1
  <2>3. InOrder(Y[0])
    BY <2>2 DEF InOrder
  <2> QED  BY <2>3
<1>2. ASSUME NEW n \in Nat, n \in S
      PROVE  n + 1 \in S
  <2> SUFFICES ASSUME n + 1 =< Len(entries)
               PROVE  InOrder(Y[n + 1])
    OBVIOUS
  <2> DEFINE e == entries[n + 1]
             old == Y[n]
             new == Y[n + 1]
  <2>1. /\ InOrder(old) /\ e \in Entries /\ old \in Seq(Entries)
        /\ \A j \in 1..Len(old) : \E k \in 1..n : old[j] = entries[k]
    <3>1. Sound(entries, n)
      BY <1>0, <1>sound
    <3>2. old \in Seq(Entries) /\ \A j \in 1..Len(old) : \E k \in 1..n : old[j] = entries[k]
      BY <3>1 DEF Sound
    <3>3. n + 1 \in DOMAIN entries /\ n =< Len(entries)
      BY <1>0
    <3>4. InOrder(old)
      BY <1>2, <3>3
    <3>5. e \in Entries
      BY <3>3
    <3> QED  BY <3>2, <3>4, <3>5
  <2>2. new = IF Young(e) THEN Append(old, e) ELSE old
    <3>1. n + 1 \in 0..Len(entries) /\ n + 1 # 0 /\ (n + 1) - 1 = n
      BY <1>0
    <3> QED  BY <1>def, <3>1 DEF Round
  <2>3. \A j \in 1..Len(old) : e.age =< old[j].age
    <3> SUFFICES ASSUME NEW j \in 1..Len(old)
                 PROVE  e.age =< old[j].age
      OBVIOUS
    <3>1. PICK k \in 1..n : old[j] = entries[k]
      BY <2>1
    <3>2. k \in DOMAIN entries /\ n + 1 \in DOMAIN entries /\ k =< n + 1
      BY <1>0
    <3>3. entries[n + 1].age =< entries[k].age
      BY <3>2 DEF InOrder
    <3> QED  BY <3>1, <3>3
  <2>4. e.age =< e.age
    <3>1. e.age \in Nat
      BY <2>1, EntryAge
    <3> QED  BY <3>1
  <2> HIDE DEF e, old, new
  <2>5. CASE Young(e)
    <3>1. /\ DOMAIN new = 1..(Len(old) + 1) /\ DOMAIN old = 1..Len(old) /\ Len(old) \in Nat
          /\ \A j \in 1..Len(old) : new[j] = old[j]
          /\ new[Len(old) + 1] = e
      BY <2>1, <2>2, <2>5
    <3>2. ASSUME NEW j \in DOMAIN new, NEW k \in DOMAIN new, j =< k
          PROVE  new[k].age =< new[j].age
      <4>1. CASE k \in 1..Len(old)
        <5>1. j \in 1..Len(old)
          BY <3>1, <3>2, <4>1
        <5> QED  BY <2>1, <3>1, <3>2, <4>1, <5>1 DEF InOrder
      <4>2. CASE k = Len(old) + 1
        <5>1. j \in 1..Len(old) \/ j = Len(old) + 1
          BY <3>1, <3>2
        <5> QED  BY <2>3, <2>4, <3>1, <4>2, <5>1
      <4> QED  BY <3>1, <4>1, <4>2
    <3> QED  BY <3>2 DEF InOrder, new
  <2>6. CASE ~Young(e)
    BY <2>1, <2>2, <2>6 DEF new
  <2> QED  BY <2>5, <2>6
<1> HIDE DEF S
<1>3. Nat \subseteq S
  BY <1>1, <1>2, Induction
<1> QED  BY <1>0, <1>3 DEF S

\* What retention keeps: entries of the list in their order, the latest among
\* them if there is any, and all but those that are too old or have Count later
\* ones.
LEMMA KeptSound ==
    ASSUME NEW entries \in Seq(Entries), InOrder(entries)
    PROVE  /\ Kept(entries) \in Seq(Entries)
           /\ Len(Kept(entries)) =< Len(entries)
           /\ InOrder(Kept(entries))
           /\ Kept(entries) # <<>> => entries # <<>>
                /\ Kept(entries)[Len(Kept(entries))] = entries[Len(entries)]
           /\ \A k \in DOMAIN entries : entries[k].volume \notin VolumesOf(Kept(entries)) =>
                \/ ~Young(entries[k])
                \/ Count > 0 /\ Len(entries) - k >= Count
<1> DEFINE n == Len(entries)
           young == YoungAfter(entries)[n]
           kept == Kept(entries)
           m == Len(young)
<1>0. n \in Nat /\ DOMAIN entries = 1..n /\ n \in 0..n /\ Count \in Nat /\ Duration \in Nat
  BY SnapshotAssumption
<1>1. Sound(entries, n) /\ InOrder(young)
  BY <1>0, LoopSound, LoopInOrder
<1>2. /\ young \in Seq(Entries) /\ m =< n
      /\ \A j \in 1..m : \E k \in 1..n : young[j] = entries[k] /\ Young(entries[k])
      /\ \A k \in 1..n : Young(entries[k]) =>
           \E j \in 1..m : young[j] = entries[k] /\ m - j =< n - k
      /\ n > 0 /\ Young(entries[n]) => m > 0 /\ young[m] = entries[n]
  BY <1>1 DEF Sound
<1>3. kept = IF Count > 0 /\ m > Count THEN SubSeq(young, m - Count + 1, m) ELSE young
  BY DEF Kept
<1>4. m \in Nat /\ DOMAIN young = 1..m
  BY <1>2
<1>ages. \A k \in 1..n : entries[k].age \in Nat
  <2>1. \A k \in 1..n : entries[k] \in Entries
    BY <1>0
  <2> QED  BY <2>1, EntryAge
<1>last. m > 0 => n > 0 /\ young[m] = entries[n]
  <2> SUFFICES ASSUME m > 0
               PROVE  n > 0 /\ young[m] = entries[n]
    OBVIOUS
  <2>1. PICK k \in 1..n : Young(entries[k])
    BY <1>2, <1>4
  <2>2. n \in 1..n /\ k =< n
    BY <1>0, <2>1
  <2>3. entries[n].age =< entries[k].age
    BY <1>0, <2>2 DEF InOrder
  <2>4. entries[n].age \in Nat /\ entries[k].age \in Nat
    BY <1>ages, <2>2
  <2>5. Young(entries[n])
    BY <1>0, <2>1, <2>3, <2>4 DEF Young
  <2> QED  BY <1>2, <2>2, <2>5
<1> HIDE DEF n, young, m, kept
<1>5. CASE Count > 0 /\ m > Count
  <2> DEFINE d == m - Count
  <2>1. d \in Nat /\ d + 1 \in 1..m /\ kept = SubSeq(young, d + 1, m)
    BY <1>0, <1>3, <1>4, <1>5
  <2>2. kept \in Seq(Entries) /\ Len(kept) = Count
    BY <1>0, <1>2, <1>4, <1>5, <2>1
  <2>3. \A j \in 1..Count : kept[j] = young[d + j]
    BY <1>0, <1>2, <1>4, <1>5, <2>1
  <2>4. DOMAIN kept = 1..Count /\ d + Count = m
    BY <1>0, <1>4, <2>2
  <2> HIDE DEF d
  <2>5. InOrder(kept)
    <3> SUFFICES ASSUME NEW j \in 1..Count, NEW k \in 1..Count, j =< k
                 PROVE  kept[k].age =< kept[j].age
      BY <2>4 DEF InOrder
    <3>1. d + j \in 1..m /\ d + k \in 1..m /\ d + j =< d + k
      BY <1>0, <2>1, <2>4
    <3> QED  BY <1>1, <1>4, <2>3, <3>1 DEF InOrder
  <2>6. kept[Len(kept)] = entries[n] /\ n > 0
    BY <1>0, <1>5, <1>last, <1>4, <2>2, <2>3, <2>4
  <2>7. ASSUME NEW k \in 1..n, entries[k].volume \notin VolumesOf(kept), Young(entries[k])
        PROVE  n - k >= Count
    <3>1. PICK j \in 1..m : young[j] = entries[k] /\ m - j =< n - k
      BY <1>2, <2>7
    <3>2. ~(j > d)
      <4> SUFFICES ASSUME j > d
                   PROVE  FALSE
        OBVIOUS
      <4>1. j - d \in 1..Count /\ d + (j - d) = j
        BY <1>0, <1>4, <2>1, <2>4
      <4>2. kept[j - d] = entries[k]
        BY <2>3, <3>1, <4>1
      <4> QED  BY <2>4, <2>7, <4>1, <4>2 DEF VolumesOf
    <3> QED  BY <1>0, <1>4, <2>1, <2>4, <3>1, <3>2
  <2>8. Len(kept) =< n /\ entries # <<>>
    <3>1. Len(kept) =< n
      BY <1>0, <1>2, <1>4, <1>5, <2>2
    <3>2. entries # <<>>
      BY <2>6 DEF n
    <3> QED  BY <3>1, <3>2
  <2> QED  BY <1>0, <1>5, <2>2, <2>5, <2>6, <2>7, <2>8 DEF n, kept
<1>6. CASE ~(Count > 0 /\ m > Count)
  <2>1. kept = young
    BY <1>3, <1>6
  <2>2. kept \in Seq(Entries) /\ Len(kept) =< n /\ InOrder(kept)
    BY <1>1, <1>2, <2>1 DEF m
  <2>3. kept # <<>> => entries # <<>> /\ kept[Len(kept)] = entries[n]
    <3> SUFFICES ASSUME kept # <<>>
                 PROVE  entries # <<>> /\ kept[Len(kept)] = entries[n]
      OBVIOUS
    <3>1. m > 0
      BY <1>2, <1>4, <2>1 DEF m
    <3>2. n > 0 /\ young[m] = entries[n]
      BY <1>last, <3>1
    <3> QED  BY <2>1, <3>2 DEF n, m
  <2>4. ASSUME NEW k \in 1..n, Young(entries[k])
        PROVE  entries[k].volume \in VolumesOf(kept)
    <3>1. PICK j \in 1..m : young[j] = entries[k]
      BY <1>2, <2>4
    <3> QED  BY <1>4, <2>1, <3>1 DEF VolumesOf
  <2> QED  BY <1>0, <2>2, <2>3, <2>4 DEF n, kept
<1> QED  BY <1>5, <1>6

-----------------------------------------------------------------------------
(* The inductive invariant *)

\* A ready GameSnapshot's latest VolumeSnapshot is, or was when it was deleted,
\* ready.
Ready(s, vols) ==
    s.ready /\ s.entries # <<>> => vols[Latest(s).volume] \in {"ready", "deleted"}

\* What is recorded was recorded together with LastSnapshotAt.
Taken(s) == s.entries # <<>> => s.last # "never"

Once(s, sched) == sched = "none" => Len(s.entries) =< 1

Good(s, vols, sched) == s \in Snapshots /\ InOrder(s.entries) /\ Ready(s, vols) /\ Taken(s) /\ Once(s, sched)

\* s has what t has, and possibly more.
Extends(s, t) ==
    /\ Len(t.entries) =< Len(s.entries)
    /\ \A k \in DOMAIN t.entries : s.entries[k] = t.entries[k]

Uses == [created : BOOLEAN, edits : Nat, faults : Nat, crashes : Nat]

Synced == current => cache = snap

Uncreated == ~used.created => snap = NoSnap /\ cache = NoSnap /\ pc = "idle"

\* What the reconcile's copy has to do with the stored GameSnapshot, while it
\* has the latest version and, from the record on, whether it has or not.
Copied ==
    /\ copyCurrent => Extends(copy, snap)
    /\ copyCurrent /\ pc \in {"monitor", "saving", "save", "create"} => copy.entries = snap.entries
    /\ pc \in {"check", "retain"} => copy.entries = snap.entries /\ snap.finalizer

\* What is known of the copy at each step of the reconcile.
Stage ==
    /\ pc \in {"save", "create", "record", "check"} => ~copy.ready
    /\ pc = "retain" => copy.ready
    /\ schedule = "none" /\ pc \in {"saving", "save", "create"} => copy.entries = <<>>
    /\ pc # "idle" => copy.finalizer

AllGood == Good(snap, volumes, schedule) /\ Good(cache, volumes, schedule) /\ Good(copy, volumes, schedule)

Control == Synced /\ Uncreated /\ Copied /\ Stage

IInv == TypeOK /\ used \in Uses /\ AllGood /\ Control

\* A volume that is ready, or deleted, never again is anything else.
Lasting(old, new) ==
    \A v \in Volumes : old[v] \in {"ready", "deleted"} => new[v] \in {"ready", "deleted"}

-----------------------------------------------------------------------------
(* What keeps a GameSnapshot good *)

LEMMA SnapFields ==
    ASSUME NEW s \in Snapshots
    PROVE  /\ s.entries \in Seq(Entries) /\ s.last \in Lasts
           /\ s.exists \in BOOLEAN /\ s.deleting \in BOOLEAN
           /\ s.finalizer \in BOOLEAN /\ s.ready \in BOOLEAN
BY DEF Snapshots

LEMMA LatestVolume ==
    ASSUME NEW s \in Snapshots, s.entries # <<>>
    PROVE  Latest(s).volume \in Volumes
<1>1. s.entries \in Seq(Entries)
  BY SnapFields
<1>2. Len(s.entries) \in DOMAIN s.entries
  BY <1>1
<1>3. s.entries[Len(s.entries)] \in Entries
  BY <1>1, <1>2
<1> QED  BY <1>3 DEF Latest, Entries

\* The volumes may get on.
LEMMA GoodLasts ==
    ASSUME NEW s, NEW sched, NEW old, NEW new, Good(s, old, sched), Lasting(old, new)
    PROVE  Good(s, new, sched)
BY LatestVolume DEF Good, Ready, Lasting

LEMMA NoSnapGood ==
    ASSUME NEW vols, NEW sched
    PROVE  Good(NoSnap, vols, sched)
<1>1. NoSnap \in Snapshots
  BY DEF NoSnap, Snapshots, Lasts
<1>2. NoSnap.entries = <<>> /\ DOMAIN NoSnap.entries = {} /\ Len(NoSnap.entries) = 0
  BY DEF NoSnap
<1> QED  BY <1>1, <1>2 DEF Good, Ready, Taken, Once, InOrder

\* Another GameSnapshot with the same entries and time is good if its condition
\* is taken back or was already there.
LEMMA GoodEdit ==
    ASSUME NEW s, NEW t \in Snapshots, NEW vols, NEW sched, Good(s, vols, sched),
           t.entries = s.entries, t.last = s.last,
           t.ready => s.ready
    PROVE  Good(t, vols, sched)
BY DEF Good, Ready, Taken, Once, InOrder, Latest

\* Time keeps entries as they are, but for their ages.
LEMMA AgedEntries ==
    ASSUME NEW s \in Snapshots, NEW slot \in BOOLEAN
    PROVE  /\ Aged(s, slot) \in Snapshots
           /\ Len(Aged(s, slot).entries) = Len(s.entries)
           /\ DOMAIN Aged(s, slot).entries = DOMAIN s.entries
           /\ \A k \in DOMAIN s.entries : Aged(s, slot).entries[k] = Older(s.entries[k])
           /\ Aged(s, slot).ready = s.ready
           /\ Aged(s, slot).finalizer = s.finalizer
           /\ Aged(s, slot).exists = s.exists
           /\ s.last # "never" => Aged(s, slot).last # "never"
<1> DEFINE es == [k \in DOMAIN s.entries |-> Older(s.entries[k])]
           t == Aged(s, slot)
<1>1. s.entries \in Seq(Entries) /\ s.last \in Lasts
  BY SnapFields
<1>2. \A e \in Entries : Older(e) \in Entries
  <2>1. Horizon \in Nat
    BY SnapshotAssumption DEF Horizon
  <2> QED  BY <2>1 DEF Older, Entries
<1>3. es \in Seq(Entries) /\ Len(es) = Len(s.entries) /\ DOMAIN es = DOMAIN s.entries
  <2>1. Len(s.entries) \in Nat /\ DOMAIN s.entries = 1..Len(s.entries)
    BY <1>1
  <2>2. \A k \in 1..Len(s.entries) : Older(s.entries[k]) \in Entries
    BY <1>1, <1>2, <2>1
  <2> HIDE DEF Older
  <2>3. es = [k \in 1..Len(s.entries) |-> Older(s.entries[k])]
    BY <2>1
  <2> QED  BY <2>1, <2>2, <2>3
<1>4. t.entries = es /\ t.ready = s.ready /\ t.finalizer = s.finalizer /\ t.exists = s.exists
      /\ t.deleting = s.deleting
      /\ t.last = IF slot /\ s.last = "recent" THEN "due" ELSE s.last
  BY DEF Aged, Snapshots
<1>5. t.last \in Lasts
  BY <1>1, <1>4 DEF Lasts
<1>6. t \in Snapshots
  BY <1>1, <1>3, <1>5, <1>4 DEF Aged, Snapshots
<1> QED  BY <1>1, <1>3, <1>4, <1>6

LEMMA AgedGood ==
    ASSUME NEW s, NEW vols, NEW sched, NEW slot \in BOOLEAN, Good(s, vols, sched)
    PROVE  Good(Aged(s, slot), vols, sched)
<1> DEFINE t == Aged(s, slot)
<1>1. s \in Snapshots /\ s.entries \in Seq(Entries)
  BY SnapFields DEF Good
<1>2. /\ t \in Snapshots /\ Len(t.entries) = Len(s.entries) /\ DOMAIN t.entries = DOMAIN s.entries
      /\ \A k \in DOMAIN s.entries : t.entries[k] = Older(s.entries[k])
      /\ t.ready = s.ready /\ (s.last # "never" => t.last # "never")
  BY <1>1, AgedEntries
<1> HIDE DEF t
<1>3. t.entries \in Seq(Entries) /\ (t.entries # <<>> <=> s.entries # <<>>)
  <2>1. t.entries \in Seq(Entries)
    BY <1>2, SnapFields
  <2> QED  BY <1>1, <1>2, <2>1
<1>4. InOrder(t.entries)
  <2> SUFFICES ASSUME NEW j \in DOMAIN s.entries, NEW k \in DOMAIN s.entries, j =< k
               PROVE  t.entries[k].age =< t.entries[j].age
    BY <1>2 DEF InOrder
  <2>1. s.entries[j] \in Entries /\ s.entries[k] \in Entries
    BY <1>1
  <2>2. s.entries[k].age =< s.entries[j].age
    BY DEF Good, InOrder
  <2>3. Horizon \in Nat
    BY SnapshotAssumption DEF Horizon
  <2>4. Older(s.entries[k]).age =< Older(s.entries[j]).age
    BY <2>1, <2>2, <2>3 DEF Older, Entries
  <2> QED  BY <1>2, <2>4
<1>5. s.entries # <<>> => Latest(t).volume = Latest(s).volume
  <2> SUFFICES ASSUME s.entries # <<>>
               PROVE  Latest(t).volume = Latest(s).volume
    OBVIOUS
  <2>1. Len(s.entries) \in DOMAIN s.entries
    BY <1>1
  <2>2. s.entries[Len(s.entries)] \in Entries
    BY <1>1, <2>1
  <2>3. Latest(t) = Older(Latest(s))
    BY <1>2, <2>1 DEF Latest
  <2> QED  BY <2>2, <2>3 DEF Latest, Older, Entries
<1>6. Ready(t, vols) /\ Taken(t) /\ Once(t, sched)
  BY <1>2, <1>3, <1>5 DEF Good, Ready, Taken, Once
<1> QED  BY <1>2, <1>4, <1>6 DEF Good, t

\* A new entry keeps the order, provided the condition was taken back and a
\* one-shot has no entry yet.
LEMMA RecordedGood ==
    ASSUME NEW s, NEW t \in Snapshots, NEW vols, NEW sched, NEW e \in Entries, e.age = 0,
           Good(s, vols, sched), sched = "none" => s.entries = <<>>,
           t.entries = Append(s.entries, e), t.last = "recent", ~t.ready
    PROVE  Good(t, vols, sched) /\ Extends(t, s)
<1>1. s \in Snapshots /\ s.entries \in Seq(Entries)
  BY SnapFields DEF Good
<1>4. /\ Len(t.entries) = Len(s.entries) + 1 /\ Len(s.entries) \in Nat
      /\ DOMAIN t.entries = 1..(Len(s.entries) + 1) /\ DOMAIN s.entries = 1..Len(s.entries)
      /\ \A k \in 1..Len(s.entries) : t.entries[k] = s.entries[k]
      /\ t.entries[Len(s.entries) + 1] = e
  <2>1. Len(s.entries) \in Nat /\ DOMAIN s.entries = 1..Len(s.entries)
    BY <1>1
  <2> DEFINE es == s.entries
             new == Append(es, e)
  <2>2. es \in Seq(Entries)
    BY <1>1
  <2> HIDE DEF es
  <2>3. /\ Len(new) = Len(es) + 1 /\ DOMAIN new = 1..(Len(es) + 1)
        /\ \A k \in 1..Len(es) : new[k] = es[k]
        /\ new[Len(es) + 1] = e
    BY <2>2
  <2> QED  BY <2>1, <2>3 DEF es
<1>5. InOrder(t.entries)
  <2> SUFFICES ASSUME NEW j \in DOMAIN t.entries, NEW k \in DOMAIN t.entries, j =< k
               PROVE  t.entries[k].age =< t.entries[j].age
    BY DEF InOrder
  <2>1. CASE k = Len(s.entries) + 1
    <3>0. t.entries \in Seq(Entries)
      BY SnapFields
    <3>1. t.entries[j] \in Entries
      BY <3>0
    <3>2. t.entries[j].age \in Nat
      BY <3>1, EntryAge
    <3> QED  BY <1>4, <2>1, <3>2
  <2>2. CASE k # Len(s.entries) + 1
    <3>1. j \in DOMAIN s.entries /\ k \in DOMAIN s.entries
      BY <1>4, <2>2
    <3> QED  BY <1>4, <3>1 DEF Good, InOrder
  <2> QED  BY <2>1, <2>2
<1>6. Ready(t, vols) /\ Taken(t)
  BY DEF Ready, Taken
<1>7. Once(t, sched)
  BY <1>4 DEF Once
<1>8. Extends(t, s)
  BY <1>4 DEF Extends
<1> QED  BY <1>5, <1>6, <1>7, <1>8 DEF Good

\* What retention leaves of a good GameSnapshot is good.
LEMMA KeptGood ==
    ASSUME NEW s, NEW vols, NEW sched, NEW t, Good(s, vols, sched), t = [s EXCEPT !.entries = Kept(s.entries)]
    PROVE  Good(t, vols, sched)
<1>1. s \in Snapshots /\ s.entries \in Seq(Entries) /\ InOrder(s.entries)
  BY SnapFields DEF Good
<1> DEFINE kept == Kept(s.entries)
<1>2. /\ kept \in Seq(Entries) /\ Len(kept) =< Len(s.entries) /\ InOrder(kept)
      /\ kept # <<>> => s.entries # <<>> /\ kept[Len(kept)] = s.entries[Len(s.entries)]
  BY <1>1, KeptSound
<1> HIDE DEF kept
<1>3. t \in Snapshots /\ t.entries = kept /\ t.last = s.last /\ t.ready = s.ready
  BY <1>1, <1>2 DEF Snapshots, kept
<1>4. Ready(t, vols) /\ Taken(t)
  BY <1>2, <1>3 DEF Good, Ready, Taken, Latest
<1>5. Once(t, sched)
  <2>1. Len(kept) \in Nat /\ Len(s.entries) \in Nat
    BY <1>1, <1>2
  <2> QED  BY <1>2, <1>3, <2>1 DEF Good, Once
<1> QED  BY <1>2, <1>3, <1>4, <1>5 DEF Good

\* A copy extends itself, and times change nothing of that.
LEMMA AgedExtends ==
    ASSUME NEW s \in Snapshots, NEW t \in Snapshots, NEW slot \in BOOLEAN
    PROVE  /\ Extends(s, t) => Extends(Aged(s, slot), Aged(t, slot))
           /\ s.entries = t.entries => Aged(s, slot).entries = Aged(t, slot).entries
<1>1. s.entries \in Seq(Entries) /\ t.entries \in Seq(Entries)
  BY SnapFields
<1> DEFINE a == Aged(s, slot)
           b == Aged(t, slot)
<1>2. /\ Len(a.entries) = Len(s.entries) /\ DOMAIN a.entries = DOMAIN s.entries
      /\ \A k \in DOMAIN s.entries : a.entries[k] = Older(s.entries[k])
      /\ Len(b.entries) = Len(t.entries) /\ DOMAIN b.entries = DOMAIN t.entries
      /\ \A k \in DOMAIN t.entries : b.entries[k] = Older(t.entries[k])
  BY AgedEntries
<1>3. a.entries = [k \in DOMAIN s.entries |-> Older(s.entries[k])]
      /\ b.entries = [k \in DOMAIN t.entries |-> Older(t.entries[k])]
  BY DEF Aged, Snapshots
<1> HIDE DEF a, b
<1>4. Extends(s, t) => Extends(a, b)
  <2> SUFFICES ASSUME Extends(s, t)
               PROVE  Extends(a, b)
    OBVIOUS
  <2>1. Len(b.entries) =< Len(a.entries)
    BY <1>2 DEF Extends
  <2>2. ASSUME NEW k \in DOMAIN b.entries
        PROVE  a.entries[k] = b.entries[k]
    <3>1. k \in DOMAIN t.entries /\ k \in DOMAIN s.entries
      BY <1>1, <1>2 DEF Extends
    <3> QED  BY <1>2, <3>1 DEF Extends
  <2> QED  BY <2>1, <2>2 DEF Extends
<1> QED  BY <1>3, <1>4 DEF a, b

\* Whoever has the same entries extends.
LEMMA SameExtends ==
    ASSUME NEW s \in Snapshots, NEW t \in Snapshots, s.entries = t.entries
    PROVE  Extends(s, t)
<1>1. Len(t.entries) \in Nat
  BY SnapFields
<1> QED  BY <1>1 DEF Extends

-----------------------------------------------------------------------------
(* Writes *)

\* What a write attempt leaves: the object as written, or as it was.
LEMMA WriteOutcome ==
    ASSUME NEW s, used \in Uses, TryWrite(s)
    PROVE  /\ cache' = cache /\ used' \in Uses /\ used'.created = used.created
           /\ used'.faults >= used.faults
           /\ \/ copyCurrent /\ snap' = s /\ current' = FALSE
              \/ snap' = snap /\ current' = current
<1>1. CASE Accepted(s)
  BY <1>1 DEF Accepted, Uses
<1>2. CASE Refused
  BY <1>2 DEF Refused, Fault, snapVars, Uses
<1> QED  BY <1>1, <1>2 DEF TryWrite

-----------------------------------------------------------------------------
(* Steps: types *)

Flags == current \in BOOLEAN /\ copyCurrent \in BOOLEAN /\ server \in BOOLEAN /\ queued \in BOOLEAN

States == {"none", "pending", "ready", "failed", "deleted"}

Places == {"idle", "monitor", "saving", "save", "create", "record", "check", "retain", "failed"}

Data ==
    /\ schedule \in Schedules
    /\ volumes \in [Volumes -> States]
    /\ phase \in 0..(Period - 1)
    /\ timer \in {"off", "slot", "soon"}
    /\ pc \in Places

LEMMA TypeParts ==
    TypeOK <=> snap \in Snapshots /\ cache \in Snapshots /\ copy \in Snapshots /\ Flags /\ Data
BY DEF TypeOK, Flags, Data, States, Places

LEMMA FlagsStep ==
    ASSUME Flags, snap \in Snapshots, Next
    PROVE  Flags'
<1> USE DEF Flags
<1>1. CASE CreateSnapshot
  BY <1>1, Zenon DEF CreateSnapshot, Write, envVars
<1>2. CASE TouchSnapshot
  BY <1>2, Zenon DEF TouchSnapshot, Write, envVars
<1>3. CASE DeleteSnapshot
  BY <1>3, Zenon DEF DeleteSnapshot, Write, envVars
<1>4. CASE ChangeServer
  BY <1>4, Zenon DEF ChangeServer, snapVars, workVars
<1>5. CASE \E v \in Volumes : VolumeDone(v)
  BY <1>5, Zenon DEF VolumeDone, snapVars, envVars, workVars
<1>6. CASE Tick
  BY <1>6, Zenon DEF Tick
<1>7. CASE SnapSync
  BY <1>7, Zenon DEF SnapSync, envVars, workVars
<1>8. CASE TimerFires
  BY <1>8, Zenon DEF TimerFires, snapVars, envVars, workVars
<1>9. CASE Skip \/ NotDue
  BY <1>9, Zenon DEF Skip, NotDue, snapVars, envVars, workVars
<1>10. CASE HandleFinalizer
  BY <1>10, Zenon DEF HandleFinalizer, envVars, workVars
<1>11. CASE GiveUp \/ BeginMonitor \/ BeginSnapshot
  BY <1>11, Zenon DEF GiveUp, BeginMonitor, BeginSnapshot, Fetch, snapVars, envVars
<1>12. ASSUME NEW s, TryWrite(s)
       PROVE  current' \in BOOLEAN
  BY <1>12, Zenon DEF TryWrite, Accepted, Refused, snapVars
<1>13. CASE Monitor
  <2>1. current' \in BOOLEAN
    BY <1>12, <1>13, Zenon DEF Monitor, snapVars
  <2> QED  BY <1>13, <2>1, Zenon DEF Monitor, Return, envVars
<1>14. CASE Saving \/ Save
  <2>1. current' \in BOOLEAN
    BY <1>12, <1>14, Zenon DEF Saving, Save
  <2> QED  BY <1>14, <2>1, Zenon DEF Saving, Save, envVars
<1>15. CASE CreateVolume \/ CreateFails
  BY <1>15, Zenon DEF CreateVolume, CreateFails, snapVars, envVars
<1>16. CASE Record
  BY <1>16, Zenon DEF Record, Accepted, Refused, snapVars, envVars
<1>17. CASE CheckReady
  <2>1. current' \in BOOLEAN
    BY <1>12, <1>17, Zenon DEF CheckReady, snapVars
  <2> QED  BY <1>17, <2>1, Zenon DEF CheckReady, envVars
<1>18. CASE Failed
  <2>1. current' \in BOOLEAN
    BY <1>12, <1>18, Zenon DEF Failed
  <2> QED  BY <1>18, <2>1, Zenon DEF Failed, Return, envVars
<1>19. CASE EnforceRetention
  <2>1. current' \in BOOLEAN
    BY <1>12, <1>19, Zenon DEF EnforceRetention, snapVars
  <2> QED  BY <1>19, <2>1, Zenon DEF EnforceRetention, Return, envVars
<1>20. CASE Crash
  <2>1. queued' \in BOOLEAN
    BY <1>20, SnapFields, Zenon DEF Crash
  <2> QED  BY <1>20, <2>1, Zenon DEF Crash, envVars
<1> QED  BY <1>1, <1>2, <1>3, <1>4, <1>5, <1>6, <1>7, <1>8, <1>9, <1>10, <1>11, <1>13, <1>14,
            <1>15, <1>16, <1>17, <1>18, <1>19, <1>20 DEF Next, Env, Work

LEMMA DataStep ==
    ASSUME Data, Next
    PROVE  Data' /\ schedule' = schedule /\ Lasting(volumes, volumes')
<1> USE DEF Data, Places, Lasting
<1>1. CASE CreateSnapshot \/ TouchSnapshot \/ DeleteSnapshot
  BY <1>1 DEF CreateSnapshot, TouchSnapshot, DeleteSnapshot, Write, envVars
<1>4. CASE ChangeServer
  BY <1>4 DEF ChangeServer, snapVars, workVars
<1>5. CASE \E v \in Volumes : VolumeDone(v)
  BY <1>5 DEF VolumeDone, snapVars, envVars, workVars, States
<1>6. CASE Tick
  <2>1. phase' \in 0..(Period - 1)
    BY <1>6, SnapshotAssumption DEF Tick
  <2> QED  BY <1>6, <2>1 DEF Tick
<1>7. CASE SnapSync
  BY <1>7 DEF SnapSync, envVars, workVars
<1>8. CASE TimerFires
  BY <1>8 DEF TimerFires, snapVars, envVars, workVars
<1>9. CASE Skip \/ NotDue
  BY <1>9 DEF Skip, NotDue, snapVars, envVars, workVars
<1>10. CASE HandleFinalizer
  BY <1>10 DEF HandleFinalizer, envVars, workVars
<1>11. CASE GiveUp \/ BeginMonitor \/ BeginSnapshot
  BY <1>11 DEF GiveUp, BeginMonitor, BeginSnapshot, Fetch, snapVars, envVars
<1>13. CASE Monitor
  BY <1>13 DEF Monitor, Return, envVars
<1>14. CASE Saving \/ Save
  BY <1>14 DEF Saving, Save, envVars
<1>15. CASE CreateVolume
  BY <1>15 DEF CreateVolume, snapVars, envVars, Unborn, States
<1>151. CASE CreateFails
  BY <1>151 DEF CreateFails, snapVars, envVars
<1>16. CASE Record
  BY <1>16 DEF Record, Accepted, Refused, snapVars, envVars
<1>17. CASE CheckReady
  BY <1>17 DEF CheckReady, envVars
<1>18. CASE Failed
  BY <1>18 DEF Failed, Return, envVars
<1>19. CASE EnforceRetention
  <2>1. volumes' \in [Volumes -> States]
        /\ \A v \in Volumes : volumes'[v] \in {volumes[v], "deleted"}
    BY <1>19 DEF EnforceRetention, States
  <2> QED  BY <1>19, <2>1 DEF EnforceRetention, Return, envVars
<1>20. CASE Crash
  BY <1>20 DEF Crash, envVars
<1> QED  BY <1>1, <1>4, <1>5, <1>6, <1>7, <1>8, <1>9, <1>10, <1>11, <1>13, <1>14,
            <1>15, <1>151, <1>16, <1>17, <1>18, <1>19, <1>20 DEF Next, Env, Work

-----------------------------------------------------------------------------
(* Steps: what the controller knows *)

Rest == used \in Uses /\ AllGood /\ Control

\* The parts of the invariant as the steps below use them.
LEMMA Parts ==
    ASSUME IInv
    PROVE  /\ Flags /\ Data /\ used \in Uses
           /\ snap \in Snapshots /\ cache \in Snapshots /\ copy \in Snapshots
           /\ Good(snap, volumes, schedule) /\ Good(cache, volumes, schedule)
           /\ Good(copy, volumes, schedule)
           /\ Synced /\ Uncreated /\ Copied /\ Stage
BY TypeParts DEF IInv, AllGood, Control

\* Steps of clients and of the environment.
LEMMA EnvStep ==
    ASSUME IInv, Next, Env
    PROVE  Rest'
<1>0. /\ Flags /\ Data /\ used \in Uses
      /\ snap \in Snapshots /\ cache \in Snapshots /\ copy \in Snapshots
      /\ Good(snap, volumes, schedule) /\ Good(cache, volumes, schedule)
      /\ Good(copy, volumes, schedule)
      /\ Synced /\ Uncreated /\ Copied /\ Stage
  BY Parts
<1>sched. schedule' = schedule /\ Lasting(volumes, volumes')
  BY <1>0, DataStep
<1>good. ASSUME NEW s, Good(s, volumes, schedule)
         PROVE  Good(s, volumes', schedule')
  BY <1>good, <1>sched, GoodLasts
<1>1. CASE CreateSnapshot
  <2> DEFINE t == [NoSnap EXCEPT !.exists = TRUE]
  <2>1. /\ snap' = t /\ current' = FALSE /\ copyCurrent' = FALSE /\ cache' = cache
        /\ pc' = pc /\ copy' = copy /\ volumes' = volumes
        /\ used' = [used EXCEPT !.created = TRUE] /\ ~used.created
    BY <1>1 DEF CreateSnapshot, Write
  <2>2. t \in Snapshots /\ t.entries = NoSnap.entries /\ t.last = NoSnap.last /\ ~t.ready
    <3>1. NoSnap \in Snapshots
      BY NoSnapGood DEF Good
    <3>2. ~NoSnap.ready
      BY DEF NoSnap
    <3> QED  BY <3>1, <3>2 DEF Snapshots
  <2> HIDE DEF t
  <2>3. Good(t, volumes, schedule)
    BY <2>2, NoSnapGood, GoodEdit
  <2>4. AllGood'
    BY <1>0, <1>good, <2>1, <2>3 DEF AllGood
  <2>5. used' \in Uses /\ used'.created
    BY <1>0, <2>1 DEF Uses
  <2>6. pc = "idle"
    BY <1>0, <2>1 DEF Uncreated
  <2>7. Synced' /\ Uncreated' /\ Copied' /\ Stage'
    BY <2>1, <2>5, <2>6 DEF Synced, Uncreated, Copied, Stage
  <2> QED  BY <2>4, <2>5, <2>7 DEF Rest, Control
<1>2. CASE TouchSnapshot
  <2>1. /\ snap' = snap /\ current' = FALSE /\ copyCurrent' = FALSE /\ cache' = cache
        /\ pc' = pc /\ copy' = copy /\ volumes' = volumes
        /\ used' = [used EXCEPT !.edits = @ + 1]
    BY <1>2 DEF TouchSnapshot, Write
  <2>2. AllGood'
    BY <1>0, <1>good, <2>1 DEF AllGood
  <2>3. used' \in Uses /\ used'.created = used.created
    BY <1>0, <2>1 DEF Uses
  <2>4. Synced' /\ Uncreated' /\ Copied' /\ Stage'
    BY <1>0, <1>sched, <2>1, <2>3 DEF Synced, Uncreated, Copied, Stage
  <2> QED  BY <2>2, <2>3, <2>4 DEF Rest, Control
<1>3. CASE DeleteSnapshot
  <2>1. /\ snap' = IF snap.finalizer THEN [snap EXCEPT !.deleting = TRUE] ELSE NoSnap
        /\ current' = FALSE /\ copyCurrent' = FALSE /\ cache' = cache
        /\ pc' = pc /\ copy' = copy /\ volumes' = volumes /\ used' = used /\ snap.exists
    BY <1>3 DEF DeleteSnapshot, Write
  <2>2. used.created
    BY <1>0, <2>1 DEF Uncreated, NoSnap
  <2>3. CASE snap.finalizer
    <3> DEFINE t == [snap EXCEPT !.deleting = TRUE]
    <3>1. /\ t \in Snapshots /\ t.entries = snap.entries /\ t.last = snap.last
          /\ t.ready = snap.ready /\ t.finalizer
      BY <1>0, <2>3 DEF Snapshots
    <3> HIDE DEF t
    <3>2. snap' = t
      BY <2>1, <2>3 DEF t
    <3>3. Good(t, volumes, schedule)
      BY <1>0, <3>1, GoodEdit
    <3>4. AllGood'
      BY <1>0, <1>good, <2>1, <3>2, <3>3 DEF AllGood
    <3>5. Synced' /\ Uncreated' /\ Copied' /\ Stage'
      BY <1>0, <1>sched, <2>1, <2>2, <3>1, <3>2 DEF Synced, Uncreated, Copied, Stage
    <3> QED  BY <1>0, <2>1, <3>4, <3>5 DEF Rest, Control
  <2>4. CASE ~snap.finalizer
    <3>1. snap' = NoSnap
      BY <2>1, <2>4
    <3>2. AllGood'
      BY <1>0, <1>good, <2>1, <3>1, NoSnapGood DEF AllGood
    <3>3. Synced' /\ Uncreated' /\ Copied' /\ Stage'
      BY <1>0, <1>sched, <2>1, <2>2, <2>4 DEF Synced, Uncreated, Copied, Stage
    <3> QED  BY <1>0, <2>1, <3>2, <3>3 DEF Rest, Control
  <2> QED  BY <2>3, <2>4
<1>4. CASE ChangeServer
  <2>1. /\ snap' = snap /\ cache' = cache /\ current' = current /\ copyCurrent' = copyCurrent
        /\ pc' = pc /\ copy' = copy /\ volumes' = volumes
        /\ used' = [used EXCEPT !.edits = @ + 1]
    BY <1>4 DEF ChangeServer, snapVars, workVars
  <2>2. AllGood'
    BY <1>0, <1>good, <2>1 DEF AllGood
  <2>3. used' \in Uses /\ used'.created = used.created
    BY <1>0, <2>1 DEF Uses
  <2>4. Synced' /\ Uncreated' /\ Copied' /\ Stage'
    BY <1>0, <1>sched, <2>1, <2>3 DEF Synced, Uncreated, Copied, Stage
  <2> QED  BY <2>2, <2>3, <2>4 DEF Rest, Control
<1>5. CASE \E v \in Volumes : VolumeDone(v)
  <2>1. /\ snap' = snap /\ cache' = cache /\ current' = current /\ copyCurrent' = copyCurrent
        /\ pc' = pc /\ copy' = copy /\ used' = used
    BY <1>5 DEF VolumeDone, snapVars, workVars
  <2>2. AllGood'
    BY <1>0, <1>good, <2>1 DEF AllGood
  <2>3. Synced' /\ Uncreated' /\ Copied' /\ Stage'
    BY <1>0, <1>sched, <2>1 DEF Synced, Uncreated, Copied, Stage
  <2> QED  BY <1>0, <2>1, <2>2, <2>3 DEF Rest, Control
<1> QED  BY <1>1, <1>2, <1>3, <1>4, <1>5 DEF Env

\* Time, the watch, the timer and restarts.
LEMMA OutsideStep ==
    ASSUME IInv, Next, Tick \/ SnapSync \/ TimerFires \/ Crash
    PROVE  Rest'
<1>0. /\ Flags /\ Data /\ used \in Uses
      /\ snap \in Snapshots /\ cache \in Snapshots /\ copy \in Snapshots
      /\ Good(snap, volumes, schedule) /\ Good(cache, volumes, schedule)
      /\ Good(copy, volumes, schedule)
      /\ Synced /\ Uncreated /\ Copied /\ Stage
  BY Parts
<1>sched. schedule' = schedule /\ Lasting(volumes, volumes')
  BY <1>0, DataStep
<1>good. ASSUME NEW s, Good(s, volumes, schedule)
         PROVE  Good(s, volumes', schedule')
  BY <1>good, <1>sched, GoodLasts
<1>1. CASE Tick
  <2> DEFINE slot == phase = Period - 1
  <2>0. slot \in BOOLEAN
    OBVIOUS
  <2>1. /\ snap' = Aged(snap, slot) /\ cache' = Aged(cache, slot) /\ copy' = Aged(copy, slot)
        /\ current' = current /\ copyCurrent' = copyCurrent
        /\ pc' = pc /\ volumes' = volumes /\ used' = used
    BY <1>1 DEF Tick
  <2> HIDE DEF slot
  <2>2. AllGood'
    BY <1>0, <1>good, <2>0, <2>1, AgedGood DEF AllGood
  <2>3. Synced'
    BY <1>0, <2>1 DEF Synced
  <2>4. Aged(NoSnap, slot) = NoSnap
    <3>1. [k \in DOMAIN NoSnap.entries |-> Older(NoSnap.entries[k])] = <<>>
      BY DEF NoSnap
    <3>2. NoSnap.entries = <<>> /\ NoSnap.last = "never" /\ NoSnap \in Snapshots
      BY NoSnapGood DEF NoSnap, Good
    <3>3. Aged(NoSnap, slot) = [NoSnap EXCEPT !.entries = NoSnap.entries, !.last = NoSnap.last]
      BY <3>1, <3>2 DEF Aged
    <3> QED  BY <3>2, <3>3 DEF Snapshots
  <2>5. Uncreated'
    BY <1>0, <2>1, <2>4 DEF Uncreated
  <2>6. /\ Aged(snap, slot).finalizer = snap.finalizer
        /\ Aged(copy, slot).finalizer = copy.finalizer
        /\ Aged(copy, slot).ready = copy.ready
    BY <1>0, <2>0, AgedEntries
  <2>7. Copied'
    <3>1. /\ Extends(copy, snap) => Extends(copy', snap')
          /\ copy.entries = snap.entries => copy'.entries = snap'.entries
      BY <1>0, <2>0, <2>1, AgedExtends
    <3> QED  BY <1>0, <2>1, <2>6, <3>1 DEF Copied
  <2>8. copy.entries = <<>> => copy'.entries = <<>>
    <3>1. Len(copy'.entries) = Len(copy.entries) /\ copy' \in Snapshots
      BY <1>0, <2>0, <2>1, AgedEntries
    <3>2. copy'.entries \in Seq(Entries) /\ copy.entries \in Seq(Entries)
      BY <1>0, <3>1, SnapFields
    <3> QED  BY <3>1, <3>2
  <2>9. Stage'
    BY <1>0, <1>sched, <2>1, <2>6, <2>8 DEF Stage
  <2> QED  BY <1>0, <2>1, <2>2, <2>3, <2>5, <2>7, <2>9 DEF Rest, Control
<1>2. CASE SnapSync
  <2>1. /\ snap' = snap /\ cache' = snap /\ copyCurrent' = copyCurrent
        /\ pc' = pc /\ copy' = copy /\ volumes' = volumes /\ used' = used
    BY <1>2 DEF SnapSync, workVars
  <2>2. AllGood'
    BY <1>0, <1>good, <2>1 DEF AllGood
  <2>3. Synced' /\ Uncreated' /\ Copied' /\ Stage'
    BY <1>0, <1>sched, <2>1 DEF Synced, Uncreated, Copied, Stage
  <2> QED  BY <1>0, <2>1, <2>2, <2>3 DEF Rest, Control
<1>3. CASE TimerFires
  <2>1. /\ snap' = snap /\ cache' = cache /\ current' = current /\ copyCurrent' = copyCurrent
        /\ pc' = pc /\ copy' = copy /\ volumes' = volumes /\ used' = used
    BY <1>3 DEF TimerFires, snapVars, workVars
  <2>2. AllGood'
    BY <1>0, <1>good, <2>1 DEF AllGood
  <2>3. Synced' /\ Uncreated' /\ Copied' /\ Stage'
    BY <1>0, <1>sched, <2>1 DEF Synced, Uncreated, Copied, Stage
  <2> QED  BY <1>0, <2>1, <2>2, <2>3 DEF Rest, Control
<1>4. CASE Crash
  <2>1. /\ snap' = snap /\ cache' = snap /\ copyCurrent' = FALSE
        /\ pc' = "idle" /\ copy' = NoSnap /\ volumes' = volumes
        /\ used' = [used EXCEPT !.crashes = @ + 1]
    BY <1>4 DEF Crash
  <2>2. AllGood'
    BY <1>0, <1>good, <2>1, NoSnapGood DEF AllGood
  <2>3. used' \in Uses /\ used'.created = used.created
    BY <1>0, <2>1 DEF Uses
  <2>4. Synced' /\ Uncreated' /\ Copied' /\ Stage'
    BY <1>0, <1>sched, <2>1, <2>3 DEF Synced, Uncreated, Copied, Stage
  <2> QED  BY <2>2, <2>3, <2>4 DEF Rest, Control
<1> QED  BY <1>1, <1>2, <1>3, <1>4

\* The reconcile up to its copy of the GameSnapshot.
LEMMA BeginStep ==
    ASSUME IInv, Next,
           Skip \/ NotDue \/ HandleFinalizer \/ GiveUp \/ BeginMonitor \/ BeginSnapshot
    PROVE  Rest'
<1>0. /\ Flags /\ Data /\ used \in Uses
      /\ snap \in Snapshots /\ cache \in Snapshots /\ copy \in Snapshots
      /\ Good(snap, volumes, schedule) /\ Good(cache, volumes, schedule)
      /\ Good(copy, volumes, schedule)
      /\ Synced /\ Uncreated /\ Copied /\ Stage
  BY Parts
<1>sched. schedule' = schedule /\ Lasting(volumes, volumes')
  BY <1>0, DataStep
<1>good. ASSUME NEW s, Good(s, volumes, schedule)
         PROVE  Good(s, volumes', schedule')
  BY <1>good, <1>sched, GoodLasts
<1>1. CASE Skip \/ NotDue
  <2>1. /\ snap' = snap /\ cache' = cache /\ current' = current /\ copyCurrent' = copyCurrent
        /\ pc' = pc /\ copy' = copy /\ volumes' = volumes /\ used' = used
    BY <1>1 DEF Skip, NotDue, snapVars, workVars
  <2>2. AllGood'
    BY <1>0, <1>good, <2>1 DEF AllGood
  <2>3. Synced' /\ Uncreated' /\ Copied' /\ Stage'
    BY <1>0, <1>sched, <2>1 DEF Synced, Uncreated, Copied, Stage
  <2> QED  BY <1>0, <2>1, <2>2, <2>3 DEF Rest, Control
<1>2. CASE HandleFinalizer
  <2>1. /\ snap' = IF cache.deleting THEN NoSnap ELSE [cache EXCEPT !.finalizer = TRUE]
        /\ cache.exists /\ current /\ cache' = cache /\ current' = FALSE
        /\ copyCurrent' = copyCurrent /\ pc' = pc /\ pc = "idle" /\ copy' = copy
        /\ volumes' = volumes /\ used' = used
    BY <1>2 DEF HandleFinalizer, workVars
  <2>2. cache = snap /\ used.created
    BY <1>0, <2>1 DEF Synced, Uncreated, NoSnap
  <2>3. CASE cache.deleting
    <3>1. snap' = NoSnap
      BY <2>1, <2>3
    <3>2. AllGood'
      BY <1>0, <1>good, <2>1, <3>1, NoSnapGood DEF AllGood
    <3>3. Extends(copy, NoSnap)
      <4>1. NoSnap.entries = <<>> /\ Len(NoSnap.entries) = 0 /\ DOMAIN NoSnap.entries = {}
        BY DEF NoSnap
      <4>2. Len(copy.entries) \in Nat
        BY <1>0, SnapFields
      <4> QED  BY <4>1, <4>2 DEF Extends
    <3>4. Synced' /\ Uncreated' /\ Copied' /\ Stage'
      BY <1>0, <1>sched, <2>1, <2>2, <3>1, <3>3 DEF Synced, Uncreated, Copied, Stage
    <3> QED  BY <1>0, <2>1, <3>2, <3>4 DEF Rest, Control
  <2>4. CASE ~cache.deleting
    <3> DEFINE t == [snap EXCEPT !.finalizer = TRUE]
    <3>1. t \in Snapshots /\ t.entries = snap.entries /\ t.last = snap.last /\ t.ready = snap.ready
      BY <1>0 DEF Snapshots
    <3> HIDE DEF t
    <3>2. snap' = t
      BY <2>1, <2>2, <2>4 DEF t
    <3>3. Good(t, volumes, schedule)
      BY <1>0, <3>1, GoodEdit
    <3>4. AllGood'
      BY <1>0, <1>good, <2>1, <3>2, <3>3 DEF AllGood
    <3>5. Synced' /\ Uncreated' /\ Copied' /\ Stage'
      BY <1>0, <1>sched, <2>1, <2>2, <3>1, <3>2 DEF Synced, Uncreated, Copied, Stage, Extends
    <3> QED  BY <1>0, <2>1, <3>4, <3>5 DEF Rest, Control
  <2> QED  BY <2>3, <2>4
<1>3. CASE GiveUp \/ BeginMonitor \/ BeginSnapshot
  <2>1. /\ cache.exists /\ cache.finalizer /\ copy' = cache /\ copyCurrent' = current
        /\ snap' = snap /\ cache' = cache /\ current' = current
        /\ volumes' = volumes /\ used' = used
        /\ pc' \in {"failed", "monitor", "saving"}
        /\ pc' = "saving" => ShouldTake(cache)
    BY <1>3 DEF GiveUp, BeginMonitor, BeginSnapshot, Fetch, snapVars
  <2>2. used.created
    BY <1>0, <2>1 DEF Uncreated, NoSnap
  <2>3. AllGood'
    BY <1>0, <1>good, <2>1 DEF AllGood
  <2>4. Extends(snap, snap)
    BY <1>0, SameExtends
  <2>5. Synced' /\ Uncreated' /\ Copied'
    BY <1>0, <2>1, <2>2, <2>4 DEF Synced, Uncreated, Copied
  <2>6. pc' = "saving" /\ schedule = "none" => cache.entries = <<>>
    BY <1>0, <2>1 DEF ShouldTake, Good, Taken
  <2>7. Stage'
    BY <1>sched, <2>1, <2>6 DEF Stage
  <2> QED  BY <1>0, <2>1, <2>3, <2>5, <2>7 DEF Rest, Control
<1> QED  BY <1>1, <1>2, <1>3

\* The reconcile at its end: it leaves the object as written or as it was.
LEMMA ReturnStep ==
    ASSUME IInv, Next, NEW t,
           Good(t, volumes, schedule), pc # "idle",
           cache' = cache, used' \in Uses, used'.created = used.created,
           \/ snap' = t /\ current' = FALSE
           \/ snap' = snap /\ current' = current,
           pc' = "idle", copy' = NoSnap, copyCurrent' = FALSE
    PROVE  Rest'
<1>0. /\ Flags /\ Data /\ used \in Uses
      /\ snap \in Snapshots /\ cache \in Snapshots /\ copy \in Snapshots
      /\ Good(snap, volumes, schedule) /\ Good(cache, volumes, schedule)
      /\ Good(copy, volumes, schedule)
      /\ Synced /\ Uncreated /\ Copied /\ Stage
  BY Parts
<1>sched. schedule' = schedule /\ Lasting(volumes, volumes')
  BY <1>0, DataStep
<1>good. ASSUME NEW s, Good(s, volumes, schedule)
         PROVE  Good(s, volumes', schedule')
  BY <1>good, <1>sched, GoodLasts
<1>2. Good(snap', volumes', schedule')
  BY <1>0, <1>good
<1>3. AllGood'
  BY <1>0, <1>2, <1>good, NoSnapGood DEF AllGood
<1>4. used.created
  BY <1>0 DEF Uncreated
<1>5. Synced' /\ Uncreated' /\ Copied' /\ Stage'
  BY <1>0, <1>4 DEF Synced, Uncreated, Copied, Stage
<1> QED  BY <1>3, <1>5 DEF Rest, Control

\* Monitoring and the end of a reconcile that failed.
LEMMA MonitorStep ==
    ASSUME IInv, Next, Monitor \/ Failed
    PROVE  Rest'
<1>0. /\ Flags /\ Data /\ used \in Uses
      /\ snap \in Snapshots /\ cache \in Snapshots /\ copy \in Snapshots
      /\ Good(snap, volumes, schedule) /\ Good(cache, volumes, schedule)
      /\ Good(copy, volumes, schedule)
      /\ Synced /\ Uncreated /\ Copied /\ Stage
  BY Parts
<1>sched. schedule' = schedule /\ Lasting(volumes, volumes')
  BY <1>0, DataStep
<1>good. ASSUME NEW s, Good(s, volumes, schedule)
         PROVE  Good(s, volumes', schedule')
  BY <1>good, <1>sched, GoodLasts
<1>1. ASSUME NEW t, Good(t, volumes, schedule), TryWrite(t), pc # "idle",
             pc' = "idle", copy' = NoSnap, copyCurrent' = FALSE
      PROVE  Rest'
  <2>1. /\ cache' = cache /\ used' \in Uses /\ used'.created = used.created
        /\ \/ snap' = t /\ current' = FALSE
           \/ snap' = snap /\ current' = current
    BY <1>0, <1>1, WriteOutcome
  <2> QED  BY <1>1, <2>1, ReturnStep
<1>2. CASE Failed
  BY <1>0, <1>1, <1>2 DEF Failed, Return
<1>3. CASE Monitor
  <2>1. pc = "monitor" /\ pc' = "idle" /\ copy' = NoSnap /\ copyCurrent' = FALSE
        /\ volumes' = volumes
    BY <1>3 DEF Monitor, Return
  <2> DEFINE off == [copy EXCEPT !.ready = FALSE]
             on == [copy EXCEPT !.ready = TRUE]
  <2>2. Good(off, volumes, schedule)
    <3>1. off \in Snapshots /\ off.entries = copy.entries /\ off.last = copy.last /\ ~off.ready
      BY <1>0 DEF Snapshots
    <3> HIDE DEF off
    <3> QED  BY <1>0, <3>1, GoodEdit
  <2>3. volumes[Latest(copy).volume] = "ready" => Good(on, volumes, schedule)
    <3>1. on \in Snapshots /\ on.entries = copy.entries /\ on.last = copy.last
      BY <1>0 DEF Snapshots
    <3> HIDE DEF on
    <3> QED  BY <1>0, <3>1 DEF Good, Ready, Taken, Once, InOrder, Latest
  <2>4. \/ TryWrite(off)
        \/ TryWrite(on) /\ volumes[Latest(copy).volume] = "ready"
        \/ UNCHANGED <<snapVars, used>>
    BY <1>3 DEF Monitor
  <2> HIDE DEF off, on
  <2>5. CASE UNCHANGED <<snapVars, used>>
    <3>1. snap' = snap /\ cache' = cache /\ current' = current /\ used' = used
      BY <2>5 DEF snapVars
    <3>2. AllGood'
      BY <1>0, <1>good, <2>1, <3>1, NoSnapGood DEF AllGood
    <3>3. Synced' /\ Uncreated' /\ Copied' /\ Stage'
      BY <1>0, <2>1, <3>1 DEF Synced, Uncreated, Copied, Stage
    <3> QED  BY <1>0, <3>1, <3>2, <3>3 DEF Rest, Control
  <2> QED  BY <1>1, <2>1, <2>2, <2>3, <2>4, <2>5
<1> QED  BY <1>2, <1>3

\* Taking a snapshot: the condition, the agent's save, the volume, the record.
LEMMA TakeStep ==
    ASSUME IInv, Next, Saving \/ Save \/ CreateVolume \/ CreateFails \/ Record
    PROVE  Rest'
<1>0. /\ Flags /\ Data /\ used \in Uses
      /\ snap \in Snapshots /\ cache \in Snapshots /\ copy \in Snapshots
      /\ Good(snap, volumes, schedule) /\ Good(cache, volumes, schedule)
      /\ Good(copy, volumes, schedule)
      /\ Synced /\ Uncreated /\ Copied /\ Stage
  BY Parts
<1>sched. schedule' = schedule /\ Lasting(volumes, volumes')
  BY <1>0, DataStep
<1>good. ASSUME NEW s, Good(s, volumes, schedule)
         PROVE  Good(s, volumes', schedule')
  BY <1>good, <1>sched, GoodLasts
<1>created. pc # "idle" => used.created
  BY <1>0 DEF Uncreated
<1>1. CASE Saving
  <2> DEFINE t == [copy EXCEPT !.ready = FALSE]
  <2>1. /\ pc = "saving" /\ pc' = "save" /\ TryWrite(t) /\ copy' = t
        /\ copyCurrent' = copyCurrent /\ volumes' = volumes
    BY <1>1 DEF Saving
  <2>2. /\ t \in Snapshots /\ t.entries = copy.entries /\ t.last = copy.last /\ ~t.ready
        /\ t.finalizer = copy.finalizer
    BY <1>0 DEF Snapshots
  <2> HIDE DEF t
  <2>3. Good(t, volumes, schedule)
    BY <1>0, <2>2, GoodEdit
  <2>4. /\ cache' = cache /\ used' \in Uses /\ used'.created = used.created
        /\ \/ copyCurrent /\ snap' = t /\ current' = FALSE
           \/ snap' = snap /\ current' = current
    BY <1>0, <2>1, WriteOutcome
  <2>5. AllGood'
    BY <1>0, <1>good, <2>1, <2>3, <2>4 DEF AllGood
  <2>6. Synced' /\ Uncreated'
    BY <1>0, <1>created, <2>1, <2>4 DEF Synced, Uncreated
  <2>7. copyCurrent => t.entries = snap'.entries /\ Extends(t, snap')
    <3>1. copyCurrent => copy.entries = snap.entries
      BY <1>0, <2>1 DEF Copied
    <3>2. snap' \in Snapshots
      BY <2>5 DEF AllGood, Good
    <3> QED  BY <2>2, <2>4, <3>1, <3>2, SameExtends
  <2>8. Copied'
    BY <2>1, <2>7 DEF Copied
  <2>9. Stage'
    BY <1>0, <1>sched, <2>1, <2>2 DEF Stage
  <2> QED  BY <2>4, <2>5, <2>6, <2>8, <2>9 DEF Rest, Control
<1>2. CASE Save
  <2>1. /\ pc = "save" /\ pc' = "create" /\ TryWrite(copy) /\ copy' = copy
        /\ copyCurrent' = copyCurrent /\ volumes' = volumes
    BY <1>2 DEF Save
  <2>4. /\ cache' = cache /\ used' \in Uses /\ used'.created = used.created
        /\ \/ copyCurrent /\ snap' = copy /\ current' = FALSE
           \/ snap' = snap /\ current' = current
    BY <1>0, <2>1, WriteOutcome
  <2>5. AllGood'
    BY <1>0, <1>good, <2>1, <2>4 DEF AllGood
  <2>6. Synced' /\ Uncreated'
    BY <1>0, <1>created, <2>1, <2>4 DEF Synced, Uncreated
  <2>7. copyCurrent => copy.entries = snap'.entries /\ Extends(copy, snap')
    <3>1. copyCurrent => copy.entries = snap.entries
      BY <1>0, <2>1 DEF Copied
    <3> QED  BY <1>0, <2>4, <3>1, SameExtends
  <2>8. Copied'
    BY <2>1, <2>7 DEF Copied
  <2>9. Stage'
    BY <1>0, <1>sched, <2>1 DEF Stage
  <2> QED  BY <2>4, <2>5, <2>6, <2>8, <2>9 DEF Rest, Control
<1>3. CASE CreateVolume
  <2>1. /\ pc = "create" /\ pc' = "record" /\ copyCurrent' = copyCurrent
        /\ snap' = snap /\ cache' = cache /\ current' = current /\ used' = used
    BY <1>3 DEF CreateVolume, snapVars
  <2>2. PICK v \in Volumes :
          copy' = [copy EXCEPT !.entries = Append(@, [volume |-> v, age |-> 0]), !.last = "recent"]
    BY <1>3 DEF CreateVolume, Unborn
  <2>3. ~copy.ready /\ (schedule = "none" => copy.entries = <<>>) /\ copy.finalizer
    BY <1>0, <2>1 DEF Stage
  <2>4. /\ Good(copy', volumes, schedule) /\ Extends(copy', copy)
        /\ ~copy'.ready /\ copy'.finalizer = copy.finalizer
    <3> DEFINE e == [volume |-> v, age |-> 0]
               es == Append(copy.entries, e)
    <3>1. copy' = [copy EXCEPT !.entries = es, !.last = "recent"]
      BY <2>2
    <3>2. e \in Entries /\ e.age = 0
      <4>1. Horizon \in Nat
        BY SnapshotAssumption DEF Horizon
      <4> QED  BY <4>1 DEF Entries
    <3> HIDE DEF e
    <3>3. es \in Seq(Entries) /\ "recent" \in Lasts
      <4>1. copy.entries \in Seq(Entries)
        BY <1>0, SnapFields
      <4> QED  BY <3>2, <4>1 DEF Lasts
    <3> HIDE DEF es
    <3>4. /\ copy' \in Snapshots /\ copy'.entries = es /\ copy'.last = "recent"
          /\ copy'.ready = copy.ready /\ copy'.finalizer = copy.finalizer
      BY <1>0, <3>1, <3>3 DEF Snapshots
    <3>5. copy'.entries = Append(copy.entries, e)
      BY <3>4 DEF es
    <3>6. Good(copy', volumes, schedule) /\ Extends(copy', copy)
      BY <1>0, <2>3, <3>2, <3>4, <3>5, RecordedGood
    <3> QED  BY <2>3, <3>4, <3>6
  <2>5. AllGood'
    BY <1>0, <1>good, <2>1, <2>4 DEF AllGood
  <2>6. Synced' /\ Uncreated'
    BY <1>0, <1>created, <2>1 DEF Synced, Uncreated
  <2>7. copyCurrent => Extends(copy', snap)
    BY <1>0, <2>1, <2>4 DEF Copied, Extends
  <2>8. Copied'
    BY <2>1, <2>7 DEF Copied
  <2>9. Stage'
    BY <1>sched, <2>1, <2>3, <2>4 DEF Stage
  <2> QED  BY <1>0, <2>1, <2>5, <2>6, <2>8, <2>9 DEF Rest, Control
<1>4. CASE CreateFails
  <2>1. /\ pc = "create" /\ pc' = "failed" /\ copyCurrent' = copyCurrent /\ copy' = copy
        /\ snap' = snap /\ cache' = cache /\ current' = current
        /\ used' = [used EXCEPT !.faults = @ + 1]
    BY <1>4 DEF CreateFails, Fault, snapVars
  <2>2. used' \in Uses /\ used'.created = used.created
    BY <1>0, <2>1 DEF Uses
  <2>3. AllGood'
    BY <1>0, <1>good, <2>1 DEF AllGood
  <2>4. Synced' /\ Uncreated' /\ Copied' /\ Stage'
    BY <1>0, <1>created, <2>1, <2>2 DEF Synced, Uncreated, Copied, Stage
  <2> QED  BY <2>2, <2>3, <2>4 DEF Rest, Control
<1>5. CASE Record
  <2>1. pc = "record" /\ copyCurrent' = copyCurrent /\ copy' = copy /\ volumes' = volumes
    BY <1>5 DEF Record
  <2>2. CASE Accepted(copy) /\ pc' = "check"
    <3>1. copyCurrent /\ snap' = copy /\ current' = FALSE /\ cache' = cache /\ used' = used
      BY <2>2 DEF Accepted
    <3>2. AllGood'
      BY <1>0, <1>good, <2>1, <3>1 DEF AllGood
    <3>3. Extends(copy, copy)
      BY <1>0, SameExtends
    <3>4. Synced' /\ Uncreated' /\ Copied' /\ Stage'
      BY <1>0, <1>created, <2>1, <2>2, <3>1, <3>3 DEF Synced, Uncreated, Copied, Stage
    <3> QED  BY <1>0, <3>1, <3>2, <3>4 DEF Rest, Control
  <2>3. CASE Refused /\ pc' = "failed"
    <3>1. /\ snap' = snap /\ cache' = cache /\ current' = current
          /\ used' \in Uses /\ used'.created = used.created
      BY <1>0, <2>3 DEF Refused, Fault, snapVars, Uses
    <3>2. AllGood'
      BY <1>0, <1>good, <2>1, <3>1 DEF AllGood
    <3>3. Synced' /\ Uncreated' /\ Copied' /\ Stage'
      BY <1>0, <1>created, <2>1, <2>3, <3>1 DEF Synced, Uncreated, Copied, Stage
    <3> QED  BY <3>1, <3>2, <3>3 DEF Rest, Control
  <2> QED  BY <1>5, <2>2, <2>3 DEF Record
<1> QED  BY <1>1, <1>2, <1>3, <1>4, <1>5

\* The look at the new VolumeSnapshot, and retention.
LEMMA EndStep ==
    ASSUME IInv, Next, CheckReady \/ EnforceRetention
    PROVE  Rest'
<1>0. /\ Flags /\ Data /\ used \in Uses
      /\ snap \in Snapshots /\ cache \in Snapshots /\ copy \in Snapshots
      /\ Good(snap, volumes, schedule) /\ Good(cache, volumes, schedule)
      /\ Good(copy, volumes, schedule)
      /\ Synced /\ Uncreated /\ Copied /\ Stage
  BY Parts
<1>sched. schedule' = schedule /\ Lasting(volumes, volumes')
  BY <1>0, DataStep
<1>good. ASSUME NEW s, Good(s, volumes, schedule)
         PROVE  Good(s, volumes', schedule')
  BY <1>good, <1>sched, GoodLasts
<1>created. pc # "idle" => used.created
  BY <1>0 DEF Uncreated
<1>1. CASE CheckReady
  <2> DEFINE t == [copy EXCEPT !.ready = TRUE]
  <2>1. /\ pc = "check" /\ copyCurrent' = copyCurrent /\ volumes' = volumes
        /\ \/ volumes[Latest(copy).volume] = "ready" /\ TryWrite(t) /\ copy' = t /\ pc' = "retain"
           \/ pc' = "failed" /\ UNCHANGED <<snapVars, copy, used>>
    BY <1>1 DEF CheckReady
  <2>2. /\ t \in Snapshots /\ t.entries = copy.entries /\ t.last = copy.last /\ t.ready
        /\ t.finalizer = copy.finalizer
    BY <1>0 DEF Snapshots
  <2>same. copy.entries = snap.entries /\ snap.finalizer /\ copy.finalizer
    BY <1>0, <2>1 DEF Copied, Stage
  <2> HIDE DEF t
  <2>3. CASE volumes[Latest(copy).volume] = "ready" /\ TryWrite(t) /\ copy' = t /\ pc' = "retain"
    <3>1. Good(t, volumes, schedule)
      BY <1>0, <2>2, <2>3 DEF Good, Ready, Taken, Once, InOrder, Latest
    <3>2. /\ cache' = cache /\ used' \in Uses /\ used'.created = used.created
          /\ \/ copyCurrent /\ snap' = t /\ current' = FALSE
             \/ snap' = snap /\ current' = current
      BY <1>0, <2>3, WriteOutcome
    <3>3. AllGood'
      BY <1>0, <1>good, <2>1, <2>3, <3>1, <3>2 DEF AllGood
    <3>4. Synced' /\ Uncreated'
      BY <1>0, <1>created, <2>1, <2>3, <3>2 DEF Synced, Uncreated
    <3>5. copy'.entries = snap'.entries /\ snap'.finalizer
      BY <2>2, <2>same, <2>3, <3>2
    <3>6. Extends(copy', snap')
      <4>1. copy' \in Snapshots /\ snap' \in Snapshots
        BY <3>3 DEF AllGood, Good
      <4> QED  BY <3>5, <4>1, SameExtends
    <3>7. Copied' /\ Stage'
      BY <2>2, <2>same, <2>3, <3>5, <3>6 DEF Copied, Stage
    <3> QED  BY <3>2, <3>3, <3>4, <3>7 DEF Rest, Control
  <2>4. CASE pc' = "failed" /\ UNCHANGED <<snapVars, copy, used>>
    <3>1. snap' = snap /\ cache' = cache /\ current' = current /\ copy' = copy /\ used' = used
      BY <2>4 DEF snapVars
    <3>2. AllGood'
      BY <1>0, <1>good, <3>1 DEF AllGood
    <3>3. Synced' /\ Uncreated' /\ Copied' /\ Stage'
      BY <1>0, <1>created, <2>1, <2>4, <2>same, <3>1 DEF Synced, Uncreated, Copied, Stage
    <3> QED  BY <1>0, <3>1, <3>2, <3>3 DEF Rest, Control
  <2> QED  BY <2>1, <2>3, <2>4
<1>2. CASE EnforceRetention
  <2> DEFINE t == [copy EXCEPT !.entries = Kept(copy.entries)]
  <2>1. pc = "retain" /\ pc' = "idle" /\ copy' = NoSnap /\ copyCurrent' = FALSE
    BY <1>2 DEF EnforceRetention, Return
  <2>2. Good(t, volumes, schedule)
    BY <1>0, KeptGood
  <2>3. \/ TryWrite(t)
        \/ Fault /\ snap' = t /\ current' = FALSE /\ cache' = cache
        \/ UNCHANGED <<snapVars, used>>
    BY <1>2 DEF EnforceRetention
  <2> HIDE DEF t
  <2>4. /\ cache' = cache /\ used' \in Uses /\ used'.created = used.created
        /\ \/ snap' = t /\ current' = FALSE
           \/ snap' = snap /\ current' = current
    <3>1. CASE TryWrite(t)
      BY <1>0, <3>1, WriteOutcome
    <3>2. CASE Fault /\ snap' = t /\ current' = FALSE /\ cache' = cache
      BY <1>0, <3>2 DEF Fault, Uses
    <3>3. CASE UNCHANGED <<snapVars, used>>
      BY <1>0, <3>3 DEF snapVars
    <3> QED  BY <2>3, <3>1, <3>2, <3>3
  <2> QED  BY <2>1, <2>2, <2>4, ReturnStep
<1> QED  BY <1>1, <1>2

-----------------------------------------------------------------------------

LEMMA Initially ==
    Init => IInv
<1> SUFFICES ASSUME Init
             PROVE  IInv
  OBVIOUS
<1>1. Good(NoSnap, volumes, schedule) /\ NoSnap \in Snapshots
  BY NoSnapGood DEF Good
<1>2. Flags
  BY Zenon DEF Init, Flags
<1>3. Data
  BY SnapshotAssumption DEF Init, Data, States, Places
<1>4. used \in Uses
  BY DEF Init, Uses
<1>5. Control
  BY DEF Init, Control, Synced, Uncreated, Copied, Stage
<1> QED  BY <1>1, <1>2, <1>3, <1>4, <1>5, TypeParts DEF Init, IInv, AllGood

LEMMA Preserved ==
    IInv /\ [Next]_vars => IInv'
<1> SUFFICES ASSUME IInv, [Next]_vars
             PROVE  IInv'
  OBVIOUS
<1>1. CASE Next
  <2>1. Rest'
    BY <1>1, EnvStep, OutsideStep, BeginStep, MonitorStep, TakeStep, EndStep DEF Next, Work
  <2>2. Flags' /\ Data'
    BY <1>1, Parts, FlagsStep, DataStep
  <2>3. snap' \in Snapshots /\ cache' \in Snapshots /\ copy' \in Snapshots
    BY <2>1 DEF Rest, AllGood, Good
  <2>4. TypeOK'
    BY <2>2, <2>3 DEF TypeOK, Flags, Data, States, Places
  <2> QED  BY <2>1, <2>4 DEF IInv, Rest
<1>2. CASE UNCHANGED vars
  BY <1>2 DEF vars, IInv, TypeOK, AllGood, Control, Synced, Uncreated, Copied, Stage
<1> QED  BY <1>1, <1>2

\* The invariant the theorems below rest on holds in every reachable state.
THEOREM Invariance ==
    Spec => []IInv
BY Initially, Preserved, PTL DEF Spec

\* Every variable keeps its type.
THEOREM TypeCorrect ==
    Spec => []TypeOK
<1>1. IInv => TypeOK
  BY DEF IInv
<1> QED  BY <1>1, Invariance, PTL

\* The condition SnapshotReady is never true of a VolumeSnapshot that has not
\* become ready, whatever the order of status writes, refusals and restarts.
THEOREM ReadyMeansReadyHolds ==
    Spec => []ReadyMeansReady
<1>1. IInv => ReadyMeansReady
  BY DEF IInv, AllGood, Good, Ready, ReadyMeansReady
<1> QED  BY <1>1, Invariance, PTL

\* A one-shot snapshot is recorded at most once, however stale the cache is from
\* which reconciles start.
THEOREM RecordedOnceHolds ==
    Spec => []RecordedOnce
<1>1. IInv => RecordedOnce
  BY DEF IInv, AllGood, Good, Once, RecordedOnce
<1> QED  BY <1>1, Invariance, PTL

\* Retention deletes only volumes that are too old or have Count later ones in
\* the stored GameSnapshot, whatever copy the reconcile works on.
THEOREM RetentionHasReasonHolds ==
    Spec => RetentionHasReason
<1> DEFINE Spares(v) ==
      \E k \in DOMAIN snap.entries :
          /\ snap.entries[k].volume = v
          /\ \/ ~Young(snap.entries[k])
             \/ Count > 0 /\ Len(snap.entries) - k >= Count
<1>1. ASSUME IInv, Next, NEW v \in Volumes, volumes[v] # "deleted", volumes'[v] = "deleted"
      PROVE  Spares(v)
  <2>0. /\ snap \in Snapshots /\ Data /\ Good(copy, volumes, schedule) /\ Copied
    BY <1>1, Parts
  <2>1. EnforceRetention
    <3>1. ~UNCHANGED volumes
      BY <1>1
    <3>2. \/ \E w \in Volumes : VolumeDone(w)
          \/ CreateVolume
          \/ EnforceRetention
      BY <1>1, <3>1 DEF Next, Env, Work, CreateSnapshot, TouchSnapshot, DeleteSnapshot, ChangeServer,
           Tick, SnapSync, TimerFires, Crash, Skip, HandleFinalizer, GiveUp, NotDue, BeginMonitor,
           Monitor, BeginSnapshot, Saving, Save, CreateFails, Record, CheckReady, Failed
    <3>3. ~\E w \in Volumes : VolumeDone(w)
      BY <1>1, <2>0 DEF VolumeDone, Data
    <3>4. ~CreateVolume
      BY <1>1, <2>0 DEF CreateVolume, Unborn, Data
    <3> QED  BY <3>2, <3>3, <3>4
  <2>2. v \in VolumesOf(copy.entries) \ VolumesOf(Kept(copy.entries)) /\ pc = "retain"
    BY <1>1, <2>1 DEF EnforceRetention
  <2>3. copy.entries = snap.entries
    BY <2>0, <2>2 DEF Copied
  <2>4. snap.entries \in Seq(Entries) /\ InOrder(snap.entries)
    BY <2>0, <2>3, SnapFields DEF Good
  <2>5. PICK k \in DOMAIN snap.entries : snap.entries[k].volume = v
    BY <2>2, <2>3 DEF VolumesOf
  <2>6. \/ ~Young(snap.entries[k])
        \/ Count > 0 /\ Len(snap.entries) - k >= Count
    BY <2>2, <2>3, <2>4, <2>5, KeptSound
  <2> QED  BY <2>5, <2>6
<1>2. IInv /\ [Next]_vars =>
        [\A v \in Volumes : volumes[v] # "deleted" /\ volumes'[v] = "deleted" => Spares(v)]_vars
  BY <1>1
<1> QED  BY <1>2, Invariance, PTL DEF Spec, RetentionHasReason

LEMMA ExtendsVolumes ==
    ASSUME NEW s \in Snapshots, NEW t \in Snapshots, Extends(s, t)
    PROVE  VolumesOf(t.entries) \subseteq VolumesOf(s.entries)
<1>1. s.entries \in Seq(Entries) /\ t.entries \in Seq(Entries)
  BY SnapFields
<1>2. \A k \in DOMAIN t.entries : k \in DOMAIN s.entries /\ s.entries[k] = t.entries[k]
  BY <1>1 DEF Extends
<1> QED  BY <1>2 DEF VolumesOf

LEMMA AgedVolumes ==
    ASSUME NEW s \in Snapshots, NEW slot \in BOOLEAN
    PROVE  VolumesOf(s.entries) \subseteq VolumesOf(Aged(s, slot).entries)
<1> DEFINE t == Aged(s, slot)
<1>1. s.entries \in Seq(Entries)
  BY SnapFields
<1>2. DOMAIN t.entries = DOMAIN s.entries
      /\ \A k \in DOMAIN s.entries : t.entries[k] = Older(s.entries[k])
  BY AgedEntries
<1> HIDE DEF t
<1>3. \A k \in DOMAIN s.entries : t.entries[k].volume = s.entries[k].volume
  <2> SUFFICES ASSUME NEW k \in DOMAIN s.entries
               PROVE  t.entries[k].volume = s.entries[k].volume
    OBVIOUS
  <2>1. s.entries[k] \in Entries
    BY <1>1
  <2> QED  BY <1>2, <2>1 DEF Older, Entries
<1>4. VolumesOf(s.entries) \subseteq VolumesOf(t.entries)
  BY <1>2, <1>3 DEF VolumesOf
<1> QED  BY <1>4 DEF t

\* A recorded VolumeSnapshot stays recorded unless retention deletes it, a
\* deletion fails or the GameSnapshot goes: no write from a stale copy drops it.
THEOREM EntriesKeptHolds ==
    Spec => EntriesKept
<1> DEFINE Excused(v) ==
      \/ volumes'[v] = "deleted"
      \/ used'.faults > used.faults
      \/ ~snap'.exists
<1>1. ASSUME IInv, Next,
             NEW v \in VolumesOf(snap.entries) \ VolumesOf(snap'.entries)
      PROVE  Excused(v)
  <2>0. /\ snap \in Snapshots /\ cache \in Snapshots /\ copy \in Snapshots /\ used \in Uses
        /\ Synced /\ Uncreated /\ Copied
    BY <1>1, Parts
  <2>empty. VolumesOf(NoSnap.entries) = {} /\ ~NoSnap.exists
    BY DEF VolumesOf, NoSnap
  <2>same. snap'.entries # snap.entries
    BY <1>1
  <2>write. ASSUME NEW t \in Snapshots, t.entries = copy.entries, TryWrite(t)
            PROVE  FALSE
    <3>1. copyCurrent /\ snap' = t
      <4>1. (copyCurrent /\ snap' = t) \/ snap' = snap
        BY <2>0, <2>write, WriteOutcome
      <4> QED  BY <2>same, <4>1
    <3>2. VolumesOf(snap.entries) \subseteq VolumesOf(copy.entries)
      BY <2>0, <3>1, ExtendsVolumes DEF Copied
    <3> QED  BY <1>1, <2>write, <3>1, <3>2
  <2>1. CASE Env
    <3>1. CASE CreateSnapshot
      <4>1. snap = NoSnap
        BY <2>0, <3>1 DEF CreateSnapshot, Uncreated
      <4> QED  BY <1>1, <2>empty, <4>1
    <3>2. CASE DeleteSnapshot
      <4>1. snap' = IF snap.finalizer THEN [snap EXCEPT !.deleting = TRUE] ELSE NoSnap
        BY <3>2 DEF DeleteSnapshot, Write
      <4>2. CASE snap.finalizer
        BY <2>0, <2>same, <4>1, <4>2 DEF Snapshots
      <4> QED  BY <2>empty, <4>1, <4>2
    <3>3. CASE TouchSnapshot \/ ChangeServer \/ \E w \in Volumes : VolumeDone(w)
      BY <2>same, <3>3 DEF TouchSnapshot, Write, ChangeServer, VolumeDone, snapVars
    <3> QED  BY <2>1, <3>1, <3>2, <3>3 DEF Env
  <2>2. CASE Tick
    <3> DEFINE slot == phase = Period - 1
    <3>1. snap' = Aged(snap, slot) /\ slot \in BOOLEAN
      BY <2>2 DEF Tick
    <3> HIDE DEF slot
    <3> QED  BY <1>1, <2>0, <3>1, AgedVolumes
  <2>3. CASE SnapSync \/ TimerFires \/ Crash \/ Skip \/ NotDue \/ GiveUp \/ BeginMonitor
             \/ BeginSnapshot \/ CreateVolume \/ CreateFails
    BY <2>same, <2>3 DEF SnapSync, TimerFires, Crash, Skip, NotDue, GiveUp, BeginMonitor,
         BeginSnapshot, CreateVolume, CreateFails, snapVars
  <2>4. CASE HandleFinalizer
    <3>1. /\ snap' = IF cache.deleting THEN NoSnap ELSE [snap EXCEPT !.finalizer = TRUE]
      BY <2>0, <2>4 DEF HandleFinalizer, Synced
    <3>2. CASE ~cache.deleting
      BY <2>0, <2>same, <3>1, <3>2 DEF Snapshots
    <3> QED  BY <2>empty, <3>1, <3>2
  <2>5. CASE Monitor
    <3> DEFINE off == [copy EXCEPT !.ready = FALSE]
               on == [copy EXCEPT !.ready = TRUE]
    <3>1. TryWrite(off) \/ TryWrite(on) \/ UNCHANGED snap
      BY <2>5 DEF Monitor, snapVars
    <3>2. off \in Snapshots /\ off.entries = copy.entries
          /\ on \in Snapshots /\ on.entries = copy.entries
      BY <2>0 DEF Snapshots
    <3> HIDE DEF off, on
    <3> QED  BY <2>same, <2>write, <3>1, <3>2
  <2>6. CASE Saving
    <3> DEFINE off == [copy EXCEPT !.ready = FALSE]
    <3>1. TryWrite(off)
      BY <2>6 DEF Saving
    <3>2. off \in Snapshots /\ off.entries = copy.entries
      BY <2>0 DEF Snapshots
    <3> HIDE DEF off
    <3> QED  BY <2>write, <3>1, <3>2
  <2>7. CASE Save \/ Record \/ Failed
    <3>1. TryWrite(copy)
      BY <2>7 DEF Save, Record, Failed, TryWrite
    <3> QED  BY <2>0, <2>write, <3>1
  <2>8. CASE CheckReady
    <3> DEFINE on == [copy EXCEPT !.ready = TRUE]
    <3>1. TryWrite(on) \/ UNCHANGED snap
      BY <2>8 DEF CheckReady, snapVars
    <3>2. on \in Snapshots /\ on.entries = copy.entries
      BY <2>0 DEF Snapshots
    <3> HIDE DEF on
    <3> QED  BY <2>same, <2>write, <3>1, <3>2
  <2>9. CASE EnforceRetention
    <3> DEFINE kept == Kept(copy.entries)
               t == [copy EXCEPT !.entries = kept]
    <3>1. pc = "retain"
      BY <2>9 DEF EnforceRetention
    <3>2. t.entries = kept
      BY <2>0 DEF Snapshots
    <3>3. copy.entries = snap.entries
      BY <2>0, <3>1 DEF Copied
    <3> DEFINE drop == VolumesOf(copy.entries) \ VolumesOf(kept)
    <3>4. \/ TryWrite(t) /\ volumes' = [w \in Volumes |-> IF w \in drop THEN "deleted" ELSE volumes[w]]
          \/ Fault
          \/ UNCHANGED snap
      BY <2>9 DEF EnforceRetention, snapVars
    <3>5. CASE Fault
      BY <2>0, <3>5 DEF Fault, Uses
    <3>6. CASE TryWrite(t) /\ volumes' = [w \in Volumes |-> IF w \in drop THEN "deleted" ELSE volumes[w]]
      <4>1. snap' = t
        <5>1. snap' = t \/ snap' = snap
          BY <2>0, <3>6, WriteOutcome
        <5> QED  BY <2>same, <5>1
      <4>2. v \in drop
        BY <1>1, <3>2, <3>3, <4>1
      <4>3. v \in Volumes
        <5>1. snap.entries \in Seq(Entries)
          BY <2>0, SnapFields
        <5>2. PICK k \in DOMAIN snap.entries : v = snap.entries[k].volume
          BY <1>1 DEF VolumesOf
        <5>3. snap.entries[k] \in Entries
          BY <5>1
        <5> QED  BY <5>2, <5>3 DEF Entries
      <4> QED  BY <3>6, <4>2, <4>3
    <3> QED  BY <2>same, <3>4, <3>5, <3>6
  <2> QED  BY <1>1, <2>1, <2>2, <2>3, <2>4, <2>5, <2>6, <2>7, <2>8, <2>9 DEF Next, Work
<1>2. IInv /\ [Next]_vars =>
        [\A v \in VolumesOf(snap.entries) \ VolumesOf(snap'.entries) : Excused(v)]_vars
  BY <1>1
<1> QED  BY <1>2, Invariance, PTL DEF Spec, EntriesKept
=============================================================================
