----------------------------- MODULE RingProofs -----------------------------
(***************************************************************************)
(* Proofs about Ring for any number of producers and consumers and every   *)
(* capacity of at least two.                                               *)
(***************************************************************************)
EXTENDS Ring, FiniteSetTheorems, SequenceTheorems, TLAPS

\* Positions less than a capacity apart have slots of their own; pos & mask
\* in the code relies on it.
LEMMA SlotType ==
  \A n \in Int : Slot(n) \in Slots
BY RingAssumption DEF Slot, Slots

\* A multiple of the capacity smaller than the capacity is zero.
LEMMA NoSmallMultiple ==
  ASSUME NEW a \in Int, Cap * a < Cap, -Cap < Cap * a
  PROVE  a = 0
<1>1. CASE a >= 1
  BY <1>1, RingAssumption
<1>2. CASE a =< -1
  BY <1>2, RingAssumption
<1> QED
  BY <1>1, <1>2

LEMMA SlotOf ==
  ASSUME NEW n \in Int
  PROVE  \E a \in Int : n = (Cap * a) + Slot(n)
<1>1. n \div Cap \in Int
  BY RingAssumption
<1>2. n = (Cap * (n \div Cap)) + Slot(n)
  BY RingAssumption DEF Slot
<1> QED
  BY Zenon, <1>1, <1>2

LEMMA SlotDistinct ==
  ASSUME NEW m \in Int, NEW n \in Int, m < n, n < m + Cap
  PROVE  Slot(m) # Slot(n)
<1>1. PICK a \in Int : m = (Cap * a) + Slot(m)
  BY SlotOf
<1>2. PICK b \in Int : n = (Cap * b) + Slot(n)
  BY SlotOf
<1> SUFFICES ASSUME Slot(m) = Slot(n) PROVE FALSE
  OBVIOUS
<1>3. Cap * (b - a) = n - m
  BY <1>1, <1>2, SlotType, RingAssumption DEF Slots
<1>4. b - a = 0
  BY <1>3, NoSmallMultiple, RingAssumption
<1> QED
  BY <1>3, <1>4, RingAssumption

LEMMA SlotNext ==
  ASSUME NEW n \in Int
  PROVE  Slot(n + Cap) = Slot(n)
<1>1. PICK a \in Int : n = (Cap * a) + Slot(n)
  BY SlotOf
<1>2. n + Cap \in Int
  BY RingAssumption
<1>3. PICK b \in Int : n + Cap = (Cap * b) + Slot(n + Cap)
  BY Zenon, <1>2, SlotOf
<1>4. Slot(n) \in 0 .. Cap - 1 /\ Slot(n + Cap) \in 0 .. Cap - 1
  BY Zenon, <1>2, SlotType DEF Slots
<1>5. Cap * ((b - a) - 1) = ((Cap * b) - (Cap * a)) - Cap
  BY RingAssumption
<1>6. Cap * ((b - a) - 1) = Slot(n) - Slot(n + Cap)
  <2> DEFINE x == Cap * a
             y == Cap * b
             z == Cap * ((b - a) - 1)
             s == Slot(n)
             t == Slot(n + Cap)
  <2>1. x \in Int /\ y \in Int /\ z \in Int /\ s \in Int /\ t \in Int
    BY <1>4, RingAssumption
  <2>2. n = x + s /\ n + Cap = y + t /\ z = (y - x) - Cap
    BY Zenon, <1>1, <1>3, <1>5
  <2> HIDE DEF x, y, z, s, t
  <2>3. z = s - t
    BY <2>1, <2>2, RingAssumption
  <2> QED
    BY <2>3 DEF z, s, t
<1>7. (b - a) - 1 = 0
  BY <1>4, <1>6, NoSmallMultiple, RingAssumption
<1> QED
  BY <1>4, <1>6, <1>7, RingAssumption

----------------------------------------------------------------------------
(* The ring invariant: what the sequence number of each cell says.         *)

\* The cell of a position that was pushed and not popped is being written,
\* or holds the value pushed.
Claimed(n) ==
  \/ seq[Slot(n)] = n
  \/ seq[Slot(n)] = n + 1 /\ data[Slot(n)] = items[n + 1]

\* The cell of a position not yet pushed is free, or a consumer still holds
\* it from the round before.
Free(n) ==
  \/ seq[Slot(n)] = n
  \/ \E c \in Consumers : Reading(c) /\ cpos[c] + Cap = n

Window ==
  /\ head =< tail /\ tail =< head + Cap /\ Len(items) = tail
  /\ \A n \in head .. tail - 1 : Claimed(n)
  /\ \A n \in tail .. head + Cap - 1 : Free(n)

Writer(p) ==
  /\ head =< ppos[p] /\ ppos[p] < tail
  /\ seq[Slot(ppos[p])] = ppos[p]
  /\ pval[p] = items[ppos[p] + 1]
  /\ ppc[p] = "publish" => data[Slot(ppos[p])] = pval[p]

Reader(c) ==
  /\ tail =< cpos[c] + Cap /\ cpos[c] < head
  /\ seq[Slot(cpos[c])] = cpos[c] + 1
  /\ cpc[c] = "read" => data[Slot(cpos[c])] = items[cpos[c] + 1]

Owners ==
  /\ \A p \in Producers : Writing(p) => Writer(p)
  /\ \A c \in Consumers : Reading(c) => Reader(c)
  /\ \A p, q \in Producers :
       Writing(p) /\ Writing(q) /\ ppos[p] = ppos[q] => p = q
  /\ \A c, d \in Consumers :
       Reading(c) /\ Reading(d) /\ cpos[c] = cpos[d] => c = d

\* What a goroutine still knows of the cell it looked at.
Views ==
  /\ \A p \in Producers :
       /\ ppc[p] # "idle" => pval[p] \in Values
       /\ ppc[p] \in {"seq", "cas"} => ppos[p] =< tail
       /\ ppc[p] = "seq" /\ ppos[p] < tail => ppos[p] =< seq[Slot(ppos[p])]
       /\ ppc[p] = "cas" /\ ppos[p] = tail => seq[Slot(tail)] = tail
  /\ \A c \in Consumers :
       /\ cpc[c] \in {"seq", "cas"} => cpos[c] =< head
       /\ cpc[c] = "cas" /\ cpos[c] = head => seq[Slot(head)] = head + 1

RingInv == TypeOK /\ Window /\ Owners /\ Views

LEMMA InitType ==
  Init => TypeOK
<1> SUFFICES ASSUME Init PROVE TypeOK
  OBVIOUS
<1>1. seq \in [Slots -> Nat]
  BY RingAssumption DEF Init, Slots
<1>2. notEmpty \in BOOLEAN /\ cancelled \subseteq Consumers
  BY Zenon DEF Init
<1>3. items \in Seq(Values)
  BY ZenonT(30), EmptySeq DEF Init
<1> QED
  BY <1>1, <1>2, <1>3 DEF Init, TypeOK

\* Every action keeps the types; a claim pushes a value.
LEMMA NextType ==
  ASSUME TypeOK, Views, [Next]_vars
  PROVE  TypeOK'
<1> USE RingAssumption DEF TypeOK
<1>1. ASSUME NEW p \in Producers, NEW v \in Values, PushBegin(p, v)
      PROVE  TypeOK'
  BY ZenonT(30), <1>1 DEF PushBegin, PStep, ring, cvars
<1>2. ASSUME NEW p \in Producers, PushLoad(p)
      PROVE  TypeOK'
  BY ZenonT(30), <1>2 DEF PushLoad, PStep, ring, cvars
<1>3. ASSUME NEW p \in Producers, PushSeq(p)
      PROVE  TypeOK'
  BY <1>3 DEF PushSeq, PStep, PushVerdict, ring, cvars
<1>4. ASSUME NEW p \in Producers, PushClaim(p)
      PROVE  TypeOK'
  <2>1. pval[p] \in Values
    BY ZenonT(30), <1>4 DEF PushClaim, PStep, Views
  <2> QED
    BY <1>4, <2>1 DEF PushClaim, PStep, cvars
<1>5. ASSUME NEW p \in Producers, PushCASFails(p)
      PROVE  TypeOK'
  BY ZenonT(30), <1>5 DEF PushCASFails, PStep, ring, cvars
<1>6. ASSUME NEW p \in Producers, PushData(p)
      PROVE  TypeOK'
  BY Zenon, <1>6 DEF PushData, PStep, cvars
<1>7. ASSUME NEW p \in Producers, PushPublish(p)
      PROVE  TypeOK'
  <2>1. ppos[p] + 1 \in Nat
    OBVIOUS
  <2>2. seq' \in [Slots -> Nat]
    BY Zenon, <1>7, <2>1 DEF PushPublish
  <2> QED
    BY ZenonT(30), <1>7, <2>2 DEF PushPublish, PStep, cvars
<1>8. ASSUME NEW p \in Producers, PushDepth(p) \/ PushNotify(p)
      PROVE  TypeOK'
  <2>1. CASE PushDepth(p)
    BY <2>1 DEF PushDepth, PStep, cvars
  <2>2. CASE PushNotify(p)
    BY ZenonT(30), <2>2 DEF PushNotify, PStep, cvars
  <2> QED
    BY ZenonT(30), <1>8, <2>1, <2>2
<1>9. ASSUME NEW c \in Consumers,
             PopBegin(c) \/ PopLoad(c) \/ PopCASFails(c) \/ PopDone(c)
      PROVE  TypeOK'
  <2>1. 0 \in Nat
    OBVIOUS
  <2> QED
    BY ZenonT(30), <1>9, <2>1 DEF PopBegin, PopLoad, PopCASFails, PopDone, CStep, ring, pvars
<1>10. ASSUME NEW c \in Consumers, PopSeq(c)
       PROVE  TypeOK'
  BY ZenonT(30), <1>10 DEF PopSeq, PopVerdict, CStep, ring, pvars
<1>11. ASSUME NEW c \in Consumers, PopClaim(c)
       PROVE  TypeOK'
  BY <1>11 DEF PopClaim, CStep, pvars
<1>12. ASSUME NEW c \in Consumers, PopRead(c)
       PROVE  TypeOK'
  <2>1. data[Slot(cpos[c])] \in Values \union {NoValue}
    BY SlotType
  <2> QED
    BY ZenonT(30), <1>12, <2>1 DEF PopRead, CStep, ring, pvars
<1>13. ASSUME NEW c \in Consumers, PopRelease(c)
       PROVE  TypeOK'
  <2>1. cpos[c] + Cap \in Nat
    OBVIOUS
  <2>2. seq' \in [Slots -> Nat]
    BY Zenon, <1>13, <2>1 DEF PopRelease
  <2> QED
    BY ZenonT(30), <1>13, <2>2 DEF PopRelease, CStep, pvars
<1>14. ASSUME NEW c \in Consumers, PopDepth(c) \/ PopWake(c)
       PROVE  TypeOK'
  <2>1. CASE PopDepth(c)
    BY <2>1 DEF PopDepth, Subtract, CStep, pvars
  <2>2. CASE PopWake(c)
    BY Zenon, <2>2 DEF PopWake, CStep, pvars
  <2> QED
    BY ZenonT(30), <1>14, <2>1, <2>2
<1>15. ASSUME NEW c \in Stopped, Cancel(c)
       PROVE  TypeOK'
  BY <1>15 DEF Cancel, ring, pvars
<1>16. CASE UNCHANGED vars
  BY ZenonT(30), <1>16 DEF vars, ring, pvars, cvars
<1> QED
  BY ZenonT(30), <1>1, <1>2, <1>3, <1>4, <1>5, <1>6, <1>7, <1>8, <1>9, <1>10, <1>11,
     <1>12, <1>13, <1>14, <1>15, <1>16 DEF Next, Push, Pop

\* Window positions are less than a capacity apart.
LEMMA SameSlot ==
  ASSUME TypeOK,
         NEW m \in head .. head + Cap - 1, NEW n \in head .. head + Cap - 1,
         Slot(m) = Slot(n)
  PROVE  m = n
<1>1. m \in Int /\ n \in Int /\ m < n + Cap /\ n < m + Cap
  BY RingAssumption DEF TypeOK
<1>2. ~(m < n) /\ ~(n < m)
  BY Zenon, <1>1, SlotDistinct
<1> QED
  BY <1>1, <1>2

\* A step that leaves the cells alone, lets go of no cell and takes none.
CellsAlone ==
  /\ UNCHANGED <<head, tail, seq, data, items>>
  /\ \A p \in Producers :
       /\ Writing(p)' <=> Writing(p)
       /\ Writing(p) => /\ ppos'[p] = ppos[p] /\ pval'[p] = pval[p]
                        /\ ppc'[p] = "publish" => ppc[p] = "publish"
  /\ \A c \in Consumers :
       /\ Reading(c)' <=> Reading(c)
       /\ Reading(c) => /\ cpos'[c] = cpos[c]
                        /\ cpc'[c] = "read" => cpc[c] = "read"

LEMMA AloneKeeps ==
  ASSUME Window, Owners, CellsAlone
  PROVE  Window' /\ Owners'
<1>1. UNCHANGED <<head, tail, seq, data, items>>
  BY Zenon DEF CellsAlone
<1>2. \A n : Claimed(n)' <=> Claimed(n)
  BY Zenon, <1>1 DEF Claimed
<1>3. \A n : Free(n) => Free(n)'
  BY Zenon, <1>1 DEF Free, CellsAlone
<1>4. Window'
  BY Zenon, <1>1, <1>2, <1>3 DEF Window
<1>5. \A p \in Producers : Writing(p)' => Writer(p)'
  BY ZenonT(30), <1>1 DEF Owners, CellsAlone, Writer
<1>6. \A c \in Consumers : Reading(c)' => Reader(c)'
  BY ZenonT(30), <1>1 DEF Owners, CellsAlone, Reader
<1>7. Owners'
  BY Zenon, <1>5, <1>6 DEF Owners, CellsAlone
<1> QED
  BY <1>4, <1>7

\* The steps of Push that touch no cell.
LEMMA PushAlone ==
  ASSUME TypeOK, Window, Owners, Views, NEW p \in Producers,
         \/ \E v \in Values : PushBegin(p, v)
         \/ PushLoad(p) \/ PushSeq(p) \/ PushCASFails(p)
         \/ PushDepth(p) \/ PushNotify(p)
  PROVE  Window' /\ Owners' /\ Views'
<1>1. /\ UNCHANGED <<head, tail, seq, data, items, cpc, cpos>>
      /\ \A q \in Producers : q # p =>
           ppc'[q] = ppc[q] /\ ppos'[q] = ppos[q] /\ pval'[q] = pval[q]
      /\ ~Writing(p) /\ ~Writing(p)'
  BY ZenonT(30) DEF PushBegin, PushLoad, PushSeq, PushVerdict, PushCASFails, PushDepth,
         PushNotify, PStep, ring, cvars, Writing, TypeOK
<1>2. CellsAlone
  BY Zenon, <1>1 DEF CellsAlone, Writing, Reading
<1>3. /\ ppc'[p] # "idle" => pval'[p] \in Values
      /\ ppc'[p] \in {"seq", "cas"} => ppos'[p] =< tail
      /\ ppc'[p] = "seq" /\ ppos'[p] < tail => ppos'[p] =< seq[Slot(ppos'[p])]
      /\ ppc'[p] = "cas" /\ ppos'[p] = tail => seq[Slot(tail)] = tail
  BY SMTT(30) DEF Views, PushBegin, PushLoad, PushSeq, PushVerdict, PushCASFails,
         PushDepth, PushNotify, PStep, ring, cvars, TypeOK
<1>4. Views'
  BY <1>1, <1>3 DEF Views
<1> QED
  BY <1>2, <1>4, AloneKeeps

\* The steps of Pop that touch no cell, and the cancellation of a context.
LEMMA PopAlone ==
  ASSUME TypeOK, Window, Owners, Views, NEW c \in Consumers,
         \/ PopBegin(c) \/ PopLoad(c) \/ PopSeq(c) \/ PopCASFails(c)
         \/ PopRead(c) \/ PopDepth(c) \/ PopWake(c) \/ PopDone(c)
         \/ Cancel(c)
  PROVE  Window' /\ Owners' /\ Views'
<1>1. /\ UNCHANGED <<head, tail, seq, data, items, ppc, ppos, pval>>
      /\ \A d \in Consumers : d # c => cpc'[d] = cpc[d] /\ cpos'[d] = cpos[d]
      /\ Reading(c)' <=> Reading(c)
      /\ Reading(c) => cpos'[c] = cpos[c] /\ (cpc'[c] = "read" => cpc[c] = "read")
  BY ZenonT(30) DEF PopBegin, PopLoad, PopSeq, PopVerdict, PopCASFails, PopRead, PopDepth,
         PopWake, PopDone, Cancel, CStep, ring, pvars, Reading, TypeOK
<1>2. CellsAlone
  BY Zenon, <1>1 DEF CellsAlone, Writing, Reading
<1>3. /\ cpc'[c] \in {"seq", "cas"} => cpos'[c] =< head
      /\ cpc'[c] = "cas" /\ cpos'[c] = head => seq[Slot(head)] = head + 1
  BY DEF Views, PopBegin, PopLoad, PopSeq, PopVerdict, PopCASFails, PopRead,
         PopDepth, PopWake, PopDone, Cancel, CStep, ring, pvars, TypeOK
<1>4. Views'
  BY Zenon, <1>1, <1>3 DEF Views
<1> QED
  BY Zenon, <1>2, <1>4, AloneKeeps

----------------------------------------------------------------------------
(* The steps that take a cell, change it or let go of it.                  *)

\* A producer whose compare-and-swap succeeds takes a free cell.
LEMMA ClaimKeeps ==
  ASSUME TypeOK, Window, Owners, Views, NEW p \in Producers, PushClaim(p)
  PROVE  Window' /\ Owners' /\ Views'
<1>1. /\ UNCHANGED <<head, seq, data, ppos, pval, cpc, cpos>>
      /\ ppc[p] = "cas" /\ ppc'[p] = "data" /\ ppos[p] = tail
      /\ \A q \in Producers : q # p => ppc'[q] = ppc[q]
      /\ tail' = tail + 1 /\ items' = Append(items, pval[p])
  BY DEF PushClaim, PStep, cvars, TypeOK
<1>2. /\ head \in Nat /\ tail \in Nat /\ Cap \in Nat /\ Cap >= 2
      /\ pval[p] \in Values /\ items \in Seq(Values) /\ Len(items) = tail
      /\ head =< tail /\ tail =< head + Cap
  BY ZenonT(30), <1>1, RingAssumption DEF TypeOK, Window, Views
<1>3. seq[Slot(tail)] = tail
  BY <1>1 DEF Views
<1>4. /\ Len(items') = tail + 1 /\ items'[tail + 1] = pval[p]
      /\ \A n \in 0 .. tail - 1 : items'[n + 1] = items[n + 1]
  BY <1>1, <1>2
<1>5. tail < head + Cap
  <2> SUFFICES ASSUME tail = head + Cap PROVE FALSE
    BY <1>2
  <2>1. Slot(tail) = Slot(head)
    BY <1>2, SlotNext
  <2>2. Claimed(head)
    BY <1>2 DEF Window
  <2> QED
    BY <1>2, <1>3, <2>1, <2>2 DEF Claimed
<1>6. \A q \in Producers : Writing(q)' <=> Writing(q) \/ q = p
  BY <1>1 DEF Writing
<1>7. \A c \in Consumers : Reading(c)' <=> Reading(c)
  BY Zenon, <1>1 DEF Reading
<1>8. \A n \in head .. tail : Claimed(n)'
  <2> TAKE n \in head .. tail
  <2>1. CASE n = tail
    BY Zenon, <1>1, <1>3, <2>1 DEF Claimed
  <2>2. CASE n # tail
    <3>1. n \in head .. tail - 1 /\ n \in 0 .. tail - 1
      BY <1>2, <2>2
    <3>2. Claimed(n)
      BY Zenon, <3>1 DEF Window
    <3> QED
      BY ZenonT(30), <1>1, <1>4, <3>1, <3>2 DEF Claimed
  <2> QED
    BY <2>1, <2>2
<1>9. \A n \in tail + 1 .. head + Cap - 1 : Free(n)'
  <2> TAKE n \in tail + 1 .. head + Cap - 1
  <2>1. n \in tail .. head + Cap - 1
    BY <1>2
  <2>2. Free(n)
    BY ZenonT(30), <2>1 DEF Window
  <2> QED
    BY Zenon, <1>1, <1>7, <2>2 DEF Free
<1>10. Window'
  BY SMTT(30), <1>1, <1>2, <1>4, <1>5, <1>8, <1>9 DEF Window
<1>11. \A q \in Producers : Writing(q)' => Writer(q)'
  <2> SUFFICES ASSUME NEW q \in Producers, Writing(q)' PROVE Writer(q)'
    OBVIOUS
  <2>1. CASE q = p
    BY SMTT(30), <1>1, <1>2, <1>3, <1>4, <2>1 DEF Writer
  <2>2. CASE q # p
    <3>1. Writer(q) /\ ppos[q] \in Nat
      BY <1>6, <2>2 DEF Owners, TypeOK
    <3> QED
      BY SMTT(30), <1>1, <1>2, <1>4, <2>2, <3>1 DEF Writer
  <2> QED
    BY <2>1, <2>2
<1>12. \A c \in Consumers : Reading(c)' => Reader(c)'
  <2> SUFFICES ASSUME NEW c \in Consumers, Reading(c) PROVE Reader(c)'
    BY <1>7
  <2>1. Reader(c) /\ cpos[c] \in Nat
    BY DEF Owners, TypeOK
  <2>2. Slot(cpos[c]) = Slot(cpos[c] + Cap)
    BY SMTT(30), <2>1, SlotNext
  <2>3. cpos[c] + Cap # tail
    BY SMTT(30), <1>2, <1>3, <2>1, <2>2 DEF Reader
  <2>4. cpos[c] \in 0 .. tail - 1 /\ tail + 1 =< cpos[c] + Cap
    <3>1. tail =< cpos[c] + Cap /\ cpos[c] < head
      BY Zenon, <2>1 DEF Reader
    <3> QED
      BY SMTT(30), <1>2, <2>1, <2>3, <3>1
  <2>5. items'[cpos[c] + 1] = items[cpos[c] + 1]
    BY Zenon, <1>4, <2>4
  <2> QED
    BY Zenon, <1>1, <2>1, <2>4, <2>5 DEF Reader
<1>13. \A q, r \in Producers :
         Writing(q)' /\ Writing(r)' /\ ppos'[q] = ppos'[r] => q = r
  <2>1. \A q \in Producers : Writing(q) => ppos[q] # tail
    BY SMTT(30), <1>2 DEF Owners, Writer, TypeOK
  <2> QED
    BY ZenonT(30), <1>1, <1>6, <2>1 DEF Owners
<1>14. Owners'
  BY ZenonT(30), <1>1, <1>7, <1>11, <1>12, <1>13 DEF Owners
<1>15. Views'
  BY <1>1, <1>2, <1>3 DEF Views, TypeOK
<1> QED
  BY <1>10, <1>14, <1>15

\* Writing cell.data disturbs no value and no reader.
LEMMA DataKeeps ==
  ASSUME TypeOK, Window, Owners, Views, NEW p \in Producers, PushData(p)
  PROVE  /\ Window' /\ Owners' /\ Views'
         /\ \A c \in Consumers :
              Reading(c) => data'[Slot(cpos[c])] = data[Slot(cpos[c])]
<1> DEFINE a == ppos[p]
<1>1. /\ UNCHANGED <<head, tail, seq, items, ppos, pval, cpc, cpos>>
      /\ ppc[p] = "data" /\ ppc'[p] = "publish"
      /\ \A q \in Producers : q # p => ppc'[q] = ppc[q]
      /\ data' = [data EXCEPT ![Slot(a)] = pval[p]]
  BY ZenonT(30) DEF PushData, PStep, cvars, TypeOK
<1>2. /\ head \in Nat /\ tail \in Nat /\ Cap \in Nat /\ Cap >= 2
      /\ head =< tail /\ tail =< head + Cap
      /\ a \in head .. tail - 1 /\ a \in head .. head + Cap - 1
      /\ seq[Slot(a)] = a /\ pval[p] = items[a + 1]
      /\ Slot(a) \in Slots
  <2>1. Writer(p) /\ a \in Nat
    BY ZenonT(30), <1>1 DEF Owners, Writing, TypeOK
  <2>2. Slot(a) \in Slots
    BY <2>1, SlotType
  <2> QED
    BY <2>1, <2>2, RingAssumption DEF TypeOK, Window, Writer
<1> HIDE DEF a
<1>3. \A n \in head .. head + Cap - 1 :
        n # a => data'[Slot(n)] = data[Slot(n)]
  <2> SUFFICES ASSUME NEW n \in head .. head + Cap - 1, n # a
               PROVE  data'[Slot(n)] = data[Slot(n)]
    OBVIOUS
  <2>1. Slot(n) # Slot(a)
    BY Zenon, <1>2, SameSlot
  <2>2. Slot(n) \in Slots
    BY <1>2, SlotType
  <2> QED
    BY ZenonT(30), <1>1, <2>1, <2>2 DEF TypeOK
<1>4. data'[Slot(a)] = pval[p]
  BY Zenon, <1>1, <1>2 DEF TypeOK
<1>5. \A n \in head .. tail - 1 : Claimed(n)'
  <2> TAKE n \in head .. tail - 1
  <2>1. n \in head .. head + Cap - 1
    BY <1>2
  <2>2. Claimed(n)
    BY Zenon DEF Window
  <2> QED
    BY ZenonT(30), <1>1, <1>2, <1>3, <1>4, <2>1, <2>2 DEF Claimed
<1>6. \A c \in Consumers : Reading(c)' <=> Reading(c)
  BY Zenon, <1>1 DEF Reading
<1>7. \A n : Free(n) => Free(n)'
  BY Zenon, <1>1, <1>6 DEF Free
<1>8. Window'
  BY Zenon, <1>1, <1>5, <1>7 DEF Window
<1>9. \A q \in Producers : Writing(q)' <=> Writing(q)
  BY <1>1 DEF Writing
<1>10. \A q \in Producers : Writing(q)' => Writer(q)'
  <2> SUFFICES ASSUME NEW q \in Producers, Writing(q) PROVE Writer(q)'
    BY <1>9
  <2>1. Writer(q) /\ ppos[q] \in Nat
    BY DEF Owners, TypeOK
  <2>2. CASE q = p
    BY Zenon, <1>1, <1>4, <2>1, <2>2 DEF Writer, a
  <2>3. CASE q # p
    <3>1. ppos[q] # a
      BY ZenonT(30), <1>1, <2>3 DEF Owners, Writing, a
    <3>2. ppos[q] \in head .. head + Cap - 1
      BY <1>2, <2>1 DEF Writer
    <3>3. data'[Slot(ppos[q])] = data[Slot(ppos[q])]
      BY Zenon, <1>3, <3>1, <3>2
    <3> QED
      BY Zenon, <1>1, <2>1, <2>3, <3>3 DEF Writer
  <2> QED
    BY <2>2, <2>3
<1>11. \A c \in Consumers :
         Reading(c) => data'[Slot(cpos[c])] = data[Slot(cpos[c])]
  <2> SUFFICES ASSUME NEW c \in Consumers, Reading(c)
               PROVE  data'[Slot(cpos[c])] = data[Slot(cpos[c])]
    OBVIOUS
  <2>1. Reader(c) /\ cpos[c] \in Nat
    BY DEF Owners, TypeOK
  <2>2. Slot(cpos[c]) = Slot(cpos[c] + Cap)
    BY <2>1, SlotNext
  <2>3. cpos[c] + Cap \in head .. head + Cap - 1 /\ cpos[c] + Cap # a
    BY <1>2, <2>1 DEF Reader
  <2> QED
    BY Zenon, <1>3, <2>2, <2>3
<1>12. \A c \in Consumers : Reading(c)' => Reader(c)'
  BY Zenon, <1>1, <1>6, <1>11 DEF Owners, Reader
<1>13. Owners'
  BY ZenonT(30), <1>1, <1>6, <1>9, <1>10, <1>12 DEF Owners
<1>14. Views'
  BY <1>1 DEF Views
<1> QED
  BY <1>8, <1>11, <1>13, <1>14

\* Storing the sequence number hands the value over to the consumers.
LEMMA PublishKeeps ==
  ASSUME TypeOK, Window, Owners, Views, NEW p \in Producers, PushPublish(p)
  PROVE  Window' /\ Owners' /\ Views'
<1> DEFINE a == ppos[p]
<1>1. /\ UNCHANGED <<head, tail, data, items, ppos, pval, cpc, cpos>>
      /\ ppc[p] = "publish" /\ ppc'[p] = "depth"
      /\ \A q \in Producers : q # p => ppc'[q] = ppc[q]
      /\ seq' = [seq EXCEPT ![Slot(a)] = a + 1]
  BY ZenonT(30) DEF PushPublish, PStep, cvars, TypeOK
<1>2. /\ head \in Nat /\ tail \in Nat /\ Cap \in Nat /\ Cap >= 2
      /\ head =< tail /\ tail =< head + Cap
      /\ a \in head .. tail - 1 /\ a \in head .. head + Cap - 1
      /\ seq[Slot(a)] = a /\ data[Slot(a)] = items[a + 1]
      /\ Slot(a) \in Slots
  <2>1. Writer(p) /\ a \in Nat
    BY SMTT(30), <1>1 DEF Owners, Writing, TypeOK
  <2>2. Slot(a) \in Slots
    BY <2>1, SlotType
  <2> QED
    BY SMTT(30), <1>1, <2>1, <2>2, RingAssumption DEF TypeOK, Window, Writer
<1> HIDE DEF a
<1>3. \A n \in head .. head + Cap - 1 : n # a => seq'[Slot(n)] = seq[Slot(n)]
  <2> SUFFICES ASSUME NEW n \in head .. head + Cap - 1, n # a
               PROVE  seq'[Slot(n)] = seq[Slot(n)]
    OBVIOUS
  <2>1. Slot(n) # Slot(a)
    BY ZenonT(30), <1>2, SameSlot
  <2>2. Slot(n) \in Slots
    BY <1>2, SlotType
  <2> QED
    BY <1>1, <2>1, <2>2 DEF TypeOK
<1>4. seq'[Slot(a)] = a + 1
  BY Zenon, <1>1, <1>2 DEF TypeOK
<1>5. \A n \in head .. tail - 1 : Claimed(n)'
  <2> TAKE n \in head .. tail - 1
  <2>1. n \in head .. head + Cap - 1
    BY <1>2
  <2>2. Claimed(n)
    BY Zenon DEF Window
  <2> QED
    BY ZenonT(30), <1>1, <1>2, <1>3, <1>4, <2>1, <2>2 DEF Claimed
<1>6. \A c \in Consumers : Reading(c)' <=> Reading(c)
  BY Zenon, <1>1 DEF Reading
<1>7. \A n \in tail .. head + Cap - 1 : Free(n)'
  <2> TAKE n \in tail .. head + Cap - 1
  <2>1. n \in head .. head + Cap - 1 /\ n # a
    BY <1>2
  <2>2. Free(n)
    BY Zenon DEF Window
  <2> QED
    BY ZenonT(30), <1>1, <1>3, <1>6, <2>1, <2>2 DEF Free
<1>8. Window'
  BY ZenonT(30), <1>1, <1>5, <1>7 DEF Window
<1>9. \A q \in Producers : Writing(q)' <=> Writing(q) /\ q # p
  BY ZenonT(30), <1>1 DEF Writing
<1>10. \A q \in Producers : Writing(q)' => Writer(q)'
  <2> SUFFICES ASSUME NEW q \in Producers, Writing(q), q # p PROVE Writer(q)'
    BY <1>9
  <2>1. Writer(q) /\ ppos[q] \in Nat
    BY DEF Owners, TypeOK
  <2>2. ppos[q] # a
    BY Zenon, <1>1 DEF Owners, Writing, a
  <2>3. ppos[q] \in head .. head + Cap - 1
    BY <1>2, <2>1 DEF Writer
  <2>4. seq'[Slot(ppos[q])] = seq[Slot(ppos[q])]
    BY Zenon, <1>3, <2>2, <2>3
  <2> QED
    BY Zenon, <1>1, <2>1, <2>4 DEF Writer
<1>11. \A c \in Consumers : Reading(c)' => Reader(c)'
  <2> SUFFICES ASSUME NEW c \in Consumers, Reading(c) PROVE Reader(c)'
    BY <1>6
  <2>1. Reader(c) /\ cpos[c] \in Nat
    BY DEF Owners, TypeOK
  <2>2. Slot(cpos[c]) = Slot(cpos[c] + Cap)
    BY <2>1, SlotNext
  <2>3. cpos[c] + Cap \in head .. head + Cap - 1 /\ cpos[c] + Cap # a
    BY SMTT(30), <1>2, <2>1 DEF Reader
  <2>4. seq'[Slot(cpos[c])] = seq[Slot(cpos[c])]
    BY Zenon, <1>3, <2>2, <2>3
  <2> QED
    BY ZenonT(30), <1>1, <2>1, <2>4 DEF Reader
<1>12. Owners'
  BY ZenonT(30), <1>1, <1>6, <1>9, <1>10, <1>11 DEF Owners
<1>13. \A i \in Slots : /\ seq[i] \in Nat /\ seq'[i] \in Nat
                        /\ seq[i] =< seq'[i]
                        /\ seq'[i] # seq[i] => seq[i] = a
  BY <1>1, <1>2 DEF TypeOK
<1>14. \A q \in Producers :
         /\ ppc[q] = "seq" /\ ppos[q] < tail => ppos[q] =< seq'[Slot(ppos[q])]
         /\ ppc[q] = "cas" /\ ppos[q] = tail => seq'[Slot(tail)] = tail
  <2> SUFFICES ASSUME NEW q \in Producers
               PROVE  /\ ppc[q] = "seq" /\ ppos[q] < tail => ppos[q] =< seq'[Slot(ppos[q])]
                      /\ ppc[q] = "cas" /\ ppos[q] = tail => seq'[Slot(tail)] = tail
    BY ZenonT(30)
  <2>1. Slot(ppos[q]) \in Slots /\ Slot(tail) \in Slots /\ ppos[q] \in Nat
    BY SMTT(30), <1>2, SlotType DEF TypeOK
  <2>2. ppc[q] = "seq" /\ ppos[q] < tail => ppos[q] =< seq'[Slot(ppos[q])]
    <3>1. ppc[q] = "seq" /\ ppos[q] < tail => ppos[q] =< seq[Slot(ppos[q])]
      BY ZenonT(30) DEF Views
    <3> QED
      BY <1>13, <2>1, <3>1
  <2>3. seq[Slot(tail)] = tail => seq'[Slot(tail)] = tail
    BY SMTT(30), <1>2, <1>13, <2>1
  <2> QED
    BY ZenonT(30), <2>2, <2>3 DEF Views
<1>15. seq[Slot(head)] = head + 1 => seq'[Slot(head)] = head + 1
  <2>1. head \in head .. head + Cap - 1
    BY <1>2
  <2>2. CASE head # a
    BY ZenonT(30), <1>3, <2>1, <2>2
  <2>3. CASE head = a
    BY SMTT(30), <1>2, <2>3
  <2> QED
    BY <2>2, <2>3
<1>16. Views'
  BY ZenonT(30), <1>1, <1>14, <1>15 DEF Views
<1> QED
  BY <1>8, <1>12, <1>16

\* A consumer whose compare-and-swap succeeds takes a written cell.
LEMMA TakeKeeps ==
  ASSUME TypeOK, Window, Owners, Views, NEW c \in Consumers, PopClaim(c)
  PROVE  /\ Window' /\ Owners' /\ Views'
         /\ cpos[c] = head /\ head < tail /\ data[Slot(head)] = items[head + 1]
<1>1. /\ UNCHANGED <<tail, seq, data, items, ppc, ppos, pval, cpos>>
      /\ cpc[c] = "cas" /\ cpc'[c] = "read" /\ cpos[c] = head
      /\ \A d \in Consumers : d # c => cpc'[d] = cpc[d]
      /\ head' = head + 1
  BY DEF PopClaim, CStep, pvars, TypeOK
<1>2. /\ head \in Nat /\ tail \in Nat /\ Cap \in Nat /\ Cap >= 2
      /\ head =< tail /\ tail =< head + Cap /\ Len(items) = tail
  BY SMTT(30), RingAssumption DEF TypeOK, Window
<1>3. seq[Slot(head)] = head + 1
  BY ZenonT(30), <1>1 DEF Views
<1>4. head < tail
  <2> SUFFICES ASSUME head = tail PROVE FALSE
    BY <1>2
  <2>1. Free(head)
    BY <1>2 DEF Window
  <2>2. PICK d \in Consumers : Reading(d) /\ cpos[d] + Cap = head
    BY SMTT(30), <1>2, <1>3, <2>1 DEF Free
  <2>3. Reader(d) /\ cpos[d] \in Nat
    BY <2>2 DEF Owners, TypeOK
  <2>4. Slot(cpos[d]) = Slot(head)
    BY SMTT(30), <2>2, <2>3, SlotNext
  <2> QED
    BY <1>2, <1>3, <2>2, <2>3, <2>4 DEF Reader
<1>5. data[Slot(head)] = items[head + 1]
  <2>1. Claimed(head)
    BY <1>2, <1>4 DEF Window
  <2> QED
    BY <1>2, <1>3, <2>1 DEF Claimed
<1>6. \A d \in Consumers : Reading(d)' <=> Reading(d) \/ d = c
  BY <1>1 DEF Reading
<1>7. \A q \in Producers : Writing(q)' <=> Writing(q)
  BY Zenon, <1>1 DEF Writing
<1>8. \A n \in head + 1 .. tail - 1 : Claimed(n)'
  <2> TAKE n \in head + 1 .. tail - 1
  <2>1. n \in head .. tail - 1
    BY <1>2
  <2> QED
    BY Zenon, <1>1, <2>1 DEF Claimed, Window
<1>9. \A n \in tail .. head + Cap : Free(n)'
  <2> TAKE n \in tail .. head + Cap
  <2>1. CASE n = head + Cap
    BY Zenon, <1>1, <1>6, <2>1 DEF Free
  <2>2. CASE n # head + Cap
    <3>1. n \in tail .. head + Cap - 1
      BY SMTT(30), <1>2, <2>2
    <3> QED
      BY ZenonT(30), <1>1, <1>6, <3>1 DEF Free, Window
  <2> QED
    BY <2>1, <2>2
<1>10. Window'
  BY SMTT(30), <1>1, <1>2, <1>4, <1>8, <1>9 DEF Window
<1>11. \A q \in Producers : Writing(q)' => Writer(q)'
  <2> SUFFICES ASSUME NEW q \in Producers, Writing(q) PROVE Writer(q)'
    BY <1>7
  <2>1. Writer(q) /\ ppos[q] \in Nat
    BY ZenonT(30) DEF Owners, TypeOK
  <2>2. ppos[q] # head
    BY SMTT(30), <1>2, <1>3, <2>1 DEF Writer
  <2> QED
    BY SMTT(30), <1>1, <1>2, <2>1, <2>2 DEF Writer
<1>12. \A d \in Consumers : Reading(d)' => Reader(d)'
  <2> SUFFICES ASSUME NEW d \in Consumers, Reading(d)' PROVE Reader(d)'
    BY ZenonT(30)
  <2>1. CASE d = c
    BY SMTT(30), <1>1, <1>2, <1>3, <1>5, <2>1 DEF Reader
  <2>2. CASE d # c
    <3>1. Reader(d) /\ cpos[d] \in Nat
      BY ZenonT(30), <1>6, <2>2 DEF Owners, TypeOK
    <3> QED
      BY SMTT(30), <1>1, <1>2, <2>2, <3>1 DEF Reader
  <2> QED
    BY <2>1, <2>2
<1>13. \A d, e \in Consumers :
         Reading(d)' /\ Reading(e)' /\ cpos'[d] = cpos'[e] => d = e
  <2>1. \A d \in Consumers : Reading(d) => cpos[d] # head
    BY <1>2 DEF Owners, Reader, TypeOK
  <2> QED
    BY ZenonT(30), <1>1, <1>6, <2>1 DEF Owners
<1>14. Owners'
  BY ZenonT(30), <1>1, <1>7, <1>11, <1>12, <1>13 DEF Owners
<1>15. \A d \in Consumers :
         cpc'[d] \in {"seq", "cas"} => cpos[d] =< head /\ cpos[d] \in Nat
  BY ZenonT(30), <1>1 DEF Views, TypeOK
<1>16. \A d \in Consumers :
         cpc'[d] \in {"seq", "cas"} => cpos[d] =< head + 1 /\ cpos[d] # head + 1
  BY <1>2, <1>15
<1>17. Views'
  BY ZenonT(30), <1>1, <1>16 DEF Views
<1> QED
  BY ZenonT(30), <1>1, <1>4, <1>5, <1>10, <1>14, <1>17

\* The store of a consumer frees the cell for the next round.
LEMMA ReleaseKeeps ==
  ASSUME TypeOK, Window, Owners, Views, NEW c \in Consumers, PopRelease(c)
  PROVE  Window' /\ Owners' /\ Views'
<1> DEFINE a == cpos[c] + Cap
<1>1. /\ UNCHANGED <<head, tail, data, items, ppc, ppos, pval, cpos>>
      /\ cpc[c] = "release" /\ cpc'[c] = "depth"
      /\ \A d \in Consumers : d # c => cpc'[d] = cpc[d]
      /\ seq' = [seq EXCEPT ![Slot(cpos[c])] = a]
  BY DEF PopRelease, CStep, pvars, TypeOK
<1>2. Slot(cpos[c]) = Slot(a) /\ Slot(a) \in Slots /\ cpos[c] \in Nat
  <2>1. cpos[c] \in Int
    BY SMTT(30) DEF TypeOK
  <2> QED
    BY ZenonT(30), <2>1, SlotNext, SlotType DEF TypeOK
<1>3. /\ head \in Nat /\ tail \in Nat /\ Cap \in Nat /\ Cap >= 2
      /\ head =< tail /\ tail =< head + Cap
      /\ a \in tail .. head + Cap - 1 /\ a \in head .. head + Cap - 1
      /\ seq[Slot(a)] = (a - Cap) + 1
  <2>1. Reader(c)
    BY <1>1 DEF Owners, Reading
  <2> QED
    BY SMTT(30), <1>2, <2>1, RingAssumption DEF TypeOK, Window, Reader
<1>4. seq' = [seq EXCEPT ![Slot(a)] = a]
  BY ZenonT(30), <1>1, <1>2
<1> HIDE DEF a
<1>5. \A n \in head .. head + Cap - 1 : n # a => seq'[Slot(n)] = seq[Slot(n)]
  <2> SUFFICES ASSUME NEW n \in head .. head + Cap - 1, n # a
               PROVE  seq'[Slot(n)] = seq[Slot(n)]
    OBVIOUS
  <2>1. Slot(n) # Slot(a)
    BY Zenon, <1>3, SameSlot
  <2>2. Slot(n) \in Slots
    BY <1>3, SlotType
  <2> QED
    BY <1>4, <2>1, <2>2 DEF TypeOK
<1>6. seq'[Slot(a)] = a
  BY Zenon, <1>2, <1>4 DEF TypeOK
<1>7. \A n \in head .. tail - 1 : Claimed(n)'
  <2> TAKE n \in head .. tail - 1
  <2>1. n \in head .. head + Cap - 1 /\ n # a
    BY <1>3
  <2> QED
    BY ZenonT(30), <1>1, <1>5, <2>1 DEF Claimed, Window
<1>8. \A d \in Consumers : Reading(d)' <=> Reading(d) /\ d # c
  BY <1>1 DEF Reading
<1>9. \A n \in tail .. head + Cap - 1 : Free(n)'
  <2> TAKE n \in tail .. head + Cap - 1
  <2>1. CASE n = a
    BY Zenon, <1>6, <2>1 DEF Free
  <2>2. CASE n # a
    <3>1. n \in head .. head + Cap - 1
      BY <1>3
    <3>2. Free(n)
      BY Zenon DEF Window
    <3> QED
      BY ZenonT(30), <1>1, <1>5, <1>8, <2>2, <3>1, <3>2 DEF Free, a
  <2> QED
    BY <2>1, <2>2
<1>10. Window'
  BY Zenon, <1>1, <1>7, <1>9 DEF Window
<1>11. \A q \in Producers : Writing(q)' <=> Writing(q)
  BY Zenon, <1>1 DEF Writing
<1>12. \A q \in Producers : Writing(q)' => Writer(q)'
  <2> SUFFICES ASSUME NEW q \in Producers, Writing(q) PROVE Writer(q)'
    BY <1>11
  <2>1. Writer(q) /\ ppos[q] \in Nat
    BY DEF Owners, TypeOK
  <2>2. ppos[q] \in head .. head + Cap - 1 /\ ppos[q] # a
    BY <1>3, <2>1 DEF Writer
  <2>3. seq'[Slot(ppos[q])] = seq[Slot(ppos[q])]
    BY Zenon, <1>5, <2>2
  <2> QED
    BY ZenonT(30), <1>1, <2>1, <2>3 DEF Writer
<1>13. \A d \in Consumers : Reading(d)' => Reader(d)'
  <2> SUFFICES ASSUME NEW d \in Consumers, Reading(d), d # c PROVE Reader(d)'
    BY <1>8
  <2>1. Reader(d) /\ cpos[d] \in Nat
    BY DEF Owners, TypeOK
  <2>2. Slot(cpos[d]) = Slot(cpos[d] + Cap)
    BY <2>1, SlotNext
  <2>3. cpos[d] # cpos[c]
    BY ZenonT(30), <1>1 DEF Owners, Reading
  <2>4. cpos[d] + Cap \in head .. head + Cap - 1 /\ cpos[d] + Cap # a
    BY SMTT(30), <1>2, <1>3, <2>1, <2>3 DEF Reader, a
  <2>5. seq'[Slot(cpos[d])] = seq[Slot(cpos[d])]
    BY ZenonT(30), <1>5, <2>2, <2>4
  <2> QED
    BY ZenonT(30), <1>1, <2>1, <2>5 DEF Reader
<1>14. Owners'
  BY ZenonT(30), <1>1, <1>8, <1>11, <1>12, <1>13 DEF Owners
<1>15. \A i \in Slots : /\ seq[i] \in Nat /\ seq'[i] \in Nat
                        /\ seq[i] =< seq'[i]
  BY SMTT(30), <1>2, <1>3, <1>4 DEF TypeOK
<1>16. \A q \in Producers :
         /\ ppc[q] = "seq" /\ ppos[q] < tail => ppos[q] =< seq'[Slot(ppos[q])]
         /\ ppc[q] = "cas" /\ ppos[q] = tail => seq'[Slot(tail)] = tail
  <2> SUFFICES ASSUME NEW q \in Producers
               PROVE  /\ ppc[q] = "seq" /\ ppos[q] < tail => ppos[q] =< seq'[Slot(ppos[q])]
                      /\ ppc[q] = "cas" /\ ppos[q] = tail => seq'[Slot(tail)] = tail
    BY ZenonT(30)
  <2>1. Slot(ppos[q]) \in Slots /\ Slot(tail) \in Slots /\ ppos[q] \in Nat
    BY SMTT(30), <1>3, SlotType DEF TypeOK
  <2>2. ppc[q] = "seq" /\ ppos[q] < tail => ppos[q] =< seq'[Slot(ppos[q])]
    <3>1. ppc[q] = "seq" /\ ppos[q] < tail => ppos[q] =< seq[Slot(ppos[q])]
      BY ZenonT(30) DEF Views
    <3> QED
      BY SMTT(30), <1>15, <2>1, <3>1
  <2>3. seq[Slot(tail)] = tail => seq'[Slot(tail)] = tail
    <3>1. CASE tail = a
      BY ZenonT(30), <1>6, <3>1
    <3>2. CASE tail # a
      <4>1. tail \in head .. head + Cap - 1
        BY SMTT(30), <1>3
      <4> QED
        BY ZenonT(30), <1>5, <3>2, <4>1
    <3> QED
      BY <3>1, <3>2
  <2> QED
    BY ZenonT(30), <2>2, <2>3 DEF Views
<1>17. seq[Slot(head)] = head + 1 => seq'[Slot(head)] = head + 1
  <2>1. head \in head .. head + Cap - 1
    BY SMTT(30), <1>3
  <2>2. CASE head # a
    BY Zenon, <1>5, <2>1, <2>2
  <2>3. CASE head = a
    BY SMTT(30), <1>3, <2>3
  <2> QED
    BY <2>2, <2>3
<1>18. Views'
  BY ZenonT(30), <1>1, <1>16, <1>17 DEF Views
<1> QED
  BY <1>10, <1>14, <1>18

LEMMA InitInv ==
  Init => RingInv
<1> SUFFICES ASSUME Init PROVE RingInv
  OBVIOUS
<1>1. TypeOK
  BY InitType
<1>2. \A n \in 0 .. Cap - 1 : Slot(n) = n
  BY RingAssumption DEF Slot
<1>3. \A n \in 0 .. Cap - 1 : seq[Slot(n)] = n
  BY ZenonT(30), <1>2 DEF Init, Slots
<1>4. Window
  BY <1>3, RingAssumption DEF Init, Window, Claimed, Free
<1>5. Owners
  BY Zenon DEF Init, Owners, Writing, Reading
<1>6. Views
  BY Zenon DEF Init, Views
<1> QED
  BY <1>1, <1>4, <1>5, <1>6 DEF RingInv

LEMMA NextInv ==
  RingInv /\ [Next]_vars => RingInv'
<1> SUFFICES ASSUME TypeOK, Window, Owners, Views, [Next]_vars
             PROVE  Window' /\ Owners' /\ Views'
  BY NextType DEF RingInv
<1>1. ASSUME NEW p \in Producers, NEW v \in Values, PushBegin(p, v)
      PROVE  Window' /\ Owners' /\ Views'
  BY Zenon, <1>1, PushAlone
<1>2. ASSUME NEW p \in Producers, Push(p)
      PROVE  Window' /\ Owners' /\ Views'
  BY ZenonT(30), <1>2, PushAlone, ClaimKeeps, DataKeeps, PublishKeeps DEF Push
<1>3. ASSUME NEW c \in Consumers, Pop(c)
      PROVE  Window' /\ Owners' /\ Views'
  BY ZenonT(30), <1>3, PopAlone, TakeKeeps, ReleaseKeeps DEF Pop
<1>4. ASSUME NEW c \in Stopped, Cancel(c)
      PROVE  Window' /\ Owners' /\ Views'
  BY <1>4, PopAlone, RingAssumption
<1>5. CASE UNCHANGED vars
  <2>1. CellsAlone
    BY Zenon, <1>5 DEF vars, ring, pvars, cvars, CellsAlone, Writing, Reading
  <2>2. Views'
    BY Zenon, <1>5 DEF vars, ring, pvars, cvars, Views
  <2> QED
    BY <2>1, <2>2, AloneKeeps
<1> QED
  BY ZenonT(30), <1>1, <1>2, <1>3, <1>4, <1>5, RingAssumption DEF Next

\* The sequence numbers always tell who owns which cell.
THEOREM RingInvariant == Spec => []RingInv
BY InitInv, NextInv, PTL DEF Spec

\* Every variable of the ring keeps its type, for every capacity and every
\* number of goroutines calling Push and Pop.
THEOREM RingTypeCorrect == Spec => []TypeOK
<1>1. RingInv => TypeOK
  BY DEF RingInv
<1> QED
  BY <1>1, RingInvariant, PTL

\* The plain accesses to cell.data in Push and Pop never race.
THEOREM OneOwner == Spec => []CellHasOneOwner
<1>1. RingInv => CellHasOneOwner
  <2> SUFFICES ASSUME TypeOK, Window, Owners PROVE CellHasOneOwner
    BY DEF RingInv
  <2>1. /\ head \in Nat /\ tail \in Nat /\ Cap \in Nat
        /\ head =< tail /\ tail =< head + Cap
    BY ZenonT(30), RingAssumption DEF TypeOK, Window
  <2>2. \A p \in Producers : Writing(p) =>
          ppos[p] \in head .. head + Cap - 1 /\ ppos[p] < tail
    BY <2>1 DEF Owners, Writer, TypeOK
  <2>3. \A c \in Consumers : Reading(c) =>
          /\ cpos[c] + Cap \in head .. head + Cap - 1 /\ tail =< cpos[c] + Cap
          /\ Slot(cpos[c] + Cap) = Slot(cpos[c]) /\ cpos[c] \in Nat
    <3> SUFFICES ASSUME NEW c \in Consumers, Reading(c)
                 PROVE  /\ cpos[c] + Cap \in head .. head + Cap - 1
                        /\ tail =< cpos[c] + Cap
                        /\ Slot(cpos[c] + Cap) = Slot(cpos[c])
                        /\ cpos[c] \in Nat
      OBVIOUS
    <3>1. cpos[c] \in Nat /\ tail =< cpos[c] + Cap /\ cpos[c] < head
      BY Zenon DEF Owners, Reader, TypeOK
    <3> QED
      BY <2>1, <3>1, SlotNext
  <2>4. ASSUME NEW p \in Producers, NEW q \in Producers, Writing(p), Writing(q),
               Slot(ppos[p]) = Slot(ppos[q])
        PROVE  p = q
    BY ZenonT(30), <2>2, <2>4, SameSlot DEF Owners
  <2>5. ASSUME NEW c \in Consumers, NEW d \in Consumers, Reading(c), Reading(d),
               Slot(cpos[c]) = Slot(cpos[d])
        PROVE  c = d
    <3>1. cpos[c] + Cap = cpos[d] + Cap
      BY ZenonT(30), <2>3, <2>5, SameSlot
    <3>2. cpos[c] = cpos[d]
      BY SMTT(30), <2>1, <2>3, <2>5, <3>1
    <3> QED
      BY Zenon, <2>5, <3>2 DEF Owners
  <2>6. ASSUME NEW p \in Producers, NEW c \in Consumers, Writing(p), Reading(c),
               Slot(ppos[p]) = Slot(cpos[c])
        PROVE  FALSE
    <3>1. ppos[p] = cpos[c] + Cap
      BY ZenonT(30), <2>2, <2>3, <2>6, SameSlot
    <3> QED
      BY SMTT(30), <2>1, <2>2, <2>3, <2>6, <3>1
  <2> QED
    BY Zenon, <2>4, <2>5, <2>6 DEF CellHasOneOwner
<1> QED
  BY <1>1, RingInvariant, PTL

\* Push reports a full queue only when the ring is full or a consumer holds
\* a cell it has taken and not released.
THEOREM FullCause == Spec => FullHasCause
<1>1. ASSUME RingInv, [Next]_vars, NEW p \in Producers, GivesUp(p)
      PROVE  tail - head = Cap \/ \E c \in Consumers : Reading(c)
  <2>1. TypeOK /\ Window /\ Views
    BY <1>1 DEF RingInv
  <2>2. PushSeq(p) /\ seq[Slot(ppos[p])] < ppos[p]
    <3>1. ASSUME NEW q \in Producers, NEW v \in Values, PushBegin(q, v)
          PROVE  FALSE
      BY ZenonT(30), <1>1, <2>1, <3>1 DEF GivesUp, PushBegin, PStep, TypeOK
    <3>2. ASSUME NEW q \in Producers, Push(q)
          PROVE  PushSeq(p) /\ seq[Slot(ppos[p])] < ppos[p]
      <4>1. q = p
        BY ZenonT(30), <1>1, <2>1, <3>2 DEF GivesUp, Push, PushLoad, PushSeq,
           PushClaim, PushCASFails, PushData, PushPublish, PushDepth,
           PushNotify, PStep, TypeOK
      <4>2. PushSeq(p)
        BY ZenonT(30), <1>1, <2>1, <3>2, <4>1 DEF GivesUp, Push, PushLoad, PushSeq,
           PushClaim, PushCASFails, PushData, PushPublish, PushDepth,
           PushNotify, PStep, TypeOK
      <4>3. PushVerdict(seq[Slot(ppos[p])], ppos[p]) = "idle"
        BY ZenonT(30), <1>1, <2>1, <4>2 DEF GivesUp, PushSeq, PStep, TypeOK
      <4> QED
        BY ZenonT(30), <4>2, <4>3 DEF PushVerdict
    <3>3. ASSUME NEW c \in Consumers, Pop(c) \/ Cancel(c)
          PROVE  FALSE
      BY Zenon, <1>1, <3>3 DEF GivesUp, Pop, PopBegin, PopLoad, PopSeq, PopClaim,
         PopCASFails, PopRead, PopRelease, PopDepth, PopWake, PopDone, CStep,
         Cancel, pvars
    <3>4. CASE UNCHANGED vars
      BY ZenonT(30), <1>1, <3>4 DEF GivesUp, vars, pvars
    <3> QED
      BY ZenonT(30), <1>1, <3>1, <3>2, <3>3, <3>4, RingAssumption DEF Next
  <2>3. /\ head \in Nat /\ tail \in Nat /\ Cap \in Nat /\ ppos[p] \in Nat
        /\ head =< tail /\ tail =< head + Cap
        /\ seq[Slot(ppos[p])] \in Nat
    BY SMTT(30), <2>1, SlotType, RingAssumption DEF TypeOK, Window
  <2>4. ppos[p] = tail
    BY SMTT(30), <1>1, <2>1, <2>2, <2>3 DEF Views, GivesUp
  <2>5. CASE tail < head + Cap
    <3>1. Free(tail)
      BY SMTT(30), <2>1, <2>3, <2>5 DEF Window
    <3> QED
      BY SMTT(30), <2>2, <2>3, <2>4, <3>1 DEF Free
  <2> QED
    BY <2>3, <2>5
<1>2. RingInv /\ [Next]_vars =>
        [\A p \in Producers : GivesUp(p) =>
           tail - head = Cap \/ \E c \in Consumers : Reading(c)]_vars
  BY <1>1
<1> QED
  BY <1>2, RingInvariant, PTL DEF Spec, FullHasCause

----------------------------------------------------------------------------
(* The ring implements the queue of module Fifo.                           *)

\* The two ways the values from head to tail change.
LEMMA SubSeqAppend ==
  ASSUME NEW S, NEW s \in Seq(S), NEW v \in S, NEW h \in Nat, h =< Len(s)
  PROVE  SubSeq(Append(s, v), h + 1, Len(s) + 1)
           = Append(SubSeq(s, h + 1, Len(s)), v)
<1> DEFINE t == Append(s, v)
           x == SubSeq(t, h + 1, Len(s) + 1)
           y == SubSeq(s, h + 1, Len(s))
           k == Len(s) - h
<1>1. k \in Nat /\ Len(s) \in Nat
  OBVIOUS
<1>2. /\ t \in Seq(S) /\ Len(t) = Len(s) + 1 /\ t[Len(s) + 1] = v
      /\ \A i \in 1 .. Len(s) : t[i] = s[i]
  BY AppendProperties
<1>3. /\ \A i \in (h + 1) .. Len(s) : s[i] \in S
      /\ \A i \in (h + 1) .. (Len(s) + 1) : t[i] \in S
  <2> HIDE DEF t
  <2> QED
    BY SMTT(30), <1>1, <1>2
<1>4. /\ x \in Seq(S) /\ Len(x) = k + 1
      /\ \A i \in 1 .. k + 1 : x[i] = t[h + i]
  <2> HIDE DEF t
  <2> QED
    BY SMTT(30), <1>1, <1>3, SubSeqProperties
<1>5. /\ y \in Seq(S) /\ Len(y) = k
      /\ \A i \in 1 .. k : y[i] = s[h + i]
  BY SMTT(30), <1>1, <1>3, SubSeqProperties
<1> HIDE DEF t, x, y
<1>6. /\ Append(y, v) \in Seq(S) /\ Len(Append(y, v)) = k + 1
      /\ \A i \in 1 .. k : Append(y, v)[i] = y[i]
      /\ Append(y, v)[k + 1] = v
  BY <1>5, AppendProperties
<1>7. \A i \in 1 .. k + 1 : x[i] = Append(y, v)[i]
  <2> SUFFICES ASSUME NEW i \in 1 .. k + 1
               PROVE  x[i] = Append(y, v)[i]
    BY ZenonT(30)
  <2>1. CASE i = k + 1
    BY <1>1, <1>2, <1>4, <1>6, <2>1
  <2>2. CASE i # k + 1
    <3>1. i \in 1 .. k /\ h + i \in 1 .. Len(s)
      BY SMTT(30), <1>1, <2>2
    <3> QED
      BY <1>2, <1>4, <1>5, <1>6, <3>1
  <2> QED
    BY ZenonT(30), <2>1, <2>2
<1>8. x = Append(y, v)
  BY ZenonT(30), <1>4, <1>6, <1>7, SeqEqual
<1> QED
  BY Zenon, <1>8 DEF x, y, t

LEMMA SubSeqTail ==
  ASSUME NEW S, NEW s \in Seq(S), NEW h \in Nat, h < Len(s)
  PROVE  /\ SubSeq(s, h + 1, Len(s)) # <<>>
         /\ Head(SubSeq(s, h + 1, Len(s))) = s[h + 1]
         /\ Tail(SubSeq(s, h + 1, Len(s))) = SubSeq(s, h + 2, Len(s))
<1>1. /\ h + 1 \in 1 .. Len(s) /\ Len(s) \in (h + 1) .. Len(s)
      /\ (h + 1) + 1 = h + 2 /\ Len(s) \in Nat
  OBVIOUS
<1>2. \A i \in (h + 1) .. Len(s) : s[i] \in S
  BY <1>1
<1>3. Len(SubSeq(s, h + 1, Len(s))) # 0
  BY <1>1, <1>2, SubSeqProperties
<1>4. SubSeq(s, h + 1, Len(s)) # <<>>
  <2>1. Len(<<>>) = 0
    BY Zenon, EmptySeq
  <2> QED
    BY Zenon, <1>3, <2>1
<1>5. /\ Head(SubSeq(s, h + 1, Len(s))) = s[h + 1]
      /\ Tail(SubSeq(s, h + 1, Len(s))) = SubSeq(s, (h + 1) + 1, Len(s))
  BY Zenon, <1>1, HeadTailOfSubSeq
<1> QED
  BY Zenon, <1>1, <1>4, <1>5

\* The value a consumer got, as ImplementsFifo sees it.
Got(c) == IF cpc[c] = "read" THEN data[Slot(cpos[c])] ELSE cout[c]

\* A step that is invisible to the callers.
LEMMA Invisible ==
  ASSUME UNCHANGED <<head, tail, items>>,
         \A c \in Consumers : Got(c)' = Got(c)
  PROVE  UNCHANGED F!fvars
BY Zenon DEF F!fvars, Got

\* Push and Pop implement the bounded queue of module Fifo.
THEOREM FifoImplemented == Spec => ImplementsFifo
<1> USE DEF Got
<1>1. Init => F!FInit
  <2> SUFFICES ASSUME Init PROVE F!FInit
    OBVIOUS
  <2>1. SubSeq(items, head + 1, tail) = <<>>
    BY DEF Init
  <2>2. [c \in Consumers |-> Got(c)] = [c \in Consumers |-> NoValue]
    BY Zenon DEF Init
  <2> QED
    BY ZenonT(30), <2>1, <2>2 DEF F!FInit
<1>2. ASSUME RingInv, [Next]_vars
      PROVE  [F!FNext]_(F!fvars)
  <2>1. TypeOK /\ Window /\ Owners /\ Views
    BY <1>2 DEF RingInv
  <2>2. ASSUME NEW p \in Producers,
               \/ \E v \in Values : PushBegin(p, v)
               \/ PushLoad(p) \/ PushSeq(p) \/ PushCASFails(p)
               \/ PushPublish(p) \/ PushDepth(p) \/ PushNotify(p)
        PROVE  UNCHANGED F!fvars
    <3>1. UNCHANGED <<head, tail, items, data, cpc, cpos, cout>>
      BY Zenon, <2>2 DEF PushBegin, PushLoad, PushSeq, PushCASFails, PushPublish,
         PushDepth, PushNotify, PStep, ring, cvars
    <3> QED
      BY Zenon, <3>1, Invisible
  <2>3. ASSUME NEW p \in Producers, PushData(p)
        PROVE  UNCHANGED F!fvars
    <3>1. UNCHANGED <<head, tail, items, cpc, cpos, cout>>
      BY Zenon, <2>3 DEF PushData, PStep, cvars
    <3>2. \A c \in Consumers : cpc[c] = "read" =>
            data'[Slot(cpos[c])] = data[Slot(cpos[c])]
      BY ZenonT(30), <2>1, <2>3, DataKeeps DEF Reading
    <3> QED
      BY ZenonT(30), <3>1, <3>2, Invisible
  <2>4. ASSUME NEW p \in Producers, PushClaim(p)
        PROVE  F!FNext
    <3>1. /\ UNCHANGED <<head, data, cpc, cpos, cout>>
          /\ tail' = tail + 1 /\ items' = Append(items, pval[p])
          /\ pval[p] \in Values
      BY ZenonT(30), <2>1, <2>4 DEF PushClaim, PStep, cvars, Views
    <3>2. /\ head \in Nat /\ tail \in Nat /\ items \in Seq(Values)
          /\ Len(items) = tail /\ head =< tail
          /\ Len(items') = tail + 1 /\ tail + 1 =< head + Cap
      <4>1. Window'
        BY SMTT(30), <2>1, <2>4, ClaimKeeps
      <4> QED
        BY ZenonT(30), <2>1, <3>1, <4>1 DEF TypeOK, Window
    <3>3. SubSeq(items', head' + 1, tail')
            = Append(SubSeq(items, head + 1, tail), pval[p])
      BY ZenonT(30), <3>1, <3>2, SubSeqAppend
    <3>4. Len(SubSeq(items, head + 1, tail)) < Cap
      <4>1. \A i \in (head + 1) .. tail : items[i] \in Values
        BY <3>2
      <4>2. Len(SubSeq(items, head + 1, tail)) = tail - head
        BY <3>2, <4>1, SubSeqProperties
      <4> QED
        BY <3>2, <4>2, RingAssumption
    <3>5. F!Enqueue(pval[p])
      BY ZenonT(30), <3>1, <3>3, <3>4 DEF F!Enqueue
    <3> QED
      BY Zenon, <3>1, <3>5 DEF F!FNext
  <2>5. ASSUME NEW c \in Consumers,
               \/ PopBegin(c) \/ PopLoad(c) \/ PopSeq(c) \/ PopCASFails(c)
               \/ PopRelease(c) \/ PopDepth(c) \/ PopWake(c) \/ PopDone(c)
               \/ Cancel(c)
        PROVE  UNCHANGED F!fvars
    <3>1. /\ UNCHANGED <<head, tail, items, data, cout>>
          /\ \A d \in Consumers :
               /\ cpc'[d] = "read" <=> cpc[d] = "read"
               /\ cpc[d] = "read" => cpos'[d] = cpos[d]
      BY <2>1, <2>5 DEF PopBegin, PopLoad, PopSeq, PopVerdict, PopCASFails,
         PopRelease, PopDepth, PopWake, PopDone, Cancel, CStep, ring, TypeOK
    <3> QED
      BY ZenonT(30), <3>1, Invisible
  <2>6. ASSUME NEW c \in Consumers, PopRead(c)
        PROVE  UNCHANGED F!fvars
    <3>1. /\ UNCHANGED <<head, tail, items, data, cpos>>
          /\ cpc[c] = "read" /\ cpc'[c] = "release"
          /\ cout'[c] = data[Slot(cpos[c])]
          /\ \A d \in Consumers : d # c =>
               cpc'[d] = cpc[d] /\ cout'[d] = cout[d]
      BY ZenonT(30), <2>1, <2>6 DEF PopRead, CStep, ring, TypeOK
    <3>2. \A d \in Consumers : Got(d)' = Got(d)
      BY <3>1
    <3> QED
      BY ZenonT(30), <3>1, <3>2, Invisible
  <2>7. ASSUME NEW c \in Consumers, PopClaim(c)
        PROVE  F!FNext
    <3>1. /\ UNCHANGED <<tail, items, data, cpos, cout>>
          /\ head' = head + 1 /\ cpc[c] = "cas" /\ cpc'[c] = "read"
          /\ \A d \in Consumers : d # c => cpc'[d] = cpc[d]
      BY <2>1, <2>7 DEF PopClaim, CStep, TypeOK
    <3>2. /\ cpos[c] = head /\ head < tail
          /\ data[Slot(head)] = items[head + 1]
      BY ZenonT(30), <2>1, <2>7, TakeKeeps
    <3>3. /\ head \in Nat /\ tail \in Nat /\ items \in Seq(Values)
          /\ Len(items) = tail /\ head' + 1 = head + 2
      BY <2>1, <3>1 DEF TypeOK, Window
    <3>4. /\ SubSeq(items, head + 1, tail) # <<>>
          /\ Head(SubSeq(items, head + 1, tail)) = items[head + 1]
          /\ Tail(SubSeq(items, head + 1, tail)) = SubSeq(items, head + 2, tail)
      BY Zenon, <3>2, <3>3, SubSeqTail
    <3>5. Got(c)' = items[head + 1]
      BY Zenon, <3>1, <3>2
    <3>6. \A d \in Consumers : d # c => Got(d)' = Got(d)
      BY Zenon, <3>1
    <3>7. [d \in Consumers |-> Got(d)']
            = [[d \in Consumers |-> Got(d)] EXCEPT ![c] = items[head + 1]]
      <4> HIDE DEF Got
      <4> QED
        BY Zenon, <3>5, <3>6
    <3>8. F!Dequeue(c)
      BY ZenonT(30), <3>1, <3>3, <3>4, <3>7 DEF F!Dequeue
    <3> QED
      BY ZenonT(30), <3>8 DEF F!FNext
  <2>8. CASE UNCHANGED vars
    <3>1. UNCHANGED <<head, tail, items, data, cpc, cpos, cout>>
      BY Zenon, <2>8 DEF vars, ring, cvars
    <3> QED
      BY Zenon, <3>1, Invisible
  <2> QED
    BY ZenonT(30), <1>2, <2>2, <2>3, <2>4, <2>5, <2>6, <2>7, <2>8, RingAssumption
       DEF Next, Push, Pop
<1> QED
  BY <1>1, <1>2, RingInvariant, PTL DEF Spec, ImplementsFifo, F!FSpec

----------------------------------------------------------------------------
(* The metric Depth.                                                       *)

\* The consumers that took a value and have not subtracted it yet.
Unsubtracted == {c \in Consumers : cpc[c] \in {"read", "release", "depth"}}

DepthInv ==
  (tail - head) + Cardinality(Unsubtracted) =< Depth + Cardinality(Uncounted)

\* How a set of goroutines changes when one of them moves.
LEMMA Grows ==
  ASSUME NEW S, NEW T, IsFiniteSet(S), NEW x, x \notin S, T = S \union {x}
  PROVE  Cardinality(T) = Cardinality(S) + 1 /\ Cardinality(S) \in Nat
BY FS_AddElement, FS_CardinalityType

LEMMA CountsFinite ==
  /\ IsFiniteSet(Uncounted) /\ IsFiniteSet(Uncounted')
  /\ IsFiniteSet(Unsubtracted) /\ IsFiniteSet(Unsubtracted')
  /\ Cardinality(Uncounted) \in Nat /\ Cardinality(Uncounted') \in Nat
  /\ Cardinality(Unsubtracted) \in Nat /\ Cardinality(Unsubtracted') \in Nat
<1>1. /\ Uncounted \subseteq Producers /\ Uncounted' \subseteq Producers
      /\ Unsubtracted \subseteq Consumers /\ Unsubtracted' \subseteq Consumers
  BY DEF Uncounted, Unsubtracted
<1> QED
  BY ZenonT(30), <1>1, FS_Subset, FS_CardinalityType, RingAssumption

LEMMA NextDepth ==
  ASSUME TypeOK, TypeOK', DepthInv, [Next]_vars
  PROVE  DepthInv'
<1> DEFINE u == Cardinality(Uncounted)
           r == Cardinality(Unsubtracted)
<1>1. /\ head \in Nat /\ tail \in Nat /\ Depth \in Nat
      /\ u \in Nat /\ u' \in Nat /\ r \in Nat /\ r' \in Nat
      /\ (tail - head) + r =< Depth + u
  BY ZenonT(30), CountsFinite DEF TypeOK, DepthInv
<1>2. ASSUME UNCHANGED <<head, tail, Depth>>,
             Uncounted' = Uncounted, Unsubtracted' = Unsubtracted
      PROVE  DepthInv'
  BY Zenon, <1>2 DEF DepthInv
<1>3. ASSUME NEW p \in Producers,
             \/ \E v \in Values : PushBegin(p, v)
             \/ PushLoad(p) \/ PushSeq(p) \/ PushCASFails(p)
             \/ PushData(p) \/ PushPublish(p) \/ PushNotify(p)
      PROVE  DepthInv'
  <2>1. /\ UNCHANGED <<head, tail, Depth, cpc>>
        /\ \A q \in Producers :
             ppc'[q] \in {"data", "publish", "depth"}
               <=> ppc[q] \in {"data", "publish", "depth"}
    BY SMTT(30), <1>3 DEF PushBegin, PushLoad, PushSeq, PushVerdict, PushCASFails,
       PushData, PushPublish, PushNotify, PStep, ring, cvars, TypeOK
  <2> QED
    BY ZenonT(30), <1>2, <2>1 DEF Uncounted, Unsubtracted
<1>4. ASSUME NEW p \in Producers, PushClaim(p)
      PROVE  DepthInv'
  <2>1. /\ UNCHANGED <<head, Depth, cpc>> /\ tail' = tail + 1
        /\ ppc[p] = "cas" /\ ppc'[p] = "data"
        /\ \A q \in Producers : q # p => ppc'[q] = ppc[q]
    BY ZenonT(30), <1>4 DEF PushClaim, PStep, cvars, TypeOK
  <2>2. p \notin Uncounted /\ Uncounted' = Uncounted \union {p}
    BY <2>1 DEF Uncounted
  <2>3. u' = u + 1 /\ r' = r
    BY ZenonT(30), <2>1, <2>2, Grows, CountsFinite DEF Unsubtracted
  <2> HIDE DEF u, r
  <2> QED
    BY SMTT(30), <1>1, <2>1, <2>3 DEF DepthInv, u, r
<1>5. ASSUME NEW p \in Producers, PushDepth(p)
      PROVE  DepthInv'
  <2>1. /\ UNCHANGED <<head, tail, cpc>> /\ Depth' = Depth + 1
        /\ ppc[p] = "depth" /\ ppc'[p] = "notify"
        /\ \A q \in Producers : q # p => ppc'[q] = ppc[q]
    BY ZenonT(30), <1>5 DEF PushDepth, PStep, cvars, TypeOK
  <2>2. p \notin Uncounted' /\ Uncounted = Uncounted' \union {p}
    BY <2>1 DEF Uncounted
  <2>3. u = u' + 1 /\ r' = r
    BY ZenonT(30), <2>1, <2>2, Grows, CountsFinite DEF Unsubtracted
  <2> HIDE DEF u, r
  <2> QED
    BY SMTT(30), <1>1, <2>1, <2>3 DEF DepthInv, u, r
<1>6. ASSUME NEW c \in Consumers,
             \/ PopBegin(c) \/ PopLoad(c) \/ PopSeq(c) \/ PopCASFails(c)
             \/ PopRead(c) \/ PopRelease(c) \/ PopWake(c) \/ PopDone(c)
             \/ Cancel(c)
      PROVE  DepthInv'
  <2>1. /\ UNCHANGED <<head, tail, Depth, ppc>>
        /\ \A d \in Consumers :
             cpc'[d] \in {"read", "release", "depth"}
               <=> cpc[d] \in {"read", "release", "depth"}
    BY SMTT(30), <1>6 DEF PopBegin, PopLoad, PopSeq, PopVerdict, PopCASFails, PopRead,
       PopRelease, PopWake, PopDone, Cancel, CStep, ring, pvars, TypeOK
  <2> QED
    BY ZenonT(30), <1>2, <2>1 DEF Uncounted, Unsubtracted
<1>7. ASSUME NEW c \in Consumers, PopClaim(c)
      PROVE  DepthInv'
  <2>1. /\ UNCHANGED <<tail, Depth, ppc>> /\ head' = head + 1
        /\ cpc[c] = "cas" /\ cpc'[c] = "read"
        /\ \A d \in Consumers : d # c => cpc'[d] = cpc[d]
    BY <1>7 DEF PopClaim, CStep, pvars, TypeOK
  <2>2. c \notin Unsubtracted /\ Unsubtracted' = Unsubtracted \union {c}
    BY <2>1 DEF Unsubtracted
  <2>3. r' = r + 1 /\ u' = u
    BY ZenonT(30), <2>1, <2>2, Grows, CountsFinite DEF Uncounted
  <2> HIDE DEF u, r
  <2> QED
    BY SMTT(30), <1>1, <2>1, <2>3 DEF DepthInv, u, r
<1>8. ASSUME NEW c \in Consumers, PopDepth(c)
      PROVE  DepthInv'
  <2>1. /\ UNCHANGED <<head, tail, ppc>> /\ Depth' = Subtract(Depth, 1)
        /\ cpc[c] = "depth" /\ cpc'[c] = "idle"
        /\ \A d \in Consumers : d # c => cpc'[d] = cpc[d]
    BY ZenonT(30), <1>8 DEF PopDepth, CStep, pvars, TypeOK
  <2>2. c \notin Unsubtracted' /\ Unsubtracted = Unsubtracted' \union {c}
    BY <2>1 DEF Unsubtracted
  <2>3. r = r' + 1 /\ u' = u
    BY ZenonT(30), <2>1, <2>2, Grows, CountsFinite DEF Uncounted
  <2>4. Depth' \in Nat /\ Depth =< Depth' + 1
    BY <1>1, <2>1 DEF Subtract
  <2> HIDE DEF u, r
  <2> QED
    BY SMTT(30), <1>1, <2>1, <2>3, <2>4 DEF DepthInv, u, r
<1>9. CASE UNCHANGED vars
  BY Zenon, <1>2, <1>9
     DEF vars, ring, pvars, cvars, Uncounted, Unsubtracted
<1> QED
  BY ZenonT(30), <1>3, <1>4, <1>5, <1>6, <1>7, <1>8, <1>9, RingAssumption
     DEF Next, Push, Pop

\* Depth never undercounts the queue by more than the Push calls that are
\* about to count, so a shutdown that sees zero leaves no value behind.
THEOREM DepthCovered == Spec => []DepthCovers
<1>1. Init => DepthInv
  <2> SUFFICES ASSUME Init PROVE DepthInv
    OBVIOUS
  <2>1. Uncounted = {} /\ Unsubtracted = {}
    BY DEF Init, Uncounted, Unsubtracted
  <2> QED
    BY SMTT(30), <2>1, FS_EmptySet DEF Init, DepthInv
<1>2. RingInv /\ RingInv' /\ DepthInv /\ [Next]_vars => DepthInv'
  BY SMTT(30), NextDepth DEF RingInv
<1>3. RingInv /\ DepthInv => DepthCovers
  BY CountsFinite DEF RingInv, TypeOK, DepthInv, DepthCovers
<1> QED
  BY <1>1, <1>2, <1>3, RingInvariant, PTL DEF Spec
=============================================================================
