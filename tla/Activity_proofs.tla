-------------------------- MODULE Activity_proofs ---------------------------
(***************************************************************************)
(* Proofs about Activity.tla, for any members, groups, capacities,         *)
(* deadlines, managers' edits and crashes, and, at the end, about          *)
(* Sending.tla, for any messages, targets, events, delays and number of    *)
(* attempts.                                                               *)
(***************************************************************************)
EXTENDS Activity, Sending, FiniteSetTheorems, SequenceTheorems, TLAPS

Promotions  == {"auto", "manual"}
Lists  == [allow : SUBSET Years, deny : SUBSET Years]
Kinds  == {"open", "resend", "full", "promoted", "cancelled", "changed", "published"}
Afters == {"published", "changed", "nothing"}
People == Users \union Groups
Marks  == Kinds \X People
Cards  == [at : {"sending"}, kind : Kinds, to : People, todo : SUBSET People, after : Afters]

(* What is in the tables, or what memory holds of it.                      *)
Tables ==
    [status : Statuses, cap : Capacities \union {Unlimited}, mode : Promotions, held : Nat,
     closeAt : Deadlines \union {None}, rules : Lists, bound : SUBSET Groups,
     regs : SUBSET Users, wait : Seq(Users)]

Memory ==
    [status |-> status, cap |-> cap, mode |-> mode, held |-> held,
     closeAt |-> closeAt, rules |-> rules, bound |-> bound,
     regs |-> regs, wait |-> wait]

(* The writes that may be queued.                                          *)
Writes ==
    [op : {"row"}, status : Statuses, cap : Capacities \union {Unlimited}, rules : Lists]
    \union [op : {"mode"}, value : Promotions] \union [op : {"held"}, value : Nat]
    \union [op : {"closeAt"}, value : Deadlines \union {None}]
    \union [op : {"bind", "unbind"}, value : Groups]
    \union [op : {"register", "deregister", "queueUp", "dequeue"}, value : Users]

(* No user twice, neither in one list nor in both.                         *)
OneRow(rs, w) ==
    /\ \A i \in 1 .. Len(w) : w[i] \notin rs
    /\ \A i, j \in 1 .. Len(w) : w[i] = w[j] => i = j

Fits(c, rs, h) == c = Unlimited \/ Taken(rs, h) <= c

(* Tables a restart may find; `low` lifts the bound of the capacity.       *)
Sound(d, low) ==
    /\ d \in Tables
    /\ OneRow(d.regs, d.wait)
    /\ low \/ Fits(d.cap, d.regs, d.held)

(* The writes of q, one after the other, make m of the tables d, and what  *)
(* a crash leaves in between is sound as well.                             *)
Path(r, d, q, m, low) ==
    /\ r[0] = d /\ r[Len(q)] = m
    /\ \A i \in 0 .. Len(q) : Sound(r[i], low)
    /\ \A i \in 1 .. Len(q) : r[i] = Written(r[i - 1], q[i])

Leads(d, q, m, low) == \E r : Path(r, d, q, m, low)

TablesInv == queue \in Seq(Writes) /\ Leads(disk, queue, Memory, lowered)

-----------------------------------------------------------------------------
(* Sets of users, and sequences.                                           *)

LEMMA Counts ==
    ASSUME NEW S \in SUBSET Users
    PROVE  /\ IsFiniteSet(S) /\ Cardinality(S) \in Nat
           /\ \A x : x \notin S => Cardinality(S \union {x}) = Cardinality(S) + 1
           /\ \A x : x \in S => Cardinality(S \ {x}) = Cardinality(S) - 1
<1>1. IsFiniteSet(S)
  BY ActivityConstants, FS_Subset
<1>2. Cardinality(S) \in Nat
  BY <1>1, FS_CardinalityType
<1> QED BY <1>1, <1>2, FS_AddElement, FS_RemoveElement

LEMMA AppendTyped ==
    ASSUME NEW S, NEW s \in Seq(S), NEW x \in S
    PROVE  /\ Append(s, x) \in Seq(S) /\ Len(Append(s, x)) = Len(s) + 1
           /\ Append(s, x)[Len(s) + 1] = x
           /\ \A i \in 1 .. Len(s) : Append(s, x)[i] = s[i]
  OBVIOUS

LEMMA ConcatTwo ==
    ASSUME NEW S, NEW s \in Seq(S), NEW x \in S, NEW y \in S
    PROVE  s \o <<x, y>> = Append(Append(s, x), y)
<1>1. <<x, y>> \in Seq(S) /\ Len(<<x, y>>) = 2 /\ <<x, y>>[1] = x /\ <<x, y>>[2] = y
  OBVIOUS
<1> DEFINE a == Append(Append(s, x), y)
           c == s \o <<x, y>>
<1>2. a \in Seq(S) /\ Len(a) = Len(s) + 2
  BY AppendTyped, LenProperties
<1>3. c \in Seq(S) /\ Len(c) = Len(s) + 2
  BY <1>1, ConcatProperties
<1>4. \A i \in 1 .. Len(s) + 2 :
         c[i] = IF i <= Len(s) THEN s[i] ELSE IF i = Len(s) + 1 THEN x ELSE y
  BY <1>1, ConcatProperties, LenProperties
<1>5. \A i \in 1 .. Len(s) + 2 :
         a[i] = IF i <= Len(s) THEN s[i] ELSE IF i = Len(s) + 1 THEN x ELSE y
  BY AppendTyped, LenProperties
<1> HIDE DEF a, c
<1>6. a = c
  BY <1>2, <1>3, <1>4, <1>5, SeqEqual
<1> QED BY <1>6 DEF a, c

(* Four sequences queued in one go, or one after the other.  (Named, for   *)
(* the provers to find where the law applies.)                             *)
Cat(x, y) == x \o y
Grouped(q, a, b, e, f) == (((q \o a) \o b) \o e) \o f = q \o (a \o ((b \o e) \o f))

LEMMA CatIs ==
    \A S : \A x, y, z \in Seq(S) :
        Cat(x, y) \in Seq(S) /\ Cat(Cat(x, y), z) = Cat(x, Cat(y, z))
  BY ConcatAssociative, ConcatProperties DEF Cat

LEMMA ConcatFour ==
    ASSUME NEW S, NEW q \in Seq(S), NEW a \in Seq(S), NEW b \in Seq(S),
           NEW e \in Seq(S), NEW f \in Seq(S)
    PROVE  Grouped(q, a, b, e, f)
<1> DEFINE T == Seq(S)
<1>1. \A x, y, z \in T : Cat(x, y) \in T /\ Cat(Cat(x, y), z) = Cat(x, Cat(y, z))
  BY CatIs
<1>2. q \in T /\ a \in T /\ b \in T /\ e \in T /\ f \in T
  OBVIOUS
<1> HIDE DEF T
<1>3. Cat(q, a) \in T /\ Cat(b, e) \in T
  BY <1>1, <1>2
<1>4. Cat(Cat(b, e), f) \in T
  BY <1>1, <1>2, <1>3
<1>5. Cat(Cat(Cat(q, a), b), e) = Cat(Cat(q, a), Cat(b, e))
  BY <1>1, <1>2, <1>3
<1>6. Cat(Cat(Cat(q, a), Cat(b, e)), f) = Cat(Cat(q, a), Cat(Cat(b, e), f))
  BY <1>1, <1>2, <1>3
<1>7. Cat(Cat(q, a), Cat(Cat(b, e), f)) = Cat(q, Cat(a, Cat(Cat(b, e), f)))
  BY <1>1, <1>2, <1>4
<1>8. Cat(Cat(Cat(Cat(q, a), b), e), f) = Cat(q, Cat(a, Cat(Cat(b, e), f)))
  BY <1>5, <1>6, <1>7
<1> QED BY <1>8 DEF Cat, Grouped

(* Deleting the row of the first of a list leaves its tail.                *)
LEMMA WithoutHead ==
    ASSUME NEW S, NEW s \in Seq(S), s # <<>>,
           \A i, j \in 1 .. Len(s) : s[i] = s[j] => i = j
    PROVE  Without(s, Head(s)) = Tail(s)
<1>1. Len(s) \in Nat /\ 1 \in 1 .. Len(s) /\ DOMAIN s = 1 .. Len(s) /\ Head(s) = s[1]
  BY EmptySeq, LenProperties
<1>2. (CHOOSE i \in DOMAIN s : s[i] = Head(s)) = 1
  <2>1. \E i \in DOMAIN s : s[i] = Head(s)
    BY <1>1
  <2>2. \A i \in DOMAIN s : s[i] = Head(s) => i = 1
    BY <1>1
  <2> QED BY <2>1, <2>2
<1>3. Without(s, Head(s)) = RemoveAt(s, 1)
  BY <1>1, <1>2 DEF Without
<1>4. RemoveAt(s, 1) = SubSeq(s, 1, 0) \o SubSeq(s, 2, Len(s))
  BY <1>1 DEF RemoveAt
<1>5. SubSeq(s, 1, 0) = <<>>
  BY SubSeqEmpty
<1>6. SubSeq(s, 2, Len(s)) = Tail(s)
  BY <1>1, TailIsSubSeq
<1>7. Tail(s) \in Seq(S)
  BY HeadTailProperties
<1> QED BY <1>3, <1>4, <1>5, <1>6, <1>7, ConcatEmptySeq

-----------------------------------------------------------------------------
(* Writes and the tables they lead to.                                     *)

LEMMA WritesTyped ==
    /\ \A s \in Statuses, c \in Capacities \union {Unlimited}, r \in Lists :
          Row(s, c, r) \in Writes
    /\ \A v \in Promotions : Put("mode", v) \in Writes
    /\ \A v \in Nat : Put("held", v) \in Writes
    /\ \A v \in Deadlines \union {None} : Put("closeAt", v) \in Writes
    /\ \A v \in Groups : Put("bind", v) \in Writes /\ Put("unbind", v) \in Writes
    /\ \A v \in Users : /\ Put("register", v) \in Writes /\ Put("deregister", v) \in Writes
                        /\ Put("queueUp", v) \in Writes /\ Put("dequeue", v) \in Writes
<1>1. \A s \in Statuses, c \in Capacities \union {Unlimited}, r \in Lists :
          Row(s, c, r) \in Writes
  BY DEF Row, Writes
<1>2. /\ \A v \in Promotions : Put("mode", v) \in Writes
      /\ \A v \in Nat : Put("held", v) \in Writes
      /\ \A v \in Deadlines \union {None} : Put("closeAt", v) \in Writes
  BY DEF Put, Writes
<1>3. \A v \in Groups : Put("bind", v) \in Writes /\ Put("unbind", v) \in Writes
  BY DEF Put, Writes
<1>4. \A v \in Users : /\ Put("register", v) \in Writes /\ Put("deregister", v) \in Writes
                       /\ Put("queueUp", v) \in Writes /\ Put("dequeue", v) \in Writes
  BY DEF Put, Writes
<1> QED BY <1>1, <1>2, <1>3, <1>4

LEMMA WrittenRow ==
    ASSUME NEW d, NEW s, NEW c, NEW r
    PROVE  Written(d, Row(s, c, r)) = [d EXCEPT !.status = s, !.cap = c, !.rules = r]
  BY DEF Written, Row

LEMMA WrittenIs ==
    ASSUME NEW d, NEW v
    PROVE  /\ Written(d, Put("mode", v)) = [d EXCEPT !.mode = v]
           /\ Written(d, Put("held", v)) = [d EXCEPT !.held = v]
           /\ Written(d, Put("closeAt", v)) = [d EXCEPT !.closeAt = v]
           /\ Written(d, Put("bind", v)) = [d EXCEPT !.bound = @ \union {v}]
           /\ Written(d, Put("unbind", v)) = [d EXCEPT !.bound = @ \ {v}]
           /\ Written(d, Put("register", v)) = [d EXCEPT !.regs = @ \union {v}]
           /\ Written(d, Put("deregister", v)) = [d EXCEPT !.regs = @ \ {v}]
           /\ Written(d, Put("queueUp", v)) = [d EXCEPT !.wait = Append(@, v)]
           /\ Written(d, Put("dequeue", v)) = [d EXCEPT !.wait = Without(@, v)]
<1>2. /\ Written(d, Put("mode", v)) = [d EXCEPT !.mode = v]
      /\ Written(d, Put("held", v)) = [d EXCEPT !.held = v]
      /\ Written(d, Put("closeAt", v)) = [d EXCEPT !.closeAt = v]
  BY DEF Written, Put
<1>3. /\ Written(d, Put("bind", v)) = [d EXCEPT !.bound = @ \union {v}]
      /\ Written(d, Put("unbind", v)) = [d EXCEPT !.bound = @ \ {v}]
  BY DEF Written, Put
<1>4. /\ Written(d, Put("register", v)) = [d EXCEPT !.regs = @ \union {v}]
      /\ Written(d, Put("deregister", v)) = [d EXCEPT !.regs = @ \ {v}]
  BY DEF Written, Put
<1>5. /\ Written(d, Put("queueUp", v)) = [d EXCEPT !.wait = Append(@, v)]
      /\ Written(d, Put("dequeue", v)) = [d EXCEPT !.wait = Without(@, v)]
  BY DEF Written, Put
<1> QED BY <1>2, <1>3, <1>4, <1>5

(* Where the writes lead is sound, and so are the tables now.              *)
LEMMA LeadsSound ==
    ASSUME NEW d, NEW q \in Seq(Writes), NEW m, NEW low, Leads(d, q, m, low)
    PROVE  Sound(d, low) /\ Sound(m, low) /\ (q = <<>> => d = m)
<1>1. PICK r : Path(r, d, q, m, low)
  BY DEF Leads
<1>2. Len(q) \in Nat /\ (q = <<>> => Len(q) = 0)
  BY LenProperties
<1>3. 0 \in 0 .. Len(q) /\ Len(q) \in 0 .. Len(q)
  BY <1>2
<1> QED BY <1>1, <1>2, <1>3 DEF Path

(* Nothing is queued.                                                      *)
LEMMA LeadsNowhere ==
    ASSUME NEW d, NEW low, Sound(d, low)
    PROVE  Leads(d, <<>>, d, low)
<1> DEFINE r == [i \in {0} |-> d]
<1>1. Len(<<>>) = 0 /\ 0 .. 0 = {0} /\ 1 .. 0 = {}
  OBVIOUS
<1>2. Path(r, d, <<>>, d, low)
  BY <1>1 DEF Path
<1> QED BY <1>2 DEF Leads

(* A write is executed.                                                    *)
LEMMA LeadsLess ==
    ASSUME NEW d, NEW q \in Seq(Writes), NEW m, NEW low, Leads(d, q, m, low), q # <<>>
    PROVE  Leads(Written(d, Head(q)), Tail(q), m, low)
<1>1. PICK r : Path(r, d, q, m, low)
  BY DEF Leads
<1>2. Len(q) \in Nat \ {0} /\ Head(q) = q[1] /\ Len(Tail(q)) = Len(q) - 1
      /\ \A i \in 1 .. Len(q) - 1 : Tail(q)[i] = q[i + 1]
  BY EmptySeq, HeadTailProperties
<1> DEFINE t == [i \in 0 .. Len(q) - 1 |-> r[i + 1]]
<1>3. t[0] = Written(d, Head(q))
  BY <1>1, <1>2 DEF Path
<1>4. t[Len(q) - 1] = m
  BY <1>1, <1>2 DEF Path
<1>5. \A i \in 0 .. Len(q) - 1 : Sound(t[i], low)
  <2> TAKE i \in 0 .. Len(q) - 1
  <2>1. i + 1 \in 0 .. Len(q) /\ t[i] = r[i + 1]
    BY <1>2
  <2> QED BY <1>1, <2>1 DEF Path
<1>6. \A i \in 1 .. Len(q) - 1 : t[i] = Written(t[i - 1], Tail(q)[i])
  <2> TAKE i \in 1 .. Len(q) - 1
  <2>1. /\ i + 1 \in 1 .. Len(q) /\ t[i] = r[i + 1] /\ t[i - 1] = r[i] /\ (i + 1) - 1 = i
        /\ Tail(q)[i] = q[i + 1]
    BY <1>2
  <2>2. r[i + 1] = Written(r[(i + 1) - 1], q[i + 1])
    BY <1>1, <2>1 DEF Path
  <2> QED BY <2>1, <2>2
<1> HIDE DEF t
<1> QED BY <1>2, <1>3, <1>4, <1>5, <1>6 DEF Leads, Path

(* A write is queued.                                                      *)
LEMMA LeadsMore ==
    ASSUME NEW d, NEW q \in Seq(Writes), NEW m, NEW low, Leads(d, q, m, low),
           NEW w \in Writes, NEW n, n = Written(m, w), Sound(n, low)
    PROVE  Append(q, w) \in Seq(Writes) /\ Leads(d, Append(q, w), n, low)
<1>1. PICK r : Path(r, d, q, m, low)
  BY DEF Leads
<1>2. /\ Append(q, w) \in Seq(Writes) /\ Len(Append(q, w)) = Len(q) + 1
      /\ Append(q, w)[Len(q) + 1] = w
      /\ \A i \in 1 .. Len(q) : Append(q, w)[i] = q[i]
  BY AppendTyped
<1>3. Len(q) \in Nat
  BY LenProperties
<1> DEFINE t == [i \in 0 .. Len(q) + 1 |-> IF i <= Len(q) THEN r[i] ELSE n]
<1>4. t[0] = d /\ t[Len(q) + 1] = n
  BY <1>1, <1>3 DEF Path
<1>5. \A i \in 0 .. Len(q) + 1 : Sound(t[i], low)
  <2> TAKE i \in 0 .. Len(q) + 1
  <2>1. CASE i \in 0 .. Len(q)
    BY <1>1, <1>3, <2>1 DEF Path
  <2>2. CASE i \notin 0 .. Len(q)
    <3>1. t[i] = n
      BY <1>3, <2>2
    <3> QED BY <3>1
  <2> QED BY <2>1, <2>2
<1>6. \A i \in 1 .. Len(q) + 1 : t[i] = Written(t[i - 1], Append(q, w)[i])
  <2> TAKE i \in 1 .. Len(q) + 1
  <2>1. CASE i \in 1 .. Len(q)
    <3>1. t[i] = r[i] /\ t[i - 1] = r[i - 1] /\ Append(q, w)[i] = q[i]
      BY <1>2, <1>3, <2>1
    <3> QED BY <1>1, <2>1, <3>1 DEF Path
  <2>2. CASE i = Len(q) + 1
    <3>1. t[i] = n /\ t[i - 1] = r[Len(q)] /\ Append(q, w)[i] = w
      BY <1>2, <1>3, <2>2
    <3> QED BY <1>1, <3>1 DEF Path
  <2> QED BY <1>3, <2>1, <2>2
<1> HIDE DEF t
<1>7. Path(t, d, Append(q, w), n, low)
  BY <1>2, <1>4, <1>5, <1>6 DEF Path
<1> QED BY <1>2, <1>7 DEF Leads

(* A write is queued unless it repeats what memory holds.                  *)
LEMMA LeadsFresh ==
    ASSUME NEW d, NEW q \in Seq(Writes), NEW m, NEW low, Leads(d, q, m, low),
           NEW w \in Writes, NEW n, n = Written(m, w), Sound(n, low),
           NEW new, NEW old, new = old => n = m
    PROVE  /\ q \o Fresh(new, old, w) \in Seq(Writes)
           /\ Leads(d, q \o Fresh(new, old, w), n, low)
<1>1. CASE new = old
  BY <1>1, ConcatEmptySeq DEF Fresh
<1>2. CASE new # old
  <2>1. q \o Fresh(new, old, w) = Append(q, w)
    BY <1>2, AppendIsConcat DEF Fresh
  <2> QED BY <2>1, LeadsMore
<1> QED BY <1>1, <1>2

(* The bound of the capacity is lifted.                                    *)
LEMMA LeadsLoose ==
    ASSUME NEW d, NEW q \in Seq(Writes), NEW m, NEW low, Leads(d, q, m, low)
    PROVE  Leads(d, q, m, TRUE)
<1>1. PICK r : Path(r, d, q, m, low)
  BY DEF Leads
<1>2. Path(r, d, q, m, TRUE)
  BY <1>1 DEF Path, Sound
<1> QED BY <1>2 DEF Leads

-----------------------------------------------------------------------------
(* What the services queue.                                                *)

(* The first of the waiting list gets a place there is room for.           *)
LEMMA PromoteLeads ==
    ASSUME NEW q \in Seq(Writes), NEW m, NEW low, Leads(disk, q, m, low),
           wait # <<>>, m.wait = wait,
           low \/ m.cap = Unlimited \/ Taken(m.regs, m.held) + 1 <= m.cap
    PROVE  LET u == Head(wait)
               p == <<Put("dequeue", u), Put("register", u)>>
           IN  /\ u \in Users \ m.regs /\ Tail(wait) \in Seq(Users)
               /\ q \o p \in Seq(Writes)
               /\ Leads(disk, q \o p,
                        [m EXCEPT !.wait = Tail(wait), !.regs = @ \union {u}], low)
<1> DEFINE u == Head(wait)
           m1 == [m EXCEPT !.wait = Tail(wait)]
           m2 == [m EXCEPT !.wait = Tail(wait), !.regs = @ \union {u}]
<1>1. Sound(m, low)
  BY LeadsSound
<1>2. m \in Tables /\ wait \in Seq(Users) /\ m.regs \in SUBSET Users
  BY <1>1 DEF Sound, Tables
<1>3. /\ u \in Users /\ Tail(wait) \in Seq(Users) /\ Len(Tail(wait)) = Len(wait) - 1
      /\ Len(wait) \in Nat \ {0} /\ u = wait[1]
      /\ \A i \in 1 .. Len(Tail(wait)) : Tail(wait)[i] = wait[i + 1]
  BY <1>2, HeadTailProperties, EmptySeq
<1>4. /\ \A i \in 1 .. Len(wait) : wait[i] \notin m.regs
      /\ \A i, j \in 1 .. Len(wait) : wait[i] = wait[j] => i = j
  BY <1>1 DEF Sound, OneRow
<1>5. u \notin m.regs
  BY <1>3, <1>4
<1>6. Without(wait, u) = Tail(wait)
  BY <1>2, <1>4, WithoutHead
<1>7. m1 = Written(m, Put("dequeue", u))
  <2>1. Written(m, Put("dequeue", u)) = [m EXCEPT !.wait = Without(@, u)]
    BY WrittenIs
  <2> QED BY <1>6, <2>1
<1>8. /\ m1 \in Tables /\ m1.regs = m.regs /\ m1.wait = Tail(wait) /\ m1.cap = m.cap
      /\ m1.held = m.held
  BY <1>2, <1>3 DEF Tables
<1>9. /\ m2 \in Tables /\ m2.regs = m.regs \union {u} /\ m2.wait = Tail(wait)
      /\ m2.cap = m.cap /\ m2.held = m.held
  BY <1>2, <1>3 DEF Tables
<1>10. m2 = Written(m1, Put("register", u))
  <2>1. Written(m1, Put("register", u)) = [m1 EXCEPT !.regs = @ \union {u}]
    <3>1. \A d, v : Written(d, Put("register", v)) = [d EXCEPT !.regs = @ \union {v}]
      BY WrittenIs
    <3> QED BY ONLY <3>1
  <2>2. m2 = [m1 EXCEPT !.regs = @ \union {u}]
    BY <1>2 DEF Tables
  <2> QED BY <2>1, <2>2
<1> HIDE DEF u, m1, m2
<1>11. OneRow(m1.regs, m1.wait)
  BY <1>3, <1>4, <1>8 DEF OneRow
<1>12. OneRow(m2.regs, m2.wait)
  <2>1. \A i \in 1 .. Len(Tail(wait)) : Tail(wait)[i] # u
    BY <1>3, <1>4
  <2> QED BY <1>3, <1>4, <1>9, <2>1 DEF OneRow
<1>13. Sound(m1, low)
  BY <1>1, <1>8, <1>11 DEF Sound
<1>14. low \/ Fits(m2.cap, m2.regs, m2.held)
  <2>1. /\ Cardinality(m.regs) \in Nat /\ m.held \in Nat
        /\ Cardinality(m2.regs) = Cardinality(m.regs) + 1
    BY <1>2, <1>5, <1>9, Counts DEF Tables
  <2>2. Taken(m.regs, m.held) = Cardinality(m.regs) + m.held
    BY DEF Taken
  <2>3. Taken(m2.regs, m2.held) = Cardinality(m2.regs) + m.held
    BY <1>9 DEF Taken
  <2>4. Taken(m2.regs, m2.held) = Taken(m.regs, m.held) + 1
    <3> HIDE DEF Taken
    <3> DEFINE k == Cardinality(m.regs)
               l == m.held
               k2 == Cardinality(m2.regs)
               t == Taken(m.regs, m.held)
               t2 == Taken(m2.regs, m2.held)
    <3>1. k \in Nat /\ l \in Nat /\ k2 = k + 1 /\ t = k + l /\ t2 = k2 + l
      BY <2>1, <2>2, <2>3
    <3> HIDE DEF k, l, k2, t, t2
    <3>2. t2 = t + 1
      BY <3>1
    <3> QED BY <3>2 DEF t, t2
  <2> QED BY <1>9, <2>4 DEF Fits
<1>15. Sound(m2, low)
  BY <1>1, <1>9, <1>12, <1>14 DEF Sound
<1>16. Put("dequeue", u) \in Writes /\ Put("register", u) \in Writes
  BY <1>3, WritesTyped
<1>17. /\ Append(q, Put("dequeue", u)) \in Seq(Writes)
       /\ Leads(disk, Append(q, Put("dequeue", u)), m1, low)
  BY <1>7, <1>13, <1>16, LeadsMore
<1>18. /\ Append(Append(q, Put("dequeue", u)), Put("register", u)) \in Seq(Writes)
       /\ Leads(disk, Append(Append(q, Put("dequeue", u)), Put("register", u)), m2, low)
  BY <1>10, <1>15, <1>16, <1>17, LeadsMore
<1>19. q \o <<Put("dequeue", u), Put("register", u)>>
          = Append(Append(q, Put("dequeue", u)), Put("register", u))
  BY <1>16, ConcatTwo
<1> QED BY <1>3, <1>5, <1>18, <1>19 DEF u, m2

(* persistSettings, when only the frozen places have changed.              *)
LEMMA HeldOnly ==
    ASSUME NEW h, h # held
    PROVE  Settings(mode, h, closeAt) = <<Put("held", h)>>
<1>1. Fresh(mode, mode, Put("mode", mode)) = <<>> /\ Fresh(closeAt, closeAt, Put("closeAt", closeAt)) = <<>>
      /\ Fresh(h, held, Put("held", h)) = <<Put("held", h)>>
  BY DEF Fresh
<1>2. <<>> \o <<>> = <<>> /\ <<>> \o <<Put("held", h)>> = <<Put("held", h)>>
  OBVIOUS
<1> QED BY <1>1, <1>2 DEF Settings

LEMMA FreshTyped ==
    ASSUME NEW w \in Writes, NEW new, NEW old
    PROVE  Fresh(new, old, w) \in Seq(Writes)
  BY DEF Fresh

(* persist: the row and the settings of an activity whose frozen places    *)
(* are written already.                                                    *)
LEMMA SavedTyped ==
    ASSUME NEW s \in Statuses, NEW c \in Capacities \union {Unlimited}, NEW r \in Lists,
           NEW md \in Promotions, NEW h \in Nat, NEW at \in Deadlines \union {None}
    PROVE  Saved(s, c, r, md, h, at) \in Seq(Writes)
<1> DEFINE a == Fresh(<<s, c, r>>, <<status, cap, rules>>, Row(s, c, r))
           b == Fresh(md, mode, Put("mode", md))
           e == Fresh(at, closeAt, Put("closeAt", at))
           f == Fresh(h, held, Put("held", h))
<1>1. a \in Seq(Writes) /\ b \in Seq(Writes) /\ e \in Seq(Writes) /\ f \in Seq(Writes)
  BY WritesTyped, FreshTyped
<1>2. Saved(s, c, r, md, h, at) = a \o ((b \o e) \o f)
  BY DEF Saved, Settings
<1> HIDE DEF a, b, e, f
<1>3. (b \o e) \o f \in Seq(Writes)
  BY <1>1, ConcatProperties
<1> QED BY <1>1, <1>2, <1>3, ConcatProperties

SavedWritten(q, m, s, c, r, md, h, at, low) ==
    LET w == q \o Saved(s, c, r, md, h, at)
    IN  \E n \in Tables :
            /\ w \in Seq(Writes) /\ Leads(disk, w, n, low)
            /\ n.status = s /\ n.cap = c /\ n.rules = r /\ n.mode = md /\ n.closeAt = at
            /\ n.held = h /\ n.bound = m.bound /\ n.regs = m.regs /\ n.wait = m.wait

LEMMA SavedLeads ==
    ASSUME NEW q \in Seq(Writes), NEW m, NEW low, Leads(disk, q, m, low),
           NEW s \in Statuses, NEW c \in Capacities \union {Unlimited}, NEW r \in Lists,
           NEW md \in Promotions, NEW h \in Nat, NEW at \in Deadlines \union {None},
           m.status = status, m.cap = cap, m.rules = rules, m.mode = mode,
           m.closeAt = closeAt, m.held = h,
           low \/ Fits(c, m.regs, h)
    PROVE  SavedWritten(q, m, s, c, r, md, h, at, low)
<1> DEFINE m1 == [m EXCEPT !.status = s, !.cap = c, !.rules = r]
           m2 == [m1 EXCEPT !.mode = md]
           m3 == [m2 EXCEPT !.closeAt = at]
           a == Fresh(<<s, c, r>>, <<status, cap, rules>>, Row(s, c, r))
           b == Fresh(md, mode, Put("mode", md))
           e == Fresh(at, closeAt, Put("closeAt", at))
           f == Fresh(h, held, Put("held", h))
<1>1. Sound(m, low) /\ m \in Tables
  <2> HIDE DEF m1, m2, m3, a, b, e, f
  <2>1. Sound(m, low)
    BY LeadsSound
  <2> QED BY <2>1 DEF Sound
<1>2. /\ m1 \in Tables /\ m1.regs = m.regs /\ m1.wait = m.wait
      /\ m1.cap = c /\ m1.held = h /\ m1.mode = mode /\ m1.closeAt = closeAt
  BY <1>1 DEF Tables
<1>3. /\ m2 \in Tables /\ m2.regs = m.regs /\ m2.wait = m.wait
      /\ m2.cap = c /\ m2.held = h /\ m2.closeAt = closeAt
  BY <1>2 DEF Tables
<1>4. /\ m3 \in Tables /\ m3.regs = m.regs /\ m3.wait = m.wait
      /\ m3.cap = c /\ m3.held = h
  BY <1>3 DEF Tables
<1>5. Sound(m1, low)
  BY <1>1, <1>2 DEF Sound
<1>6. Sound(m2, low)
  BY <1>1, <1>3 DEF Sound
<1>7. Sound(m3, low)
  BY <1>1, <1>4 DEF Sound
<1>8. <<s, c, r>> = <<status, cap, rules>> => m1 = m
  BY <1>1 DEF Tables
<1>9. md = mode => m2 = m1
  BY <1>2 DEF Tables
<1>10. at = closeAt => m3 = m2
  BY <1>3 DEF Tables
<1>11. m3 = [m3 EXCEPT !.held = h]
  BY <1>4 DEF Tables
<1>12. m3 = [m EXCEPT !.status = s, !.cap = c, !.rules = r, !.mode = md, !.closeAt = at]
  BY <1>1 DEF Tables
<1>13. /\ m1 = Written(m, Row(s, c, r)) /\ m2 = Written(m1, Put("mode", md))
       /\ m3 = Written(m2, Put("closeAt", at)) /\ m3 = Written(m3, Put("held", h))
  <2>1. m1 = Written(m, Row(s, c, r))
    <3> HIDE DEF m2, m3, a, b, e, f
    <3>1. Written(m, Row(s, c, r)) = [m EXCEPT !.status = s, !.cap = c, !.rules = r]
      BY DEF Written, Row
    <3> QED BY <3>1
  <2> HIDE DEF m1
  <2>2. m2 = Written(m1, Put("mode", md))
    BY WrittenIs
  <2> HIDE DEF m2
  <2>3. m3 = Written(m2, Put("closeAt", at))
    BY WrittenIs
  <2> HIDE DEF m3
  <2>4. m3 = Written(m3, Put("held", h))
    BY <1>11, WrittenIs
  <2> QED BY <2>1, <2>2, <2>3, <2>4
<1>14. /\ Row(s, c, r) \in Writes /\ Put("mode", md) \in Writes
       /\ Put("closeAt", at) \in Writes /\ Put("held", h) \in Writes
  BY WritesTyped
<1>22. /\ m3.status = s /\ m3.rules = r /\ m3.mode = md /\ m3.closeAt = at
       /\ m3.bound = m.bound
  BY <1>1 DEF Tables
<1> HIDE DEF m1, m2, m3
<1>15. q \o a \in Seq(Writes) /\ Leads(disk, q \o a, m1, low)
  BY <1>5, <1>8, <1>13, <1>14, LeadsFresh
<1> DEFINE qb == (q \o a) \o b
           qe == qb \o e
           qf == qe \o f
<1>16. qb \in Seq(Writes) /\ Leads(disk, qb, m2, low)
  BY <1>6, <1>9, <1>13, <1>14, <1>15, LeadsFresh
<1> HIDE DEF a, b, qb
<1>17. qe \in Seq(Writes) /\ Leads(disk, qe, m3, low)
  BY <1>7, <1>10, <1>13, <1>14, <1>16, LeadsFresh
<1> HIDE DEF e, qe
<1>18. qf \in Seq(Writes) /\ Leads(disk, qf, m3, low)
  BY <1>7, <1>13, <1>14, <1>17, LeadsFresh
<1> HIDE DEF f, qf
<1>19. a \in Seq(Writes) /\ b \in Seq(Writes) /\ e \in Seq(Writes) /\ f \in Seq(Writes)
  BY <1>14, FreshTyped DEF a, b, e, f
<1>20. Saved(s, c, r, md, h, at) = a \o ((b \o e) \o f)
  BY DEF Saved, Settings, a, b, e, f
<1>21. q \o Saved(s, c, r, md, h, at) = qf
  <2>1. Grouped(q, a, b, e, f)
    BY <1>19, ConcatFour
  <2> QED BY <1>20, <2>1 DEF qb, qe, qf, Grouped
<1> QED BY <1>4, <1>12, <1>18, <1>21, <1>22 DEF SavedWritten

-----------------------------------------------------------------------------
(* The operations of ActivityService keep what the queue leads to.         *)

LEMMA MemoryFields ==
    /\ Memory.status = status /\ Memory.cap = cap /\ Memory.mode = mode
    /\ Memory.held = held /\ Memory.closeAt = closeAt /\ Memory.rules = rules
    /\ Memory.bound = bound /\ Memory.regs = regs /\ Memory.wait = wait
  BY DEF Memory

LEMMA MemoryIs ==
    ASSUME NEW e \in Tables,
           e.status = status', e.cap = cap', e.mode = mode', e.held = held',
           e.closeAt = closeAt', e.rules = rules', e.bound = bound', e.regs = regs',
           e.wait = wait'
    PROVE  Memory' = e
  BY DEF Memory, Tables

LEMMA MemoryTyped ==
    ASSUME TablesInv
    PROVE  /\ Memory \in Tables /\ Sound(Memory, lowered)
           /\ status \in Statuses /\ cap \in Capacities \union {Unlimited} /\ mode \in Promotions
           /\ held \in Nat /\ closeAt \in Deadlines \union {None} /\ rules \in Lists
           /\ bound \in SUBSET Groups /\ regs \in SUBSET Users /\ wait \in Seq(Users)
           /\ OneRow(regs, wait)
           /\ queue \in Seq(Writes)
<1>1. Sound(Memory, lowered) /\ queue \in Seq(Writes)
  BY LeadsSound DEF TablesInv
<1>2. Memory \in Tables /\ OneRow(Memory.regs, Memory.wait)
  BY <1>1 DEF Sound
<1> QED BY <1>1, <1>2, MemoryFields DEF Tables

(* Frozen and taken places stay within the capacity.                       *)
LEMMA MemoryFits ==
    ASSUME TablesInv
    PROVE  lowered \/ Fits(cap, regs, held)
<1>1. Sound(Memory, lowered)
  BY MemoryTyped
<1>2. Memory.cap = cap /\ Memory.regs = regs /\ Memory.held = held
  BY DEF Memory
<1> QED BY <1>1, <1>2 DEF Sound

LEMMA JoinTables ==
    ASSUME TablesInv, NEW u \in Users, JoinActivity(u),
           disk' = disk, lowered' = lowered
    PROVE  TablesInv'
<1>1. /\ u \notin regs /\ \A i \in 1 .. Len(wait) : wait[i] # u
      /\ UNCHANGED <<status, cap, mode, held, closeAt, rules, bound>>
  BY DEF JoinActivity, settings, Waiting
<1> DEFINE e == [Memory EXCEPT !.wait = wait']
           f == [Memory EXCEPT !.regs = regs']
<1>2. CASE cap # Unlimited /\ Occupied >= cap
  <2>1. /\ wait' = Append(wait, u) /\ queue' = Append(queue, Put("queueUp", u))
        /\ regs' = regs
    BY <1>2 DEF JoinActivity
  <2>2. /\ wait' \in Seq(Users) /\ Len(wait') = Len(wait) + 1 /\ Len(wait) \in Nat
        /\ wait'[Len(wait) + 1] = u
        /\ \A i \in 1 .. Len(wait) : wait'[i] = wait[i]
    BY <2>1, MemoryTyped, AppendTyped, LenProperties
  <2>3. OneRow(regs, wait')
    <3>1. \A i \in 1 .. Len(wait) + 1 : i \in 1 .. Len(wait) \/ i = Len(wait) + 1
      BY <2>2
    <3>2. /\ \A i \in 1 .. Len(wait) : wait[i] \notin regs
          /\ \A i, j \in 1 .. Len(wait) : wait[i] = wait[j] => i = j
      BY MemoryTyped DEF OneRow
    <3>3. \A i \in 1 .. Len(wait) + 1 : wait'[i] \notin regs
      BY <1>1, <2>2, <3>1, <3>2
    <3>4. \A i, j \in 1 .. Len(wait) + 1 : wait'[i] = wait'[j] => i = j
      BY <1>1, <2>2, <3>1, <3>2
    <3> QED BY <2>2, <3>3, <3>4 DEF OneRow
  <2>4. e = Written(Memory, Put("queueUp", u))
    <3>1. Written(Memory, Put("queueUp", u)) = [Memory EXCEPT !.wait = Append(@, u)]
      BY WrittenIs
    <3> QED BY <2>1, <3>1, MemoryFields
  <2>5. /\ e \in Tables /\ e.wait = wait' /\ e.status = status /\ e.cap = cap
        /\ e.mode = mode /\ e.held = held /\ e.closeAt = closeAt /\ e.rules = rules
        /\ e.bound = bound /\ e.regs = regs
    BY <2>2, MemoryTyped, MemoryFields DEF Tables
  <2> HIDE DEF e
  <2>6. Memory' = e
    BY <1>1, <2>1, <2>5, MemoryIs
  <2>7. Sound(e, lowered)
    BY <2>3, <2>5, MemoryTyped, MemoryFits DEF Sound
  <2>8. Put("queueUp", u) \in Writes
    BY WritesTyped
  <2> QED BY <2>1, <2>4, <2>6, <2>7, <2>8, LeadsMore DEF TablesInv
<1>3. CASE ~(cap # Unlimited /\ Occupied >= cap)
  <2>1. /\ regs' = regs \union {u} /\ queue' = Append(queue, Put("register", u))
        /\ wait' = wait
    BY <1>3 DEF JoinActivity
  <2>2. regs' \in SUBSET Users
    BY <2>1, MemoryTyped
  <2>3. OneRow(regs', wait)
    BY <1>1, <2>1, MemoryTyped DEF OneRow
  <2>4. f = Written(Memory, Put("register", u))
    <3>1. Written(Memory, Put("register", u)) = [Memory EXCEPT !.regs = @ \union {u}]
      BY WrittenIs
    <3> QED BY <2>1, <3>1, MemoryFields
  <2>5. /\ f \in Tables /\ f.wait = wait /\ f.status = status /\ f.cap = cap
        /\ f.mode = mode /\ f.held = held /\ f.closeAt = closeAt /\ f.rules = rules
        /\ f.bound = bound /\ f.regs = regs'
    BY <2>2, MemoryTyped, MemoryFields DEF Tables
  <2> HIDE DEF f
  <2>6. Memory' = f
    BY <1>1, <2>1, <2>5, MemoryIs
  <2>7. Fits(cap, regs', held)
    <3>1. CASE cap = Unlimited
      BY <3>1 DEF Fits
    <3>2. CASE cap # Unlimited
      <4>1. /\ cap \in Nat /\ held \in Nat /\ Cardinality(regs) \in Nat
            /\ Cardinality(regs') = Cardinality(regs) + 1
        BY <1>1, <2>1, <3>2, MemoryTyped, Counts, ActivityConstants
      <4>2. Cardinality(regs) + held < cap
        BY <1>3, <3>2, <4>1 DEF Occupied, Taken
      <4> QED BY <4>1, <4>2 DEF Fits, Taken
    <3> QED BY <3>1, <3>2
  <2>8. Sound(f, lowered)
    BY <2>3, <2>5, <2>7, MemoryTyped DEF Sound
  <2>9. Put("register", u) \in Writes
    BY WritesTyped
  <2> QED BY <2>1, <2>4, <2>6, <2>8, <2>9, LeadsMore DEF TablesInv
<1> QED BY <1>2, <1>3

(* A registration is deleted.                                              *)
LEMMA DeregisterLeads ==
    ASSUME TablesInv, NEW u \in regs
    PROVE  LET m == [Memory EXCEPT !.regs = regs \ {u}]
               q == queue \o <<Put("deregister", u)>>
           IN  /\ q \in Seq(Writes) /\ Leads(disk, q, m, lowered)
               /\ m \in Tables /\ m.wait = wait /\ m.status = status /\ m.cap = cap
               /\ m.mode = mode /\ m.held = held /\ m.closeAt = closeAt /\ m.rules = rules
               /\ m.bound = bound /\ m.regs = regs \ {u}
               /\ Taken(m.regs, held) + 1 = Taken(regs, held)
<1> DEFINE m == [Memory EXCEPT !.regs = regs \ {u}]
<1>1. u \in Users
  BY MemoryTyped
<1>2. regs \ {u} \in SUBSET Users
  BY MemoryTyped
<1>3. /\ m \in Tables /\ m.wait = wait /\ m.status = status /\ m.cap = cap
      /\ m.mode = mode /\ m.held = held /\ m.closeAt = closeAt /\ m.rules = rules
      /\ m.bound = bound /\ m.regs = regs \ {u}
  BY <1>2, MemoryTyped, MemoryFields DEF Tables
<1>4. m = Written(Memory, Put("deregister", u))
  <2>1. Written(Memory, Put("deregister", u)) = [Memory EXCEPT !.regs = @ \ {u}]
    BY WrittenIs
  <2> QED BY <2>1, MemoryFields
<1> HIDE DEF m
<1>5. OneRow(m.regs, m.wait)
  BY <1>3, MemoryTyped DEF OneRow
<1>6. /\ Cardinality(regs) \in Nat /\ Cardinality(regs \ {u}) = Cardinality(regs) - 1
      /\ held \in Nat
  BY MemoryTyped, Counts
<1>7. Taken(m.regs, held) + 1 = Taken(regs, held)
  BY <1>3, <1>6 DEF Taken
<1>8. cap \in Nat \/ cap = Unlimited
  BY MemoryTyped, ActivityConstants
<1>9. Fits(cap, regs, held) => Fits(cap, m.regs, held)
  BY <1>3, <1>6, <1>7, <1>8 DEF Fits, Taken
<1>10. Sound(m, lowered)
  BY <1>3, <1>5, <1>9, MemoryTyped, MemoryFits DEF Sound
<1>11. Put("deregister", u) \in Writes
  BY <1>1, WritesTyped
<1>12. queue \o <<Put("deregister", u)>> = Append(queue, Put("deregister", u))
  BY <1>11, MemoryTyped, AppendIsConcat
<1>13. /\ queue \o <<Put("deregister", u)>> \in Seq(Writes)
       /\ Leads(disk, queue \o <<Put("deregister", u)>>, m, lowered)
  BY <1>4, <1>10, <1>11, <1>12, LeadsMore DEF TablesInv
<1> QED BY <1>3, <1>7, <1>13 DEF m

(* The number of frozen places changes.                                    *)
HeldWritten(q, m, h, low) ==
    LET n == [m EXCEPT !.held = h]
    IN  /\ q \o Settings(mode, h, closeAt) \in Seq(Writes)
        /\ Leads(disk, q \o Settings(mode, h, closeAt), n, low)
        /\ n \in Tables /\ n.wait = m.wait /\ n.status = m.status /\ n.cap = m.cap
        /\ n.mode = m.mode /\ n.held = h /\ n.closeAt = m.closeAt
        /\ n.rules = m.rules /\ n.bound = m.bound /\ n.regs = m.regs

LEMMA HeldLeads ==
    ASSUME NEW q \in Seq(Writes), NEW m, NEW low, Leads(disk, q, m, low),
           NEW h \in Nat, h # held, low \/ Fits(m.cap, m.regs, h)
    PROVE  HeldWritten(q, m, h, low)
<1> DEFINE n == [m EXCEPT !.held = h]
<1>1. Sound(m, low)
  BY LeadsSound
<1>2. m \in Tables
  BY <1>1 DEF Sound
<1>3. /\ n \in Tables /\ n.wait = m.wait /\ n.status = m.status /\ n.cap = m.cap
      /\ n.mode = m.mode /\ n.held = h /\ n.closeAt = m.closeAt
      /\ n.rules = m.rules /\ n.bound = m.bound /\ n.regs = m.regs
  BY <1>2 DEF Tables
<1>4. n = Written(m, Put("held", h))
  BY WrittenIs
<1> HIDE DEF n
<1>5. Sound(n, low)
  BY <1>1, <1>3 DEF Sound
<1>6. Put("held", h) \in Writes
  BY WritesTyped
<1>7. q \o Settings(mode, h, closeAt) = Append(q, Put("held", h))
  BY <1>6, HeldOnly, AppendIsConcat
<1>8. /\ q \o Settings(mode, h, closeAt) \in Seq(Writes)
      /\ Leads(disk, q \o Settings(mode, h, closeAt), n, low)
  BY <1>4, <1>5, <1>6, <1>7, LeadsMore
<1> QED BY <1>3, <1>8 DEF n, HeldWritten

(* promoteNextWaitlist, after writes that have left room.                  *)
Room(m) == lowered \/ m.cap = Unlimited \/ Taken(m.regs, m.held) + 1 <= m.cap
Promoted(m, after) ==
    \E q \in Seq(Writes), n \in Tables :
        /\ queue' = q \o after /\ Leads(disk, q, n, lowered)
        /\ n.wait = wait' /\ n.status = m.status /\ n.cap = m.cap
        /\ n.mode = m.mode /\ n.held = m.held /\ n.closeAt = m.closeAt
        /\ n.rules = m.rules /\ n.bound = m.bound /\ n.regs = regs'

LEMMA PromoteTables ==
    ASSUME TablesInv, NEW before \in Seq(Writes), NEW m,
           NEW written \in Seq(Writes), written = queue \o before,
           Leads(disk, written, m, lowered),
           m.wait = wait, Room(m),
           NEW after \in Seq(Writes), Promote(m.regs, before, after)
    PROVE  Promoted(m, after)
<1>1. Sound(m, lowered)
  BY LeadsSound
<1>2. m \in Tables
  BY <1>1 DEF Sound
<1>3. CASE wait = <<>>
  <2>1. regs' = m.regs /\ wait' = wait /\ queue' = written \o after
    BY <1>3 DEF Promote
  <2> QED BY <1>2, <2>1 DEF Promoted
<1>4. CASE wait # <<>>
  <2> DEFINE u == Head(wait)
             p == <<Put("dequeue", u), Put("register", u)>>
             n == [m EXCEPT !.wait = Tail(wait), !.regs = @ \union {u}]
             q == written \o p
  <2>1. /\ regs' = m.regs \union {u} /\ wait' = Tail(wait) /\ queue' = q \o after
    BY <1>4 DEF Promote
  <2>2. /\ u \in Users /\ Tail(wait) \in Seq(Users)
        /\ q \in Seq(Writes) /\ Leads(disk, q, n, lowered)
    BY <1>4, PromoteLeads DEF Room
  <2>3. /\ n \in Tables /\ n.wait = Tail(wait) /\ n.status = m.status /\ n.cap = m.cap
        /\ n.mode = m.mode /\ n.held = m.held /\ n.closeAt = m.closeAt
        /\ n.rules = m.rules /\ n.bound = m.bound /\ n.regs = m.regs \union {u}
    <3>1. m.regs \union {u} \in SUBSET Users
      BY <1>2, <2>2 DEF Tables
    <3> HIDE DEF u
    <3> QED BY <1>2, <2>2, <3>1 DEF Tables
  <2> HIDE DEF n, q, u
  <2> QED BY <2>1, <2>2, <2>3 DEF Promoted
<1> QED BY <1>3, <1>4

LEMMA EmptyAfter ==
    ASSUME NEW q \in Seq(Writes)
    PROVE  q \o <<>> = q /\ <<>> \in Seq(Writes)
  BY ConcatEmptySeq

LEMMA CancelTables ==
    ASSUME TablesInv, NEW u \in Users, CancelRegistration(u),
           disk' = disk, lowered' = lowered
    PROVE  TablesInv'
<1> DEFINE m == [Memory EXCEPT !.regs = regs \ {u}]
           b == <<Put("deregister", u)>>
           w == queue \o b
<1>1. u \in regs /\ UNCHANGED <<status, cap, mode, closeAt, rules, bound>>
  BY DEF CancelRegistration
<1>2. /\ w \in Seq(Writes) /\ Leads(disk, w, m, lowered)
      /\ m \in Tables /\ m.wait = wait /\ m.status = status /\ m.cap = cap
      /\ m.mode = mode /\ m.held = held /\ m.closeAt = closeAt /\ m.rules = rules
      /\ m.bound = bound /\ m.regs = regs \ {u}
      /\ Taken(m.regs, held) + 1 = Taken(regs, held)
  BY <1>1, DeregisterLeads
<1>3. b \in Seq(Writes)
  BY WritesTyped
<1>w. w = queue \o b
  OBVIOUS
<1> HIDE DEF m, w
<1>4. Room(m)
  BY <1>2, MemoryFits DEF Fits, Room
<1>5. CASE Promote(regs \ {u}, b, <<>>) /\ UNCHANGED held
  <2>1. Promote(m.regs, b, <<>>)
    BY <1>2, <1>5
  <2>2. <<>> \in Seq(Writes)
    BY EmptyAfter
  <2> HIDE DEF b
  <2>2a. Promoted(m, <<>>)
    BY <1>2, <1>3, <1>w, <1>4, <2>1, <2>2, PromoteTables
  <2>3. PICK q \in Seq(Writes), n \in Tables :
           /\ queue' = q \o <<>> /\ Leads(disk, q, n, lowered)
           /\ n.wait = wait' /\ n.status = m.status /\ n.cap = m.cap
           /\ n.mode = m.mode /\ n.held = m.held /\ n.closeAt = m.closeAt
           /\ n.rules = m.rules /\ n.bound = m.bound /\ n.regs = regs'
    BY <2>2a DEF Promoted
  <2>4. queue' = q
    BY <2>3, EmptyAfter
  <2>5. Memory' = n
    BY <1>1, <1>2, <1>5, <2>3, MemoryIs
  <2> QED BY <2>3, <2>4, <2>5 DEF TablesInv
<1>6. CASE /\ regs' = regs \ {u} /\ held' = held + 1 /\ UNCHANGED wait
           /\ queue' = queue \o b \o Settings(mode, held', closeAt)
  <2> DEFINE n == [m EXCEPT !.held = held']
  <2>1. held' \in Nat /\ held' # held
    BY <1>6, MemoryTyped
  <2>2. Taken(m.regs, held') = Taken(m.regs, held) + 1
    <3>1. Cardinality(m.regs) \in Nat /\ held \in Nat
      BY <1>2, MemoryTyped, Counts
    <3> QED BY <1>6, <3>1 DEF Taken
  <2>3. lowered \/ Fits(m.cap, m.regs, held')
    BY <1>2, <1>4, <2>2 DEF Fits, Room
  <2> HIDE DEF b
  <2>4. /\ w \o Settings(mode, held', closeAt) \in Seq(Writes)
        /\ Leads(disk, w \o Settings(mode, held', closeAt), n, lowered)
        /\ n \in Tables /\ n.wait = m.wait /\ n.status = m.status /\ n.cap = m.cap
        /\ n.mode = m.mode /\ n.held = held' /\ n.closeAt = m.closeAt
        /\ n.rules = m.rules /\ n.bound = m.bound /\ n.regs = m.regs
    <3>1. HeldWritten(w, m, held', lowered)
      BY <1>2, <2>1, <2>3, HeldLeads
    <3> QED BY <3>1 DEF HeldWritten
  <2> HIDE DEF n
  <2>5. Memory' = n
    BY <1>1, <1>2, <1>6, <2>4, MemoryIs
  <2> QED BY <1>6, <1>w, <2>4, <2>5 DEF TablesInv
<1> QED BY <1>5, <1>6 DEF CancelRegistration

(* A frozen place is released: first its number is written.                *)
LEMMA ReleasedLeads ==
    ASSUME TablesInv, held > 0
    PROVE  LET b == Settings(mode, held - 1, closeAt)
               m == [Memory EXCEPT !.held = held - 1]
           IN  /\ held - 1 \in Nat /\ b \in Seq(Writes)
               /\ queue \o b \in Seq(Writes) /\ Leads(disk, queue \o b, m, lowered)
               /\ m \in Tables /\ m.wait = wait /\ m.status = status /\ m.cap = cap
               /\ m.mode = mode /\ m.held = held - 1 /\ m.closeAt = closeAt
               /\ m.rules = rules /\ m.bound = bound /\ m.regs = regs
               /\ Taken(regs, held - 1) + 1 = Taken(regs, held)
               /\ lowered \/ m.cap = Unlimited \/ Taken(m.regs, m.held) + 1 <= m.cap
<1> DEFINE h == held - 1
           m == [Memory EXCEPT !.held = h]
           b == Settings(mode, h, closeAt)
<1>1. h \in Nat /\ h # held
  BY MemoryTyped
<1>2. Taken(regs, h) + 1 = Taken(regs, held)
  <2>1. Cardinality(regs) \in Nat /\ held \in Nat
    BY MemoryTyped, Counts
  <2> QED BY <2>1 DEF Taken
<1>3. lowered \/ cap = Unlimited \/ Taken(regs, h) + 1 <= cap
  BY <1>2, MemoryFits DEF Fits
<1>4. Fits(cap, regs, held) => Fits(cap, regs, h)
  <2>1. Cardinality(regs) \in Nat /\ held \in Nat
    BY MemoryTyped, Counts
  <2>2. cap \in Nat \/ cap = Unlimited
    BY MemoryTyped, ActivityConstants
  <2> QED BY <1>1, <2>1, <2>2 DEF Fits, Taken
<1>5. b \in Seq(Writes)
  <2>1. b = <<Put("held", h)>>
    BY <1>1, HeldOnly
  <2>2. Put("held", h) \in Writes
    BY <1>1, WritesTyped
  <2> HIDE DEF b
  <2> QED BY <2>1, <2>2
<1> HIDE DEF h
<1>6. /\ queue \o b \in Seq(Writes) /\ Leads(disk, queue \o b, m, lowered)
      /\ m \in Tables /\ m.wait = Memory.wait /\ m.status = Memory.status
      /\ m.cap = Memory.cap /\ m.mode = Memory.mode /\ m.held = h
      /\ m.closeAt = Memory.closeAt /\ m.rules = Memory.rules
      /\ m.bound = Memory.bound /\ m.regs = Memory.regs
  <2>1. lowered \/ Fits(Memory.cap, Memory.regs, h)
    BY <1>4, MemoryFits, MemoryFields
  <2>2. queue \in Seq(Writes) /\ Leads(disk, queue, Memory, lowered)
    BY DEF TablesInv
  <2>3. HeldWritten(queue, Memory, h, lowered)
    BY <1>1, <2>1, <2>2, HeldLeads
  <2> QED BY <2>3 DEF HeldWritten
<1> HIDE DEF m, b
<1>7. /\ m.wait = wait /\ m.status = status /\ m.cap = cap
      /\ m.mode = mode /\ m.closeAt = closeAt
      /\ m.rules = rules /\ m.bound = bound /\ m.regs = regs
  BY <1>6, MemoryFields
<1>8. lowered \/ m.cap = Unlimited \/ Taken(m.regs, m.held) + 1 <= m.cap
  BY <1>3, <1>6, <1>7
<1> QED BY <1>1, <1>2, <1>5, <1>6, <1>7, <1>8 DEF h, m, b

LEMMA ReleaseTables ==
    ASSUME TablesInv, ReleaseHeldSlot, disk' = disk, lowered' = lowered
    PROVE  TablesInv'
<1> DEFINE b == Settings(mode, held - 1, closeAt)
           m == [Memory EXCEPT !.held = held - 1]
           w == queue \o b
<1>1. /\ held > 0 /\ held' = held - 1 /\ Promote(regs, b, <<>>)
      /\ UNCHANGED <<status, cap, mode, closeAt, rules, bound>>
  BY DEF ReleaseHeldSlot
<1>2. /\ b \in Seq(Writes)
      /\ w \in Seq(Writes) /\ Leads(disk, w, m, lowered)
      /\ m \in Tables /\ m.wait = wait /\ m.status = status /\ m.cap = cap
      /\ m.mode = mode /\ m.held = held - 1 /\ m.closeAt = closeAt
      /\ m.rules = rules /\ m.bound = bound /\ m.regs = regs
      /\ lowered \/ m.cap = Unlimited \/ Taken(m.regs, m.held) + 1 <= m.cap
  BY <1>1, ReleasedLeads
<1>w. w = queue \o b
  OBVIOUS
<1> HIDE DEF b, m, w
<1>3. Promote(m.regs, b, <<>>)
  BY <1>1, <1>2
<1>4. <<>> \in Seq(Writes)
  BY EmptyAfter
<1>4a. Promoted(m, <<>>)
  BY <1>2, <1>3, <1>4, <1>w, PromoteTables DEF Room
<1>5. PICK q \in Seq(Writes), n \in Tables :
         /\ queue' = q \o <<>> /\ Leads(disk, q, n, lowered)
         /\ n.wait = wait' /\ n.status = m.status /\ n.cap = m.cap
         /\ n.mode = m.mode /\ n.held = m.held /\ n.closeAt = m.closeAt
         /\ n.rules = m.rules /\ n.bound = m.bound /\ n.regs = regs'
  BY <1>4a DEF Promoted
<1>6. queue' = q
  BY <1>5, EmptyAfter
<1>7. Memory' = n
  BY <1>1, <1>2, <1>5, MemoryIs
<1> QED BY <1>5, <1>6, <1>7 DEF TablesInv

(* A change of the settings that persist() writes.                         *)
LEMMA SavedTables ==
    ASSUME TablesInv, NEW low, lowered' = low, Leads(disk, queue, Memory, low),
           NEW s \in Statuses, NEW c \in Capacities \union {Unlimited}, NEW r \in Lists,
           NEW md \in Promotions, NEW at \in Deadlines \union {None},
           status' = s, cap' = c, rules' = r, mode' = md, closeAt' = at,
           UNCHANGED <<held, bound, regs, wait, disk>>,
           queue' = queue \o Saved(s, c, r, md, held, at),
           low \/ Fits(c, regs, held)
    PROVE  TablesInv'
<1>1. low \/ Fits(c, Memory.regs, held)
  BY MemoryFields
<1>2. queue \in Seq(Writes) /\ held \in Nat
  BY MemoryTyped
<1>3. SavedWritten(queue, Memory, s, c, r, md, held, at, low)
  BY <1>1, <1>2, SavedLeads, MemoryFields
<1>4. PICK n \in Tables :
         /\ queue' \in Seq(Writes) /\ Leads(disk, queue', n, low)
         /\ n.status = s /\ n.cap = c /\ n.rules = r /\ n.mode = md /\ n.closeAt = at
         /\ n.held = held /\ n.bound = Memory.bound /\ n.regs = Memory.regs
         /\ n.wait = Memory.wait
  BY <1>3 DEF SavedWritten
<1>5. Memory' = n
  BY <1>4, MemoryFields, MemoryIs
<1> QED BY <1>4, <1>5 DEF TablesInv

LEMMA StatusTables ==
    ASSUME TablesInv, NEW s \in Statuses, SetStatus(s),
           disk' = disk, lowered' = lowered
    PROVE  TablesInv'
<1>1. Leads(disk, queue, Memory, lowered)
  BY DEF TablesInv
<1> QED BY <1>1, SavedTables, MemoryTyped, MemoryFits DEF SetStatus, places

LEMMA CloseAtTables ==
    ASSUME TablesInv, NEW at \in Deadlines \union {None}, UpdateCloseAt(at),
           disk' = disk, lowered' = lowered
    PROVE  TablesInv'
<1>1. Leads(disk, queue, Memory, lowered)
  BY DEF TablesInv
<1> QED BY <1>1, SavedTables, MemoryTyped, MemoryFits DEF UpdateCloseAt, places

LEMMA RulesTables ==
    ASSUME TablesInv, NEW r \in Lists, UpdateRules(r),
           disk' = disk, lowered' = lowered
    PROVE  TablesInv'
<1>1. Leads(disk, queue, Memory, lowered)
  BY DEF TablesInv
<1> QED BY <1>1, SavedTables, MemoryTyped, MemoryFits DEF UpdateRules, places

(* A capacity below what is taken lifts the bound.                         *)
LEMMA CapacityTables ==
    ASSUME TablesInv, lowered \in BOOLEAN, NEW c \in Capacities \union {Unlimited}, UpdateCapacity(c),
           disk' = disk,
           lowered' = (lowered \/ (c # Unlimited /\ Taken(regs, held) > c))
    PROVE  TablesInv'
<1>1. queue \in Seq(Writes) /\ Leads(disk, queue, Memory, lowered)
  BY DEF TablesInv
<1> DEFINE low == lowered'
<1>2. c = Unlimited \/ c \in Nat
  BY ActivityConstants
<1>3. Taken(regs, held) \in Nat
  BY MemoryTyped, Counts DEF Taken
<1>4. CASE c # Unlimited /\ Taken(regs, held) > c
  <2>1. lowered' = TRUE
    BY <1>4
  <2>2. Leads(disk, queue, Memory, TRUE)
    BY <1>1, LeadsLoose
  <2> QED BY <2>1, <2>2, SavedTables, MemoryTyped DEF UpdateCapacity, places
<1>5. CASE ~(c # Unlimited /\ Taken(regs, held) > c)
  <2>1. Fits(c, regs, held)
    BY <1>2, <1>3, <1>5 DEF Fits
  <2>2. lowered' = (lowered \/ FALSE)
    BY <1>5
  <2>3. CASE lowered
    <3>1. lowered' = TRUE
      BY <2>2, <2>3
    <3>2. Leads(disk, queue, Memory, TRUE)
      BY <1>1, LeadsLoose
    <3> QED BY <3>1, <3>2, SavedTables, MemoryTyped DEF UpdateCapacity, places
  <2>4. CASE ~lowered
    <3>1. lowered' = lowered
      BY <2>2, <2>4
    <3> QED BY <1>1, <2>1, <3>1, SavedTables, MemoryTyped DEF UpdateCapacity, places
  <2> QED BY <2>3, <2>4
<1> QED BY <1>4, <1>5

LEMMA BindTables ==
    ASSUME TablesInv, NEW g \in Groups, BindGroup(g) \/ UnbindGroup(g),
           disk' = disk, lowered' = lowered
    PROVE  TablesInv'
<1> DEFINE e == [Memory EXCEPT !.bound = bound']
<1>1. UNCHANGED <<status, cap, mode, held, closeAt, rules, regs, wait>>
  BY DEF BindGroup, UnbindGroup, settings, places
<1>2. \/ /\ bound' = bound \union {g} /\ queue' = Append(queue, Put("bind", g))
      \/ /\ bound' = bound \ {g} /\ queue' = Append(queue, Put("unbind", g))
  BY DEF BindGroup, UnbindGroup
<1>3. bound' \in SUBSET Groups
  BY <1>2, MemoryTyped
<1>4. /\ e \in Tables /\ e.wait = wait /\ e.status = status /\ e.cap = cap
      /\ e.mode = mode /\ e.held = held /\ e.closeAt = closeAt /\ e.rules = rules
      /\ e.bound = bound' /\ e.regs = regs
  BY <1>3, MemoryTyped, MemoryFields DEF Tables
<1>5. \/ queue' = Append(queue, Put("bind", g)) /\ e = Written(Memory, Put("bind", g))
      \/ queue' = Append(queue, Put("unbind", g)) /\ e = Written(Memory, Put("unbind", g))
  <2>1. /\ Written(Memory, Put("bind", g)) = [Memory EXCEPT !.bound = @ \union {g}]
        /\ Written(Memory, Put("unbind", g)) = [Memory EXCEPT !.bound = @ \ {g}]
    BY WrittenIs
  <2> QED BY <1>2, <2>1, MemoryFields
<1> HIDE DEF e
<1>6. Memory' = e
  BY <1>1, <1>4, MemoryIs
<1>7. Sound(e, lowered)
  BY <1>4, MemoryTyped, MemoryFits DEF Sound
<1>8. Put("bind", g) \in Writes /\ Put("unbind", g) \in Writes
  BY WritesTyped
<1> QED BY <1>5, <1>6, <1>7, <1>8, LeadsMore DEF TablesInv

(* resolveWaitlistPromotion.                                               *)
LEMMA PromotionTables ==
    ASSUME TablesInv, NEW p \in Promotions, UpdatePromotion(p),
           disk' = disk, lowered' = lowered
    PROVE  TablesInv'
<1>1. mode' = p /\ UNCHANGED <<status, cap, closeAt, rules, bound>>
  BY DEF UpdatePromotion
<1>2. CASE ~(p = "auto" /\ held > 0)
  <2>1. /\ queue' = queue \o Saved(status, cap, rules, p, held, closeAt)
        /\ held' = held /\ regs' = regs /\ wait' = wait
    BY <1>2 DEF UpdatePromotion, places
  <2>2. Leads(disk, queue, Memory, lowered)
    BY DEF TablesInv
  <2> QED BY <1>1, <2>1, <2>2, SavedTables, MemoryTyped, MemoryFits
<1>3. CASE p = "auto" /\ held > 0
  <2> DEFINE h == held - 1
             b == Settings(mode, h, closeAt)
             m == [Memory EXCEPT !.held = h]
             w == queue \o b
             a == Saved(status, cap, rules, p, h, closeAt)
  <2>1. held' = h /\ Promote(regs, b, a)
    <3> HIDE DEF Promote
    <3> QED BY <1>3 DEF UpdatePromotion
  <2>2. /\ h \in Nat /\ b \in Seq(Writes)
        /\ w \in Seq(Writes) /\ Leads(disk, w, m, lowered)
        /\ m \in Tables /\ m.wait = wait /\ m.status = status /\ m.cap = cap
        /\ m.mode = mode /\ m.held = h /\ m.closeAt = closeAt
        /\ m.rules = rules /\ m.bound = bound /\ m.regs = regs
        /\ Room(m)
    BY <1>3, ReleasedLeads DEF Room
  <2>3. a \in Seq(Writes)
    BY <2>2, SavedTyped, MemoryTyped
  <2>w. w = queue \o b
    OBVIOUS
  <2> HIDE DEF b, m, w, a
  <2>4. Promote(m.regs, b, a)
    BY <2>1, <2>2
  <2>5. Promoted(m, a)
    BY <2>2, <2>3, <2>4, <2>w, PromoteTables
  <2>6. PICK q \in Seq(Writes), n \in Tables :
           /\ queue' = q \o a /\ Leads(disk, q, n, lowered)
           /\ n.wait = wait' /\ n.status = m.status /\ n.cap = m.cap
           /\ n.mode = m.mode /\ n.held = m.held /\ n.closeAt = m.closeAt
           /\ n.rules = m.rules /\ n.bound = m.bound /\ n.regs = regs'
    BY <2>5 DEF Promoted
  <2>7. lowered \/ Fits(cap, n.regs, h)
    <3>1. Sound(n, lowered)
      BY <2>6, LeadsSound
    <3> QED BY <2>2, <2>6, <3>1 DEF Sound
  <2>8. SavedWritten(q, n, status, cap, rules, p, h, closeAt, lowered)
    BY <2>2, <2>6, <2>7, MemoryTyped, SavedLeads
  <2>9. PICK k \in Tables :
           /\ q \o Saved(status, cap, rules, p, h, closeAt) \in Seq(Writes)
           /\ Leads(disk, q \o Saved(status, cap, rules, p, h, closeAt), k, lowered)
           /\ k.status = status /\ k.cap = cap /\ k.rules = rules /\ k.mode = p
           /\ k.closeAt = closeAt /\ k.held = h /\ k.bound = n.bound /\ k.regs = n.regs
           /\ k.wait = n.wait
    BY <2>8 DEF SavedWritten
  <2>10. Memory' = k
    BY <1>1, <2>1, <2>2, <2>6, <2>9, MemoryIs
  <2> QED BY <2>6, <2>9, <2>10 DEF TablesInv, a
<1> QED BY <1>2, <1>3

(* Memory and tables are left alone.                                       *)
LEMMA SameTables ==
    ASSUME TablesInv, UNCHANGED <<settings, bound, places, queue, disk, lowered>>
    PROVE  TablesInv'
<1>1. UNCHANGED <<status, cap, mode, held, closeAt, rules, bound, regs, wait, queue, disk,
                  lowered>>
  BY DEF settings, places
<1>2. Memory' = Memory
  BY <1>1 DEF Memory
<1> QED BY <1>1, <1>2 DEF TablesInv

LEMMA WriteTables ==
    ASSUME TablesInv, Write
    PROVE  TablesInv'
<1>1. /\ queue # <<>> /\ disk' = Written(disk, Head(queue)) /\ queue' = Tail(queue)
      /\ UNCHANGED <<status, cap, mode, held, closeAt, rules, bound, regs, wait, lowered>>
  BY DEF Write, settings, places, history
<1>2. Memory' = Memory
  BY <1>1 DEF Memory
<1>3. queue' \in Seq(Writes)
  BY <1>1, MemoryTyped, HeadTailProperties
<1>4. Leads(Written(disk, Head(queue)), Tail(queue), Memory, lowered)
  BY <1>1, LeadsLess DEF TablesInv
<1> QED BY <1>1, <1>2, <1>3, <1>4 DEF TablesInv

(* A restart reads back what the writes so far have made.                  *)
LEMMA CrashTables ==
    ASSUME TablesInv, Crash
    PROVE  TablesInv'
<1>1. /\ status' = disk.status /\ cap' = disk.cap /\ mode' = disk.mode
      /\ held' = disk.held /\ closeAt' = disk.closeAt /\ rules' = disk.rules
      /\ bound' = disk.bound /\ regs' = disk.regs /\ wait' = disk.wait
      /\ queue' = <<>> /\ disk' = disk /\ lowered' = lowered
  BY DEF Crash, history
<1>2. Sound(disk, lowered)
  BY LeadsSound DEF TablesInv
<1>3. disk \in Tables
  BY <1>2 DEF Sound
<1>4. Memory' = disk
  BY <1>1, <1>3, MemoryIs
<1>5. Leads(disk, <<>>, disk, lowered)
  BY <1>2, LeadsNowhere
<1>6. <<>> \in Seq(Writes)
  OBVIOUS
<1> QED BY <1>1, <1>4, <1>5, <1>6 DEF TablesInv

-----------------------------------------------------------------------------
(* What a step may be, in terms of ActivityService and of the cards.       *)

Announces ==
    \/ UNCHANGED sending
    \/ \E kind \in Kinds, targets \in SUBSET People, after \in Afters :
          Send(kind, targets, after)

(* A manager's operation that promotes nobody, or tells nobody of it.      *)
Operation ==
    \/ \E s \in Statuses : SetStatus(s)
    \/ \E g \in Groups : BindGroup(g) \/ UnbindGroup(g)
    \/ \E at \in Deadlines \union {None} : UpdateCloseAt(at)
    \/ \E r \in Lists : UpdateRules(r)
    \/ \E p \in Promotions : UpdatePromotion(p)
    \/ UNCHANGED <<settings, bound, places, queue>>

Operated == Operation /\ Announces /\ UNCHANGED <<owed, history>>
Released == ReleaseHeldSlot /\ NotifyPromoted(regs' \ regs) /\ UNCHANGED history
Sized    == \E c \in Capacities \union {Unlimited} : SetCapacity(c)
Managed  == Manage /\ (Operated \/ Released \/ Sized)

Audience ==
    /\ regs \in SUBSET Users /\ wait \in Seq(Users) /\ bound \in SUBSET Groups
    /\ rules \in Lists

LEMMA Audiences ==
    ASSUME Audience
    PROVE  /\ BoundGroups \in SUBSET People
           /\ Participants \in SUBSET Users /\ Participants \in SUBSET People
<1>1. Waiting \subseteq Users
  BY DEF Audience, Waiting
<1> QED BY <1>1, ActivityConstants DEF Audience, BoundGroups, Participants, People

LEMMA SettingManaged ==
    ASSUME Audience, ApplyActivitySetting
    PROVE  Managed
<1>1. Participants \in SUBSET People
  BY Audiences
<1>2. "changed" \in Kinds /\ "nothing" \in Afters
  BY DEF Kinds, Afters
<1>3. NotifyChanged => Announces
  BY <1>1, <1>2 DEF NotifyChanged, Announces
<1>4. ASSUME NEW c \in Capacities \union {Unlimited}, SetCapacity(c)
      PROVE  Managed
  <2>1. Manage
    BY <1>4 DEF SetCapacity
  <2> QED BY <1>4, <2>1 DEF Managed, Sized
<1>5. ASSUME NEW at \in Deadlines \union {None}, SetCloseAt(at)
      PROVE  Managed
  BY <1>3, <1>5 DEF SetCloseAt, Managed, Operated, Operation
<1>6. ASSUME NEW p \in {"auto", "manual"}, SetPromotion(p)
      PROVE  Managed
  <2>1. Manage /\ UpdatePromotion(p) /\ UNCHANGED sending /\ UNCHANGED <<owed, history>>
    BY <1>6 DEF SetPromotion
  <2>2. Operation
    BY <1>6, <2>1 DEF Operation, Promotions
  <2> QED BY <2>1, <2>2 DEF Managed, Operated, Announces
<1>7. ASSUME NEW list \in {"allow", "deny"}, NEW years \in SUBSET Years,
             SetRules([rules EXCEPT ![list] = years])
      PROVE  Managed
  <2>1. [rules EXCEPT ![list] = years] \in Lists
    BY DEF Audience, Lists
  <2> QED BY <1>3, <1>7, <2>1 DEF SetRules, Managed, Operated, Operation
<1> QED BY <1>4, <1>5, <1>6, <1>7 DEF ApplyActivitySetting

LEMMA StatusManaged ==
    ASSUME Audience, NEW m
    PROVE  /\ PublishActivity(m) => Managed
           /\ \A s \in {"closed", "cancelled"} : HandleActivityStatus(m, s) => Managed
           /\ \A s \in {"open", "closed", "cancelled"} : SetActivityStatus(m, s) => Managed
<1>1. {"open", "closed", "cancelled"} \subseteq Statuses
  BY DEF Statuses
<1>2. Participants \in SUBSET People /\ BoundGroups \in SUBSET People
  BY Audiences
<1>3. {"open", "cancelled"} \subseteq Kinds /\ {"nothing", "published"} \subseteq Afters
  BY DEF Kinds, Afters
<1>4. PublishActivity(m) => Managed
  <2> SUFFICES ASSUME PublishActivity(m) PROVE Managed
    OBVIOUS
  <2>1. /\ Manage /\ SetStatus("open") /\ Send("open", BoundGroups, "published")
        /\ UNCHANGED <<owed, history>>
    BY DEF PublishActivity
  <2>2. Operation
    BY <1>1, <2>1 DEF Operation
  <2>3. Announces
    BY <1>2, <1>3, <2>1 DEF Announces
  <2> QED BY <2>1, <2>2, <2>3 DEF Managed, Operated
<1>5. ASSUME NEW s \in {"closed", "cancelled"}, HandleActivityStatus(m, s)
      PROVE  Managed
  <2>1. /\ Manage /\ SetStatus(s) /\ UNCHANGED <<owed, history>>
        /\ IF s = "cancelled" THEN NotifyCancelled ELSE UNCHANGED sending
    BY <1>5 DEF HandleActivityStatus
  <2>2. Operation
    BY <1>1, <2>1 DEF Operation
  <2>3. Announces
    BY <1>2, <1>3, <2>1 DEF Announces, NotifyCancelled
  <2> QED BY <2>1, <2>2, <2>3 DEF Managed, Operated
<1>6. ASSUME NEW s \in {"open", "closed", "cancelled"}, SetActivityStatus(m, s)
      PROVE  Managed
  <2>1. Manage /\ SetStatus(s) /\ UNCHANGED sending /\ UNCHANGED <<owed, history>>
    BY <1>6 DEF SetActivityStatus
  <2>2. Operation
    BY <1>1, <2>1 DEF Operation
  <2> QED BY <2>1, <2>2 DEF Managed, Operated, Announces
<1> QED BY <1>4, <1>5, <1>6

LEMMA BindManaged ==
    ASSUME NEW g \in Groups
    PROVE  Bind(g) \/ Unbind(g) => Managed
<1> SUFFICES ASSUME Bind(g) \/ Unbind(g) PROVE Managed
  OBVIOUS
<1>1. /\ Manage /\ (BindGroup(g) \/ UnbindGroup(g)) /\ UNCHANGED sending
      /\ UNCHANGED <<owed, history>>
  BY DEF Bind, Unbind
<1>2. Operation
  BY <1>1 DEF Operation
<1> QED BY <1>1, <1>2 DEF Managed, Operated, Announces

LEMMA ToggleManaged ==
    ASSUME Audience, NEW m, NEW list \in {"allow", "deny"}, NEW o \in Years \union {"clear"},
           HandleActivityRuleToggle(m, list, o)
    PROVE  Managed
<1> DEFINE r == [rules EXCEPT ![list] =
                    IF o = "clear" THEN {}
                    ELSE IF o \in @ THEN @ \ {o} ELSE @ \union {o}]
<1>1. r \in Lists
  BY DEF Audience, Lists
<1>2. Manage /\ UpdateRules(r) /\ UNCHANGED sending /\ UNCHANGED <<owed, history>>
  BY DEF HandleActivityRuleToggle, ApplyActivityRuleOption
<1> HIDE DEF r
<1>3. Operation
  BY <1>1, <1>2 DEF Operation
<1> QED BY <1>2, <1>3 DEF Managed, Operated, Announces

LEMMA ResendManaged ==
    ASSUME Audience, NEW m, HandleActivityResend(m)
    PROVE  Managed
<1>1. /\ Manage /\ Send("resend", BoundGroups, "nothing")
      /\ UNCHANGED <<settings, bound, places, queue>> /\ UNCHANGED <<owed, history>>
  BY DEF HandleActivityResend
<1>2. Operation
  BY <1>1 DEF Operation
<1>3. Announces
  BY <1>1, Audiences DEF Announces, Kinds, Afters
<1> QED BY <1>1, <1>2, <1>3 DEF Managed, Operated

LEMMA Steps ==
    ASSUME Audience, Next
    PROVE  \/ Write \/ WriteMark \/ Tick \/ Crash
           \/ \E u \in Users : JoinCard(u) \/ QuitCard(u)
           \/ Managed
           \/ \E b \in Broadcasters : CardSent(b) \/ CardFailed(b)
<1>1. ASSUME NEW m, ActivityCommand(m)
      PROVE  Managed
  BY <1>1, SettingManaged, StatusManaged, BindManaged
     DEF ActivityCommand, HandleActivityBindCommand, HandleActivityUnbindCommand, HandleActivitySet
<1>2. ASSUME NEW m, HandleActivityRelease(m)
      PROVE  Managed
  BY <1>2 DEF HandleActivityRelease, Managed, Released
<1>3. ASSUME NEW m, ActivityButton(m)
      PROVE  Managed
  BY <1>2, <1>3, SettingManaged, StatusManaged, BindManaged, ToggleManaged, ResendManaged
     DEF ActivityButton, HandleActivityUnbind, HandleActivitySetCallback
<1>4. ASSUME NEW m, ActivityRequest(m)
      PROVE  Managed
  BY <1>4, SettingManaged, StatusManaged, BindManaged
     DEF ActivityRequest, UpdateActivity, BindActivityGroup, UnbindActivityGroup
<1> QED BY <1>1, <1>3, <1>4 DEF Next, MemberCard

-----------------------------------------------------------------------------
(* The inductive invariant.                                                *)

Counters ==
    /\ now \in 0 .. MaxTime /\ edits \in 0 .. MaxEdits /\ crashes \in 0 .. MaxCrashes
    /\ raised \in BOOLEAN /\ lowered \in BOOLEAN /\ owed \subseteq Users

Sendings == sending \in [Broadcasters -> Cards \union {Idle}]

(* A notice owed has gone out, was over the day's number, or is in the     *)
(* hands of a sending.                                                     *)
Marked(kind, u, marked) == <<kind, u>> \in marked \/ Limited(u, marked)
Carried(card, u) ==
    card # Idle /\ card.kind = "promoted" /\ (u = card.to \/ u \in card.todo)
Notices ==
    \A u \in owed : Marked("promoted", u, sent) \/ \E b \in Broadcasters : Carried(sending[b], u)

(* The marks not yet written are what the table lacks of memory.           *)
Listed(q) == {q[i] : i \in 1 .. Len(q)}
MarksInv ==
    IsFiniteSet(sent) /\ marks \in Seq(Marks) /\ told \union Listed(marks) = sent

IInv == TablesInv /\ Counters /\ FairQueue /\ Sendings /\ Notices /\ MarksInv

LEMMA AudienceTyped ==
    ASSUME TablesInv
    PROVE  Audience
  BY MemoryTyped DEF Audience

LEMMA IdleIsNoCard == Idle \notin Cards
<1> SUFFICES ASSUME Idle \in Cards PROVE FALSE
  OBVIOUS
<1>1. Idle.at = "sending"
  BY DEF Cards
<1>2. Idle.at = "idle"
  BY DEF Idle
<1> QED BY <1>1, <1>2

LEMMA InitInv ==
    ASSUME Init
    PROVE  IInv
<1>1. TablesInv
  <2>1. Memory = disk
    BY DEF Init, Memory
  <2>2. disk \in Tables
    <3>1. <<>> \in Seq(Users)
      OBVIOUS
    <3> QED BY <3>1, ActivityConstants DEF Init, Tables, Statuses, Promotions, Lists
  <2>3. disk.regs = {} /\ disk.wait = <<>> /\ disk.cap = cap /\ disk.held = 0
    BY DEF Init
  <2>4. Cardinality(disk.regs) = 0
    BY <2>3, FS_EmptySet
  <2>5. OneRow(disk.regs, disk.wait)
    BY <2>3 DEF OneRow
  <2>6. Fits(disk.cap, disk.regs, disk.held)
    BY <2>3, <2>4, ActivityConstants DEF Fits, Taken, Init
  <2>7. Sound(disk, lowered)
    BY <2>2, <2>4, <2>5, <2>6 DEF Sound
  <2>8. queue = <<>> /\ <<>> \in Seq(Writes)
    BY DEF Init
  <2> QED BY <2>1, <2>7, <2>8, LeadsNowhere DEF TablesInv
<1>2. Counters
  <2>1. MaxTime \in Nat /\ MaxEdits \in Nat /\ MaxCrashes \in Nat
    BY ActivityConstants
  <2>2. now = 0 /\ edits = 0 /\ crashes = 0 /\ raised = FALSE /\ lowered = FALSE /\ owed = {}
    BY DEF Init
  <2>3. now \in 0 .. MaxTime /\ edits \in 0 .. MaxEdits /\ crashes \in 0 .. MaxCrashes
    BY <2>1, <2>2
  <2>4. raised \in BOOLEAN /\ lowered \in BOOLEAN /\ owed \subseteq Users
    BY <2>2
  <2> QED BY <2>3, <2>4 DEF Counters
<1>3. FairQueue
  BY DEF Init, FairQueue
<1>4. Sendings /\ Notices
  BY DEF Init, Sendings, Notices
<1>5. MarksInv
  <2>1. sent = {} /\ told = {} /\ marks = <<>> /\ <<>> \in Seq(Marks) /\ Len(<<>>) = 0
    BY DEF Init
  <2>2. Listed(marks) = {}
    BY <2>1 DEF Listed
  <2> QED BY <2>1, <2>2, FS_EmptySet DEF MarksInv
<1> QED BY <1>1, <1>2, <1>3, <1>4, <1>5 DEF IInv

(* A card on its way may be marked when it goes out.                       *)
LEMMA SentMarks ==
    ASSUME Sendings, NEW b \in Broadcasters, sending[b] # Idle
    PROVE  sending[b] \in Cards /\ <<sending[b].kind, sending[b].to>> \in Marks
  BY DEF Sendings, Cards, Marks

LEMMA TablesNext ==
    ASSUME IInv, Next
    PROVE  TablesInv'
<1>1. TablesInv /\ lowered \in BOOLEAN /\ Sendings
  BY DEF IInv, Counters
<1>2. CASE Write
  BY <1>1, <1>2, WriteTables
<1>3. CASE Tick
  BY <1>1, <1>3, SameTables DEF Tick, history
<1>4. CASE Crash
  BY <1>1, <1>4, CrashTables
<1>5. ASSUME NEW u \in Users, JoinCard(u) \/ QuitCard(u)
      PROVE  TablesInv'
  <2>1. CASE JoinCard(u)
    BY <1>1, <2>1, JoinTables DEF JoinCard, history
  <2>2. CASE QuitCard(u)
    BY <1>1, <2>2, CancelTables DEF QuitCard, history
  <2> QED BY <1>5, <2>1, <2>2
<1>6. CASE Managed
  <2>1. Manage /\ disk' = disk /\ sent' = sent
    BY <1>6 DEF Managed, Manage
  <2>2. CASE Operated
    <3>1. Operation /\ lowered' = lowered
      BY <2>2 DEF Operated, history
    <3> QED BY <1>1, <2>1, <3>1, StatusTables, BindTables, CloseAtTables, RulesTables,
               PromotionTables, SameTables DEF Operation
  <2>3. CASE Released
    BY <1>1, <2>1, <2>3, ReleaseTables DEF Released, history
  <2>4. CASE Sized
    <3>1. PICK c \in Capacities \union {Unlimited} : SetCapacity(c)
      BY <2>4 DEF Sized
    <3>2. /\ UpdateCapacity(c)
          /\ lowered' = (lowered \/ (c # Unlimited /\ Taken(regs, held) > c))
      BY <3>1 DEF SetCapacity
    <3> QED BY <1>1, <2>1, <3>2, CapacityTables
  <2> QED BY <1>6, <2>2, <2>3, <2>4 DEF Managed
<1>7. ASSUME NEW b \in Broadcasters, CardSent(b) \/ CardFailed(b)
      PROVE  TablesInv'
  BY <1>1, <1>7, SameTables DEF CardSent, CardFailed, history
<1>8. CASE WriteMark
  BY <1>1, <1>8, SameTables DEF WriteMark, history
<1>9. Audience
  BY <1>1, AudienceTyped
<1> QED BY <1>2, <1>3, <1>4, <1>5, <1>6, <1>7, <1>8, <1>9, Steps

(* A card that went out is marked, in memory and at the end of the queue.  *)
LEMMA MarkAppended ==
    ASSUME MarksInv, NEW mark \in Marks,
           sent' = sent \union {mark}, marks' = Append(marks, mark), told' = told
    PROVE  MarksInv'
<1>1. /\ marks' \in Seq(Marks) /\ Len(marks') = Len(marks) + 1 /\ Len(marks) \in Nat
      /\ marks'[Len(marks) + 1] = mark
      /\ \A i \in 1 .. Len(marks) : marks'[i] = marks[i]
  BY AppendTyped, LenProperties DEF MarksInv
<1>2. Listed(marks)' = Listed(marks) \union {mark}
  <2>1. 1 .. Len(marks') = 1 .. Len(marks) \union {Len(marks) + 1}
    BY <1>1
  <2> QED BY <1>1, <2>1 DEF Listed
<1>3. IsFiniteSet(sent')
  BY FS_AddElement DEF MarksInv
<1> QED BY <1>1, <1>2, <1>3 DEF MarksInv

(* The oldest mark is written.                                             *)
LEMMA MarkWritten ==
    ASSUME MarksInv, WriteMark
    PROVE  MarksInv'
<1>1. /\ marks # <<>> /\ told' = told \union {Head(marks)} /\ marks' = Tail(marks)
      /\ sent' = sent
  BY DEF WriteMark
<1>2. /\ marks' \in Seq(Marks) /\ Len(marks) \in Nat \ {0} /\ Head(marks) = marks[1]
      /\ Len(marks') = Len(marks) - 1 /\ \A i \in 1 .. Len(marks) - 1 : marks'[i] = marks[i + 1]
  BY <1>1, EmptySeq, HeadTailProperties DEF MarksInv
<1>3. Listed(marks) = {marks[1]} \union Listed(marks)'
  <2>1. \A i \in 1 .. Len(marks) : i = 1 \/ (i - 1 \in 1 .. Len(marks) - 1 /\ (i - 1) + 1 = i)
    BY <1>2
  <2>2. \A i \in 1 .. Len(marks) - 1 : i + 1 \in 1 .. Len(marks)
    BY <1>2
  <2>3. 1 \in 1 .. Len(marks)
    BY <1>2
  <2>4. Listed(marks) \subseteq {marks[1]} \union Listed(marks)'
    <3>1. ASSUME NEW i \in 1 .. Len(marks), i # 1
          PROVE  marks[i] \in Listed(marks)'
      <4>1. i - 1 \in 1 .. Len(marks') /\ (i - 1) + 1 = i
        BY <1>2, <2>1, <3>1
      <4>2. marks[i] = marks'[i - 1]
        BY <1>2, <4>1
      <4> QED BY <4>1, <4>2 DEF Listed
    <3> QED BY <3>1 DEF Listed
  <2>5. {marks[1]} \union Listed(marks)' \subseteq Listed(marks)
    BY <1>2, <2>2, <2>3 DEF Listed
  <2> QED BY <2>4, <2>5
<1> QED BY <1>1, <1>2, <1>3 DEF MarksInv

LEMMA MarksNext ==
    ASSUME IInv, Next
    PROVE  MarksInv'
<1>1. MarksInv /\ TablesInv /\ Sendings
  BY DEF IInv
<1>2. UNCHANGED <<sent, marks, told>> => MarksInv'
  BY <1>1 DEF MarksInv, Listed
<1>3. CASE WriteMark
  BY <1>1, <1>3, MarkWritten
<1>4. CASE Crash
  <2>1. sent' = told /\ told' = told /\ marks' = <<>> /\ <<>> \in Seq(Marks) /\ Len(<<>>) = 0
    BY <1>4 DEF Crash
  <2>2. Listed(marks)' = {}
    BY <2>1 DEF Listed
  <2>3. IsFiniteSet(told)
    <3>1. told \subseteq sent
      BY <1>1 DEF MarksInv
    <3> QED BY <1>1, <3>1, FS_Subset DEF MarksInv
  <2> QED BY <2>1, <2>2, <2>3 DEF MarksInv
<1>5. CASE Write \/ Tick
  BY <1>2, <1>5 DEF Write, Tick
<1>6. ASSUME NEW u \in Users, JoinCard(u) \/ QuitCard(u)
      PROVE  MarksInv'
  BY <1>2, <1>6 DEF JoinCard, QuitCard
<1>7. CASE Managed
  BY <1>2, <1>7 DEF Managed, Manage
<1>8. ASSUME NEW b \in Broadcasters, CardSent(b)
      PROVE  MarksInv'
  <2> DEFINE k == sending[b].kind
             t == sending[b].to
  <2>1. sending[b] # Idle /\ told' = told
    BY <1>8 DEF CardSent
  <2>2. <<k, t>> \in Marks
    BY <1>1, <2>1, SentMarks
  <2>3. CASE OncePerTarget(k)
    <3>1. sent' = sent \union {<<k, t>>} /\ marks' = Append(marks, <<k, t>>)
      BY <1>8, <2>3 DEF CardSent
    <3> QED BY <1>1, <2>1, <2>2, <3>1, MarkAppended
  <2>4. CASE ~OncePerTarget(k)
    <3>1. sent' = sent \union {} /\ marks' = marks
      BY <1>8, <2>4 DEF CardSent
    <3> QED BY <1>2, <2>1, <3>1
  <2> QED BY <2>3, <2>4
<1>9. ASSUME NEW b \in Broadcasters, CardFailed(b)
      PROVE  MarksInv'
  BY <1>2, <1>9 DEF CardFailed
<1>10. Audience
  BY <1>1, AudienceTyped
<1> QED BY <1>3, <1>4, <1>5, <1>6, <1>7, <1>8, <1>9, <1>10, Steps

LEMMA CountersNext ==
    ASSUME IInv, Next
    PROVE  Counters'
<1>1. Counters /\ TablesInv
  BY DEF IInv
<1>2. MaxTime \in Nat /\ MaxEdits \in Nat /\ MaxCrashes \in Nat
  BY ActivityConstants
<1>11. regs' \subseteq Users
  <2>1. TablesInv'
    BY TablesNext
  <2>2. (regs \in SUBSET Users)'
    BY <2>1, MemoryTyped, PTL
  <2> QED BY <2>2
<1>3. ASSUME NotifyPromoted(regs' \ regs)
      PROVE  owed' \subseteq Users
  BY <1>1, <1>3, <1>11 DEF NotifyPromoted, Counters
<1>4. CASE Write \/ WriteMark
  BY <1>1, <1>4 DEF Write, WriteMark, history, Counters
<1>5. CASE Tick
  BY <1>1, <1>2, <1>5 DEF Tick, history, Counters
<1>6. CASE Crash
  BY <1>1, <1>2, <1>6 DEF Crash, history, Counters
<1>7. ASSUME NEW u \in Users, JoinCard(u) \/ QuitCard(u)
      PROVE  Counters'
  <2>1. CASE JoinCard(u)
    BY <1>1, <2>1 DEF JoinCard, history, Counters
  <2>2. CASE QuitCard(u)
    <3>1. /\ CancelRegistration(u) /\ NotifyPromoted(regs' \ regs)
          /\ UNCHANGED <<now, edits, crashes, raised, lowered>>
      BY <2>2 DEF QuitCard, history
    <3>2. regs' \subseteq Users
      BY <1>11
    <3>3. owed' \subseteq Users
      BY <1>3, <3>1, <3>2
    <3> QED BY <1>1, <3>1, <3>3 DEF Counters
  <2> QED BY <1>7, <2>1, <2>2
<1>8. CASE Managed
  <2>1. /\ edits < MaxEdits /\ edits' = edits + 1
        /\ UNCHANGED <<now, crashes>>
    BY <1>8 DEF Managed, Manage
  <2>2. edits' \in 0 .. MaxEdits
    BY <1>1, <1>2, <2>1 DEF Counters
  <2>3. CASE Operated
    BY <1>1, <2>1, <2>2, <2>3 DEF Operated, history, Counters
  <2>4. CASE Released
    <3>1. NotifyPromoted(regs' \ regs) /\ UNCHANGED <<raised, lowered>>
      BY <2>4 DEF Released, history
    <3>2. regs' \subseteq Users
      BY <1>11
    <3>3. owed' \subseteq Users
      BY <1>3, <3>1, <3>2
    <3> QED BY <1>1, <2>1, <2>2, <3>1, <3>3 DEF Counters
  <2>5. CASE Sized
    <3>1. /\ raised' \in BOOLEAN /\ lowered' \in BOOLEAN /\ owed' = owed
      BY <2>5 DEF Sized, SetCapacity
    <3> QED BY <1>1, <2>1, <2>2, <3>1 DEF Counters
  <2> QED BY <1>8, <2>3, <2>4, <2>5 DEF Managed
<1>9. ASSUME NEW b \in Broadcasters, CardSent(b) \/ CardFailed(b)
      PROVE  Counters'
  BY <1>1, <1>9 DEF CardSent, CardFailed, history, Counters
<1>10. Audience
  BY <1>1, AudienceTyped
<1> QED BY <1>4, <1>5, <1>6, <1>7, <1>8, <1>9, <1>10, Steps

(* Whom promoteNextWaitlist takes in takes the place somebody left.        *)
LEMMA PromoteFills ==
    ASSUME TablesInv, NEW rs \in SUBSET regs, NEW before, NEW after,
           Promote(rs, before, after), wait # <<>>
    PROVE  Cardinality(regs') = Cardinality(rs) + 1
<1>1. regs' = rs \union {Head(wait)}
  BY DEF Promote
<1>2. Head(wait) \notin rs
  <2>1. Len(wait) \in Nat \ {0} /\ Head(wait) = wait[1]
    BY MemoryTyped, EmptySeq, HeadTailProperties
  <2>2. wait[1] \notin regs
    BY <2>1, MemoryTyped DEF OneRow
  <2> QED BY <2>1, <2>2
<1>3. rs \in SUBSET Users
  BY MemoryTyped
<1> QED BY <1>1, <1>2, <1>3, Counts

LEMMA PromoteEmpty ==
    ASSUME NEW rs, NEW before, NEW after, Promote(rs, before, after), wait = <<>>
    PROVE  wait' = <<>>
  BY DEF Promote

(* What is taken while somebody waits.                                     *)
LEMMA TakenStays ==
    ASSUME TablesInv, wait # <<>>,
           \/ \E u \in Users : CancelRegistration(u)
           \/ ReleaseHeldSlot
           \/ \E p \in Promotions : UpdatePromotion(p)
    PROVE  Taken(regs', held') = Taken(regs, held) /\ cap' = cap
<1>1. Cardinality(regs) \in Nat /\ held \in Nat
  BY MemoryTyped, Counts
<1>2. ASSUME held > 0, held' = held - 1, NEW before, NEW after, Promote(regs, before, after)
      PROVE  Taken(regs', held') = Taken(regs, held)
  <2>1. Cardinality(regs') = Cardinality(regs) + 1
    BY <1>2, PromoteFills
  <2> QED BY <1>1, <1>2, <2>1 DEF Taken
<1>3. ASSUME NEW u \in Users, CancelRegistration(u)
      PROVE  Taken(regs', held') = Taken(regs, held) /\ cap' = cap
  <2>1. u \in regs /\ cap' = cap
    BY <1>3 DEF CancelRegistration
  <2>2. Cardinality(regs \ {u}) = Cardinality(regs) - 1
    BY <2>1, MemoryTyped, Counts
  <2>3. CASE Promote(regs \ {u}, <<Put("deregister", u)>>, <<>>) /\ UNCHANGED held
    <3>1. Cardinality(regs') = Cardinality(regs \ {u}) + 1
      BY <2>3, PromoteFills
    <3> QED BY <1>1, <2>1, <2>2, <2>3, <3>1 DEF Taken
  <2>4. CASE regs' = regs \ {u} /\ held' = held + 1
    BY <1>1, <2>1, <2>2, <2>4 DEF Taken
  <2> QED BY <1>3, <2>3, <2>4 DEF CancelRegistration
<1>4. CASE ReleaseHeldSlot
  <2>1. /\ held > 0 /\ held' = held - 1 /\ cap' = cap
        /\ Promote(regs, Settings(mode, held', closeAt), <<>>)
    BY <1>4 DEF ReleaseHeldSlot
  <2> QED BY <1>2, <2>1
<1>5. ASSUME NEW p \in Promotions, UpdatePromotion(p)
      PROVE  Taken(regs', held') = Taken(regs, held) /\ cap' = cap
  <2>1. cap' = cap
    BY <1>5 DEF UpdatePromotion
  <2>2. CASE /\ held > 0 /\ held' = held - 1
             /\ Promote(regs, Settings(mode, held', closeAt),
                           Saved(status, cap, rules, p, held', closeAt))
    BY <1>2, <2>1, <2>2
  <2>3. CASE UNCHANGED <<held, places>>
    BY <2>1, <2>3 DEF places
  <2> QED BY <1>5, <2>2, <2>3 DEF UpdatePromotion
<1> QED BY <1>3, <1>4, <1>5

LEMMA WaitStaysEmpty ==
    ASSUME wait = <<>>,
           \/ \E u \in Users : CancelRegistration(u)
           \/ ReleaseHeldSlot
           \/ \E p \in Promotions : UpdatePromotion(p)
    PROVE  wait' = <<>>
<1>1. ASSUME NEW u \in Users, CancelRegistration(u)
      PROVE  wait' = <<>>
  <2>1. Promote(regs \ {u}, <<Put("deregister", u)>>, <<>>) \/ UNCHANGED wait
    BY <1>1 DEF CancelRegistration
  <2> QED BY <2>1, PromoteEmpty
<1>2. CASE ReleaseHeldSlot
  BY <1>2, PromoteEmpty DEF ReleaseHeldSlot
<1>3. ASSUME NEW p \in Promotions, UpdatePromotion(p)
      PROVE  wait' = <<>>
  <2>1. \/ Promote(regs, Settings(mode, held', closeAt),
                         Saved(status, cap, rules, p, held', closeAt))
        \/ UNCHANGED places
    BY <1>3 DEF UpdatePromotion
  <2> QED BY <2>1, PromoteEmpty DEF places
<1> QED BY <1>1, <1>2, <1>3

LEMMA FairNext ==
    ASSUME IInv, Next
    PROVE  FairQueue'
<1>1. TablesInv /\ Counters /\ FairQueue
  BY DEF IInv
<1>2. Cardinality(regs) \in Nat /\ held \in Nat /\ (cap = Unlimited \/ cap \in Nat)
  BY <1>1, MemoryTyped, Counts, ActivityConstants
<1> DEFINE Same == UNCHANGED <<regs, wait, held, cap, raised, crashes>>
<1>3. Same => FairQueue'
  BY <1>1 DEF FairQueue
<1>4. ASSUME raised' = raised, crashes' = crashes,
             \/ \E u \in Users : CancelRegistration(u)
             \/ ReleaseHeldSlot
             \/ \E p \in Promotions : UpdatePromotion(p)
      PROVE  FairQueue'
  <2>1. CASE wait = <<>>
    <3>1. wait' = <<>>
      BY <1>4, <2>1, WaitStaysEmpty
    <3> QED BY <3>1 DEF FairQueue
  <2>2. CASE wait # <<>>
    <3>1. Taken(regs', held') = Taken(regs, held) /\ cap' = cap
      BY <1>1, <1>4, <2>2, TakenStays
    <3>2. Full(regs', held', cap') = Full(regs, held, cap)
      BY <3>1 DEF Full
    <3> QED BY <1>1, <1>4, <2>2, <3>2 DEF FairQueue
  <2> QED BY <2>1, <2>2
<1>5. CASE \/ Write \/ WriteMark \/ Tick
           \/ \E b \in Broadcasters : CardSent(b) \/ CardFailed(b)
  BY <1>3, <1>5 DEF Write, WriteMark, Tick, CardSent, CardFailed, settings, places, history
<1>6. CASE Crash
  <2>1. crashes' # 0
    BY <1>1, <1>6 DEF Crash, Counters
  <2> QED BY <2>1 DEF FairQueue
<1>7. ASSUME NEW u \in Users, JoinCard(u)
      PROVE  FairQueue'
  <2>1. JoinActivity(u) /\ raised' = raised /\ crashes' = crashes
    BY <1>7 DEF JoinCard, history
  <2>2. held' = held /\ cap' = cap
    BY <2>1 DEF JoinActivity, settings
  <2>3. CASE cap # Unlimited /\ Occupied >= cap
    <3>1. regs' = regs
      BY <2>1, <2>3 DEF JoinActivity
    <3>2. Full(regs', held', cap')
      BY <2>2, <2>3, <3>1 DEF Full, Occupied
    <3> QED BY <3>2 DEF FairQueue
  <2>4. CASE ~(cap # Unlimited /\ Occupied >= cap)
    <3>1. wait' = wait /\ ~Full(regs, held, cap)
      BY <2>1, <2>4 DEF JoinActivity, Full, Occupied
    <3> QED BY <1>1, <2>1, <3>1 DEF FairQueue
  <2> QED BY <2>3, <2>4
<1>8. ASSUME NEW u \in Users, QuitCard(u)
      PROVE  FairQueue'
  BY <1>4, <1>8 DEF QuitCard, history
<1>9. CASE Managed
  <2>1. crashes' = crashes
    BY <1>9 DEF Managed, Manage
  <2>2. CASE Operated
    <3>1. Operation /\ raised' = raised
      BY <2>2 DEF Operated, history
    <3>2. CASE \/ \E s \in Statuses : SetStatus(s)
               \/ \E g \in Groups : BindGroup(g) \/ UnbindGroup(g)
               \/ \E at \in Deadlines \union {None} : UpdateCloseAt(at)
               \/ \E r \in Lists : UpdateRules(r)
               \/ UNCHANGED <<settings, bound, places, queue>>
      <4>1. UNCHANGED <<regs, wait, held, cap>>
        BY <3>2 DEF SetStatus, BindGroup, UnbindGroup, UpdateCloseAt, UpdateRules,
                    settings, places
      <4> QED BY <1>3, <2>1, <3>1, <4>1
    <3>3. CASE \E p \in Promotions : UpdatePromotion(p)
      BY <1>4, <2>1, <3>1, <3>3
    <3> QED BY <3>1, <3>2, <3>3 DEF Operation
  <2>3. CASE Released
    BY <1>4, <2>1, <2>3 DEF Released, history
  <2>4. CASE Sized
    <3>1. PICK c \in Capacities \union {Unlimited} : SetCapacity(c)
      BY <2>4 DEF Sized
    <3>2. /\ cap' = c /\ UNCHANGED <<regs, wait, held>>
          /\ raised' = (raised \/ c = Unlimited \/ (cap # Unlimited /\ c > cap))
      BY <3>1 DEF SetCapacity, UpdateCapacity, places
    <3>3. c = Unlimited \/ c \in Nat
      BY ActivityConstants
    <3>4. ASSUME wait # <<>>, ~raised', crashes = 0
          PROVE  Full(regs, held, c)
      <4>1. ~raised /\ c \in Nat /\ ~(cap # Unlimited /\ c > cap)
        BY <3>2, <3>3, <3>4
      <4>2. Full(regs, held, cap)
        BY <1>1, <3>4, <4>1 DEF FairQueue
      <4>3. c # Unlimited
        BY <4>1, ActivityConstants
      <4> QED BY <1>2, <4>1, <4>2, <4>3 DEF Full, Taken
    <3> QED BY <2>1, <3>2, <3>4 DEF FairQueue
  <2> QED BY <1>9, <2>2, <2>3, <2>4 DEF Managed
<1>10. Audience
  BY <1>1, AudienceTyped
<1> QED BY <1>5, <1>6, <1>7, <1>8, <1>9, <1>10, Steps

-----------------------------------------------------------------------------
(* Cards on their way.                                                     *)

LEMMA DeliveriesTyped ==
    ASSUME NEW kind \in Kinds, NEW todo \in SUBSET People, NEW after \in Afters, NEW marked,
           NEW card \in Deliveries(kind, todo, after, marked)
    PROVE  card \in Cards
  BY DEF Deliveries, Cards

LEMMA OnwardTyped ==
    ASSUME TablesInv, NEW kind \in Kinds, NEW todo \in SUBSET People, NEW after \in Afters,
           NEW marked, NEW card \in Onward(kind, todo, after, marked)
    PROVE  card \in Cards \union {Idle}
<1> DEFINE audience == CASE after = "published" -> Subscribers
                         [] after = "changed"   -> Participants
                         [] after = "nothing"   -> {}
           here == Deliveries(kind, todo, after, marked)
           next == Deliveries(after, audience, "nothing", marked)
<1>1. audience \in SUBSET People
  <2>1. Participants \in SUBSET People /\ Subscribers \in SUBSET People
    BY AudienceTyped, Audiences, ActivityConstants DEF People
  <2> QED BY <2>1 DEF Afters
<1>2. after # "nothing" => after \in Kinds
  BY DEF Afters, Kinds
<1>3. after = "nothing" => next = {}
  BY DEF Deliveries
<1>4. "nothing" \in Afters
  BY DEF Afters
<1>5. card \in here \/ card \in next \/ card = Idle
  BY DEF Onward
<1> HIDE DEF audience
<1>6. card \in next => card \in Cards
  BY <1>1, <1>2, <1>3, <1>4, DeliveriesTyped
<1> QED BY <1>5, <1>6, DeliveriesTyped

(* Nobody is dropped: who is not in the hands of the card that follows was *)
(* skipped.                                                                *)
LEMMA OnwardCarries ==
    ASSUME NEW todo, NEW after, NEW marked,
           NEW card \in Onward("promoted", todo, after, marked), NEW u \in todo
    PROVE  Marked("promoted", u, marked) \/ Carried(card, u)
<1> DEFINE here == Deliveries("promoted", todo, after, marked)
<1>1. CASE here = {}
  <2>1. Skipped("promoted", u, marked)
    BY <1>1 DEF Deliveries
  <2> QED BY <2>1 DEF Skipped, Marked
<1>2. CASE here # {}
  <2>1. card \in here
    BY <1>2 DEF Onward
  <2>2. PICK t \in todo :
           card = [at |-> "sending", kind |-> "promoted", to |-> t, todo |-> todo \ {t},
                   after |-> after]
    BY <2>1 DEF Deliveries
  <2>3. card.at = "sending" /\ card.kind = "promoted" /\ card.to = t /\ card.todo = todo \ {t}
    BY <2>2
  <2>4. card # Idle
    <3>1. Idle.at = "idle"
      BY DEF Idle
    <3> QED BY <2>3, <3>1
  <2> QED BY <2>3, <2>4 DEF Carried
<1> QED BY <1>1, <1>2

LEMMA SendKeeps ==
    ASSUME TablesInv, Sendings, NEW kind \in Kinds, NEW targets \in SUBSET People,
           NEW after \in Afters, Send(kind, targets, after)
    PROVE  Sendings' /\ \A b \in Broadcasters : sending[b] # Idle => sending'[b] = sending[b]
<1>1. CASE UNCHANGED sending
  BY <1>1 DEF Sendings
<1>2. ASSUME NEW b \in Broadcasters, sending[b] = Idle,
             NEW card \in Onward(kind, targets, after, sent),
             sending' = [sending EXCEPT ![b] = card]
      PROVE  Sendings' /\ \A c \in Broadcasters : sending[c] # Idle => sending'[c] = sending[c]
  <2>1. card \in Cards \union {Idle}
    BY OnwardTyped
  <2> QED BY <1>2, <2>1 DEF Sendings
<1> QED BY <1>1, <1>2 DEF Send

LEMMA SendCarries ==
    ASSUME Sendings, NEW targets, NEW after, Send("promoted", targets, after), NEW u \in targets
    PROVE  Marked("promoted", u, sent) \/ \E b \in Broadcasters : Carried(sending'[b], u)
<1>1. CASE Onward("promoted", targets, after, sent) = {Idle}
  <2>1. Idle \in Onward("promoted", targets, after, sent)
    BY <1>1
  <2>2. Marked("promoted", u, sent) \/ Carried(Idle, u)
    BY <2>1, OnwardCarries
  <2> QED BY <2>2 DEF Carried
<1>2. ASSUME NEW b \in Broadcasters,
             NEW card \in Onward("promoted", targets, after, sent),
             sending' = [sending EXCEPT ![b] = card]
      PROVE  Marked("promoted", u, sent) \/ \E c \in Broadcasters : Carried(sending'[c], u)
  <2>1. sending'[b] = card
    BY <1>2 DEF Sendings
  <2> QED BY <2>1, OnwardCarries
<1> QED BY <1>1, <1>2 DEF Send

(* Marks stay, and so does the day's number of cards.                      *)
LEMMA MarkedStays ==
    ASSUME NEW kind, NEW u, NEW marked, NEW more, marked \subseteq more, IsFiniteSet(more),
           Marked(kind, u, marked)
    PROVE  Marked(kind, u, more)
<1>1. CASE <<kind, u>> \in marked
  BY <1>1 DEF Marked
<1>2. CASE Limited(u, marked)
  <2> DEFINE few  == {m \in marked : m[2] = u}
             many == {m \in more : m[2] = u}
  <2>1. few \subseteq many /\ IsFiniteSet(many)
    BY FS_Subset
  <2>2. /\ Cardinality(few) \in Nat /\ Cardinality(many) \in Nat
        /\ Cardinality(few) <= Cardinality(many)
    BY <2>1, FS_Subset, FS_CardinalityType
  <2>3. DailyLimit \in Nat
    BY ActivityConstants
  <2>4. u \in Users /\ DailyLimit > 0 /\ Cardinality(few) >= DailyLimit
    BY <1>2 DEF Limited
  <2>5. Cardinality(many) >= DailyLimit
    BY <2>2, <2>3, <2>4
  <2>6. Limited(u, more)
    BY <2>4, <2>5 DEF Limited
  <2> QED BY <2>6 DEF Marked
<1> QED BY <1>1, <1>2 DEF Marked

(* A handler starts a sending, and what was owed before is carried on.     *)
LEMMA SendNotices ==
    ASSUME TablesInv, Sendings, Notices, sent' = sent, owed' = owed, Announces
    PROVE  Sendings' /\ Notices'
<1>1. Sendings' /\ \A b \in Broadcasters : sending[b] # Idle => sending'[b] = sending[b]
  <2>1. CASE UNCHANGED sending
    BY <2>1 DEF Sendings
  <2>2. CASE ~ UNCHANGED sending
    BY <2>2, SendKeeps DEF Announces
  <2> QED BY <2>1, <2>2
<1>2. ASSUME NEW u \in owed
      PROVE  Marked("promoted", u, sent) \/ \E b \in Broadcasters : Carried(sending'[b], u)
  <2>1. ASSUME NEW b \in Broadcasters, Carried(sending[b], u)
        PROVE  Carried(sending'[b], u)
    BY <1>1, <2>1 DEF Carried
  <2> QED BY <2>1 DEF Notices
<1> QED BY <1>1, <1>2 DEF Notices

LEMMA PromotedNotices ==
    ASSUME TablesInv, Sendings, Notices, sent' = sent, NEW p \in SUBSET Users, NotifyPromoted(p)
    PROVE  Sendings' /\ Notices'
<1>1. owed' = owed \union p /\ Send("promoted", p, "nothing")
  BY DEF NotifyPromoted
<1>2. Sendings' /\ \A b \in Broadcasters : sending[b] # Idle => sending'[b] = sending[b]
  <2>1. "promoted" \in Kinds /\ "nothing" \in Afters /\ p \in SUBSET People
    BY DEF Kinds, Afters, People
  <2> QED BY <1>1, <2>1, SendKeeps
<1>3. ASSUME NEW u \in owed
      PROVE  Marked("promoted", u, sent) \/ \E b \in Broadcasters : Carried(sending'[b], u)
  <2>1. ASSUME NEW b \in Broadcasters, Carried(sending[b], u)
        PROVE  Carried(sending'[b], u)
    BY <1>2, <2>1 DEF Carried
  <2> QED BY <2>1 DEF Notices
<1>4. ASSUME NEW u \in p
      PROVE  Marked("promoted", u, sent) \/ \E b \in Broadcasters : Carried(sending'[b], u)
  BY <1>1, SendCarries
<1> QED BY <1>1, <1>2, <1>3, <1>4 DEF Notices

(* A card is done with: its sending goes on with the next one.             *)
LEMMA CardNotices ==
    ASSUME TablesInv, Sendings, Notices, NEW b \in Broadcasters, sending[b] # Idle,
           sent \subseteq sent', IsFiniteSet(sent'), owed' \subseteq owed,
           sending[b].kind = "promoted" =>
               (sending[b].to \in owed' => Marked("promoted", sending[b].to, sent')),
           NEW card \in Onward(sending[b].kind, sending[b].todo, sending[b].after, sent'),
           sending' = [sending EXCEPT ![b] = card]
    PROVE  Sendings' /\ Notices'
<1>1. /\ sending[b].kind \in Kinds /\ sending[b].todo \in SUBSET People
      /\ sending[b].after \in Afters
  BY SentMarks DEF Cards
<1>2. card \in Cards \union {Idle}
  BY <1>1, OnwardTyped
<1>3. Sendings' /\ sending'[b] = card
  BY <1>2 DEF Sendings
<1>4. \A c \in Broadcasters \ {b} : sending'[c] = sending[c]
  BY DEF Sendings
<1>5. ASSUME NEW u \in owed'
      PROVE  Marked("promoted", u, sent') \/ \E c \in Broadcasters : Carried(sending'[c], u)
  <2>1. CASE Marked("promoted", u, sent)
    BY <2>1, MarkedStays
  <2>2. ASSUME NEW c \in Broadcasters \ {b}, Carried(sending[c], u)
        PROVE  Carried(sending'[c], u)
    BY <1>4, <2>2
  <2>3. CASE Carried(sending[b], u)
    <3>1. sending[b].kind = "promoted" /\ (u = sending[b].to \/ u \in sending[b].todo)
      BY <2>3 DEF Carried
    <3>2. CASE u = sending[b].to
      BY <1>5, <3>1, <3>2
    <3>3. CASE u \in sending[b].todo
      <4>1. Marked("promoted", u, sent') \/ Carried(card, u)
        BY <3>1, <3>3, OnwardCarries
      <4> QED BY <1>3, <4>1
    <3> QED BY <3>1, <3>2, <3>3
  <2> QED BY <2>1, <2>2, <2>3 DEF Notices
<1> QED BY <1>3, <1>5 DEF Notices

LEMMA NoticesNext ==
    ASSUME IInv, Next
    PROVE  Sendings' /\ Notices'
<1>1. TablesInv /\ Counters /\ Sendings /\ Notices /\ IsFiniteSet(sent)
  BY DEF IInv, MarksInv
<1>2. UNCHANGED <<sending, sent, owed>> => Sendings' /\ Notices'
  BY <1>1 DEF Sendings, Notices, Marked
<1>3. regs' \ regs \in SUBSET Users
  <2>1. TablesInv'
    BY TablesNext
  <2>2. (regs \in SUBSET Users)'
    BY <2>1, MemoryTyped, PTL
  <2> QED BY <2>2
<1>4. CASE Write \/ WriteMark \/ Tick
  BY <1>2, <1>4 DEF Write, WriteMark, Tick
<1>5. CASE Crash
  <2>1. sending' = [b \in Broadcasters |-> Idle] /\ owed' = {}
    BY <1>5 DEF Crash
  <2> QED BY <2>1 DEF Sendings, Notices
<1>6. ASSUME NEW u \in Users, JoinCard(u)
      PROVE  Sendings' /\ Notices'
  <2>1. /\ sent' = sent /\ owed' = owed
        /\ IF u \in regs' THEN AnnounceFull(regs', held, cap, "nothing") ELSE UNCHANGED sending
    BY <1>6 DEF JoinCard
  <2>2. BoundGroups \in SUBSET People /\ {} \in SUBSET People
    BY <1>1, AudienceTyped, Audiences
  <2>3. "full" \in Kinds /\ "nothing" \in Afters
    BY DEF Kinds, Afters
  <2>4. Announces
    BY <2>1, <2>2, <2>3 DEF AnnounceFull, Announces
  <2> QED BY <1>1, <2>1, <2>4, SendNotices
<1>7. ASSUME NEW u \in Users, QuitCard(u)
      PROVE  Sendings' /\ Notices'
  BY <1>1, <1>3, <1>7, PromotedNotices DEF QuitCard
<1>8. CASE Managed
  <2>1. sent' = sent
    BY <1>8 DEF Managed, Manage
  <2>2. CASE Operated
    BY <1>1, <2>1, <2>2, SendNotices DEF Operated
  <2>3. CASE Released
    BY <1>1, <1>3, <2>1, <2>3, PromotedNotices DEF Released
  <2>4. CASE Sized
    <3>1. PICK c \in Capacities \union {Unlimited} :
             AnnounceFull(regs, held, c, "changed") /\ owed' = owed
      BY <2>4 DEF Sized, SetCapacity
    <3>2. BoundGroups \in SUBSET People /\ {} \in SUBSET People
      BY <1>1, AudienceTyped, Audiences
    <3>3. "full" \in Kinds /\ "changed" \in Afters
      BY DEF Kinds, Afters
    <3>4. Announces
      BY <3>1, <3>2, <3>3 DEF AnnounceFull, Announces
    <3> QED BY <1>1, <2>1, <3>1, <3>4, SendNotices
  <2> QED BY <1>8, <2>2, <2>3, <2>4 DEF Managed
<1>9. ASSUME NEW b \in Broadcasters, CardSent(b)
      PROVE  Sendings' /\ Notices'
  <2> DEFINE k == sending[b].kind
             t == sending[b].to
  <2>1. /\ sending[b] # Idle /\ owed' = owed
        /\ sent' = sent \union (IF OncePerTarget(k) THEN {<<k, t>>} ELSE {})
    BY <1>9 DEF CardSent
  <2>2. IsFiniteSet(sent') /\ sent \subseteq sent'
    BY <1>1, <2>1, FS_AddElement
  <2>3. k = "promoted" => Marked("promoted", t, sent')
    BY <2>1 DEF OncePerTarget, Marked
  <2>4. PICK card \in Onward(k, sending[b].todo, sending[b].after, sent') :
           sending' = [sending EXCEPT ![b] = card]
    BY <1>9 DEF CardSent
  <2> QED BY <1>1, <2>1, <2>2, <2>3, <2>4, CardNotices
<1>10. ASSUME NEW b \in Broadcasters, CardFailed(b)
       PROVE  Sendings' /\ Notices'
  <2> DEFINE k == sending[b].kind
             t == sending[b].to
  <2>1. /\ sending[b] # Idle /\ sent' = sent
        /\ owed' = IF k = "promoted" THEN owed \ {t} ELSE owed
    BY <1>10 DEF CardFailed
  <2>2. PICK card \in Onward(k, sending[b].todo, sending[b].after, sent) :
           sending' = [sending EXCEPT ![b] = card]
    BY <1>10 DEF CardFailed
  <2>3. owed' \subseteq owed /\ (k = "promoted" => t \notin owed')
    BY <2>1
  <2> QED BY <1>1, <2>1, <2>2, <2>3, CardNotices
<1>11. Audience
  BY <1>1, AudienceTyped
<1> QED BY <1>4, <1>5, <1>6, <1>7, <1>8, <1>9, <1>10, <1>11, Steps

LEMMA StutterInv ==
    ASSUME IInv, UNCHANGED vars
    PROVE  IInv'
<1>1. UNCHANGED <<settings, bound, places, queue, disk, lowered>>
  BY DEF vars, settings, places
<1>2. TablesInv'
  BY <1>1, SameTables DEF IInv
<1>3. Counters' /\ FairQueue' /\ Sendings'
  BY DEF IInv, vars, Counters, FairQueue, Sendings
<1>4. Notices'
  BY DEF IInv, vars, Notices, Marked
<1>5. MarksInv'
  BY DEF IInv, vars, MarksInv, Listed
<1> QED BY <1>2, <1>3, <1>4, <1>5 DEF IInv

LEMMA Invariance == Spec => []IInv
<1>1. Init => IInv
  BY InitInv
<1>2. IInv /\ [Next]_vars => IInv'
  BY TablesNext, CountersNext, FairNext, NoticesNext, MarksNext, StutterInv DEF IInv
<1> QED BY <1>1, <1>2, PTL DEF Spec

-----------------------------------------------------------------------------
(* Results.                                                                *)

(* Memory keeps its types through every operation, write and restart: what *)
(* load() rebuilds from the tables is an activity the services may have.   *)
THEOREM TypeCorrect == Spec => []TypeOK
<1>1. IInv => TypeOK
  <2> SUFFICES ASSUME IInv PROVE TypeOK
    OBVIOUS
  <2>1. Counters /\ TablesInv
    BY DEF IInv
  <2>2. /\ now \in 0 .. MaxTime /\ owed \subseteq Users /\ {raised, lowered} \subseteq BOOLEAN
        /\ edits \in 0 .. MaxEdits /\ crashes \in 0 .. MaxCrashes
    BY <2>1 DEF Counters
  <2> QED BY <2>1, <2>2, MemoryTyped DEF TypeOK, Promotions, Lists
<1> QED BY <1>1, Invariance, PTL

(* As many users wait as the list is long, since none is in it twice.      *)
LEMMA WaitingCount ==
    ASSUME TablesInv
    PROVE  Cardinality(Waiting) = Len(wait)
<1> DEFINE f == [i \in 1 .. Len(wait) |-> wait[i]]
<1>1. Len(wait) \in Nat /\ \A i, j \in 1 .. Len(wait) : wait[i] = wait[j] => i = j
  BY MemoryTyped, LenProperties DEF OneRow
<1>2. f \in Bijection(1 .. Len(wait), Waiting)
  BY <1>1, Zenon DEF Waiting, Bijection, Injection, Surjection, IsInjective
<1>3. ExistsBijection(1 .. Len(wait), Waiting)
  BY <1>2 DEF ExistsBijection
<1> QED BY <1>1, <1>3, FS_CountingElements

(* joinActivity, the promotions and a restart between two of their writes  *)
(* never give a user a second place, nor the activity a place too many.    *)
THEOREM PlacesKept == Spec => []PlacesAreKept
<1>1. IInv => PlacesAreKept
  <2> SUFFICES ASSUME IInv PROVE PlacesAreKept
    OBVIOUS
  <2>1. TablesInv
    BY DEF IInv
  <2>2. regs \intersect Waiting = {}
    BY <2>1, MemoryTyped DEF OneRow, Waiting
  <2>3. OnePlace
    BY <2>1, <2>2, WaitingCount DEF OnePlace
  <2>4. WithinCapacity
    BY <2>1, MemoryFits DEF Fits, WithinCapacity
  <2> QED BY <2>3, <2>4 DEF PlacesAreKept
<1> QED BY <1>1, Invariance, PTL

(* Every way a place comes free gives it to who waits, or freezes it.      *)
THEOREM QueueIsFair == Spec => []FairQueue
<1>1. IInv => FairQueue
  BY DEF IInv
<1> QED BY <1>1, Invariance, PTL

(* The queue leads from the tables to memory, so when it is empty they are *)
(* the same, after any crash and whatever the handlers queued; and a mark  *)
(* of memory is in its table or queued.                                    *)
THEOREM TablesCatchUp == Spec => []DiskCatchesUp
<1>1. IInv => DiskCatchesUp
  <2> SUFFICES ASSUME IInv
               PROVE  (queue = <<>> => disk = Memory) /\ (marks = <<>> => told = sent)
    BY DEF DiskCatchesUp, Memory
  <2>1. ASSUME queue = <<>>
        PROVE  disk = Memory
    <3>1. queue \in Seq(Writes) /\ Leads(disk, queue, Memory, lowered)
      BY DEF IInv, TablesInv
    <3> QED BY <2>1, <3>1, LeadsSound
  <2>2. ASSUME marks = <<>>
        PROVE  told = sent
    <3>1. Listed(marks) = {}
      BY <2>2 DEF Listed
    <3> QED BY <3>1 DEF IInv, MarksInv
  <2> QED BY <2>1, <2>2
<1> QED BY <1>1, Invariance, PTL

(* A notice that is owed is in the hands of a sending until its target has *)
(* it or has had all cards of the day.                                     *)
THEOREM PromotedAreTold == Spec => []PromotedHear
<1>1. IInv => PromotedHear
  <2> SUFFICES ASSUME IInv, \A b \in Broadcasters : sending[b] = Idle, NEW u \in owed
               PROVE  <<"promoted", u>> \in sent \/ Limited(u, sent)
    BY DEF PromotedHear
  <2>1. \A b \in Broadcasters : ~Carried(sending[b], u)
    BY DEF Carried
  <2> QED BY <2>1 DEF IInv, Notices, Marked
<1> QED BY <1>1, Invariance, PTL
-----------------------------------------------------------------------------
(* Sending.tla: no message goes out twice, and what callers are told is    *)
(* true.                                                                   *)

(* The part of the types the proofs need.                                  *)
Shape ==
    /\ stage \in [Messages -> Stages]
    /\ delivered \in [Messages -> Nat]
    /\ chain \in Seq(Messages)

(* A copy is out only once the message has left the chain for good: while  *)
(* an attempt is still to come, QQ has seen no copy.                       *)
CopiesAccounted ==
    \A m \in Messages :
        /\ stage[m] = "ok" => delivered[m] = 1
        /\ stage[m] = "unknown" => delivered[m] \in {0, 1}
        /\ stage[m] \notin {"ok", "unknown"} => delivered[m] = 0

SendingInv == Shape /\ CopiesAccounted

-----------------------------------------------------------------------------
(* Both properties are consequences of the invariant.                      *)
LEMMA SendingConsequences == SendingInv => AtMostOneCopy /\ HonestResult
  BY DEF SendingInv, Shape, CopiesAccounted, AtMostOneCopy, HonestResult

LEMMA SendingInitInv == SendingInit => SendingInv
  BY DEF SendingInit, SendingInv, Shape, CopiesAccounted, Stages

(* The message the throttle works on is one of ours.                       *)
LEMMA CurrentIsMessage ==
    ASSUME Shape, NEW s, Busy(s)
    PROVE  Current \in Messages /\ stage[Current] \in s /\ Tail(chain) \in Seq(Messages)
  BY DEF Shape, Busy, Current

(* A message moves between stages in which no copy is out.                 *)
LEMMA Moves ==
    ASSUME SendingInv, NEW m \in Messages, stage[m] \notin {"ok", "unknown"},
           NEW s \in Stages \ {"ok", "unknown"},
           stage' = [stage EXCEPT ![m] = s], delivered' = delivered,
           chain' \in Seq(Messages)
    PROVE  SendingInv'
  BY DEF SendingInv, Shape, CopiesAccounted

(* The next attempt queues up, or the message fails.                       *)
LEMMA Enters ==
    ASSUME SendingInv, NEW m \in Messages, stage[m] \notin {"ok", "unknown"},
           NEW attempts, NEW others \in Seq(Messages),
           Enter(m, attempts, others), delivered' = delivered
    PROVE  SendingInv'
<1>1. CASE Usable(m, attempts) = <<>>
  <2>1. stage' = [stage EXCEPT ![m] = "failed"] /\ chain' = others
    BY <1>1 DEF Enter
  <2>2. "failed" \in Stages \ {"ok", "unknown"}
    BY DEF Stages, Sent
  <2> QED BY <2>1, <2>2, Moves
<1>2. CASE Usable(m, attempts) # <<>>
  <2>1. stage' = [stage EXCEPT ![m] = "queued"] /\ chain' = Append(others, m)
    BY <1>2 DEF Enter
  <2>2. "queued" \in Stages \ {"ok", "unknown"}
    BY DEF Stages
  <2>3. chain' \in Seq(Messages)
    BY <2>1
  <2> QED BY <2>1, <2>2, <2>3, Moves
<1> QED BY <1>1, <1>2

(* The head of the chain goes on to another stage of its attempt.          *)
LEMMA HeadMoves ==
    ASSUME SendingInv, Busy({"queued", "posting", "reposting", "sleeping"}),
           NEW s \in {"posting", "reposting", "sleeping"},
           To(s), delivered' = delivered, chain' = chain
    PROVE  SendingInv'
<1>1. Current \in Messages /\ stage[Current] \notin {"ok", "unknown"}
  BY CurrentIsMessage DEF SendingInv
<1>2. s \in Stages \ {"ok", "unknown"}
  BY DEF Stages
<1>3. chain' \in Seq(Messages)
  BY DEF SendingInv, Shape
<1> QED BY <1>1, <1>2, <1>3, Moves DEF To

LEMMA AcceptedKeeps == ASSUME SendingInv, Accepted PROVE SendingInv'
<1>1. /\ Current \in Messages /\ stage[Current] \in {"posting", "reposting"}
      /\ Tail(chain) \in Seq(Messages)
  BY CurrentIsMessage DEF SendingInv, Accepted
<1>2. /\ delivered' = [delivered EXCEPT ![Current] = @ + 1]
      /\ stage' = [stage EXCEPT ![Current] = "ok"] /\ chain' = Tail(chain)
  BY DEF Accepted, To
<1>3. delivered[Current] = 0
  BY <1>1 DEF SendingInv, CopiesAccounted
<1> QED BY <1>1, <1>2, <1>3 DEF SendingInv, Shape, CopiesAccounted, Stages, Sent

LEMMA NoAnswerKeeps == ASSUME SendingInv, NoAnswer PROVE SendingInv'
<1>1. /\ Current \in Messages /\ stage[Current] \in {"posting", "reposting"}
      /\ Tail(chain) \in Seq(Messages)
  BY CurrentIsMessage DEF SendingInv, NoAnswer
<1>2. /\ delivered' = delivered \/ delivered' = [delivered EXCEPT ![Current] = @ + 1]
      /\ stage' = [stage EXCEPT ![Current] = "unknown"] /\ chain' = Tail(chain)
  BY DEF NoAnswer, To
<1>3. delivered[Current] = 0
  BY <1>1 DEF SendingInv, CopiesAccounted
<1>4. Shape'
  BY <1>1, <1>2 DEF SendingInv, Shape, Stages, Sent
<1>5. CASE delivered' = delivered
  BY <1>1, <1>2, <1>3, <1>4, <1>5 DEF SendingInv, Shape, CopiesAccounted
<1>6. CASE delivered' = [delivered EXCEPT ![Current] = @ + 1]
  BY <1>1, <1>2, <1>3, <1>4, <1>6 DEF SendingInv, Shape, CopiesAccounted
<1> QED BY <1>2, <1>5, <1>6

LEMMA RefusedKeeps == ASSUME SendingInv, NEW f \in Failures, Refused(f) PROVE SendingInv'
<1>1. /\ Current \in Messages /\ stage[Current] \in {"posting", "reposting"}
      /\ Tail(chain) \in Seq(Messages)
  BY CurrentIsMessage DEF SendingInv, Refused
<1>2. delivered' = delivered
  BY DEF Refused
<1>3. CASE To("sleeping") /\ UNCHANGED <<plan, chain, keyboardDisabled>>
  <2>1. Busy({"queued", "posting", "reposting", "sleeping"})
    BY DEF Refused, Busy
  <2>2. chain' = chain
    BY <1>3
  <2> QED BY <1>2, <1>3, <2>1, <2>2, HeadMoves
<1>4. CASE GivesUp(f)
  <2>1. Enter(Current, Tail(plan[Current]), Tail(chain))
    BY <1>4 DEF GivesUp
  <2> QED BY <1>1, <1>2, <2>1, Enters
<1> QED BY <1>3, <1>4, Zenon DEF Refused

LEMMA SendingNextInv == ASSUME SendingInv, [SendingNext]_sendingVars PROVE SendingInv'
<1>1. ASSUME NEW m \in Messages, Call(m) PROVE SendingInv'
  <2>1. stage[m] \notin {"ok", "unknown"} /\ delivered' = delivered
        /\ Enter(m, Plan(m), chain)
    BY <1>1 DEF Call
  <2>2. chain \in Seq(Messages)
    BY DEF SendingInv, Shape
  <2> QED BY <2>1, <2>2, Enters
<1>2. CASE Start
  <2>1. Busy({"queued", "posting", "reposting", "sleeping"})
    BY <1>2 DEF Start, Busy
  <2> QED BY <1>2, <2>1, HeadMoves DEF Start
<1>3. CASE Retry
  <2>1. Busy({"queued", "posting", "reposting", "sleeping"})
    BY <1>3 DEF Retry, Busy
  <2> QED BY <1>3, <2>1, HeadMoves DEF Retry
<1>4. CASE Accepted
  BY <1>4, AcceptedKeeps
<1>5. CASE Unauthorized
  <2>1. Busy({"queued", "posting", "reposting", "sleeping"})
    BY <1>5 DEF Unauthorized, Busy
  <2> QED BY <1>5, <2>1, HeadMoves DEF Unauthorized, throttle
<1>6. CASE NoAnswer
  BY <1>6, NoAnswerKeeps
<1>7. ASSUME NEW f \in Failures, Refused(f) PROVE SendingInv'
  BY <1>7, RefusedKeeps
<1>8. CASE SendingTick \/ UNCHANGED sendingVars
  <2>1. stage' = stage /\ delivered' = delivered /\ chain' = chain
    BY <1>8 DEF SendingTick, sendingVars
  <2> QED BY <2>1 DEF SendingInv, Shape, CopiesAccounted
<1> QED BY <1>1, <1>2, <1>3, <1>4, <1>5, <1>6, <1>7, <1>8 DEF SendingNext, Answer

LEMMA SendingInvariance == SendingSpec => []SendingInv
<1>1. SendingInit => SendingInv
  BY SendingInitInv
<1>2. SendingInv /\ [SendingNext]_sendingVars => SendingInv'
  BY SendingNextInv
<1> QED BY <1>1, <1>2, PTL DEF SendingSpec

(* No message reaches its readers twice, whatever the platform answers,    *)
(* however many retries, forms and overlapping calls there are.            *)
THEOREM SentOnce == SendingSpec => []AtMostOneCopy
  BY SendingInvariance, SendingConsequences, PTL

(* A call answered "sent" sent one copy, one answered "failed" sent none.  *)
THEOREM ResultsAreHonest == SendingSpec => []HonestResult
  BY SendingInvariance, SendingConsequences, PTL

-----------------------------------------------------------------------------
(* The types of Sending.tla.  Only the head of the chain is at work, so    *)
(* that `tries` and `sleep` are about one message: a message is in the     *)
(* chain once, and those behind the head wait.                             *)

Distinct(q) == \A i, j \in 1 .. Len(q) : q[i] = q[j] => i = j

UnderWay == {"queued", "posting", "reposting", "sleeping"}

Chained ==
    /\ Distinct(chain)
    /\ \A i \in 1 .. Len(chain) : stage[chain[i]] \in UnderWay
    /\ \A i \in 2 .. Len(chain) : stage[chain[i]] = "queued"

HeadTries ==
    chain # <<>> =>
        /\ stage[Current] \in {"posting", "reposting", "sleeping"} => tries \in 1 .. MaxAttempts
        /\ stage[Current] = "sleeping" => tries < MaxAttempts

\* What is under way has an attempt to make.
Planned == \A m \in Messages : stage[m] \in UnderWay => plan[m] # <<>>

SendingTyped == SendingTypeOK /\ Chained /\ HeadTries /\ Planned

LEMMA UnderWayStages ==
    UnderWay \subseteq Stages /\ Sent \cap UnderWay = {} /\ "idle" \notin UnderWay
  BY DEF UnderWay, Stages, Sent

LEMMA PlansAreTyped ==
    ASSUME NEW m \in Messages
    PROVE  Plan(m) \in Seq(Attempts)
<1>1. Forms(m) \in Seq(Modes)
  <2>1. <<"markdown", "text">> \in Seq(Modes) /\ <<"keyboard">> \in Seq(Modes) /\ <<>> \in Seq(Modes)
    BY DEF Modes
  <2> QED BY <2>1, ConcatProperties DEF Forms
<1>2. \A passive \in BOOLEAN : In(Forms(m), passive) \in Seq(Attempts)
  <2> TAKE passive \in BOOLEAN
  <2>1. Len(Forms(m)) \in Nat /\ \A i \in 1 .. Len(Forms(m)) : Forms(m)[i] \in Modes
    BY <1>1
  <2>2. \A i \in 1 .. Len(Forms(m)) : [mode |-> Forms(m)[i], passive |-> passive] \in Attempts
    BY <2>1 DEF Attempts
  <2> QED BY <2>1, <2>2 DEF In
<1>3. <<>> \in Seq(Attempts)
  OBVIOUS
<1> QED BY <1>2, <1>3, ConcatProperties DEF Plan

LEMMA UsablesAreTyped ==
    ASSUME NEW m, NEW attempts \in Seq(Attempts)
    PROVE  Usable(m, attempts) \in Seq(Attempts)
<1> DEFINE replies == {i \in 1 .. Len(attempts) : attempts[i].passive}
           n == Cardinality(replies)
<1>1. Len(attempts) \in Nat
  OBVIOUS
<1>2. IsFiniteSet(1 .. Len(attempts)) /\ replies \subseteq 1 .. Len(attempts)
  BY <1>1, FS_Interval
<1>3. n \in Nat
  BY <1>2, FS_Subset, FS_CardinalityType
<1>4. SubSeq(attempts, n + 1, Len(attempts)) \in Seq(Attempts)
  <2>1. \A i \in n + 1 .. Len(attempts) : attempts[i] \in Attempts
    BY <1>1, <1>3
  <2> QED BY <1>1, <1>3, <2>1, SubSeqProperties
<1> QED BY <1>4 DEF Usable

(* 2^n is the number of subsets of n things; the provers know no other     *)
(* fact about it.                                                          *)
LEMMA TwoTo == \A n \in Nat : 2 ^ n \in Nat
<1> TAKE n \in Nat
<1>1. IsFiniteSet(1 .. n) /\ Cardinality(1 .. n) = n
  BY FS_Interval
<1>2. IsFiniteSet(SUBSET (1 .. n)) /\ Cardinality(SUBSET (1 .. n)) = 2 ^ Cardinality(1 .. n)
  BY <1>1, FS_SUBSET
<1> QED BY <1>1, <1>2, FS_CardinalityType

LEMMA DelaysAreTyped ==
    ASSUME tries \in Nat \ {0}, NEW f
    PROVE  Delay(f) \in Nat
<1>1. {Backoff, MaxDelay, RateLimitDelay} \subseteq Nat
  BY SendingConstants
<1>2. tries - 1 \in Nat
  OBVIOUS
<1>3. PICK p \in Nat : p = 2 ^ (tries - 1)
  BY <1>2, TwoTo
<1>4. Backoff * p \in Nat
  BY <1>1, <1>3
<1> QED BY <1>1, <1>3, <1>4 DEF Delay, Smaller

LEMMA QuotaIsTyped ==
    ASSUME SendingTypeOK, NEW e
    PROVE  Recorded(e) \in [Events -> [count : Nat, age : 0 .. Window]]
<1>1. Window \in Nat /\ 0 \in 0 .. Window /\ 1 \in Nat
  BY SendingConstants
<1>2. quota \in [Events -> [count : Nat, age : 0 .. Window]]
  BY DEF SendingTypeOK
<1>3. \A x \in Events : [count |-> quota[x].count + 1, age |-> quota[x].age] \in [count : Nat, age : 0 .. Window]
  BY <1>2
<1> QED BY <1>1, <1>2, <1>3 DEF Recorded

(* m, which is not among the others, queues up behind them, or fails.      *)
LEMMA EnterIsTyped ==
    ASSUME SendingTypeOK, Planned, NEW m \in Messages, NEW attempts \in Seq(Attempts),
           NEW others \in Seq(Messages), Enter(m, attempts, others), Distinct(others),
           \A i \in 1 .. Len(others) : others[i] # m /\ stage[others[i]] \in UnderWay,
           \A i \in 2 .. Len(others) : stage[others[i]] = "queued"
    PROVE  /\ stage' \in [Messages -> Stages] /\ plan' \in [Messages -> Seq(Attempts)]
           /\ chain' \in Seq(Messages) /\ Chained' /\ Planned'
           /\ chain' # <<>> => IF others = <<>> THEN stage'[Current'] = "queued"
                               ELSE Current' = Head(others) /\ stage'[Current'] = stage[Head(others)]
<1>1. stage \in [Messages -> Stages] /\ plan \in [Messages -> Seq(Attempts)]
  BY DEF SendingTypeOK
<1>2. plan' \in [Messages -> Seq(Attempts)]
  BY <1>1, UsablesAreTyped DEF Enter
<1>3. PICK s \in {"failed", "queued"} :
        /\ stage' = [stage EXCEPT ![m] = s]
        /\ chain' = IF s = "queued" THEN Append(others, m) ELSE others
  BY DEF Enter
<1>4. s \in Stages /\ stage' \in [Messages -> Stages]
  BY <1>1, <1>3 DEF Stages, Sent
<1>5. /\ Len(others) \in Nat /\ \A i \in 1 .. Len(others) : others[i] \in Messages
      /\ \A i \in 1 .. Len(others) : stage'[others[i]] = stage[others[i]]
  BY <1>1, <1>3
<1>8. Planned'
  <2>1. stage'[m] = "queued" => plan'[m] # <<>>
    BY <1>1 DEF Enter
  <2>2. stage'[m] \in {"failed", "queued"} /\ \A k \in Messages \ {m} : stage'[k] = stage[k] /\ plan'[k] = plan[k]
    BY <1>1, <1>3 DEF Enter
  <2> QED BY <2>1, <2>2 DEF Planned, UnderWay
<1>6. CASE s = "failed"
  <2>1. chain' = others
    BY <1>3, <1>6
  <2>2. Chained'
    <3>1. \A i \in 2 .. Len(others) : i \in 1 .. Len(others)
      BY <1>5
    <3>2. Distinct(chain)'
      BY <2>1 DEF Distinct
    <3> QED BY <1>5, <2>1, <3>1, <3>2 DEF Chained
  <2>3. chain' # <<>> => /\ others # <<>> /\ Current' = Head(others)
                         /\ stage'[Current'] = stage[Head(others)]
    <3>1. others # <<>> => 1 \in 1 .. Len(others) /\ Head(others) = others[1]
      BY <1>5
    <3>2. Current' = Head(chain')
      BY DEF Current
    <3> QED BY <1>5, <2>1, <3>1, <3>2
  <2> QED BY <1>2, <1>4, <1>8, <2>1, <2>2, <2>3
<1>7. CASE s = "queued"
  <2>1. /\ chain' = Append(others, m) /\ chain' \in Seq(Messages)
        /\ Len(chain') = Len(others) + 1 /\ chain'[Len(others) + 1] = m
        /\ \A i \in 1 .. Len(others) : chain'[i] = others[i]
    BY <1>3, <1>7
  <2>2. stage'[m] = "queued" /\ "queued" \in UnderWay
    BY <1>1, <1>3, <1>7 DEF UnderWay
  <2>3. Distinct(chain)'
    <3> SUFFICES ASSUME NEW i \in 1 .. Len(others) + 1, NEW j \in 1 .. Len(others) + 1,
                        chain'[i] = chain'[j]
                 PROVE  i = j
      BY <2>1 DEF Distinct
    <3>1. i \in 1 .. Len(others) \/ i = Len(others) + 1
      BY <1>5
    <3>2. j \in 1 .. Len(others) \/ j = Len(others) + 1
      BY <1>5
    <3> QED BY <3>1, <3>2, <2>1 DEF Distinct
  <2>4. \A i \in 1 .. Len(others) + 1 : i \in 1 .. Len(others) \/ i = Len(others) + 1
    BY <1>5
  <2>5. Chained'
    <3>1. \A i \in 1 .. Len(others) + 1 : stage'[chain'[i]] \in UnderWay
      BY <1>5, <2>1, <2>2, <2>4
    <3>2. \A i \in 2 .. Len(others) + 1 : stage'[chain'[i]] = "queued"
      <4> TAKE i \in 2 .. Len(others) + 1
      <4>1. i \in 2 .. Len(others) \/ i = Len(others) + 1
        BY <1>5
      <4>2. CASE i \in 2 .. Len(others)
        <5>1. i \in 1 .. Len(others)
          BY <4>2
        <5> QED BY <1>5, <2>1, <4>2, <5>1
      <4> QED BY <2>1, <2>2, <4>1, <4>2
    <3> QED BY <2>1, <2>3, <3>1, <3>2 DEF Chained
  <2>6. IF others = <<>> THEN stage'[Current'] = "queued"
        ELSE Current' = Head(others) /\ stage'[Current'] = stage[Head(others)]
    <3>1. CASE others = <<>>
      <4>1. Current' = m
        BY <2>1, <3>1 DEF Current
      <4> QED BY <2>2, <3>1, <4>1
    <3>2. CASE others # <<>>
      <4>1. 1 \in 1 .. Len(others) /\ Head(others) = others[1]
        BY <3>2
      <4>2. Current' = others[1]
        BY <2>1, <4>1 DEF Current
      <4> QED BY <1>5, <3>2, <4>1, <4>2
    <3> QED BY <3>1, <3>2
  <2> QED BY <1>2, <1>4, <1>8, <2>1, <2>5, <2>6
<1> QED BY <1>6, <1>7

(* The head of the chain: the only one of it at work.                      *)
LEMMA HeadAlone ==
    ASSUME SendingTyped, chain # <<>>
    PROVE  /\ Current \in Messages /\ Current = chain[1] /\ stage[Current] \in UnderWay
           /\ Tail(chain) \in Seq(Messages) /\ Distinct(Tail(chain))
           /\ \A i \in 1 .. Len(Tail(chain)) :
                 Tail(chain)[i] # Current /\ stage[Tail(chain)[i]] = "queued"
<1>1. /\ chain \in Seq(Messages) /\ Len(chain) \in Nat \ {0}
      /\ Len(Tail(chain)) = Len(chain) - 1 /\ Tail(chain) \in Seq(Messages)
      /\ \A i \in 1 .. Len(chain) - 1 : Tail(chain)[i] = chain[i + 1]
      /\ Head(chain) = chain[1]
  BY DEF SendingTyped, SendingTypeOK
<1>2. \A i \in 1 .. Len(chain) - 1 : i + 1 \in 2 .. Len(chain) /\ i + 1 \in 1 .. Len(chain) /\ i + 1 # 1
  BY <1>1
<1>3. 1 \in 1 .. Len(chain)
  BY <1>1
<1>4. \A i \in 1 .. Len(Tail(chain)) :
         Tail(chain)[i] # Current /\ stage[Tail(chain)[i]] = "queued"
  BY <1>1, <1>2, <1>3 DEF SendingTyped, Chained, Distinct, Current
<1>5. Distinct(Tail(chain))
  <2> SUFFICES ASSUME NEW i \in 1 .. Len(chain) - 1, NEW j \in 1 .. Len(chain) - 1,
                      Tail(chain)[i] = Tail(chain)[j]
               PROVE  i = j
    BY <1>1 DEF Distinct
  <2>1. i + 1 = j + 1
    BY <1>1, <1>2 DEF SendingTyped, Chained, Distinct
  <2> QED BY <2>1
<1> QED BY <1>1, <1>3, <1>4, <1>5 DEF Current, SendingTyped, Chained

(* The head goes on with its work.                                         *)
LEMMA HeadGoesOn ==
    ASSUME SendingTyped, chain # <<>>, NEW s \in UnderWay, To(s), chain' = chain
    PROVE  /\ stage' \in [Messages -> Stages] /\ Chained' /\ (plan' = plan => Planned')
           /\ stage'[Current'] = s /\ Current' = Current
<1>1. stage \in [Messages -> Stages] /\ s \in Stages
  BY UnderWayStages DEF SendingTyped, SendingTypeOK
<1>2. stage' = [stage EXCEPT ![Current] = s] /\ Current \in Messages /\ Current = chain[1]
  BY HeadAlone DEF To
<1>3. chain \in Seq(Messages) /\ Len(chain) \in Nat \ {0}
      /\ \A i \in 1 .. Len(chain) : chain[i] \in Messages
  BY DEF SendingTyped, SendingTypeOK
<1>4. \A i \in 2 .. Len(chain) : i \in 1 .. Len(chain) /\ chain[i] # Current
  BY <1>2, <1>3 DEF SendingTyped, Chained, Distinct
<1>5. \A i \in 1 .. Len(chain) : i = 1 \/ i \in 2 .. Len(chain)
  BY <1>3
<1>6. \A i \in 2 .. Len(chain) : stage'[chain[i]] = "queued"
  BY <1>1, <1>2, <1>3, <1>4 DEF SendingTyped, Chained
<1>7. stage'[Current] = s
  BY <1>1, <1>2
<1>8. \A i \in 1 .. Len(chain) : stage'[chain[i]] \in UnderWay
  BY <1>2, <1>5, <1>6, <1>7 DEF UnderWay
<1>9. plan' = plan => Planned'
  <2>1. stage[Current] \in UnderWay
    BY HeadAlone
  <2> QED BY <1>1, <1>2, <2>1 DEF Planned, SendingTyped
<1> QED BY <1>1, <1>2, <1>6, <1>7, <1>8, <1>9 DEF Chained, Distinct, SendingTyped, Current

(* The head is done for good.                                              *)
LEMMA HeadGoes ==
    ASSUME SendingTyped, chain # <<>>, NEW s \in Sent, To(s), chain' = Tail(chain)
    PROVE  /\ stage' \in [Messages -> Stages] /\ Chained' /\ chain' \in Seq(Messages)
           /\ plan' = plan => Planned'
           /\ chain' # <<>> => stage'[Current'] = "queued"
<1>1. stage \in [Messages -> Stages] /\ s \in Stages
  BY DEF SendingTyped, SendingTypeOK, Stages
<1>2. stage' = [stage EXCEPT ![Current] = s] /\ Current \in Messages
  BY HeadAlone DEF To
<1>3. /\ chain' \in Seq(Messages) /\ Distinct(chain') /\ Len(chain') \in Nat
      /\ \A i \in 1 .. Len(chain') : stage'[chain'[i]] = "queued"
  <2>1. \A i \in 1 .. Len(Tail(chain)) : Tail(chain)[i] \in Messages
    BY HeadAlone
  <2>2. \A i \in 1 .. Len(Tail(chain)) :
           Tail(chain)[i] # Current /\ stage[Tail(chain)[i]] = "queued"
    BY HeadAlone
  <2>3. \A i \in 1 .. Len(Tail(chain)) : stage'[Tail(chain)[i]] = "queued"
    BY <1>1, <1>2, <2>1, <2>2
  <2>4. Tail(chain) \in Seq(Messages) /\ Distinct(Tail(chain)) /\ Len(Tail(chain)) \in Nat
    BY HeadAlone
  <2>5. chain' = Tail(chain)
    OBVIOUS
  <2> QED BY <2>3, <2>4, <2>5 DEF Distinct
<1>4. \A i \in 2 .. Len(chain') : i \in 1 .. Len(chain')
  BY <1>3
<1>5. Chained'
  BY <1>3, <1>4 DEF Chained, Distinct, UnderWay
<1>6. chain' # <<>> => 1 \in 1 .. Len(chain') /\ Current' = chain'[1]
  BY <1>3 DEF Current
<1>7. plan' = plan => Planned'
  BY <1>1, <1>2, UnderWayStages DEF Planned, SendingTyped
<1> QED BY <1>1, <1>2, <1>3, <1>5, <1>6, <1>7

LEMMA CallTyped ==
    ASSUME SendingTyped, NEW m \in Messages, Call(m)
    PROVE  SendingTyped'
<1> USE DEF SendingTyped
<1>1. Plan(m) \in Seq(Attempts) /\ chain \in Seq(Messages)
  BY PlansAreTyped DEF SendingTypeOK
<1>2. \A i \in 1 .. Len(chain) : chain[i] # m /\ stage[chain[i]] \in UnderWay
  BY UnderWayStages DEF Call, Chained
<1>3. /\ stage' \in [Messages -> Stages] /\ plan' \in [Messages -> Seq(Attempts)]
      /\ chain' \in Seq(Messages) /\ Chained' /\ Planned'
      /\ chain' # <<>> => IF chain = <<>> THEN stage'[Current'] = "queued"
                          ELSE Current' = Head(chain) /\ stage'[Current'] = stage[Head(chain)]
  BY <1>1, <1>2, EnterIsTyped DEF Call, Chained
<1>4. HeadTries'
  <2>1. CASE chain = <<>>
    BY <1>3, <2>1 DEF HeadTries
  <2>2. CASE chain # <<>>
    BY <1>3, <2>2 DEF HeadTries, Call, Current
  <2> QED BY <2>1, <2>2
<1> QED BY <1>3, <1>4 DEF Call, SendingTypeOK

LEMMA GivesUpTyped ==
    ASSUME SendingTyped, chain # <<>>, Enter(Current, Tail(plan[Current]), Tail(chain))
    PROVE  /\ stage' \in [Messages -> Stages] /\ plan' \in [Messages -> Seq(Attempts)]
           /\ chain' \in Seq(Messages) /\ Chained' /\ Planned'
           /\ chain' # <<>> => stage'[Current'] = "queued"
<1>1. PICK m \in Messages : m = Current
  BY HeadAlone
<1>2. PICK others \in Seq(Messages) : others = Tail(chain)
  BY HeadAlone
<1>3. PICK attempts \in Seq(Attempts) : attempts = Tail(plan[Current])
  <2>1. Current \in Messages /\ stage[Current] \in UnderWay
    BY HeadAlone
  <2>2. PICK p \in Seq(Attempts) : p = plan[Current] /\ p # <<>>
    BY <2>1 DEF SendingTyped, SendingTypeOK, Planned
  <2>3. Tail(p) \in Seq(Attempts)
    BY <2>2
  <2> QED BY <2>2, <2>3
<1>4. Distinct(others) /\ \A i \in 1 .. Len(others) : others[i] # m /\ stage[others[i]] = "queued"
  BY <1>1, <1>2, HeadAlone
<1>5. \A i \in 2 .. Len(others) : i \in 1 .. Len(others)
  OBVIOUS
<1>6. others # <<>> => stage[Head(others)] = "queued"
  <2>1. others # <<>> => 1 \in 1 .. Len(others) /\ Head(others) = others[1]
    OBVIOUS
  <2> QED BY <1>4, <2>1
<1>7. Enter(m, attempts, others) /\ "queued" \in UnderWay
  BY <1>1, <1>2, <1>3 DEF UnderWay
<1>8. SendingTypeOK /\ Planned
  BY DEF SendingTyped
<1> QED BY <1>4, <1>5, <1>6, <1>7, <1>8, EnterIsTyped

LEMMA AnswerTyped ==
    ASSUME SendingTyped, Answer
    PROVE  SendingTyped'
<1> USE DEF SendingTyped
<1>0. chain # <<>> /\ stage[Current] \in {"posting", "reposting"}
  BY DEF Answer, Accepted, Unauthorized, NoAnswer, Refused, Busy
<1>t. tries \in Nat \ {0} /\ tries \in 1 .. MaxAttempts /\ MaxAttempts \in Nat
  BY <1>0, SendingConstants DEF HeadTries
<1>d. /\ Current \in Messages /\ delivered \in [Messages -> Nat]
      /\ [delivered EXCEPT ![Current] = @ + 1] \in [Messages -> Nat]
  <2>1. Current \in Messages
    BY <1>0, HeadAlone
  <2>2. delivered \in [Messages -> Nat]
    BY DEF SendingTypeOK
  <2>3. delivered[Current] + 1 \in Nat
    BY <2>1, <2>2
  <2> QED BY <2>1, <2>2, <2>3
<1>1. CASE Accepted
  <2>1. To("ok") /\ chain' = Tail(chain) /\ "ok" \in Sent /\ plan' = plan
    BY <1>1 DEF Accepted, Sent
  <2>2. /\ stage' \in [Messages -> Stages] /\ Chained' /\ chain' \in Seq(Messages) /\ Planned'
        /\ chain' # <<>> => stage'[Current'] = "queued"
    BY <1>0, <2>1, HeadGoes
  <2>3. quota' \in [Events -> [count : Nat, age : 0 .. Window]]
    <3>1. quota \in [Events -> [count : Nat, age : 0 .. Window]]
      BY DEF SendingTypeOK
    <3>2. Recorded(AnswersTo[Current]) \in [Events -> [count : Nat, age : 0 .. Window]]
      BY QuotaIsTyped DEF SendingTyped
    <3> QED BY <1>1, <3>1, <3>2 DEF Accepted
  <2>4. delivered' \in [Messages -> Nat]
    BY <1>1, <1>d DEF Accepted
  <2> QED BY <1>1, <2>2, <2>3, <2>4 DEF Accepted, SendingTypeOK, HeadTries
<1>2. CASE Unauthorized
  <2>1. /\ To("reposting") /\ "reposting" \in UnderWay
        /\ UNCHANGED <<plan, chain, tries, sleep, sinceStart, keyboardDisabled, quota, delivered>>
    BY <1>2 DEF Unauthorized, UnderWay, throttle
  <2>2. /\ stage' \in [Messages -> Stages] /\ Chained' /\ Planned'
        /\ stage'[Current'] = "reposting" /\ Current' = Current
    BY <1>0, <2>1, HeadGoesOn
  <2>3. HeadTries'
    BY <1>t, <2>1, <2>2 DEF HeadTries
  <2> QED BY <2>1, <2>2, <2>3 DEF SendingTypeOK
<1>3. CASE NoAnswer
  <2>1. To("unknown") /\ chain' = Tail(chain) /\ "unknown" \in Sent /\ plan' = plan
    BY <1>3 DEF NoAnswer, Sent
  <2>2. /\ stage' \in [Messages -> Stages] /\ Chained' /\ chain' \in Seq(Messages) /\ Planned'
        /\ chain' # <<>> => stage'[Current'] = "queued"
    BY <1>0, <2>1, HeadGoes
  <2>3. delivered' \in [Messages -> Nat]
    BY <1>3, <1>d DEF NoAnswer
  <2> QED BY <1>3, <2>2, <2>3 DEF NoAnswer, SendingTypeOK, HeadTries
<1>4. ASSUME NEW f \in Failures, Refused(f)
      PROVE  SendingTyped'
  <2>1. CASE tries < MaxAttempts /\ To("sleeping") /\ sleep' = Delay(f)
             /\ UNCHANGED <<plan, chain, keyboardDisabled>>
    <3>1. /\ stage' \in [Messages -> Stages] /\ Chained' /\ Planned'
          /\ stage'[Current'] = "sleeping" /\ Current' = Current
      BY <1>0, <2>1, HeadGoesOn DEF UnderWay
    <3>2. sleep' \in Nat
      BY <1>t, <2>1, DelaysAreTyped
    <3>3. HeadTries'
      BY <1>4, <1>t, <2>1, <3>1 DEF HeadTries, Refused
    <3> QED BY <1>4, <2>1, <3>1, <3>2, <3>3 DEF Refused, SendingTypeOK
  <2>2. CASE GivesUp(f)
    <3>1. /\ stage' \in [Messages -> Stages] /\ plan' \in [Messages -> Seq(Attempts)]
          /\ chain' \in Seq(Messages) /\ Chained' /\ Planned'
          /\ chain' # <<>> => stage'[Current'] = "queued"
      BY <1>0, <2>2, GivesUpTyped DEF GivesUp
    <3>2. keyboardDisabled' \in [Targets -> BOOLEAN]
      BY <2>2 DEF GivesUp, NoteKeyboard, SendingTypeOK
    <3> QED BY <1>4, <2>2, <3>1, <3>2 DEF Refused, GivesUp, SendingTypeOK, HeadTries
  <2> QED BY <1>4, <2>1, <2>2 DEF Refused
<1> QED BY <1>1, <1>2, <1>3, <1>4 DEF Answer

LEMMA ThrottleTyped ==
    ASSUME SendingTyped, Start \/ Retry
    PROVE  SendingTyped'
<1> USE DEF SendingTyped
<1>0. chain # <<>> /\ To("posting") /\ "posting" \in UnderWay /\ UNCHANGED <<chain, plan>>
  BY DEF Start, Retry, Busy, UnderWay
<1>1. /\ stage' \in [Messages -> Stages] /\ Chained' /\ Planned'
      /\ stage'[Current'] = "posting" /\ Current' = Current
  BY <1>0, HeadGoesOn
<1>2. MaxAttempts \in Nat \ {0} /\ MinInterval \in Nat
  BY SendingConstants
<1>3. tries' \in 1 .. MaxAttempts
  <2>1. CASE Start
    BY <1>2, <2>1 DEF Start
  <2>2. CASE Retry
    <3>1. tries < MaxAttempts /\ tries \in 1 .. MaxAttempts /\ tries' = tries + 1
      BY <1>0, <2>2 DEF Retry, Busy, HeadTries
    <3> QED BY <1>2, <3>1
  <2> QED BY <2>1, <2>2
<1>4. HeadTries'
  BY <1>1, <1>3 DEF HeadTries
<1>5. sinceStart' \in 0 .. MinInterval
  BY <1>2 DEF Start, Retry, SendingTypeOK
<1>6. tries' \in 0 .. MaxAttempts
  BY <1>2, <1>3
<1>7. UNCHANGED <<sleep, keyboardDisabled, quota, delivered>>
  BY DEF Start, Retry
<1> QED BY <1>0, <1>1, <1>4, <1>5, <1>6, <1>7 DEF SendingTypeOK

LEMMA TickTyped ==
    ASSUME SendingTyped, SendingTick
    PROVE  SendingTyped'
<1> USE DEF SendingTyped
<1>1. MinInterval \in Nat /\ Window \in Nat
  BY SendingConstants
<1>2. sinceStart' \in 0 .. MinInterval /\ sleep' \in Nat
  BY <1>1 DEF SendingTick, Smaller, SendingTypeOK
<1>3. quota' \in [Events -> [count : Nat, age : 0 .. Window]]
  <2>1. \A e \in Events : quota[e].count \in Nat /\ Smaller(quota[e].age + 1, Window) \in 0 .. Window
    <3>1. \A e \in Events : quota[e].count \in Nat /\ quota[e].age \in 0 .. Window
      BY DEF SendingTypeOK
    <3> QED BY <1>1, <3>1 DEF Smaller
  <2> QED BY <2>1 DEF SendingTick
<1>4. UNCHANGED <<stage, plan, chain, tries, keyboardDisabled, delivered>>
  BY DEF SendingTick
<1> QED BY <1>2, <1>3, <1>4 DEF SendingTypeOK, Chained, HeadTries, Planned, Current

LEMMA SendingTypesBegin == SendingInit => SendingTyped
<1> SUFFICES ASSUME SendingInit PROVE SendingTyped
  OBVIOUS
<1>1. MaxAttempts \in Nat /\ MinInterval \in Nat /\ Window \in Nat
  BY SendingConstants
<1>2. SendingTypeOK
  BY <1>1 DEF SendingInit, SendingTypeOK, Stages
<1>3. Chained /\ HeadTries /\ Planned
  BY DEF SendingInit, Chained, Distinct, HeadTries, Planned, UnderWay
<1> QED BY <1>2, <1>3 DEF SendingTyped

LEMMA SendingTypesStep == SendingTyped /\ [SendingNext]_sendingVars => SendingTyped'
<1> SUFFICES ASSUME SendingTyped, [SendingNext]_sendingVars PROVE SendingTyped'
  OBVIOUS
<1>1. CASE UNCHANGED sendingVars
  BY <1>1 DEF sendingVars, SendingTyped, SendingTypeOK, Chained, Distinct, HeadTries, Planned, Current
<1>2. CASE SendingNext
  BY <1>2, CallTyped, ThrottleTyped, AnswerTyped, TickTyped DEF SendingNext
<1> QED BY <1>1, <1>2

(* Every variable has its type; no attempt makes more than MaxAttempts     *)
(* requests, since the throttle works on one message at a time.            *)
THEOREM SendingIsTyped == SendingSpec => []SendingTypeOK
<1>1. SendingTyped => SendingTypeOK
  BY DEF SendingTyped
<1> QED BY SendingTypesBegin, SendingTypesStep, <1>1, PTL DEF SendingSpec
=============================================================================
