------------------------ MODULE ClientGatewayProofs ------------------------
(***************************************************************************)
(* The gateway implements the response stream for every capacity of its    *)
(* channels and any number of requests and notifications: no response is   *)
(* stranded in the outbox, and outbox, batch and ResponseCh are one FIFO   *)
(* from which only a closed gateway gives a response up.                   *)
(***************************************************************************)
EXTENDS ClientGateway, SequenceTheorems, TLAPS

\* What the deliverer and the drain rely on: numbered responses, a batch
\* exactly while one is being delivered, and never more in ResponseCh than
\* fits.
DeliveryTypes ==
    /\ outbox \in Seq(Nat) /\ batch \in Seq(Nat) /\ responseCh \in Seq(Nat)
    /\ enqueued \in Nat
    /\ Len(responseCh) <= ResponseChSize
    /\ deliverer \in DelivererStates
    /\ batch # <<>> <=> deliverer \in {"send", "retry", "wait"}

DeliveryInv == DeliveryTypes /\ NoStrandedResponse

-----------------------------------------------------------------------------
(* Facts about sequences.  Concatenation and the one-element sequence have *)
(* names of their own here: their laws are proved once, and used without   *)
(* looking inside.                                                         *)

Cat(s, t) == s \o t
Unit(x) == <<x>>

\* Three queues, one behind the other.
Queued(r, b, o) == Cat(Cat(r, b), o)

\* What a concatenation is, element by element.
LEMMA CatType ==
    ASSUME NEW s \in Seq(Nat), NEW t \in Seq(Nat)
    PROVE  /\ Cat(s, t) \in Seq(Nat) /\ Len(Cat(s, t)) = Len(s) + Len(t)
           /\ \A i \in 1..Len(s) + Len(t) : Cat(s, t)[i] = IF i <= Len(s) THEN s[i] ELSE t[i - Len(s)]
           /\ Len(s) \in Nat /\ Len(t) \in Nat
  BY ConcatProperties, LenProperties DEF Cat

\* The one-element sequence, and an append as a concatenation with it.
LEMMA UnitType ==
    /\ \A x \in Nat : Unit(x) \in Seq(Nat) /\ Len(Unit(x)) = 1 /\ Unit(x)[1] = x
    /\ \A s \in Seq(Nat), x \in Nat : Append(s, x) = Cat(s, Unit(x))
  <1>1. \A x \in Nat : Unit(x) \in Seq(Nat) /\ Len(Unit(x)) = 1 /\ Unit(x)[1] = x
    BY DEF Unit
  <1>2. \A s \in Seq(Nat), x \in Nat : Append(s, x) = Cat(s, Unit(x))
    BY AppendIsConcat DEF Cat, Unit
  <1> QED
    BY <1>1, <1>2

\* A concatenation with nothing.
LEMMA CatEmpty ==
    ASSUME NEW s \in Seq(Nat)
    PROVE  Cat(s, <<>>) = s
  BY ConcatEmptySeq DEF Cat

\* Queues one after the other may be grouped either way.
LEMMA Regroup ==
    ASSUME NEW r \in Seq(Nat), NEW b \in Seq(Nat), NEW o \in Seq(Nat)
    PROVE  Cat(Cat(r, b), o) = Cat(r, Cat(b, o))
  <1> DEFINE p == Cat(r, b)
             q == Cat(b, o)
             u == Cat(p, o)
             v == Cat(r, q)
  <1>1. /\ p \in Seq(Nat) /\ Len(p) = Len(r) + Len(b)
        /\ \A i \in 1..Len(r) + Len(b) : p[i] = IF i <= Len(r) THEN r[i] ELSE b[i - Len(r)]
    BY CatType
  <1>2. /\ q \in Seq(Nat) /\ Len(q) = Len(b) + Len(o)
        /\ \A i \in 1..Len(b) + Len(o) : q[i] = IF i <= Len(b) THEN b[i] ELSE o[i - Len(b)]
    BY CatType
  <1>3. Len(r) \in Nat /\ Len(b) \in Nat /\ Len(o) \in Nat
    BY LenProperties
  <1> HIDE DEF p, q
  <1>4. /\ u \in Seq(Nat) /\ Len(u) = Len(p) + Len(o)
        /\ \A i \in 1..Len(p) + Len(o) : u[i] = IF i <= Len(p) THEN p[i] ELSE o[i - Len(p)]
    BY <1>1, CatType
  <1>5. /\ v \in Seq(Nat) /\ Len(v) = Len(r) + Len(q)
        /\ \A i \in 1..Len(r) + Len(q) : v[i] = IF i <= Len(r) THEN r[i] ELSE q[i - Len(r)]
    BY <1>2, CatType
  <1> HIDE DEF u, v
  <1>6. Len(u) = Len(v) /\ Len(u) = Len(r) + Len(b) + Len(o)
    BY <1>1, <1>2, <1>3, <1>4, <1>5
  <1>7. ASSUME NEW i \in 1..Len(u) PROVE u[i] = v[i]
    <2>1. i \in Nat /\ 1 <= i /\ i <= Len(r) + Len(b) + Len(o)
      BY <1>3, <1>6
    <2>2. /\ u[i] = IF i <= Len(p) THEN p[i] ELSE o[i - Len(p)]
          /\ v[i] = IF i <= Len(r) THEN r[i] ELSE q[i - Len(r)]
      BY <1>4, <1>5, <1>6
    <2>3. CASE i <= Len(r)
      <3>1. i \in 1..Len(r) + Len(b) /\ i <= Len(p)
        BY <1>1, <1>3, <2>1, <2>3
      <3> QED
        BY <1>1, <2>2, <2>3, <3>1
    <2>4. CASE ~(i <= Len(r)) /\ i <= Len(r) + Len(b)
      <3>1. i \in 1..Len(r) + Len(b) /\ i - Len(r) \in 1..Len(b) + Len(o) /\ i - Len(r) <= Len(b)
        BY <1>3, <2>1, <2>4
      <3>2. p[i] = b[i - Len(r)]
        BY <1>1, <2>4, <3>1
      <3>3. q[i - Len(r)] = b[i - Len(r)]
        BY <1>2, <3>1
      <3> QED
        BY <1>1, <2>2, <2>4, <3>2, <3>3
    <2>5. CASE ~(i <= Len(r) + Len(b))
      <3>1. /\ i - Len(r) \in 1..Len(b) + Len(o) /\ ~(i - Len(r) <= Len(b)) /\ ~(i <= Len(r))
            /\ (i - Len(r)) - Len(b) = i - Len(p)
        BY <1>1, <1>3, <2>1, <2>5
      <3>2. q[i - Len(r)] = o[i - Len(p)]
        BY <1>2, <3>1
      <3> QED
        BY <1>1, <2>2, <2>5, <3>1, <3>2
    <2> QED
      BY <1>3, <2>1, <2>3, <2>4, <2>5
  <1>8. u = v
    BY <1>4, <1>5, <1>6, <1>7, SeqEqual
  <1> QED
    BY <1>8 DEF u, v, p, q

\* An append to the last of three queues is an append to the three as one.
LEMMA AppendLast ==
    ASSUME NEW r \in Seq(Nat), NEW b \in Seq(Nat), NEW o \in Seq(Nat), NEW x \in Nat
    PROVE  Queued(r, b, Append(o, x)) = Append(Queued(r, b, o), x)
  <1> DEFINE p == Cat(r, b)
             f == Unit(x)
  <1>1. p \in Seq(Nat) /\ f \in Seq(Nat)
    BY CatType, UnitType
  <1>2. Append(o, x) = Cat(o, f)
    BY UnitType
  <1> HIDE DEF p
  <1>3. Append(Cat(p, o), x) = Cat(Cat(p, o), f)
    BY <1>1, CatType, UnitType
  <1> HIDE DEF f
  <1>4. Cat(Cat(p, o), f) = Cat(p, Cat(o, f))
    BY <1>1, Regroup
  <1> QED
    BY <1>2, <1>3, <1>4 DEF Queued, p

\* A sequence with one more element in front of it.
LEMMA InFront ==
    ASSUME NEW x \in Nat, NEW s \in Seq(Nat)
    PROVE  Cat(Unit(x), s) # <<>> /\ Head(Cat(Unit(x), s)) = x /\ Tail(Cat(Unit(x), s)) = s
  <1> DEFINE f == Unit(x)
             p == Cat(f, s)
  <1>1. f \in Seq(Nat) /\ Len(f) = 1 /\ f[1] = x
    BY UnitType
  <1> HIDE DEF f
  <1>2. /\ p \in Seq(Nat) /\ Len(p) = 1 + Len(s) /\ Len(s) \in Nat
        /\ \A i \in 1..1 + Len(s) : p[i] = IF i <= 1 THEN f[i] ELSE s[i - 1]
    <2>1. /\ p \in Seq(Nat) /\ Len(p) = Len(f) + Len(s) /\ Len(s) \in Nat
          /\ \A i \in 1..Len(f) + Len(s) : p[i] = IF i <= Len(f) THEN f[i] ELSE s[i - Len(f)]
      BY <1>1, CatType
    <2> QED
      BY <1>1, <2>1, Zenon
  <1> HIDE DEF p
  <1>3. p # <<>>
    BY <1>2, EmptySeq
  <1>4. p[1] = x
    <2>1. 1 \in 1..1 + Len(s)
      BY <1>2
    <2> QED
      BY <1>1, <1>2, <2>1
  <1>5. /\ Head(p) = p[1] /\ Tail(p) \in Seq(Nat) /\ Len(Tail(p)) = Len(p) - 1
        /\ \A i \in 1..Len(Tail(p)) : Tail(p)[i] = p[i + 1]
    <2>1. /\ Tail(p) \in Seq(Nat) /\ Len(Tail(p)) = Len(p) - 1
          /\ \A i \in 1..Len(Tail(p)) : Tail(p)[i] = p[i + 1]
      BY <1>2, <1>3, HeadTailProperties, Zenon
    <2>2. Head(p) = p[1]
      BY <1>2, <1>3
    <2> QED
      BY <2>1, <2>2
  <1> DEFINE t == Tail(p)
             h == Head(p)
  <1>6. h = p[1] /\ t \in Seq(Nat) /\ Len(t) = Len(p) - 1 /\ \A i \in 1..Len(t) : t[i] = p[i + 1]
    BY <1>5
  <1> HIDE DEF t, h
  <1>7. Len(t) = Len(s)
    BY <1>2, <1>6
  <1>8. ASSUME NEW i \in 1..Len(t) PROVE t[i] = s[i]
    <2>1. t[i] = p[i + 1]
      BY <1>6
    <2>2. i + 1 \in 1..1 + Len(s) /\ ~(i + 1 <= 1) /\ (i + 1) - 1 = i
      BY <1>2, <1>7
    <2>3. p[i + 1] = s[(i + 1) - 1]
      BY <1>2, <2>2
    <2> QED
      BY <2>1, <2>2, <2>3
  <1>9. t = s
    BY <1>6, <1>7, <1>8, SeqEqual
  <1> QED
    BY <1>3, <1>4, <1>6, <1>9 DEF p, f, t, h

\* A sequence is its first element in front of the rest.
LEMMA FirstAndRest ==
    ASSUME NEW s \in Seq(Nat), s # <<>>
    PROVE  s = Cat(Unit(Head(s)), Tail(s)) /\ Head(s) \in Nat /\ Tail(s) \in Seq(Nat)
  <1> DEFINE x == Head(s)
             r == Tail(s)
             f == Unit(x)
             t == Cat(f, r)
  <1>1. /\ x \in Nat /\ r \in Seq(Nat) /\ Len(r) = Len(s) - 1
        /\ \A i \in 1..Len(r) : r[i] = s[i + 1]
    BY HeadTailProperties
  <1>2. Len(s) \in Nat \ {0} /\ x = s[1]
    BY EmptySeq
  <1> HIDE DEF x, r
  <1>3. f \in Seq(Nat) /\ Len(f) = 1 /\ f[1] = x
    BY <1>1, UnitType
  <1> HIDE DEF f
  <1>4. /\ t \in Seq(Nat) /\ Len(t) = 1 + Len(r) /\ Len(r) \in Nat
        /\ \A i \in 1..1 + Len(r) : t[i] = IF i <= 1 THEN f[i] ELSE r[i - 1]
    <2>1. /\ t \in Seq(Nat) /\ Len(t) = Len(f) + Len(r) /\ Len(r) \in Nat
          /\ \A i \in 1..Len(f) + Len(r) : t[i] = IF i <= Len(f) THEN f[i] ELSE r[i - Len(f)]
      BY <1>1, <1>3, CatType
    <2> QED
      BY <1>3, <2>1, Zenon
  <1> HIDE DEF t
  <1>5. Len(t) = Len(s)
    BY <1>1, <1>2, <1>4
  <1>6. ASSUME NEW i \in 1..Len(s) PROVE s[i] = t[i]
    <2>1. i \in 1..1 + Len(r)
      BY <1>4, <1>5
    <2>2. CASE i = 1
      BY <1>2, <1>3, <1>4, <2>1, <2>2
    <2>3. CASE i # 1
      <3>1. ~(i <= 1) /\ i - 1 \in 1..Len(r) /\ (i - 1) + 1 = i
        BY <1>4, <2>1, <2>3
      <3>2. t[i] = r[i - 1] /\ r[i - 1] = s[(i - 1) + 1]
        BY <1>1, <1>4, <2>1, <3>1
      <3> QED
        BY <3>1, <3>2
    <2> QED
      BY <2>2, <2>3
  <1>7. s = t
    BY <1>4, <1>5, <1>6, SeqEqual
  <1> QED
    BY <1>1, <1>7 DEF t, f, x, r

\* Taking from the first of three queues is taking from the three as one.
LEMMA TakeFirst ==
    ASSUME NEW r \in Seq(Nat), NEW b \in Seq(Nat), NEW o \in Seq(Nat), r # <<>>
    PROVE  /\ Queued(r, b, o) # <<>>
           /\ Head(Queued(r, b, o)) = Head(r)
           /\ Tail(Queued(r, b, o)) = Queued(Tail(r), b, o)
  <1> DEFINE x == Head(r)
             t == Tail(r)
             f == Unit(x)
             w == Queued(t, b, o)
  <1>1. r = Cat(f, t) /\ x \in Nat /\ t \in Seq(Nat)
    BY FirstAndRest
  <1> HIDE DEF x, t
  <1>2. f \in Seq(Nat) /\ Cat(t, b) \in Seq(Nat)
    BY <1>1, UnitType, CatType
  <1> HIDE DEF f
  <1>3. Cat(r, b) = Cat(f, Cat(t, b))
    BY <1>1, <1>2, Regroup
  <1>4. Cat(Cat(f, Cat(t, b)), o) = Cat(f, Cat(Cat(t, b), o))
    BY <1>2, Regroup
  <1>5. Queued(r, b, o) = Cat(f, w)
    BY <1>3, <1>4 DEF Queued
  <1>6. w \in Seq(Nat)
    BY <1>2, CatType DEF Queued
  <1> HIDE DEF w
  <1>7. Cat(f, w) # <<>> /\ Head(Cat(f, w)) = x /\ Tail(Cat(f, w)) = w
    BY <1>1, <1>6, InFront DEF f
  <1> QED
    BY <1>5, <1>7 DEF x, t, w

\* The first of a batch moves over to the end of the channel.
LEMMA MoveOver ==
    ASSUME NEW r \in Seq(Nat), NEW b \in Seq(Nat), NEW o \in Seq(Nat), b # <<>>
    PROVE  Queued(Append(r, Head(b)), Tail(b), o) = Queued(r, b, o)
  <1> DEFINE x == Head(b)
             t == Tail(b)
             f == Unit(x)
  <1>1. b = Cat(f, t) /\ x \in Nat /\ t \in Seq(Nat)
    BY FirstAndRest
  <1> HIDE DEF x, t
  <1>2. f \in Seq(Nat) /\ Append(r, x) = Cat(r, f)
    BY <1>1, UnitType
  <1> HIDE DEF f
  <1>3. Cat(Cat(r, f), t) = Cat(r, Cat(f, t))
    BY <1>1, <1>2, Regroup
  <1> QED
    BY <1>1, <1>2, <1>3 DEF Queued, x, t

\* A sequence without its i-th element.
WithoutAt(s, i) == Cat(SubSeq(s, 1, i - 1), SubSeq(s, i + 1, Len(s)))

\* A first part of a concatenation, and what lies one element behind it.
LEMMA Around ==
    ASSUME NEW r \in Seq(Nat), NEW x \in Nat, NEW s \in Seq(Nat)
    PROVE  \E i \in 1..Len(Cat(r, Cat(Unit(x), s))) :
              WithoutAt(Cat(r, Cat(Unit(x), s)), i) = Cat(r, s)
  <1> DEFINE f == Unit(x)
             q == Cat(f, s)
             p == Cat(r, q)
             n == Len(r)
             m == Len(s)
  <1>1. f \in Seq(Nat) /\ Len(f) = 1
    BY UnitType
  <1>2. n \in Nat /\ m \in Nat
    BY LenProperties
  <1> HIDE DEF f
  <1>3. /\ q \in Seq(Nat) /\ Len(q) = Len(f) + Len(s)
        /\ \A i \in 1..Len(f) + Len(s) : q[i] = IF i <= Len(f) THEN f[i] ELSE s[i - Len(f)]
    BY <1>1, CatType
  <1> HIDE DEF q
  <1>4. /\ p \in Seq(Nat) /\ Len(p) = Len(r) + Len(q)
        /\ \A i \in 1..Len(r) + Len(q) : p[i] = IF i <= Len(r) THEN r[i] ELSE q[i - Len(r)]
    BY <1>3, CatType
  <1>5. /\ Len(q) = 1 + m
        /\ \A i \in 1..1 + m : q[i] = IF i <= 1 THEN f[i] ELSE s[i - 1]
    BY <1>1, <1>3, Zenon
  <1>6. /\ Len(p) = n + (1 + m)
        /\ \A i \in 1..n + (1 + m) : p[i] = IF i <= n THEN r[i] ELSE q[i - n]
    BY <1>4, <1>5, Zenon
  <1> HIDE DEF p
  <1>7. \A i \in 1..Len(p) : p[i] \in Nat
    BY <1>4, ElementOfSeq
  <1> DEFINE b == SubSeq(p, 1, n)
             c == SubSeq(p, n + 2, Len(p))
  <1>8. b = r
    <2>1. \A i \in 1..n : p[i] \in Nat /\ p[i] = r[i]
      <3> TAKE i \in 1..n
      <3>1. i \in 1..n + (1 + m) /\ i <= n /\ i \in 1..Len(p)
        BY <1>2, <1>6
      <3> QED
        BY <1>6, <1>7, <3>1
    <2>2. b \in Seq(Nat) /\ Len(b) = n /\ \A i \in 1..n : b[i] = p[i]
      BY <2>1, <1>2, SubSeqProperties
    <2> HIDE DEF b
    <2> QED
      BY <2>1, <2>2, SeqEqual
  <1>9. c = s
    <2>1. \A i \in n + 2..Len(p) : p[i] \in Nat
      <3> TAKE i \in n + 2..Len(p)
      <3>1. i \in 1..Len(p)
        BY <1>2, <1>6
      <3> QED
        BY <1>7, <3>1
    <2>2. c \in Seq(Nat) /\ Len(c) = m /\ \A i \in 1..m : c[i] = p[n + 1 + i]
      BY <2>1, <1>2, <1>6, SubSeqProperties
    <2>3. \A i \in 1..m : p[n + 1 + i] = s[i]
      <3> TAKE i \in 1..m
      <3> DEFINE j == n + 1 + i
      <3>1. /\ j \in 1..n + (1 + m) /\ ~(j <= n) /\ j - n = i + 1
            /\ i + 1 \in 1..1 + m /\ ~(i + 1 <= 1) /\ (i + 1) - 1 = i
        BY <1>2
      <3> HIDE DEF j
      <3>2. p[j] = q[j - n]
        BY <1>6, <3>1
      <3>3. q[i + 1] = s[(i + 1) - 1]
        BY <1>5, <3>1
      <3>4. p[j] = s[i]
        BY <3>1, <3>2, <3>3
      <3> QED
        BY <3>4 DEF j
    <2> HIDE DEF c
    <2>4. Len(c) = Len(s) /\ \A i \in 1..Len(c) : c[i] = s[i]
      BY <2>2, <2>3
    <2> QED
      BY <2>2, <2>4, SeqEqual
  <1>10. n + 1 \in 1..Len(p) /\ (n + 1) - 1 = n /\ (n + 1) + 1 = n + 2
    BY <1>2, <1>6
  <1>11. WithoutAt(p, n + 1) = Cat(r, s)
    BY <1>8, <1>9, <1>10 DEF WithoutAt
  <1> HIDE DEF n
  <1>12. \E i \in 1..Len(p) : WithoutAt(p, i) = Cat(r, s)
    BY <1>10, <1>11
  <1> QED
    BY <1>12 DEF p, q, f

\* Dropping the first of the batch takes one element out of the three queues.
LEMMA DropFirst ==
    ASSUME NEW r \in Seq(Nat), NEW b \in Seq(Nat), NEW o \in Seq(Nat), b # <<>>
    PROVE  \E i \in 1..Len(Queued(r, b, o)) :
              Queued(r, Tail(b), o) = WithoutAt(Queued(r, b, o), i)
  <1> DEFINE x == Head(b)
             t == Tail(b)
             f == Unit(x)
             s == Cat(t, o)
  <1>1. b = Cat(f, t) /\ x \in Nat /\ t \in Seq(Nat)
    BY FirstAndRest
  <1> HIDE DEF x, t
  <1>2. f \in Seq(Nat) /\ s \in Seq(Nat)
    BY <1>1, UnitType, CatType
  <1>3. \E i \in 1..Len(Cat(r, Cat(f, s))) : WithoutAt(Cat(r, Cat(f, s)), i) = Cat(r, s)
    <2> HIDE DEF s
    <2> QED
      BY <1>1, <1>2, Around
  <1> HIDE DEF f
  <1>4. Cat(Cat(f, t), o) = Cat(f, s)
    BY <1>1, <1>2, Regroup
  <1>5. Cat(Cat(r, b), o) = Cat(r, Cat(b, o))
    BY Regroup
  <1>6. Cat(Cat(r, t), o) = Cat(r, s)
    BY <1>1, Regroup
  <1> HIDE DEF s
  <1>7. Queued(r, b, o) = Cat(r, Cat(f, s)) /\ Queued(r, t, o) = Cat(r, s)
    BY <1>1, <1>4, <1>5, <1>6 DEF Queued
  <1>8. \E i \in 1..Len(Queued(r, b, o)) : Queued(r, t, o) = WithoutAt(Queued(r, b, o), i)
    BY <1>3, <1>7
  <1> QED
    BY <1>8 DEF t

\* With nothing in the middle, the last of three queues may as well be there.
LEMMA HandOver ==
    ASSUME NEW r \in Seq(Nat), NEW o \in Seq(Nat)
    PROVE  Queued(r, o, <<>>) = Queued(r, <<>>, o)
  <1>1. Cat(r, o) \in Seq(Nat) /\ Cat(r, <<>>) = r
    BY CatType, CatEmpty
  <1>2. Cat(Cat(r, o), <<>>) = Cat(r, o)
    BY <1>1, CatEmpty
  <1> QED
    BY <1>1, <1>2 DEF Queued

\* What the drain moves and what it leaves make up what there was.
LEMMA Split ==
    ASSUME NEW r \in Seq(Nat), NEW o \in Seq(Nat), NEW k \in 0..Len(o)
    PROVE  /\ SubSeq(o, 1, k) \in Seq(Nat) /\ Len(SubSeq(o, 1, k)) = k
           /\ SubSeq(o, k + 1, Len(o)) \in Seq(Nat)
           /\ Len(SubSeq(o, k + 1, Len(o))) = Len(o) - k
           /\ Queued(Cat(r, SubSeq(o, 1, k)), <<>>, SubSeq(o, k + 1, Len(o))) = Queued(r, <<>>, o)
  <1> DEFINE f == SubSeq(o, 1, k)
             g == SubSeq(o, k + 1, Len(o))
  <1>1. Len(o) \in Nat /\ k \in Nat /\ k <= Len(o)
    BY LenProperties
  <1>2. \A i \in 1..Len(o) : o[i] \in Nat
    BY ElementOfSeq
  <1>3. f \in Seq(Nat) /\ Len(f) = k
    BY <1>1, <1>2, SubSeqProperties
  <1>4. g \in Seq(Nat) /\ Len(g) = Len(o) - k
    BY <1>1, <1>2, SubSeqProperties
  <1>5. Cat(f, g) = o
    <2>1. 1 \in 1..Len(o) + 1 /\ k \in (1 - 1)..Len(o) /\ Len(o) \in k..Len(o)
      BY <1>1
    <2>2. f \o g = SubSeq(o, 1, Len(o))
      BY <2>1, ConcatAdjacentSubSeq
    <2> QED
      BY <2>2, SubSeqFull DEF Cat
  <1> HIDE DEF f, g
  <1>6. Cat(Cat(r, f), g) = Cat(r, Cat(f, g))
    BY <1>3, <1>4, Regroup
  <1>7. Cat(r, f) \in Seq(Nat)
    BY <1>3, CatType
  <1>8. Cat(r, <<>>) = r /\ Cat(Cat(r, f), <<>>) = Cat(r, f)
    BY <1>7, CatEmpty
  <1>9. Queued(Cat(r, f), <<>>, g) = Queued(r, <<>>, o)
    BY <1>5, <1>6, <1>8 DEF Queued
  <1> QED
    BY <1>3, <1>4, <1>9 DEF f, g

-----------------------------------------------------------------------------
(* Each step keeps the invariant and is a step of the stream or none.      *)

Pending == Queued(responseCh, batch, outbox)

\* A step of the stream, or one it does not see.
StreamStep == RS!StreamNext \/ UNCHANGED RS!streamVars

\* The stream does not see a step that leaves what is pending as it was.
LEMMA UnseenStep ==
    ASSUME Pending' = Pending, UNCHANGED <<running, received, enqueued>>
    PROVE  UNCHANGED RS!streamVars
  BY DEF RS!streamVars, Pending, Queued, Cat

\* enqueueResponse is the stream's Accept, and leaves somebody responsible.
LEMMA EnqueueStep ==
    ASSUME DeliveryInv, EnqueueResponse, UNCHANGED <<phaseEgress, running>>
    PROVE  DeliveryInv' /\ StreamStep
  <1> USE DEF DeliveryInv, DeliveryTypes
  <1>1. outbox' \in Seq(Nat) /\ outbox' # <<>> /\ enqueued' \in Nat
    <2>1. enqueued + 1 \in Nat
      OBVIOUS
    <2> QED
      BY SMTT(60), <2>1, AppendProperties DEF EnqueueResponse
  <1>2. DeliveryTypes'
    <2>1. batch = <<>> \/ delivering
      BY DEF NoStrandedResponse
    <2>2. deliverer' \in DelivererStates
      BY DEF EnqueueResponse, DelivererStates
    <2>3. batch # <<>> => deliverer' = deliverer
      BY <2>1 DEF EnqueueResponse
    <2>4. batch = <<>> => deliverer' \notin {"send", "retry", "wait"}
      BY DEF EnqueueResponse
    <2> QED
      BY <1>1, <2>2, <2>3, <2>4 DEF EnqueueResponse
  <1>3. NoStrandedResponse'
    BY DEF EnqueueResponse, NoStrandedResponse
  <1>4. Pending' = Append(Pending, enqueued + 1)
    <2>1. outbox' = Append(outbox, enqueued + 1) /\ batch' = batch /\ responseCh' = responseCh
      BY DEF EnqueueResponse
    <2>2. responseCh \in Seq(Nat) /\ batch \in Seq(Nat) /\ outbox \in Seq(Nat)
      OBVIOUS
    <2>3. enqueued + 1 \in Nat
      OBVIOUS
    <2> HIDE DEF DeliveryInv, DeliveryTypes
    <2>4. Queued(responseCh, batch, Append(outbox, enqueued + 1)) = Append(Pending, enqueued + 1)
      BY <2>2, <2>3, AppendLast DEF Pending
    <2> QED
      BY <2>1, <2>4 DEF Pending
  <1>5. RS!Accept
    BY <1>4 DEF RS!Accept, EnqueueResponse, Pending, Queued, Cat
  <1> QED
    BY <1>2, <1>3, <1>5 DEF StreamStep, RS!StreamNext

\* The client's read is the stream's Receive.
LEMMA ReadStep ==
    ASSUME GatewayAssumption, DeliveryInv, ReadResponse
    PROVE  DeliveryInv' /\ StreamStep
  <1> USE DEF DeliveryInv, DeliveryTypes
  <1>1. responseCh' \in Seq(Nat) /\ Len(responseCh') = Len(responseCh) - 1
    BY HeadTailProperties DEF ReadResponse
  <1>2. DeliveryTypes'
    <2>1. Len(responseCh) \in Nat /\ Len(responseCh') <= Len(responseCh)
      BY <1>1, LenProperties
    <2> QED
      BY <1>1, <2>1 DEF ReadResponse, GatewayAssumption
  <1>3. NoStrandedResponse'
    BY DEF ReadResponse, NoStrandedResponse
  <1>4. /\ Pending # <<>> /\ Head(Pending) = Head(responseCh)
        /\ Tail(Pending) = Queued(Tail(responseCh), batch, outbox)
    <2>1. responseCh \in Seq(Nat) /\ batch \in Seq(Nat) /\ outbox \in Seq(Nat)
      OBVIOUS
    <2>2. responseCh # <<>>
      BY DEF ReadResponse
    <2> HIDE DEF DeliveryInv, DeliveryTypes
    <2> QED
      BY <2>1, <2>2, TakeFirst DEF Pending
  <1>5. RS!Receive
    BY <1>4 DEF RS!Receive, ReadResponse, Pending, Queued, Cat
  <1> QED
    BY <1>2, <1>3, <1>5 DEF StreamStep, RS!StreamNext

\* The deliverer takes the outbox over, or finds it empty and clears the flag
\* as it exits: the stream sees neither.
LEMMA TakeBatchStep ==
    ASSUME DeliveryInv, TakeBatch
    PROVE  DeliveryInv' /\ StreamStep
  <1> USE DEF DeliveryInv, DeliveryTypes
  <1>1. batch = <<>> /\ <<>> \in Seq(Nat) /\ deliverer = "take" /\ delivering
    BY DEF TakeBatch, NoStrandedResponse
  <1>2. UNCHANGED <<phaseEgress, running, responseCh, received, enqueued>>
    BY DEF TakeBatch
  <1>3. CASE outbox = <<>>
    <2>1. delivering' = FALSE /\ deliverer' = "off" /\ UNCHANGED <<outbox, batch>>
      BY <1>3 DEF TakeBatch
    <2>2. DeliveryInv'
      BY <1>1, <1>2, <1>3, <2>1 DEF NoStrandedResponse, DelivererStates
    <2>3. UNCHANGED RS!streamVars
      BY <1>2, <2>1 DEF RS!streamVars
    <2> QED
      BY <2>2, <2>3 DEF StreamStep
  <1>4. CASE outbox # <<>>
    <2>1. batch' = outbox /\ outbox' = <<>> /\ deliverer' = "send" /\ delivering' = delivering
      BY <1>4 DEF TakeBatch
    <2>2. DeliveryInv'
      BY <1>1, <1>2, <1>4, <2>1 DEF NoStrandedResponse, DelivererStates
    <2>3. responseCh \in Seq(Nat) /\ outbox \in Seq(Nat)
      OBVIOUS
    <2> HIDE DEF DeliveryInv, DeliveryTypes
    <2>4. Queued(responseCh, outbox, <<>>) = Queued(responseCh, <<>>, outbox)
      BY <2>3, HandOver
    <2>5. Pending' = Pending
      BY <1>1, <1>2, <2>1, <2>4 DEF Pending
    <2>6. UNCHANGED RS!streamVars
      BY <1>2, <2>5, UnseenStep
    <2> QED
      BY <2>2, <2>6 DEF StreamStep
  <1> QED
    BY <1>3, <1>4

\* What is left of a batch keeps the types, whichever way its first went.
LEMMA NextOfBatchTypes ==
    ASSUME DeliveryTypes, deliverer \in {"send", "retry", "wait"}, NextOfBatch
    PROVE  /\ batch # <<>> /\ batch' \in Seq(Nat) /\ deliverer' \in {"take", "send"}
           /\ batch' # <<>> <=> deliverer' \in {"send", "retry", "wait"}
  <1>1. batch # <<>> /\ batch \in Seq(Nat)
    BY DEF DeliveryTypes
  <1>2. Tail(batch) \in Seq(Nat) /\ Len(Tail(batch)) = Len(batch) - 1
    BY <1>1, HeadTailProperties
  <1>3. Len(batch) \in Nat \ {0}
    BY <1>1, EmptySeq
  <1>4. Tail(batch) = <<>> <=> Len(batch) = 1
    <2> DEFINE t == Tail(batch)
               n == Len(batch)
    <2>1. t \in Seq(Nat) /\ Len(t) = n - 1 /\ n \in Nat \ {0}
      BY <1>2, <1>3
    <2> HIDE DEF t, n
    <2>2. t = <<>> <=> Len(t) = 0
      BY <2>1, EmptySeq
    <2>3. t = <<>> <=> n = 1
      BY <2>1, <2>2
    <2> QED
      BY <2>3 DEF t, n
  <1> QED
    BY <1>1, <1>2, <1>4 DEF NextOfBatch

\* A send moves the first of the batch over to ResponseCh: the stream does not
\* see it.
LEMMA SendStep ==
    ASSUME GatewayAssumption, DeliveryInv, deliverer \in {"send", "wait"}, Room, SendFirst,
           UNCHANGED <<phaseEgress, running, outbox, delivering, received, enqueued>>
    PROVE  DeliveryInv' /\ StreamStep
  <1>1. DeliveryTypes /\ NextOfBatch
    BY DEF DeliveryInv, SendFirst
  <1>2. /\ batch # <<>> /\ batch' \in Seq(Nat) /\ deliverer' \in {"take", "send"}
        /\ batch' # <<>> <=> deliverer' \in {"send", "retry", "wait"}
    BY <1>1, NextOfBatchTypes
  <1>3. Head(batch) \in Nat
    BY <1>1, <1>2, HeadTailProperties DEF DeliveryTypes
  <1>4. responseCh' \in Seq(Nat) /\ Len(responseCh') = Len(responseCh) + 1
    BY <1>1, <1>3, AppendProperties DEF SendFirst, DeliveryTypes
  <1>5. Len(responseCh') <= ResponseChSize
    <2>1. Len(responseCh) \in Nat
      BY <1>1, LenProperties DEF DeliveryTypes
    <2> QED
      BY <1>4, <2>1 DEF Room, GatewayAssumption
  <1>6. DeliveryTypes'
    BY <1>1, <1>2, <1>4, <1>5 DEF DeliveryTypes, DelivererStates
  <1>7. NoStrandedResponse'
    BY <1>2 DEF DeliveryInv, NoStrandedResponse
  <1>8. UNCHANGED RS!streamVars
    <2>1. responseCh \in Seq(Nat) /\ batch \in Seq(Nat) /\ outbox \in Seq(Nat)
      BY <1>1 DEF DeliveryTypes
    <2>2. Queued(Append(responseCh, Head(batch)), Tail(batch), outbox) = Pending
      BY <1>2, <2>1, MoveOver DEF Pending
    <2>3. responseCh' = Append(responseCh, Head(batch)) /\ batch' = Tail(batch) /\ outbox' = outbox
      BY DEF SendFirst, NextOfBatch
    <2>4. Pending' = Pending
      BY <2>2, <2>3 DEF Pending
    <2> QED
      BY <2>4, UnseenStep
  <1> QED
    BY <1>6, <1>7, <1>8 DEF DeliveryInv, StreamStep

\* At the top of the retry loop a closed gateway's response is given up, an
\* open gateway's is kept.
LEMMA CheckRunningStep ==
    ASSUME DeliveryInv, CheckRunning
    PROVE  DeliveryInv' /\ StreamStep
  <1>1. /\ deliverer = "retry" /\ DeliveryTypes
        /\ UNCHANGED <<phaseEgress, running, outbox, delivering, responseCh, received, enqueued>>
    BY DEF DeliveryInv, CheckRunning
  <1>2. CASE running
    <2>1. deliverer' = "wait" /\ batch' = batch
      BY <1>2 DEF CheckRunning
    <2>2. DeliveryInv'
      BY <1>1, <2>1 DEF DeliveryInv, DeliveryTypes, NoStrandedResponse, DelivererStates
    <2>3. UNCHANGED RS!streamVars
      BY <1>1, <2>1 DEF RS!streamVars
    <2> QED
      BY <2>2, <2>3 DEF StreamStep
  <1>3. CASE ~running
    <2>1. NextOfBatch
      BY <1>3 DEF CheckRunning
    <2>2. /\ batch # <<>> /\ batch' \in Seq(Nat) /\ deliverer' \in {"take", "send"}
          /\ batch' # <<>> <=> deliverer' \in {"send", "retry", "wait"}
      BY <1>1, <2>1, NextOfBatchTypes
    <2>3. DeliveryTypes'
      BY <1>1, <2>2 DEF DeliveryTypes, DelivererStates
    <2>4. NoStrandedResponse'
      BY <1>1, <2>2 DEF DeliveryInv, NoStrandedResponse
    <2>5. \E i \in 1..Len(Pending) :
             Pending' = WithoutAt(Pending, i)
      <3>1. responseCh \in Seq(Nat) /\ batch \in Seq(Nat) /\ outbox \in Seq(Nat)
        BY <1>1 DEF DeliveryTypes
      <3>2. Pending' = Queued(responseCh, Tail(batch), outbox)
        BY <1>1, <2>1 DEF NextOfBatch, Pending
      <3>3. \E i \in 1..Len(Pending) :
               Queued(responseCh, Tail(batch), outbox) = WithoutAt(Pending, i)
        BY <2>2, <3>1, DropFirst DEF Pending
      <3> QED
        BY <3>2, <3>3
    <2>6. RS!GiveUp
      BY <1>1, <1>3, <2>5 DEF RS!GiveUp, Pending, Queued, WithoutAt, Cat
    <2> QED
      BY <2>3, <2>4, <2>6 DEF DeliveryInv, StreamStep, RS!StreamNext
  <1> QED
    BY <1>2, <1>3

\* The drain of the deterministic runner moves what fits and keeps the flag up
\* while something is left.
LEMMA DrainStep ==
    ASSUME GatewayAssumption, DeliveryInv, DrainDeterministicEgress
    PROVE  DeliveryInv' /\ StreamStep
  <1> DEFINE k == Drained
  <1>1. /\ responseCh \in Seq(Nat) /\ outbox \in Seq(Nat) /\ batch = <<>> /\ phaseEgress
        /\ deliverer = "off" /\ Len(responseCh) <= ResponseChSize /\ ResponseChSize \in Nat
    BY DEF DeliveryInv, DeliveryTypes, NoStrandedResponse, DrainDeterministicEgress,
           GatewayAssumption
  <1>2. Len(responseCh) \in Nat /\ Len(outbox) \in Nat
    BY <1>1, LenProperties
  <1>3. k \in 0..Len(outbox) /\ Len(responseCh) + k <= ResponseChSize
    BY <1>1, <1>2 DEF Drained
  <1>4. /\ responseCh' = Cat(responseCh, SubSeq(outbox, 1, k))
        /\ outbox' = SubSeq(outbox, k + 1, Len(outbox))
        /\ delivering' = (k < Len(outbox))
        /\ UNCHANGED <<phaseEgress, running, batch, deliverer, received, enqueued>>
    BY DEF DrainDeterministicEgress, Cat
  <1> HIDE DEF k
  <1>5. /\ SubSeq(outbox, 1, k) \in Seq(Nat) /\ Len(SubSeq(outbox, 1, k)) = k
        /\ SubSeq(outbox, k + 1, Len(outbox)) \in Seq(Nat)
        /\ Len(SubSeq(outbox, k + 1, Len(outbox))) = Len(outbox) - k
        /\ Queued(Cat(responseCh, SubSeq(outbox, 1, k)), <<>>, SubSeq(outbox, k + 1, Len(outbox)))
             = Queued(responseCh, <<>>, outbox)
    BY <1>1, <1>3, Split
  <1>6. DeliveryTypes'
    <2>1. responseCh' \in Seq(Nat) /\ Len(responseCh') = Len(responseCh) + k
      BY <1>1, <1>4, <1>5, CatType
    <2> QED
      BY <1>1, <1>2, <1>3, <1>4, <1>5, <2>1 DEF DeliveryInv, DeliveryTypes
  <1>7. NoStrandedResponse'
    <2>1. outbox' # <<>> => k < Len(outbox)
      BY <1>2, <1>3, <1>4, <1>5, EmptySeq
    <2> QED
      BY <1>1, <1>4, <2>1 DEF NoStrandedResponse
  <1>8. UNCHANGED RS!streamVars
    <2>1. Pending' = Pending
      BY <1>1, <1>4, <1>5 DEF Pending
    <2> QED
      BY <1>4, <2>1, UnseenStep
  <1> QED
    BY <1>6, <1>7, <1>8 DEF DeliveryInv, StreamStep

\* Every step of the gateway, its client or the exchange keeps the invariant
\* and is a step of the stream or none.
LEMMA EveryStep ==
    ASSUME GatewayAssumption, DeliveryInv, [Next]_vars
    PROVE  DeliveryInv' /\ StreamStep
  <1>1. ASSUME UNCHANGED deliveryVars, UNCHANGED <<phaseEgress, enqueued>> PROVE DeliveryInv'
    BY <1>1 DEF deliveryVars, DeliveryInv, DeliveryTypes, NoStrandedResponse
  <1>2. ASSUME UNCHANGED deliveryVars, UNCHANGED <<running, received, enqueued>>
        PROVE  StreamStep
    BY <1>2 DEF deliveryVars, StreamStep, RS!streamVars
  <1>3. ASSUME NEW kind \in RequestKinds, Send(kind) PROVE DeliveryInv' /\ StreamStep
    BY <1>1, <1>2, <1>3 DEF Send
  <1>4. CASE Close
    <2>1. RS!Retire
      BY <1>4 DEF Close, deliveryVars, RS!Retire
    <2> QED
      BY <1>1, <1>4, <2>1 DEF Close, StreamStep, RS!StreamNext
  <1>5. CASE ReadResponse
    BY <1>5, ReadStep
  <1>6. CASE TakeRequest
    BY <1>1, <1>2, <1>6 DEF TakeRequest
  <1>7. CASE CheckRequest
    BY <1>1, <1>2, <1>7 DEF CheckRequest
  <1>8. CASE FinishRequest
    BY <1>8, EnqueueStep DEF FinishRequest
  <1>9. CASE Notify
    BY <1>9, EnqueueStep DEF Notify
  <1>10. CASE TakeBatch
    BY <1>10, TakeBatchStep
  <1>11. CASE FastSend
    <2>1. CASE Room
      BY <1>11, <2>1, SendStep DEF FastSend
    <2>2. CASE ~Room
      <3>1. /\ deliverer = "send" /\ deliverer' = "retry"
            /\ UNCHANGED <<phaseEgress, running, outbox, delivering, batch, responseCh, received,
                           enqueued>>
        BY <1>11, <2>2 DEF FastSend
      <3> QED
        BY <3>1 DEF DeliveryInv, DeliveryTypes, NoStrandedResponse, DelivererStates,
                    StreamStep, RS!streamVars
    <2> QED
      BY <2>1, <2>2
  <1>12. CASE CheckRunning
    BY <1>12, CheckRunningStep
  <1>13. CASE SelectSend
    BY <1>13, SendStep DEF SelectSend
  <1>14. CASE SelectTimer
    BY <1>14 DEF SelectTimer, DeliveryInv, DeliveryTypes, NoStrandedResponse, DelivererStates,
                 StreamStep, RS!streamVars
  <1>15. CASE DrainDeterministicEgress
    BY <1>15, DrainStep
  <1>16. CASE UNCHANGED vars
    BY <1>1, <1>2, <1>16 DEF vars, deliveryVars
  <1> QED
    BY <1>3, <1>4, <1>5, <1>6, <1>7, <1>8, <1>9, <1>10, <1>11, <1>12, <1>13, <1>14, <1>15,
       <1>16 DEF Next, Deliver

\* A new gateway has nothing queued anywhere.
LEMMA StartsEmpty ==
    ASSUME GatewayAssumption, Init
    PROVE  DeliveryInv /\ RS!StreamInit
  <1>1. <<>> \in Seq(Nat) /\ Len(<<>>) = 0 /\ <<>> \o <<>> = <<>>
    OBVIOUS
  <1>2. DeliveryInv
    BY <1>1 DEF Init, DeliveryInv, DeliveryTypes, NoStrandedResponse, DelivererStates,
                GatewayAssumption
  <1>3. RS!StreamInit
    BY <1>1 DEF Init, RS!StreamInit
  <1> QED
    BY <1>2, <1>3

\* For every capacity and any traffic, no response is stranded: while the outbox
\* holds something the delivering flag is raised, and outside phase mode a
\* deliverer goroutine exists exactly while it is (enqueueResponse,
\* deliverOutbox and DrainDeterministicEgress of exchange/gateway.go).
THEOREM NothingStranded ==
    ASSUME GatewayAssumption
    PROVE  Spec => []NoStrandedResponse
  <1>1. Init => DeliveryInv
    BY StartsEmpty
  <1>2. DeliveryInv /\ [Next]_vars => DeliveryInv'
    BY EveryStep
  <1>3. DeliveryInv => NoStrandedResponse
    BY DEF DeliveryInv
  <1> QED
    BY <1>1, <1>2, <1>3, PTL DEF Spec

\* For every capacity and any traffic, the gateway implements the response
\* stream: outbox, batch and ResponseCh together are one FIFO, nothing is
\* duplicated or reordered, and only a closed gateway gives a response up.
THEOREM GatewayRefinesStream ==
    ASSUME GatewayAssumption
    PROVE  Spec => ImplementsResponseStream
  <1>1. Init => DeliveryInv /\ RS!StreamInit
    BY StartsEmpty
  <1>2. DeliveryInv /\ [Next]_vars => DeliveryInv'
    BY EveryStep
  <1>3. DeliveryInv /\ [Next]_vars => [RS!StreamNext]_(RS!streamVars)
    BY EveryStep DEF StreamStep
  <1> QED
    BY <1>1, <1>2, <1>3, PTL DEF Spec, ImplementsResponseStream, RS!Stream
=============================================================================
