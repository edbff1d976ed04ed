--------------------------- MODULE InjectionProofs --------------------------
(***************************************************************************)
(* Proofs about Injection: while all packets have the same priority, the   *)
(* traffic manager keeps the rules of BufferState, for any number of       *)
(* classes, VCs and packets, any packet sizes and every buffer policy.     *)
(***************************************************************************)
EXTENDS Injection, CreditLoopHolders, WellFoundedInduction

(* More time than by default for the provers. *)
USE SMTT(30), ZenonT(30)

(* Priority "none": no packet is preferred. *)
SamePriority ==
  \A c, d \in Classes : \A p \in PriOf[c], q \in PriOf[d] : p = q

-----------------------------------------------------------------------------
(* The flits that wait in a class: whole packets one after the other, but    *)
(* for a first one whose head may be gone; no packet twice.  Only a first    *)
(* flit that is not a head has a VC.                                         *)
WaitingFlit(c) ==
  [pid : Pids, head : BOOLEAN, tail : BOOLEAN,
   vc : {-1} \cup BeginVC[c] .. EndVC[c], pri : PriOf[c]]
NoVCYet(s) == \A i \in DOMAIN s : (i > 1 \/ s[i].head) => s[i].vc = -1
WholeRest(s) ==
  /\ \A i \in DOMAIN s :
       i + 1 \in DOMAIN s =>
         (s[i + 1].head <=> s[i].tail) /\ (~s[i].tail => s[i + 1].pid = s[i].pid)
  /\ s # <<>> => s[Len(s)].tail
Once(s) == \A i, j \in DOMAIN s : i < j /\ s[j].head => s[i].pid # s[j].pid
Queue(s) == NoVCYet(s) /\ WholeRest(s) /\ Once(s)

PidsIn(s) == {s[i].pid : i \in DOMAIN s}
HeadsIn(s) == {s[i].pid : i \in {j \in DOMAIN s : s[j].head}}

(* A packet is appended. *)
Joins(s, t, pid) ==
  /\ Queue(t)
  /\ PidsIn(t) \subseteq PidsIn(s) \cup {pid} /\ HeadsIn(t) \subseteq HeadsIn(s) \cup {pid}
  /\ s # <<>> => Head(t) = Head(s)
  /\ s = <<>> => Head(t).head

(* GeneratePacket appends whole packets to the queue of a class. *)
LEMMA QueueAppend ==
  ASSUME NEW c \in Classes, NEW s \in Seq(WaitingFlit(c)), Queue(s),
         NEW pid \in Pids, pid \notin PidsIn(s), NEW size \in Nat \ {0}, NEW pri \in PriOf[c],
         NEW t, t = s \o Packet(pid, size, pri)
  PROVE  t \in Seq(WaitingFlit(c)) /\ Joins(s, t, pid)
<1> DEFINE X == WaitingFlit(c)
           k == Packet(pid, size, pri)
           m == Len(s)
<1>1. /\ k \in Seq(X) /\ Len(k) = size
      /\ \A i \in 1 .. size :
           /\ k[i].pid = pid /\ (k[i].head <=> i = 1) /\ (k[i].tail <=> i = size)
           /\ k[i].vc = -1
  <2>1. \A i \in 1 .. size :
          [pid |-> pid, head |-> i = 1, tail |-> i = size, vc |-> -1, pri |-> pri] \in X
    BY Zenon DEF WaitingFlit
  <2>2. k \in [1 .. size -> X] /\ DOMAIN k = 1 .. size
    BY <2>1, ZenonT(30) DEF Packet
  <2>3. k \in Seq(X) /\ Len(k) = size
    BY <2>2
  <2> QED BY <2>3, ZenonT(30) DEF Packet
<1> HIDE DEF k, X
<1>2. m \in Nat /\ DOMAIN s = 1 .. m /\ s \in Seq(X)
  BY SeqLen, Zenon DEF X
<1>3. /\ t \in Seq(X) /\ Len(t) = m + size
      /\ \A i \in 1 .. m + size : t[i] = IF i <= m THEN s[i] ELSE k[i - m]
  <2>1. k \in Seq(X) /\ Len(k) = size
    BY <1>1, Zenon
  <2>2. t = s \o k
    BY Zenon DEF k
  <2>3. /\ s \o k \in Seq(X) /\ Len(s \o k) = Len(s) + Len(k)
        /\ \A i \in 1 .. Len(s) + Len(k) :
             (s \o k)[i] = IF i <= Len(s) THEN s[i] ELSE k[i - Len(s)]
    BY <1>2, <2>1, SeqConcat, ZenonT(30)
  <2> QED BY <2>1, <2>2, <2>3, ZenonT(30)
<1>4. DOMAIN t = 1 .. m + size
  BY <1>3, SeqLen, Zenon
<1> HIDE DEF m
<1>5. \A i \in 1 .. m : i \in DOMAIN t /\ t[i] = s[i]
  BY <1>2, <1>3, <1>4
<1>6. ASSUME NEW i \in DOMAIN t, ~(i <= m)
      PROVE  /\ i \in Int /\ i > m /\ i <= m + size
             /\ t[i].pid = pid /\ (t[i].head <=> i = m + 1) /\ (t[i].tail <=> i = m + size)
             /\ t[i].vc = -1
  <2>1. i - m \in 1 .. size /\ t[i] = k[i - m] /\ i \in Int /\ i > m /\ i <= m + size
    BY <1>2, <1>3, <1>4, <1>6
  <2>2. (i - m = 1 <=> i = m + 1) /\ (i - m = size <=> i = m + size)
    BY <1>2, <2>1
  <2> QED BY <1>1, <2>1, <2>2
<1>7. \A i \in DOMAIN t : i \in Int /\ (i <= m => i \in 1 .. m /\ t[i] = s[i])
  BY <1>2, <1>4, <1>5
<1>8. NoVCYet(t)
  BY <1>2, <1>6, <1>7 DEF NoVCYet, Queue
<1>9. WholeRest(t)
  <2>1. ASSUME NEW i \in DOMAIN t, i + 1 \in DOMAIN t
        PROVE  (t[i + 1].head <=> t[i].tail) /\ (~t[i].tail => t[i + 1].pid = t[i].pid)
    <3>1. CASE i + 1 <= m
      <4>1. i \in DOMAIN s /\ i + 1 \in DOMAIN s /\ t[i] = s[i] /\ t[i + 1] = s[i + 1]
        BY <1>2, <1>4, <1>7, <2>1, <3>1
      <4> QED BY <4>1, Zenon DEF Queue, WholeRest
    <3>2. CASE i = m
      <4>1. t[i] = s[i] /\ s # <<>> /\ s[i].tail
        BY <1>2, <1>4, <1>7, <3>2, SeqEmpty DEF Queue, WholeRest, m
      <4>2. t[i + 1].head
        BY <1>2, <1>6, <2>1, <3>2
      <4> QED BY <4>1, <4>2, Zenon
    <3>3. CASE i > m
      <4>1. /\ ~(i <= m) /\ ~(i + 1 <= m) /\ i # m /\ i + 1 # m + 1
            /\ (i = m + size => ~(i + 1 <= m + size))
        BY <1>2, <1>7, <3>3
      <4>2. ~t[i + 1].head /\ t[i + 1].pid = pid /\ i + 1 <= m + size
        BY <1>6, <2>1, <4>1, Zenon
      <4>3. t[i].pid = pid /\ ~t[i].tail
        BY <1>6, <4>1, <4>2, Zenon
      <4> QED BY <4>2, <4>3, ZenonT(30)
    <3>4. i \in Int /\ m \in Int
      BY <1>2, <1>7
    <3>5. i + 1 <= m \/ i = m \/ i > m
      BY <3>4
    <3> QED BY <3>1, <3>2, <3>3, <3>5, ZenonT(30)
  <2>2. t[Len(t)].tail
    <3>1. m + size \in DOMAIN t /\ ~(m + size <= m)
      BY <1>2, <1>4
    <3> QED BY <1>3, <1>6, <3>1, Zenon
  <2> QED BY <2>1, <2>2, Zenon DEF WholeRest
<1>10. Once(t)
  <2> SUFFICES ASSUME NEW i \in DOMAIN t, NEW j \in DOMAIN t, i < j, t[j].head
               PROVE  t[i].pid # t[j].pid
    BY Zenon DEF Once
  <2>1. CASE j <= m
    <3>1. i \in DOMAIN s /\ j \in DOMAIN s /\ t[i] = s[i] /\ t[j] = s[j]
      BY <1>2, <1>4, <1>7, <2>1
    <3> QED BY <3>1, Zenon DEF Queue, Once
  <2>2. CASE ~(j <= m)
    <3>1. j = m + 1 /\ t[j].pid = pid
      BY <1>6, <2>2, Zenon
    <3>2. i \in DOMAIN s /\ t[i] = s[i]
      BY <1>2, <1>4, <1>7, <3>1
    <3> QED BY <3>1, <3>2, Zenon DEF PidsIn
  <2> QED BY <2>1, <2>2, Zenon
<1>11. PidsIn(t) \subseteq PidsIn(s) \cup {pid} /\ HeadsIn(t) \subseteq HeadsIn(s) \cup {pid}
  <2>1. ASSUME NEW i \in DOMAIN t PROVE t[i].pid = pid \/ (i \in DOMAIN s /\ t[i] = s[i])
    BY <1>2, <1>6, <1>7, Zenon
  <2> QED BY <2>1 DEF PidsIn, HeadsIn
<1>12. t # <<>>
  BY <1>2, <1>3, SeqEmpty
<1>13. Head(t) = t[1] /\ (s # <<>> => Head(s) = s[1])
  BY <1>2, <1>3, <1>12
<1>14. s # <<>> => Head(t) = Head(s)
  <2>1. s # <<>> => 1 \in 1 .. m
    BY <1>2, SeqEmpty DEF m
  <2> QED BY <1>5, <1>13, <2>1, Zenon
<1>15. s = <<>> => Head(t).head
  <2>1. s = <<>> => m = 0
    BY SeqEmpty, Zenon DEF m
  <2>2. s = <<>> => 1 \in DOMAIN t /\ ~(1 <= m) /\ 1 = m + 1
    BY <1>4, <2>1
  <2> QED BY <1>6, <1>13, <2>2, Zenon
<1> QED BY <1>3, <1>8, <1>9, <1>10, <1>11, <1>14, <1>15, ZenonT(30) DEF Queue, Joins, X

(* t is s without its first flit, and the next flit of the packet, if there  *)
(* is one, has the VC v.                                                     *)
Popped(s, t, v) ==
  /\ Len(t) = Len(s) - 1
  /\ \A i \in 1 .. Len(s) - 1 :
       /\ t[i].pid = s[i + 1].pid /\ t[i].head = s[i + 1].head /\ t[i].tail = s[i + 1].tail
       /\ t[i].vc = IF i = 1 /\ ~s[1].tail THEN v ELSE s[i + 1].vc

GoesOn(s, t, v) ==
  (t # <<>> /\ ~Head(t).head) =>
    ~Head(s).tail /\ Head(t).pid = Head(s).pid /\ Head(t).vc = v

Leaves(s, t, v) ==
  /\ Queue(t) /\ GoesOn(s, t, v)
  /\ PidsIn(t) \subseteq PidsIn(s) /\ HeadsIn(t) \subseteq HeadsIn(s) \ {Head(s).pid}

(* The VC of the first flit is set. *)
LEMMA SetVC ==
  ASSUME NEW c, NEW s \in Seq(WaitingFlit(c)), s # <<>>, NEW v \in BeginVC[c] .. EndVC[c],
         NEW a, a = [s EXCEPT ![1].vc = v]
  PROVE  /\ a \in Seq(WaitingFlit(c)) /\ Len(a) = Len(s) /\ a # <<>>
         /\ \A i \in 2 .. Len(s) : a[i] = s[i]
         /\ Head(a) = [Head(s) EXCEPT !.vc = v]
<1> DEFINE X == WaitingFlit(c)
           m == Len(s)
           e == [s[1] EXCEPT !.vc = v]
<1>1. m \in Nat \ {0} /\ s[1] \in X /\ s \in Seq(X) /\ 1 \in 1 .. m /\ Head(s) = s[1]
  BY SeqLen, SeqEmpty, SeqAt DEF X
<1>2. e \in X
  BY <1>1, Zenon DEF X, WaitingFlit
<1>3. a = [s EXCEPT ![1] = e]
  BY Zenon
<1>4. Head(s) = s[1] /\ e = [Head(s) EXCEPT !.vc = v]
  BY <1>1, Zenon
<1> HIDE DEF X, e
<1>5. /\ a \in Seq(X) /\ Len(a) = m
      /\ \A j \in 1 .. m : a[j] = IF j = 1 THEN e ELSE s[j]
  BY <1>1, <1>2, <1>3, SeqExcept
<1>6. a # <<>> /\ a[1] = e /\ \A i \in 2 .. m : a[i] = s[i]
  BY <1>1, <1>5, SeqEmpty
<1>7. Head(a) = a[1]
  BY <1>5, <1>6
<1> QED BY <1>4, <1>5, <1>6, <1>7, Zenon DEF X

(* PopFlit passes the VC on. *)
LEMMA PopIs ==
  ASSUME NEW c, NEW s \in Seq(WaitingFlit(c)), NEW a \in Seq(WaitingFlit(c)),
         s # <<>>, a # <<>>, Len(a) = Len(s), \A i \in 2 .. Len(s) : a[i] = s[i],
         NEW v \in BeginVC[c] .. EndVC[c], Head(a).tail = s[1].tail, Head(a).vc = v,
         NEW t, t = PopFlit(a)
  PROVE  t \in Seq(WaitingFlit(c)) /\ Popped(s, t, v)
<1> DEFINE X == WaitingFlit(c)
           m == Len(s)
           u == Tail(a)
<1>1. m \in Nat \ {0} /\ \A i \in 1 .. m : s[i] \in X
  BY SeqLen, SeqEmpty, SeqAt, Zenon DEF X
<1>2. u \in Seq(X) /\ Len(u) = m - 1 /\ \A i \in 1 .. m - 1 : u[i] = s[i + 1]
  <2>1. u \in Seq(X) /\ Len(u) = Len(a) - 1 /\ \A i \in 1 .. Len(u) : u[i] = a[i + 1]
    BY SeqHeadTail, Zenon DEF X
  <2> HIDE DEF u, X
  <2> QED BY <1>1, <2>1
<1>3. t = IF m > 1 /\ ~s[1].tail THEN [u EXCEPT ![1].vc = v] ELSE u
  BY ZenonT(30) DEF PopFlit
<1> HIDE DEF u, m
<1>4. CASE m > 1 /\ ~s[1].tail
  <2> DEFINE e == [u[1] EXCEPT !.vc = v]
  <2>1. t = [u EXCEPT ![1] = e]
    BY <1>3, <1>4, Zenon
  <2>2. u[1] = s[2] /\ s[2] \in X /\ 1 \in 1 .. Len(u)
    BY <1>1, <1>2, <1>4
  <2>3. e \in X /\ e.pid = s[2].pid /\ e.head = s[2].head /\ e.tail = s[2].tail /\ e.vc = v
    BY <2>2, Zenon DEF X, WaitingFlit
  <2> HIDE DEF e, X
  <2>4. /\ t \in Seq(X) /\ Len(t) = Len(u)
        /\ \A j \in 1 .. Len(u) : t[j] = IF j = 1 THEN e ELSE u[j]
    BY <1>2, <2>1, <2>2, <2>3, SeqExcept
  <2>5. ASSUME NEW i \in 1 .. m - 1
        PROVE  /\ t[i].pid = s[i + 1].pid /\ t[i].head = s[i + 1].head
               /\ t[i].tail = s[i + 1].tail
               /\ t[i].vc = IF i = 1 /\ ~s[1].tail THEN v ELSE s[i + 1].vc
    <3>1. CASE i = 1
      <4>1. t[i] = e /\ s[i + 1] = s[2]
        BY <1>2, <2>4, <3>1
      <4> QED BY <1>4, <2>3, <3>1, <4>1, Zenon
    <3>2. CASE i # 1
      <4>1. t[i] = s[i + 1]
        BY <1>2, <2>4, <3>2, Zenon
      <4> QED BY <3>2, <4>1, Zenon
    <3> QED BY <3>1, <3>2, Zenon
  <2> QED BY <1>2, <2>4, <2>5, Zenon DEF Popped, m, X
<1>5. CASE ~(m > 1 /\ ~s[1].tail)
  <2>1. t = u
    BY <1>3, <1>5, Zenon
  <2>2. ASSUME NEW i \in 1 .. m - 1
        PROVE  t[i] = s[i + 1] /\ ~(i = 1 /\ ~s[1].tail)
    BY <1>1, <1>2, <1>5, <2>1
  <2> QED BY <1>2, <2>1, <2>2, Zenon DEF Popped, m, X
<1> QED BY <1>4, <1>5, Zenon

(* What is left is again such a queue. *)
LEMMA PoppedQueue ==
  ASSUME NEW c, NEW s \in Seq(WaitingFlit(c)), Queue(s), s # <<>>, NEW v,
         NEW t \in Seq(WaitingFlit(c)), Popped(s, t, v)
  PROVE  Leaves(s, t, v)
<1> DEFINE m == Len(s)
<1>1. m \in Nat \ {0} /\ DOMAIN s = 1 .. m
  BY SeqLen, SeqEmpty, Zenon
<1>5. Head(s) = s[1]
  OBVIOUS
<1>7. /\ Len(t) = m - 1 /\ DOMAIN t = 1 .. m - 1
      /\ \A i \in 1 .. m - 1 :
           /\ t[i].pid = s[i + 1].pid /\ t[i].head = s[i + 1].head /\ t[i].tail = s[i + 1].tail
           /\ t[i].vc = IF i = 1 /\ ~s[1].tail THEN v ELSE s[i + 1].vc
  BY SeqLen, Zenon DEF Popped
<1> HIDE DEF m
<1>8. \A i \in DOMAIN t : i \in Int /\ i >= 1 /\ i + 1 \in DOMAIN s /\ 1 \in DOMAIN s
  BY <1>1, <1>7
<1>9. NoVCYet(t)
  <2> SUFFICES ASSUME NEW i \in DOMAIN t, i > 1 \/ t[i].head PROVE t[i].vc = -1
    BY Zenon DEF NoVCYet
  <2>1. s[i + 1].vc = -1
    BY <1>8 DEF Queue, NoVCYet
  <2>2. i = 1 => (s[2].head <=> s[1].tail)
    <3>1. i = 1 => 1 \in DOMAIN s /\ 1 + 1 \in DOMAIN s
      BY <1>8, Zenon
    <3> QED BY <3>1 DEF Queue, WholeRest
  <2>3. i = 1 => t[i].head = s[2].head
    BY <1>7
  <2>4. ~(i = 1 /\ ~s[1].tail)
    BY <2>2, <2>3
  <2> QED BY <1>7, <2>1, <2>4, Zenon
<1>10. WholeRest(t)
  <2>1. ASSUME NEW i \in DOMAIN t, i + 1 \in DOMAIN t
        PROVE  (t[i + 1].head <=> t[i].tail) /\ (~t[i].tail => t[i + 1].pid = t[i].pid)
    <3>1. i + 1 \in DOMAIN s /\ (i + 1) + 1 \in DOMAIN s
      BY <1>8, <2>1, Zenon
    <3>2. /\ (s[(i + 1) + 1].head <=> s[i + 1].tail)
          /\ (~s[i + 1].tail => s[(i + 1) + 1].pid = s[i + 1].pid)
      BY <3>1, Zenon DEF Queue, WholeRest
    <3>3. /\ t[i].pid = s[i + 1].pid /\ t[i].tail = s[i + 1].tail
          /\ t[i + 1].pid = s[(i + 1) + 1].pid /\ t[i + 1].head = s[(i + 1) + 1].head
      BY <1>7, <2>1, Zenon
    <3> QED BY <3>2, <3>3, Zenon
  <2>2. t # <<>> => t[Len(t)].tail
    <3>1. t # <<>> => m - 1 \in 1 .. m - 1
      BY <1>1, <1>7, SeqEmpty
    <3>2. (m - 1) + 1 = m
      BY <1>1
    <3>3. s[m].tail
      BY Zenon DEF Queue, WholeRest, m
    <3> QED BY <1>7, <3>1, <3>2, <3>3, Zenon
  <2> QED BY <2>1, <2>2, Zenon DEF WholeRest
<1>11. Once(t)
  <2> SUFFICES ASSUME NEW i \in DOMAIN t, NEW j \in DOMAIN t, i < j, t[j].head
               PROVE  t[i].pid # t[j].pid
    BY Zenon DEF Once
  <2>1. i + 1 \in DOMAIN s /\ j + 1 \in DOMAIN s /\ i + 1 < j + 1
    BY <1>8
  <2>2. s[j + 1].head /\ t[i].pid = s[i + 1].pid /\ t[j].pid = s[j + 1].pid
    BY <1>7, Zenon
  <2> QED BY <2>1, <2>2, Zenon DEF Queue, Once
<1>12. PidsIn(t) \subseteq PidsIn(s)
  BY <1>7, <1>8, Zenon DEF PidsIn
<1>13. HeadsIn(t) \subseteq HeadsIn(s) \ {Head(s).pid}
  <2> SUFFICES ASSUME NEW i \in DOMAIN t, t[i].head
               PROVE  t[i].pid \in HeadsIn(s) /\ t[i].pid # s[1].pid
    BY <1>5, Zenon DEF HeadsIn
  <2>1. i + 1 \in DOMAIN s /\ 1 \in DOMAIN s /\ 1 < i + 1
    BY <1>8
  <2>2. s[i + 1].head /\ t[i].pid = s[i + 1].pid
    BY <1>7, Zenon
  <2> QED BY <2>1, <2>2, Zenon DEF Queue, Once, HeadsIn
<1>14. ASSUME t # <<>>, ~Head(t).head
       PROVE  ~Head(s).tail /\ Head(t).pid = Head(s).pid /\ Head(t).vc = v
  <2>1. 1 \in DOMAIN t /\ Head(t) = t[1]
    BY <1>1, <1>7, <1>14, SeqEmpty
  <2>2. 1 \in DOMAIN s /\ 1 + 1 \in DOMAIN s
    BY <1>8, <2>1, Zenon
  <2>3. /\ t[1].pid = s[2].pid /\ t[1].head = s[2].head
        /\ t[1].vc = IF ~s[1].tail THEN v ELSE s[2].vc
    BY <1>7, <2>1
  <2>4. (s[2].head <=> s[1].tail) /\ (~s[1].tail => s[2].pid = s[1].pid)
    BY <2>2 DEF Queue, WholeRest
  <2> QED BY <1>5, <1>14, <2>1, <2>3, <2>4
<1> QED BY <1>9, <1>10, <1>11, <1>12, <1>13, <1>14, Zenon DEF Queue, GoesOn, Leaves

(* The first flit is sent on VC v. *)
LEMMA QueuePop ==
  ASSUME NEW c, NEW s \in Seq(WaitingFlit(c)), Queue(s), s # <<>>,
         NEW v \in BeginVC[c] .. EndVC[c],
         NEW a, a = [s EXCEPT ![1].vc = v], NEW t, t = PopFlit(a)
  PROVE  t \in Seq(WaitingFlit(c)) /\ Leaves(s, t, v)
<1>1. s[1] \in WaitingFlit(c) /\ Head(s) = s[1]
  BY SeqLen, SeqEmpty, SeqAt
<1>2. /\ a \in Seq(WaitingFlit(c)) /\ Len(a) = Len(s) /\ a # <<>>
      /\ \A i \in 2 .. Len(s) : a[i] = s[i]
      /\ Head(a) = [Head(s) EXCEPT !.vc = v]
  BY SetVC
<1>3. Head(a).tail = s[1].tail /\ Head(a).vc = v
  BY <1>1, <1>2, Zenon DEF WaitingFlit
<1>4. t \in Seq(WaitingFlit(c)) /\ Popped(s, t, v)
  BY <1>2, <1>3, PopIs, ZenonT(30)
<1>5. Leaves(s, t, v)
  BY <1>4, PoppedQueue, Zenon
<1> QED BY <1>4, <1>5, Zenon

-----------------------------------------------------------------------------
(* The search for a VC and the round over the classes. *)

(* A class has VCs. *)
LEMMA ClassVCs ==
  ASSUME NEW c \in Classes
  PROVE  /\ BeginVC[c] \in Int /\ EndVC[c] \in Int /\ BeginVC[c] <= EndVC[c]
         /\ BeginVC[c] .. EndVC[c] \subseteq VCs /\ -1 \notin VCs
  BY InjectionAssumption, BufferAssumption DEF VCs

(* FindVC finds a VC of the class that is free and has room, or none. *)
Found(c, v) ==
  v \in BeginVC[c] .. EndVC[c] /\ IsAvailableFor(bs, v) /\ ~IsFullFor(bs, v)

(* What FindVC returns is such a VC. *)
LEMMA FindVCFinds ==
  ASSUME NEW c \in Classes, lastVC[c] \in BeginVC[c] .. EndVC[c], FindVC(c) # -1
  PROVE  Found(c, FindVC(c))
<1> DEFINE free == {i \in 1 .. VCCount(c) :
                      IsAvailableFor(bs, TriedVC(c, i)) /\ ~IsFullFor(bs, TriedVC(c, i))}
           first == CHOOSE i \in free : \A j \in free : i <= j
<1>1. free # {} /\ FindVC(c) = TriedVC(c, first)
  BY Zenon DEF FindVC
<1>2. free \subseteq Nat
  BY ClassVCs DEF VCCount
<1>3. first \in free
  <2> HIDE DEF free
  <2>1. PICK m \in free : \A k \in free : ~(<<k, m>> \in OpToRel(<, Nat))
    BY <1>1, <1>2, WFMin, NatLessThanWellFounded, ZenonT(30)
  <2>2. \A j, k \in Nat : j < k => <<j, k>> \in OpToRel(<, Nat)
    BY Zenon DEF OpToRel
  <2>3. \A k \in free : ~(k < m)
    BY <1>2, <2>1, <2>2, ZenonT(30)
  <2>4. \A k \in free : m <= k
    BY <1>2, <2>3
  <2> QED BY <2>4, Zenon
<1>4. ASSUME NEW i \in 1 .. VCCount(c) PROVE TriedVC(c, i) \in BeginVC[c] .. EndVC[c]
  <2> DEFINE b == BeginVC[c]
             n == VCCount(c)
             x == (lastVC[c] - b) + i
  <2>1. b \in Int /\ EndVC[c] \in Int /\ n = (EndVC[c] - b) + 1 /\ n \in Nat \ {0} /\ x \in Nat
    BY <1>4, ClassVCs DEF VCCount
  <2>2. TriedVC(c, i) = b + (x % n)
    BY Zenon DEF TriedVC
  <2> HIDE DEF b, n, x
  <2>3. x % n \in 0 .. n - 1
    BY <2>1
  <2>4. b + (x % n) \in b .. EndVC[c]
    BY <2>1, <2>3
  <2> QED BY <2>2, <2>4, Zenon DEF b
<1> HIDE DEF first
<1>5. TriedVC(c, first) \in BeginVC[c] .. EndVC[c]
  BY <1>3, <1>4, Zenon
<1> QED BY <1>1, <1>3, <1>5, Zenon DEF Found

(* No two classes have the same turn. *)
LEMMA TurnsDiffer ==
  ASSUME lastClass \in Classes, NEW c \in Classes, NEW d \in Classes, c # d
  PROVE  Turn(c) \in Int /\ Turn(d) \in Int /\ Turn(c) # Turn(d)
<1> DEFINE N == NumClasses
           l == lastClass
           T(e) == 1 + (((e - l) - 1) % N)
<1>1. N \in Nat \ {0} /\ l \in 0 .. N - 1 /\ c \in 0 .. N - 1 /\ d \in 0 .. N - 1
  BY InjectionAssumption, Zenon DEF Classes
<1>2. \A e : Turn(e) = IF Holding /\ e = l THEN 0 ELSE T(e)
  BY Zenon DEF Turn
<1> HIDE DEF l, N
<1>3. ASSUME NEW e \in 0 .. N - 1
      PROVE  ((e - l) - 1) % N = IF e > l THEN (e - l) - 1 ELSE ((e - l) - 1) + N
  <2>1. CASE e > l
    <3>1. (e - l) - 1 \in 0 .. N - 1
      BY <1>1, <2>1
    <3>2. \A y \in 0 .. N - 1 : y % N = y
      BY <1>1
    <3> QED BY <2>1, <3>1, <3>2, Zenon
  <2>2. CASE ~(e > l)
    <3>1. (e - l) - 1 \in -N .. -1
      BY <1>1, <2>2
    <3>2. \A y \in -N .. -1 : y % N = y + N
      BY <1>1
    <3> QED BY <2>2, <3>1, <3>2, Zenon
  <2> QED BY <2>1, <2>2, Zenon
<1>4. T(c) = IF c > l THEN c - l ELSE (c - l) + N
  BY <1>1, <1>3
<1>5. T(d) = IF d > l THEN d - l ELSE (d - l) + N
  BY <1>1, <1>3
<1> HIDE DEF T
<1>6. T(c) \in Int /\ T(d) \in Int /\ T(c) # T(d) /\ T(c) # 0 /\ T(d) # 0
  BY <1>1, <1>4, <1>5
<1> QED BY <1>2, <1>6

-----------------------------------------------------------------------------
(* The invariant of injection. *)
Apart == \A c, d \in Classes : c # d => PidsIn(partial[c]) \cap PidsIn(partial[d]) = {}
HeadsFresh == \A c \in Classes : \A p \in HeadsIn(partial[c]) : Fresh(p)
QueueInv ==
  /\ InjTypeOK /\ \A c \in Classes : Queue(partial[c])
  /\ Apart /\ HeadsFresh /\ RestHasVC
InjInv == HolderInv /\ QueueInv

(* What is known of a class with flits waiting. *)
LEMMA FrontIs ==
  ASSUME QueueInv, NEW c \in Classes, partial[c] # <<>>
  PROVE  /\ partial[c] \in Seq(WaitingFlit(c)) /\ Queue(partial[c])
         /\ Front(c) = partial[c][1] /\ Front(c) \in WaitingFlit(c)
         /\ Front(c).head => Front(c).vc = -1
         /\ ~Front(c).head => /\ Front(c).vc = lastVC[c]
                              /\ open[Front(c).vc] = [pid |-> Front(c).pid, begun |-> TRUE]
         /\ Front(c).pid \in PidsIn(partial[c])
         /\ Front(c).head => Front(c).pid \in HeadsIn(partial[c])
         /\ lastVC[c] \in BeginVC[c] .. EndVC[c]
<1>1. /\ partial[c] \in Seq(WaitingFlit(c)) /\ Queue(partial[c])
      /\ lastVC[c] \in BeginVC[c] .. EndVC[c]
  BY Zenon DEF QueueInv, InjTypeOK, WaitingFlit
<1>2. Front(c) = partial[c][1] /\ 1 \in DOMAIN partial[c] /\ Front(c) \in WaitingFlit(c)
  BY <1>1, SeqLen, SeqEmpty, SeqAt DEF Front
<1>3. Front(c).head => Front(c).vc = -1
  BY <1>1, <1>2, Zenon DEF Queue, NoVCYet
<1>4. ~Front(c).head => /\ Front(c).vc = lastVC[c]
                        /\ open[Front(c).vc] = [pid |-> Front(c).pid, begun |-> TRUE]
  BY Zenon DEF QueueInv, RestHasVC, Front
<1>5. /\ Front(c).pid \in PidsIn(partial[c])
      /\ Front(c).head => Front(c).pid \in HeadsIn(partial[c])
  BY <1>2, Zenon DEF PidsIn, HeadsIn
<1> QED BY <1>1, <1>2, <1>3, <1>4, <1>5, Zenon

(* A class whose front flit has a VC can send unless that VC is full. *)
LEMMA FrontVCIs ==
  ASSUME QueueInv, NEW c \in Classes, partial[c] # <<>>
  PROVE  /\ Front(c).head => /\ FrontVC(c) = FindVC(c)
                             /\ FrontVC(c) # -1 => Found(c, FrontVC(c))
         /\ ~Front(c).head => FrontVC(c) = Front(c).vc /\ FrontVC(c) = lastVC[c]
         /\ FrontVC(c) # -1 => FrontVC(c) \in BeginVC[c] .. EndVC[c]
<1>1. /\ Front(c).head => Front(c).vc = -1
      /\ ~Front(c).head => Front(c).vc = lastVC[c]
      /\ lastVC[c] \in BeginVC[c] .. EndVC[c]
  BY FrontIs, ZenonT(30)
<1>2. CASE Front(c).head
  <2>1. FrontVC(c) = FindVC(c)
    BY <1>1, <1>2, Zenon DEF FrontVC
  <2>2. FrontVC(c) # -1 => Found(c, FrontVC(c))
    BY <1>1, <2>1, FindVCFinds, Zenon
  <2> QED BY <1>2, <2>1, <2>2, Zenon DEF Found
<1>3. CASE ~Front(c).head
  BY <1>1, <1>3, Zenon DEF FrontVC
<1> QED BY <1>2, <1>3, Zenon

(* With one priority the other classes keep their flits as they are. *)
LEMMA OthersKept ==
  ASSUME SamePriority, QueueInv, NEW c \in Classes, Wins(c), NEW d \in Classes, d # c
  PROVE  Assigned(d) = partial[d]
<1> SUFFICES ASSUME partial[d] # <<>>, ~Skipped(d) PROVE Assigned(d) = partial[d]
  BY Zenon DEF Assigned
<1>1. CanSend(c) /\ ~Skipped(c) /\ partial[c] # <<>>
  BY Zenon DEF Wins, CanSend
<1>2. Front(c) \in WaitingFlit(c) /\ Front(d) \in WaitingFlit(d)
  BY <1>1, FrontIs, ZenonT(30)
<1>3. Front(c).pri \in PriOf[c] /\ Front(d).pri \in PriOf[d]
  BY <1>2, Zenon DEF WaitingFlit
<1>4. Front(c).pri = Front(d).pri /\ Front(c).pri \in Nat
  BY <1>3, InjectionAssumption, Zenon DEF SamePriority
<1>5. Front(c).pri >= Front(d).pri /\ Front(d).pri >= Front(c).pri
  BY <1>4
<1>6. ~(Turn(c) < Turn(d))
  BY <1>1, <1>5, Zenon DEF Skipped
<1>7. Turn(c) \in Int /\ Turn(d) \in Int /\ Turn(c) # Turn(d)
  BY TurnsDiffer, Zenon DEF QueueInv, InjTypeOK
<1>8. Turn(d) < Turn(c)
  BY <1>6, <1>7
<1>9. ~CanSend(d)
  BY <1>1, <1>5, <1>8, Zenon DEF Skipped
<1>10. FrontVC(d) = Front(d).vc
  <2>1. CASE Front(d).head
    <3>1. Front(d).vc = -1 /\ (FrontVC(d) # -1 => Found(d, FrontVC(d)))
      BY <2>1, FrontIs, FrontVCIs, ZenonT(30)
    <3>2. FrontVC(d) = -1
      BY <1>9, <3>1, Zenon DEF CanSend, Found
    <3> QED BY <3>1, <3>2, Zenon
  <2>2. CASE ~Front(d).head
    BY <2>2, FrontVCIs, Zenon
  <2> QED BY <2>1, <2>2, Zenon
<1> DEFINE s == partial[d]
<1>11. /\ Assigned(d) = [s EXCEPT ![1].vc = s[1].vc] /\ s \in Seq(WaitingFlit(d))
       /\ s[1] \in WaitingFlit(d)
  BY <1>2, <1>10, FrontIs, ZenonT(30) DEF Assigned
<1> HIDE DEF s
<1>12. [s[1] EXCEPT !.vc = s[1].vc] = s[1]
  BY <1>11, Zenon DEF WaitingFlit
<1>13. [s EXCEPT ![1].vc = s[1].vc] = s
  BY <1>11, <1>12
<1> QED BY <1>11, <1>13, Zenon DEF s

-----------------------------------------------------------------------------
(* A packet that is nowhere under way stays so. *)
LEMMA FreshSend ==
  ASSUME Typed, NEW p \in Pids, Fresh(p), NEW b, NEW f \in FlitSet, SendOn(b, f),
         UNCHANGED buffer, p # f.pid
  PROVE  Fresh(p)'
<1>1. f.vc \in VCs /\ channel \in Seq(FlitSet) /\ DOMAIN open = VCs
  BY FlitTyped, Zenon DEF Typed
<1>2. p # -1
  BY LoopAssumption DEF Pids
<1>3. \A u \in VCs : open'[u].pid # p
  <2> DEFINE e == IF f.tail THEN NoPacket ELSE [pid |-> f.pid, begun |-> TRUE]
  <2>1. e.pid # p
    BY <1>2, Zenon DEF NoPacket
  <2>2. open' = [open EXCEPT ![f.vc] = e]
    BY Zenon DEF SendOn
  <2> HIDE DEF e
  <2>3. \A u \in VCs : open'[u] = e \/ open'[u] = open[u]
    BY <1>1, <2>2, Zenon
  <2> QED BY <2>1, <2>3, Zenon DEF Fresh
<1>4. \A i \in DOMAIN channel' : channel'[i].pid # p
  <2>1. /\ channel' = Append(channel, f) /\ Len(channel) \in Nat
        /\ DOMAIN channel = 1 .. Len(channel)
    BY <1>1, SeqLen, Zenon DEF SendOn
  <2>2. /\ channel' \in Seq(FlitSet) /\ Len(channel') = Len(channel) + 1
        /\ \A i \in 1 .. Len(channel) : channel'[i] = channel[i]
        /\ channel'[Len(channel) + 1] = f
    BY <1>1, <2>1, SeqAppend
  <2>3. DOMAIN channel' = 1 .. Len(channel')
    BY <2>2, SeqLen, Zenon
  <2>4. \A i \in DOMAIN channel' : i = Len(channel) + 1 \/ i \in 1 .. Len(channel)
    BY <2>1, <2>2, <2>3
  <2> QED BY <2>1, <2>2, <2>4, Zenon DEF Fresh
<1> QED BY <1>3, <1>4, Zenon DEF Fresh

(* The router's steps bring no packet back. *)
LEMMA FreshArrive ==
  ASSUME Typed, NEW p, Fresh(p), Arrive
  PROVE  Fresh(p)'
<1> DEFINE f == Head(channel)
<1>1. /\ channel \in Seq(FlitSet) /\ channel # <<>> /\ buffer \in [VCs -> Seq(FlitSet)]
      /\ channel' = Tail(channel) /\ buffer' = [buffer EXCEPT ![f.vc] = Append(@, f)]
      /\ open' = open
  BY Zenon DEF Typed, Arrive
<1>2. /\ Len(channel) \in Nat \ {0} /\ DOMAIN channel = 1 .. Len(channel) /\ f = channel[1]
      /\ f \in FlitSet
  BY <1>1, SeqLen, SeqEmpty, SeqHeadTail
<1>3. f.pid # p
  BY <1>2 DEF Fresh
<1>4. \A i \in DOMAIN channel' : i + 1 \in DOMAIN channel /\ channel'[i] = channel[i + 1]
  <2>1. /\ channel' \in Seq(FlitSet) /\ Len(channel') = Len(channel) - 1
        /\ \A i \in 1 .. Len(channel') : channel'[i] = channel[i + 1]
    BY <1>1, SeqHeadTail, Zenon
  <2>2. DOMAIN channel' = 1 .. Len(channel')
    BY <2>1, SeqLen, Zenon
  <2> QED BY <1>2, <2>1, <2>2
<1>5. \A i \in DOMAIN channel' : channel'[i].pid # p
  BY <1>4, Zenon DEF Fresh
<1> HIDE DEF f
<1>6. ASSUME NEW v \in VCs, NEW i \in DOMAIN buffer'[v] PROVE buffer'[v][i].pid # p
  <2>1. CASE v = f.vc
    <3> DEFINE q == buffer[v]
    <3>1. q \in Seq(FlitSet) /\ buffer'[v] = Append(q, f)
      BY <1>1, <2>1, Zenon
    <3>2. /\ Len(q) \in Nat /\ DOMAIN q = 1 .. Len(q)
          /\ Append(q, f) \in Seq(FlitSet) /\ Len(Append(q, f)) = Len(q) + 1
          /\ \A j \in 1 .. Len(q) : Append(q, f)[j] = q[j]
          /\ Append(q, f)[Len(q) + 1] = f
      BY <1>2, <3>1, SeqAppend, SeqLen
    <3>3. DOMAIN Append(q, f) = 1 .. Len(q) + 1
      BY <3>2, SeqLen, Zenon
    <3>4. i = Len(q) + 1 \/ i \in 1 .. Len(q)
      BY <1>6, <3>1, <3>2, <3>3
    <3>5. \A j \in 1 .. Len(q) : q[j].pid # p
      BY <3>2, Zenon DEF Fresh
    <3> QED BY <1>3, <3>1, <3>2, <3>4, <3>5, Zenon
  <2>2. CASE v # f.vc
    <3>1. buffer'[v] = buffer[v]
      BY <1>1, <2>2, Zenon
    <3> QED BY <1>6, <3>1, Zenon DEF Fresh
  <2> QED BY <2>1, <2>2, Zenon
<1> QED BY <1>1, <1>5, <1>6, Zenon DEF Fresh

(* A flit that leaves the buffer brings no packet back. *)
LEMMA FreshDrain ==
  ASSUME Typed, NEW p, Fresh(p), NEW u \in VCs, Drain(u)
  PROVE  Fresh(p)'
<1>1. /\ buffer \in [VCs -> Seq(FlitSet)] /\ buffer[u] # <<>>
      /\ buffer' = [buffer EXCEPT ![u] = Tail(@)] /\ open' = open /\ channel' = channel
  BY Zenon DEF Typed, Drain
<1>2. ASSUME NEW v \in VCs, NEW i \in DOMAIN buffer'[v] PROVE buffer'[v][i].pid # p
  <2>1. CASE v = u
    <3> DEFINE q == buffer[u]
    <3>1. q \in Seq(FlitSet) /\ q # <<>> /\ buffer'[v] = Tail(q)
      BY <1>1, <2>1, Zenon
    <3>2. /\ Tail(q) \in Seq(FlitSet) /\ Len(Tail(q)) = Len(q) - 1 /\ Len(q) \in Nat
          /\ \A j \in 1 .. Len(Tail(q)) : Tail(q)[j] = q[j + 1]
      BY <3>1, SeqHeadTail, SeqLen, Zenon
    <3>3. DOMAIN Tail(q) = 1 .. Len(Tail(q)) /\ DOMAIN q = 1 .. Len(q)
      BY <3>1, <3>2, SeqLen, Zenon
    <3>4. i + 1 \in DOMAIN q /\ Tail(q)[i] = q[i + 1]
      BY <1>2, <3>1, <3>2, <3>3
    <3> QED BY <2>1, <3>1, <3>4, Zenon DEF Fresh
  <2>2. CASE v # u
    <3>1. buffer'[v] = buffer[v]
      BY <1>1, <2>2, Zenon
    <3> QED BY <1>2, <3>1, Zenon DEF Fresh
  <2> QED BY <2>1, <2>2, Zenon
<1> QED BY <1>1, <1>2, Zenon DEF Fresh

-----------------------------------------------------------------------------
(* The flit that is sent keeps the rules of BufferState. *)
LEMMA WinnerSends ==
  ASSUME QueueInv, NEW c \in Classes, Inject(c)
  PROVE  /\ partial[c] # <<>> /\ ~Skipped(c) /\ CanSend(c)
         /\ FrontVC(c) \in BeginVC[c] .. EndVC[c] /\ FrontVC(c) \in VCs
         /\ ~IsFullFor(bs, FrontVC(c))
         /\ Assigned(c) = [partial[c] EXCEPT ![1].vc = FrontVC(c)]
         /\ Head(Assigned(c)) = [Front(c) EXCEPT !.vc = FrontVC(c)]
<1>1. CanSend(c) /\ ~Skipped(c)
  BY Zenon DEF Inject, Wins
<1>2. partial[c] # <<>> /\ FrontVC(c) # -1 /\ ~IsFullFor(bs, FrontVC(c))
  BY <1>1, Zenon DEF CanSend
<1>3. FrontVC(c) \in BeginVC[c] .. EndVC[c] /\ FrontVC(c) \in VCs
  BY <1>2, FrontVCIs, ClassVCs, Zenon
<1>4. Assigned(c) = [partial[c] EXCEPT ![1].vc = FrontVC(c)]
  BY <1>1, <1>2, Zenon DEF Assigned
<1>5. partial[c] \in Seq(WaitingFlit(c))
  BY <1>2, FrontIs, ZenonT(30)
<1>6. Head(Assigned(c)) = [Head(partial[c]) EXCEPT !.vc = FrontVC(c)]
  BY <1>2, <1>3, <1>4, <1>5, SetVC
<1> QED BY <1>1, <1>2, <1>3, <1>4, <1>6, Zenon DEF Front

(* Injection of class c is a step of the general sender. *)
LEMMA InjectIsLoopStep ==
  ASSUME InjInv, NEW c \in Classes, Inject(c)
  PROVE  /\ LoopNext /\ UNCHANGED buffer
         /\ \E b : SendOn(b, Flit(Front(c).pid, Front(c).head, Front(c).tail, FrontVC(c)))
         /\ Front(c).head => open[FrontVC(c)] = NoPacket
         /\ lastVC' = IF Front(c).head THEN [lastVC EXCEPT ![c] = FrontVC(c)] ELSE lastVC
<1> DEFINE g == Front(c)
           v == FrontVC(c)
           f == Head(Assigned(c))
<1>1. /\ partial[c] # <<>> /\ v \in VCs /\ ~IsFullFor(bs, v) /\ f = [g EXCEPT !.vc = v]
  BY WinnerSends, Zenon DEF InjInv
<1>2. g \in WaitingFlit(c)
  BY <1>1, FrontIs, ZenonT(30) DEF InjInv
<1>3. g.pid \in Pids /\ g.head \in BOOLEAN /\ g.tail \in BOOLEAN
  BY <1>2, Zenon DEF WaitingFlit
<1>4. f.pid = g.pid /\ f.head = g.head /\ f.tail = g.tail /\ f.vc = v
  BY <1>1, <1>2, Zenon DEF WaitingFlit
<1>5. /\ SendOn(WithVC(f), Flit(g.pid, g.head, g.tail, v))
      /\ UNCHANGED <<buffer, expected, credits>>
      /\ lastVC' = IF g.head THEN [lastVC EXCEPT ![c] = v] ELSE lastVC
  BY <1>4, ZenonT(30) DEF Inject
<1>6. CASE g.head
  <2>1. Found(c, v)
    BY <1>1, <1>6, FrontVCIs, WinnerSends, ClassVCs, Zenon DEF InjInv
  <2>2. Fresh(g.pid)
    BY <1>1, <1>6, FrontIs, ZenonT(30) DEF InjInv, QueueInv, HeadsFresh
  <2>3. WithVC(f) = TakeBuffer(bs, v, g.pid)
    BY <1>4, <1>6, ZenonT(30) DEF WithVC
  <2>4. Flit(g.pid, g.head, g.tail, v) = Flit(g.pid, TRUE, g.tail, v)
    BY <1>3, <1>6, Zenon
  <2>5. SendOn(TakeBuffer(bs, v, g.pid), Flit(g.pid, TRUE, g.tail, v))
    BY <1>5, <2>3, <2>4, ZenonT(30)
  <2> HIDE DEF g, v, f
  <2>6. TakeAndSend(g.pid, v, g.tail)
    BY <1>1, <1>5, <2>1, <2>2, <2>5, ZenonT(30) DEF TakeAndSend, Found
  <2>7. LoopNext
    BY <1>1, <1>3, <2>6, Zenon DEF LoopNext
  <2>8. bs.in_use_by[v] \in Int /\ bs.in_use_by[v] < 0 /\ VCHeld(bs, open, v)
    BY <1>1, <2>1, Zenon
    DEF Found, IsAvailableFor, InjInv, HolderInv, HeldFor, CreditInv, Keeping, Raw
  <2>9. open[v] = NoPacket
    BY <2>8 DEF VCHeld
  <2> QED BY <1>5, <2>7, <2>9, Zenon DEF g, v
<1>7. CASE ~g.head
  <2>1. v = g.vc /\ open[v] = [pid |-> g.pid, begun |-> TRUE]
    BY <1>1, <1>7, FrontIs, FrontVCIs, Zenon DEF InjInv
  <2>2. WithVC(f) = bs
    BY <1>4, <1>7, Zenon DEF WithVC
  <2>3. Flit(g.pid, g.head, g.tail, v) = Flit(open[v].pid, ~open[v].begun, g.tail, v)
    BY <1>3, <1>7, <2>1
  <2>4. open[v] # NoPacket
    BY <2>1 DEF NoPacket
  <2>5. SendOn(bs, Flit(open[v].pid, ~open[v].begun, g.tail, v))
    BY <1>5, <2>2, <2>3, Zenon
  <2> HIDE DEF g, v, f
  <2>6. Send(v, g.tail)
    BY <1>1, <1>5, <2>4, <2>5, Zenon DEF Send
  <2>7. LoopNext
    BY <1>1, <1>3, <2>6, Zenon DEF LoopNext
  <2> QED BY <1>5, <1>7, <2>7, Zenon DEF g, v
<1> QED BY <1>6, <1>7, Zenon

(* Injection keeps the queues. *)
LEMMA InjectQueues ==
  ASSUME SamePriority, InjInv, NEW c \in Classes, Inject(c)
  PROVE  QueueInv'
<1> DEFINE g == Front(c)
           v == FrontVC(c)
           F == Flit(g.pid, g.head, g.tail, v)
           s == partial[c]
           a == Assigned(c)
           t == PopFlit(a)
<1>0. QueueInv /\ HolderInv /\ InjTypeOK /\ Typed /\ DOMAIN open = VCs
  BY Zenon DEF InjInv, QueueInv, HolderInv, CreditInv, Typed
<1>1. /\ s # <<>> /\ v \in BeginVC[c] .. EndVC[c] /\ v \in VCs
      /\ a = [s EXCEPT ![1].vc = v]
  BY <1>0, WinnerSends, Zenon
<1>2. /\ s \in Seq(WaitingFlit(c)) /\ Queue(s) /\ g \in WaitingFlit(c) /\ g = Head(s)
      /\ g.pid \in PidsIn(s) /\ (~g.head => open[v] = [pid |-> g.pid, begun |-> TRUE])
      /\ (~g.head => v = lastVC[c])
  BY <1>0, <1>1, FrontIs, FrontVCIs, ZenonT(30) DEF Front
<1>3. g.pid \in Pids /\ g.head \in BOOLEAN /\ g.tail \in BOOLEAN
  BY <1>2, Zenon DEF WaitingFlit
<1>4. F \in FlitSet /\ F.pid = g.pid /\ F.vc = v /\ F.tail = g.tail
  BY <1>1, <1>3, Zenon DEF Flit, FlitSet
<1>5. PICK b : SendOn(b, F)
  BY InjectIsLoopStep, Zenon
<1>6. /\ buffer' = buffer /\ (g.head => open[v] = NoPacket)
      /\ lastVC' = IF g.head THEN [lastVC EXCEPT ![c] = v] ELSE lastVC
  BY InjectIsLoopStep, Zenon
<1>7. /\ DOMAIN partial' = Classes /\ partial'[c] = t
      /\ \A d \in Classes : d # c => partial'[d] = partial[d]
  BY <1>0, OthersKept, Zenon DEF Inject
<1>8. t \in Seq(WaitingFlit(c)) /\ Leaves(s, t, v)
  <2> HIDE DEF s, v, a, t
  <2>1. t = PopFlit(a)
    BY Zenon DEF t
  <2> QED BY <1>1, <1>2, <2>1, QueuePop, ZenonT(30)
<1>9. /\ Queue(t) /\ GoesOn(s, t, v)
      /\ PidsIn(t) \subseteq PidsIn(s) /\ HeadsIn(t) \subseteq HeadsIn(s) \ {g.pid}
  BY <1>2, <1>8, Zenon DEF Leaves
<1>10. lastClass' = c /\ hold' = hold
  BY Zenon DEF Inject
<1>11. /\ DOMAIN lastVC' = Classes /\ \A d \in Classes : d # c => lastVC'[d] = lastVC[d]
       /\ lastVC'[c] = v
  BY <1>0, <1>2, <1>6, Zenon DEF InjTypeOK
<1>12. open' = [open EXCEPT ![v] = IF g.tail THEN NoPacket ELSE [pid |-> g.pid, begun |-> TRUE]]
  BY <1>4, <1>5, Zenon DEF SendOn
<1> HIDE DEF g, v, F, s, a, t
<1>13. \A d \in Classes : partial'[d] \in Seq(WaitingFlit(d)) /\ Queue(partial'[d])
  BY <1>0, <1>7, <1>8, <1>9, ZenonT(30) DEF InjTypeOK, QueueInv, WaitingFlit
<1>14. InjTypeOK'
  <2>1. \A d \in Classes : lastVC'[d] \in BeginVC[d] .. EndVC[d]
    BY <1>0, <1>1, <1>11, Zenon DEF InjTypeOK
  <2> QED BY <1>0, <1>7, <1>10, <1>11, <1>13, <2>1 DEF InjTypeOK, WaitingFlit
<1>15. \A d \in Classes : PidsIn(partial'[d]) \subseteq PidsIn(partial[d])
  BY <1>7, <1>9, Zenon DEF s
<1>16. Apart'
  BY <1>0, <1>15, Zenon DEF Apart, QueueInv
<1>17. HeadsFresh'
  <2> SUFFICES ASSUME NEW d \in Classes, NEW p \in HeadsIn(partial'[d]) PROVE Fresh(p)'
    BY Zenon DEF HeadsFresh
  <2>1. p \in HeadsIn(partial[d]) /\ p # g.pid
    <3>1. CASE d = c
      BY <1>7, <1>9, <3>1, Zenon DEF s
    <3>2. CASE d # c
      <4>1. p \in HeadsIn(partial[d])
        BY <1>7, <3>2, Zenon
      <4>2. p \in PidsIn(partial[d])
        BY <4>1, Zenon DEF HeadsIn, PidsIn
      <4>3. g.pid \in PidsIn(partial[c])
        BY <1>2, Zenon DEF s
      <4>4. PidsIn(partial[c]) \cap PidsIn(partial[d]) = {}
        BY <1>0, <3>2, Zenon DEF QueueInv, Apart
      <4> QED BY <4>1, <4>2, <4>3, <4>4, Zenon
    <3> QED BY <3>1, <3>2, Zenon
  <2>2. Fresh(p)
    BY <1>0, <2>1, Zenon DEF QueueInv, HeadsFresh
  <2>3. p \in Pids
    <3>1. PICK i \in DOMAIN partial[d] : p = partial[d][i].pid
      BY <2>1, Zenon DEF HeadsIn
    <3>2. partial[d] \in Seq(WaitingFlit(d))
      BY <1>0, Zenon DEF InjTypeOK, WaitingFlit
    <3>3. partial[d][i] \in WaitingFlit(d)
      BY <3>1, <3>2, SeqLen, SeqAt, Zenon
    <3> QED BY <3>1, <3>3, Zenon DEF WaitingFlit
  <2> QED BY <1>0, <1>4, <1>5, <1>6, <2>1, <2>2, <2>3, FreshSend, Zenon
<1>18. RestHasVC'
  <2> SUFFICES ASSUME NEW d \in Classes, partial'[d] # <<>>, ~Head(partial'[d]).head
               PROVE  /\ Head(partial'[d]).vc = lastVC'[d]
                      /\ open'[lastVC'[d]] = [pid |-> Head(partial'[d]).pid, begun |-> TRUE]
    BY Zenon DEF RestHasVC
  <2>1. CASE d = c
    <3>1. ~Head(s).tail /\ Head(t).pid = Head(s).pid /\ Head(t).vc = v
      BY <1>7, <1>9, <2>1, Zenon DEF GoesOn
    <3>2. ~g.tail /\ Head(t).pid = g.pid
      BY <1>2, <3>1, Zenon
    <3>3. open'[v] = [pid |-> g.pid, begun |-> TRUE]
      BY <1>0, <1>1, <1>12, <3>2, Zenon
    <3> QED BY <1>7, <1>11, <2>1, <3>1, <3>2, <3>3, ZenonT(30)
  <2>2. CASE d # c
    <3> DEFINE h == Head(partial[d])
               u == lastVC[d]
    <3>1. partial'[d] = partial[d] /\ lastVC'[d] = u
      BY <1>7, <1>11, <2>2, Zenon
    <3>2. h.vc = u /\ open[u] = [pid |-> h.pid, begun |-> TRUE]
      BY <1>0, <3>1, Zenon DEF QueueInv, RestHasVC
    <3>3. u \in VCs
      BY <1>0, ClassVCs, Zenon DEF InjTypeOK
    <3>4. h.pid # g.pid
      <4>1. h.pid \in PidsIn(partial[d])
        BY <1>0, <3>1, FrontIs, ZenonT(30) DEF Front
      <4>2. g.pid \in PidsIn(partial[c])
        BY <1>2, Zenon DEF s
      <4>3. PidsIn(partial[c]) \cap PidsIn(partial[d]) = {}
        BY <1>0, <2>2, Zenon DEF QueueInv, Apart
      <4> QED BY <4>1, <4>2, <4>3, Zenon
    <3> HIDE DEF h, u
    <3>5. u # v
      <4>1. CASE g.head
        BY <1>6, <3>2, <4>1 DEF NoPacket
      <4>2. CASE ~g.head
        BY <1>2, <3>2, <3>4, <4>2
      <4> QED BY <4>1, <4>2, Zenon
    <3>6. open'[u] = open[u]
      BY <1>0, <1>12, <3>3, <3>5, Zenon
    <3> QED BY <3>1, <3>2, <3>6, Zenon DEF h
  <2> QED BY <2>1, <2>2, Zenon
<1> QED BY <1>13, <1>14, <1>16, <1>17, <1>18, Zenon DEF QueueInv

(* A new packet joins its class. *)
LEMMA GenerateQueues ==
  ASSUME QueueInv, NEW pid \in Pids, NEW c \in Classes, NEW size \in Sizes, NEW pri \in PriOf[c],
         GeneratePacket(pid, c, size, pri)
  PROVE  QueueInv'
<1> DEFINE s == partial[c]
           t == s \o Packet(pid, size, pri)
<1>1. /\ Fresh(pid) /\ ~Waiting(pid) /\ partial' = [partial EXCEPT ![c] = t]
      /\ UNCHANGED <<open, channel, buffer, hold, lastVC, lastClass>>
  BY Zenon DEF GeneratePacket, loopVars
<1>2. size \in Nat \ {0} /\ InjTypeOK /\ s \in Seq(WaitingFlit(c)) /\ Queue(s)
  BY InjectionAssumption, Zenon DEF QueueInv, InjTypeOK, WaitingFlit
<1>3. \A d \in Classes : pid \notin PidsIn(partial[d])
  BY <1>1, Zenon DEF Waiting, PidsIn
<1>4. /\ DOMAIN partial' = Classes /\ partial'[c] = t
      /\ \A d \in Classes : d # c => partial'[d] = partial[d]
  BY <1>1, <1>2, Zenon DEF InjTypeOK
<1>5. pid \notin PidsIn(s) /\ t = s \o Packet(pid, size, pri)
  BY <1>3, Zenon
<1> HIDE DEF s, t
<1>6. /\ t \in Seq(WaitingFlit(c)) /\ Queue(t)
      /\ PidsIn(t) \subseteq PidsIn(s) \cup {pid}
      /\ HeadsIn(t) \subseteq HeadsIn(s) \cup {pid}
      /\ s # <<>> => Head(t) = Head(s)
      /\ s = <<>> => Head(t).head
  <2>1. t \in Seq(WaitingFlit(c)) /\ Joins(s, t, pid)
    BY <1>2, <1>5, QueueAppend, ZenonT(30)
  <2> QED BY <2>1, Zenon DEF Joins
<1>7. \A d \in Classes : partial'[d] \in Seq(WaitingFlit(d)) /\ Queue(partial'[d])
  BY <1>2, <1>4, <1>6, ZenonT(30) DEF InjTypeOK, QueueInv, WaitingFlit
<1>8. InjTypeOK'
  BY <1>1, <1>2, <1>4, <1>7, Zenon DEF InjTypeOK, WaitingFlit
<1>9. Apart'
  <2> SUFFICES ASSUME NEW d \in Classes, NEW e \in Classes, d # e
               PROVE  PidsIn(partial'[d]) \cap PidsIn(partial'[e]) = {}
    BY Zenon DEF Apart
  <2>1. PidsIn(partial[d]) \cap PidsIn(partial[e]) = {}
    BY Zenon DEF QueueInv, Apart
  <2>2. CASE d = c
    BY <1>3, <1>4, <1>6, <2>1, <2>2 DEF s
  <2>3. CASE e = c
    BY <1>3, <1>4, <1>6, <2>1, <2>3, Zenon DEF s
  <2>4. CASE d # c /\ e # c
    BY <1>4, <2>1, <2>4, Zenon
  <2> QED BY <2>2, <2>3, <2>4, Zenon
<1>10. HeadsFresh'
  <2> SUFFICES ASSUME NEW d \in Classes, NEW p \in HeadsIn(partial'[d]) PROVE Fresh(p)'
    BY Zenon DEF HeadsFresh
  <2>1. p = pid \/ p \in HeadsIn(partial[d])
    BY <1>4, <1>6, Zenon DEF s
  <2>2. Fresh(p)
    BY <1>1, <2>1, Zenon DEF QueueInv, HeadsFresh
  <2> QED BY <1>1, <2>2, Zenon DEF Fresh
<1>11. RestHasVC'
  <2> SUFFICES ASSUME NEW d \in Classes, partial'[d] # <<>>, ~Head(partial'[d]).head
               PROVE  /\ Head(partial'[d]).vc = lastVC'[d]
                      /\ open'[lastVC'[d]] = [pid |-> Head(partial'[d]).pid, begun |-> TRUE]
    BY Zenon DEF RestHasVC
  <2>1. partial[d] # <<>> /\ Head(partial'[d]) = Head(partial[d])
    <3>1. CASE d = c
      BY <1>4, <1>6, <3>1, Zenon DEF s
    <3>2. CASE d # c
      BY <1>4, <3>2, Zenon
    <3> QED BY <3>1, <3>2, Zenon
  <2> QED BY <1>1, <2>1, Zenon DEF QueueInv, RestHasVC
<1> QED BY <1>7, <1>8, <1>9, <1>10, <1>11, Zenon DEF QueueInv

(* The router and the credits leave the queues and the open packets alone. *)
LEMMA RestQueues ==
  ASSUME QueueInv, UNCHANGED <<open, injVars>>,
         \A p : Fresh(p) => Fresh(p)'
  PROVE  QueueInv'
<1>1. UNCHANGED <<open, hold, partial, lastVC, lastClass>>
  BY Zenon DEF injVars
<1>2. InjTypeOK' /\ \A c \in Classes : Queue(partial'[c])
  BY <1>1, Zenon DEF QueueInv, InjTypeOK
<1>3. Apart' /\ RestHasVC'
  BY <1>1, Zenon DEF QueueInv, Apart, RestHasVC
<1>4. HeadsFresh'
  BY <1>1, Zenon DEF QueueInv, HeadsFresh
<1> QED BY <1>2, <1>3, <1>4, Zenon DEF QueueInv

(* A step of injection is a step of the general sender or none. *)
LEMMA InjStepIsLoopStep ==
  ASSUME InjInv, [InjNext]_vars
  PROVE  [LoopNext]_loopVars
<1>1. ASSUME NEW pid \in Pids, NEW c \in Classes, NEW size \in Sizes, NEW pri \in PriOf[c],
             GeneratePacket(pid, c, size, pri)
      PROVE  UNCHANGED loopVars
  BY <1>1, Zenon DEF GeneratePacket
<1>2. ASSUME NEW c \in Classes, Inject(c) PROVE LoopNext
  BY <1>2, InjectIsLoopStep, Zenon
<1>3. CASE (Arrive \/ (\E v \in VCs : Drain(v)) \/ ReadCredit)
  BY <1>3, Zenon DEF LoopNext
<1>4. CASE UNCHANGED vars
  BY <1>4, Zenon DEF vars
<1> QED BY <1>1, <1>2, <1>3, <1>4, Zenon DEF InjNext

(* The queues' invariant is kept. *)
LEMMA StepKeepsQueues ==
  ASSUME SamePriority, InjInv, [InjNext]_vars
  PROVE  QueueInv'
<1>0. QueueInv /\ Typed
  BY Zenon DEF InjInv, HolderInv, CreditInv
<1>1. ASSUME NEW pid \in Pids, NEW c \in Classes, NEW size \in Sizes, NEW pri \in PriOf[c],
             GeneratePacket(pid, c, size, pri)
      PROVE  QueueInv'
  BY <1>0, <1>1, GenerateQueues, Zenon
<1>2. ASSUME NEW c \in Classes, Inject(c) PROVE QueueInv'
  BY <1>2, InjectQueues, Zenon
<1>3. CASE Arrive /\ UNCHANGED injVars
  <2>1. \A p : Fresh(p) => Fresh(p)'
    BY <1>0, <1>3, FreshArrive, Zenon
  <2>2. UNCHANGED open
    BY <1>3, Zenon DEF Arrive
  <2> QED BY <1>0, <1>3, <2>1, <2>2, RestQueues, Zenon
<1>4. ASSUME NEW v \in VCs, Drain(v), UNCHANGED injVars PROVE QueueInv'
  <2>1. \A p : Fresh(p) => Fresh(p)'
    BY <1>0, <1>4, FreshDrain, Zenon
  <2>2. UNCHANGED open
    BY <1>4, Zenon DEF Drain
  <2> QED BY <1>0, <1>4, <2>1, <2>2, RestQueues, Zenon
<1>5. CASE ReadCredit /\ UNCHANGED injVars
  <2>1. UNCHANGED <<open, channel, buffer>>
    BY <1>5, Zenon DEF ReadCredit
  <2>2. \A p : Fresh(p) => Fresh(p)'
    BY <2>1, Zenon DEF Fresh
  <2> QED BY <1>0, <1>5, <2>1, <2>2, RestQueues, Zenon
<1>6. CASE UNCHANGED vars
  <2>1. UNCHANGED <<open, channel, buffer>> /\ UNCHANGED injVars
    BY <1>6, Zenon DEF vars, loopVars
  <2>2. \A p : Fresh(p) => Fresh(p)'
    BY <2>1, Zenon DEF Fresh
  <2> QED BY <1>0, <2>1, <2>2, RestQueues, Zenon
<1> QED BY <1>1, <1>2, <1>3, <1>4, <1>5, <1>6 DEF InjNext

(* Every step keeps the invariant. *)
LEMMA StepKeepsInjection ==
  ASSUME PidsFit, SamePriority, InjInv, [InjNext]_vars
  PROVE  InjInv'
<1>1. HolderInv'
  BY InjStepIsLoopStep, StepKeepsHolders, Zenon DEF InjInv
<1>2. QueueInv'
  BY StepKeepsQueues, Zenon
<1> QED BY <1>1, <1>2, Zenon DEF InjInv

(* The start. *)
LEMMA InitKeepsQueues ==
  ASSUME InjInit
  PROVE  InjInv
<1>1. HolderInv
  BY InitKeepsHolders, Zenon DEF InjInit
<1>2. /\ partial = [c \in Classes |-> <<>>] /\ lastVC = [c \in Classes |-> EndVC[c]]
      /\ lastClass = 0 /\ hold \in SomeHolds
  BY Zenon DEF InjInit
<1>3. \A c \in Classes : partial[c] = <<>>
  BY <1>2, Zenon
<1>4. InjTypeOK
  <2>1. 0 \in Classes
    BY InjectionAssumption DEF Classes
  <2>2. \A c \in Classes : EndVC[c] \in BeginVC[c] .. EndVC[c]
    BY ClassVCs
  <2> QED BY <1>2, <1>3, <2>1, <2>2 DEF InjTypeOK
<1>5. Queue(<<>>) /\ PidsIn(<<>>) = {} /\ HeadsIn(<<>>) = {}
  BY DEF Queue, NoVCYet, WholeRest, Once, PidsIn, HeadsIn
<1>6. Apart /\ HeadsFresh /\ RestHasVC
  BY <1>3, <1>5, Zenon DEF Apart, HeadsFresh, RestHasVC
<1> QED BY <1>1, <1>3, <1>4, <1>5, <1>6 DEF InjInv, QueueInv

(***************************************************************************)
(* TrafficManager::_Step injects by the rules of BufferState: a head takes *)
(* only a VC that is available and not full, a packet goes on only on the  *)
(* VC it took, its flits in order, and no flit is sent to a full VC.  So   *)
(* injection implements the general sender of CreditLoop, and what is      *)
(* proved of that one holds of the node.                                   *)
(***************************************************************************)
THEOREM InjectionImplementsLoop == PidsFit /\ SamePriority => (InjSpec => LoopSpec)
<1> SUFFICES ASSUME PidsFit, SamePriority PROVE InjSpec => LoopSpec
  BY Zenon
<1>1. InjInit => InjInv /\ LoopInit
  BY InitKeepsQueues, Zenon DEF InjInit
<1>2. InjInv /\ [InjNext]_vars => InjInv' /\ [LoopNext]_loopVars
  BY StepKeepsInjection, InjStepIsLoopStep, Zenon
<1> QED BY <1>1, <1>2, PTL DEF InjSpec, LoopSpec

(***************************************************************************)
(* A packet whose head has gone goes on with the VC it took: its next flit *)
(* carries that VC (the assert on f->vc under hold_switch_for_packet), and *)
(* the VC is open for that packet.                                         *)
(***************************************************************************)
THEOREM PacketKeepsItsVC == PidsFit /\ SamePriority => (InjSpec => []RestHasVC)
<1> SUFFICES ASSUME PidsFit, SamePriority PROVE InjSpec => []RestHasVC
  BY Zenon
<1>1. InjInit => InjInv
  BY InitKeepsQueues, Zenon
<1>2. InjInv /\ [InjNext]_vars => InjInv'
  BY StepKeepsInjection, Zenon
<1>3. InjInv => RestHasVC
  BY Zenon DEF InjInv, QueueInv
<1> QED BY <1>1, <1>2, <1>3, PTL DEF InjSpec

(***************************************************************************)
(* TakeBuffer is called only for a VC that no packet holds (its Error      *)
(* "Buffer taken while in use"), as long as no packet is preferred.  With  *)
(* priorities this fails: a head may keep a VC over a cycle in which       *)
(* another class sends.                                                    *)
(***************************************************************************)
THEOREM HeadTakesFreeVC == PidsFit /\ SamePriority => (InjSpec => TakesFreeVC)
<1> SUFFICES ASSUME PidsFit, SamePriority PROVE InjSpec => TakesFreeVC
  BY Zenon
<1> DEFINE Free == Len(channel') > Len(channel) =>
                     LET f == channel'[Len(channel')] IN f.head => IsAvailableFor(bs, f.vc)
<1>1. InjInit => InjInv
  BY InitKeepsQueues, Zenon
<1>2. InjInv /\ [InjNext]_vars => InjInv'
  BY StepKeepsInjection, Zenon
<1>3. InjInv /\ [InjNext]_vars => [Free]_vars
  <2> SUFFICES ASSUME InjInv, InjNext PROVE Free
    BY Zenon
  <2>0. channel \in Seq(FlitSet) /\ Len(channel) \in Nat
    BY SeqLen, Zenon DEF InjInv, HolderInv, CreditInv, Typed
  <2>1. ASSUME channel' = channel PROVE Free
    BY <2>0, <2>1
  <2>2. CASE Arrive
    <3>1. channel # <<>> /\ channel' = Tail(channel)
      BY <2>2, Zenon DEF Arrive
    <3>2. Len(channel') = Len(channel) - 1
      BY <2>0, <3>1, SeqHeadTail, Zenon
    <3> QED BY <2>0, <3>2
  <2>3. ASSUME NEW c \in Classes, Inject(c) PROVE Free
    <3> DEFINE g == Front(c)
               F == Flit(g.pid, g.head, g.tail, FrontVC(c))
    <3>1. PICK b : SendOn(b, F)
      BY <2>3, InjectIsLoopStep, Zenon
    <3>2. partial[c] # <<>> /\ CanSend(c) /\ FrontVC(c) \in VCs
      BY <2>3, WinnerSends, Zenon DEF InjInv
    <3>3. g.head => Found(c, FrontVC(c))
      BY <3>2, FrontVCIs, Zenon DEF InjInv, CanSend
    <3>4. F.head = g.head /\ F.vc = FrontVC(c) /\ F \in FlitSet
      <4>1. g \in WaitingFlit(c)
        BY <3>2, FrontIs, ZenonT(30) DEF InjInv
      <4> QED BY <3>2, <4>1, Zenon DEF WaitingFlit, Flit, FlitSet
    <3>5. channel' = Append(channel, F)
      BY <3>1, Zenon DEF SendOn
    <3> HIDE DEF F, g
    <3>6. channel'[Len(channel')] = F
      BY <2>0, <3>4, <3>5, SeqAppend
    <3>7. F.head => IsAvailableFor(bs, F.vc)
      BY <3>3, <3>4, Zenon DEF Found
    <3> QED BY <3>6, <3>7, Zenon
  <2>4. ASSUME NEW pid \in Pids, NEW c \in Classes, NEW size \in Sizes, NEW pri \in PriOf[c],
               GeneratePacket(pid, c, size, pri)
        PROVE  channel' = channel
    BY <2>4, Zenon DEF GeneratePacket, loopVars
  <2>5. ASSUME (\E v \in VCs : Drain(v)) \/ ReadCredit PROVE channel' = channel
    BY <2>5, Zenon DEF Drain, ReadCredit
  <2> HIDE DEF Free
  <2> QED BY <2>1, <2>2, <2>3, <2>4, <2>5 DEF InjNext
<1> QED BY <1>1, <1>2, <1>3, PTL DEF InjSpec, TakesFreeVC

=============================================================================
