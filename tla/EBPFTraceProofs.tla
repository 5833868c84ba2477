--------------------------- MODULE EBPFTraceProofs ---------------------------
(***************************************************************************)
(* Proofs about EBPFTrace for any number of goroutines, functions and      *)
(* parameters and any size of the ring buffer and of the tables: a result  *)
(* carries only parameters of the hit it reports, the hits of a goroutine  *)
(* in a function are reported in their order, and every hit that got into  *)
(* the ring is reported once.                                              *)
(***************************************************************************)
EXTENDS EBPFTrace, FiniteSetTheorems, TLAPS

USE Zenon

Names == (Fns \X {"in", "out"} \X Nat) \cup {None}
ParamRec == [hit : Nat, i : 1..MaxParams, val : Nat, name : Names]
HeaderEvent == [type : {"header"}, g : Goroutines, probe : Probes, hit : Nat, n : 0..MaxParams]
ParamEvent == [type : {"param"}, g : Goroutines, probe : Probes, hit : Nat, i : 1..MaxParams,
               val : Nat]
Event == HeaderEvent \cup ParamEvent
Run == [probe : Probes \cup {None}, hit : Nat, i : 0..MaxParams, at : {"idle", "parse", "copy"}]
Entry == [hit : Nat, params : Seq(ParamRec \cup {None})]

(* A result all of whose parameters are of its hit.                        *)
Consistent == {r \in [key : Keys, hit : Nat, params : SUBSET ParamRec] :
                 \A x \in r.params : x.hit = r.hit}

Typed ==
  /\ hits \in Nat
  /\ slot \in [Probes -> [1..MaxParams -> Nat]]
  /\ prog \in [Goroutines -> Run]
  /\ \A g \in Goroutines : prog[g].at # "idle" =>
       prog[g].probe \in Probes /\ prog[g].i \in 1..n_params(prog[g].probe)
  /\ ring \in Seq(Event)
  /\ nInputParams \in [Probes -> Nat] /\ \A f \in Fns : nInputParams[<<f, "ret">>] = 0
  /\ paramInfo \in [Probes -> [1..2 * MaxParams -> Names]]
  /\ pending \in [Keys -> Entry]

(* Sequences under concatenation, Append and Tail.                         *)
LEMMA SeqConcat ==
  ASSUME NEW S, NEW a \in Seq(S), NEW b \in Seq(S)
  PROVE  /\ Len(a) \in Nat /\ Len(b) \in Nat /\ a \o b \in Seq(S) /\ Len(a \o b) = Len(a) + Len(b)
         /\ \A i \in 1..Len(a) : (a \o b)[i] = a[i]
         /\ \A i \in 1..Len(b) : (a \o b)[Len(a) + i] = b[i]
         /\ \A i \in 1..Len(a) : i \in 1..Len(a \o b)
         /\ \A i \in 1..Len(b) : Len(a) + i \in 1..Len(a \o b)
         /\ \A i \in 1..Len(a \o b) : i \in 1..Len(a) \/ \E j \in 1..Len(b) : i = Len(a) + j
<1>1. /\ Len(a) \in Nat /\ Len(b) \in Nat /\ a \o b \in Seq(S) /\ Len(a \o b) = Len(a) + Len(b)
      /\ \A i \in 1..Len(a) : (a \o b)[i] = a[i]
      /\ \A i \in 1..Len(b) : (a \o b)[Len(a) + i] = b[i]
  BY SMTT(30)
<1>2. /\ \A i \in 1..Len(a) : i \in 1..Len(a \o b)
      /\ \A i \in 1..Len(b) : Len(a) + i \in 1..Len(a \o b)
  BY <1>1, SMTT(30)
<1>3. ASSUME NEW i \in 1..Len(a \o b), i \notin 1..Len(a)
      PROVE  \E j \in 1..Len(b) : i = Len(a) + j
  <2>1. i - Len(a) \in 1..Len(b) /\ i = Len(a) + (i - Len(a))
    BY <1>1, <1>3, SMTT(30)
  <2> QED
    BY <2>1
<1> QED
  BY <1>1, <1>2, <1>3

LEMMA SeqDomain ==
  ASSUME NEW S, NEW s \in Seq(S), NEW N \in Nat, DOMAIN s = 1..N
  PROVE  Len(s) = N
BY SMTT(30)

Assoc(a, b, c) == (a \o b) \o c = a \o (b \o c)

LEMMA SeqAssoc ==
  ASSUME NEW S, NEW a \in Seq(S), NEW b \in Seq(S), NEW c \in Seq(S)
  PROVE  Assoc(a, b, c) /\ a \o b \in Seq(S)
BY SMTT(30) DEF Assoc

LEMMA SeqAppend ==
  ASSUME NEW S, NEW a \in Seq(S), NEW r \in S
  PROVE  /\ Append(a, r) = a \o <<r>> /\ <<r>> \in Seq(S) /\ Append(a, r) \in Seq(S)
         /\ Len(a) \in Nat /\ Len(Append(a, r)) = Len(a) + 1 /\ Append(a, r)[Len(a) + 1] = r
         /\ \A i \in 1..Len(a) : i \in 1..Len(Append(a, r)) /\ Append(a, r)[i] = a[i]
         /\ Len(a) + 1 \in 1..Len(Append(a, r))
         /\ \A i \in 1..Len(Append(a, r)) :
              (i \in 1..Len(a) \/ i = Len(a) + 1) /\ ~(Len(a) + 1 < i)
BY SMTT(30)

LEMMA SeqEmpty ==
  ASSUME NEW S, NEW a \in Seq(S)
  PROVE  a \o <<>> = a
BY SMTT(30)

LEMMA SeqTail ==
  ASSUME NEW S, NEW a \in Seq(S), a # <<>>
  PROVE  /\ Tail(a) \in Seq(S) /\ Len(a) \in Nat \ {0} /\ Len(Tail(a)) = Len(a) - 1
         /\ Head(a) = a[1] /\ Head(a) \in S /\ 1 \in 1..Len(a)
         /\ \A i \in 1..Len(Tail(a)) : i + 1 \in 1..Len(a) /\ Tail(a)[i] = a[i + 1] /\ 1 < i + 1
         /\ \A i \in 1..Len(a) : i # 1 => i - 1 \in 1..Len(Tail(a)) /\ Tail(a)[i - 1] = a[i]
         /\ \A i, j \in 1..Len(Tail(a)) : i < j => i + 1 < j + 1
BY SMTT(30)

(* What the program writes to the ring.                                    *)
LEMMA RecordsAreEvents ==
  ASSUME NEW g \in Goroutines, NEW p \in Probes, NEW h \in Nat
  PROVE  /\ \A n \in 0..MaxParams :
              [type |-> "header", g |-> g, probe |-> p, hit |-> h, n |-> n] \in Event
         /\ \A i \in 1..MaxParams, v \in Nat :
              [type |-> "param", g |-> g, probe |-> p, hit |-> h, i |-> i, val |-> v] \in Event
BY DEF Event, HeaderEvent, ParamEvent

(***************************************************************************)
(* Where a hit is on its way from the ring R through the table P of        *)
(* pending events to the results A, when n hits have been made and those   *)
(* in acc found room in the ring.                                          *)
(***************************************************************************)
CollectingIn(P) == {k \in Keys : P[k] # NoEntry}

(* The headers are in the order of the hits.                               *)
HeadersOrdered(R, n) ==
  \A i \in 1..Len(R) : R[i].type = "header" =>
    /\ R[i].hit \in 1..n
    /\ \A j \in 1..Len(R) : i < j /\ R[j].type = "header" => R[i].hit < R[j].hit

(* A hit that is being collected is older than the headers in the ring,    *)
(* and is collected once.                                                  *)
TableOrdered(P, R, n) ==
  \A k \in CollectingIn(P) :
    /\ P[k].hit \in 1..n
    /\ \A i \in 1..Len(R) : R[i].type = "header" => P[k].hit < R[i].hit
    /\ \A x \in CollectingIn(P) : P[x].hit = P[k].hit => x = k

(* So is a hit that was handed on; it is not collected any more, and the   *)
(* hits of one key are in order.                                           *)
ResultsOrdered(A, P, R, n) ==
  \A m \in 1..Len(A) :
    /\ A[m].hit \in 1..n
    /\ \A i \in 1..Len(R) : R[i].type = "header" => A[m].hit < R[i].hit
    /\ \A k \in CollectingIn(P) :
         A[m].hit # P[k].hit /\ (A[m].key = k => A[m].hit < P[k].hit)
    /\ \A j \in 1..Len(A) : m < j =>
         A[m].hit # A[j].hit /\ (A[m].key = A[j].key => A[m].hit < A[j].hit)

(* Every hit that found room is somewhere.                                 *)
Somewhere(A, P, R, n, acc) ==
  \A h \in acc :
    /\ h \in 1..n
    /\ \/ \E i \in 1..Len(R) : R[i].type = "header" /\ R[i].hit = h
       \/ \E k \in CollectingIn(P) : P[k].hit = h
       \/ \E m \in 1..Len(A) : A[m].hit = h

Tracked(A, P, R, n, acc) ==
  /\ HeadersOrdered(R, n) /\ TableOrdered(P, R, n) /\ ResultsOrdered(A, P, R, n)
  /\ Somewhere(A, P, R, n, acc)

(* s holds the hits collected in P at the keys o[1], ..., o[N]; Q is P     *)
(* without the entries at the keys in E.                                   *)
EmitsAt(s, o, N, P) == Len(s) = N /\ \A j \in 1..N : s[j].key = o[j] /\ s[j].hit = P[o[j]].hit

Emptied(P, E, Q) == \A k \in Keys : Q[k] = IF k \in E THEN NoEntry ELSE P[k]

(* The entries at the keys in E are emitted, in the order of o.            *)
LEMMA EmitTracked ==
  ASSUME NEW A \in Seq(Consistent), NEW P \in [Keys -> Entry], NEW R \in Seq(Event), NEW n \in Nat,
         NEW acc, Tracked(A, P, R, n, acc),
         NEW E \in SUBSET CollectingIn(P), NEW N \in Nat, NEW o \in Bijection(1..N, E),
         NEW s \in Seq(Consistent), EmitsAt(s, o, N, P),
         NEW Q, Emptied(P, E, Q)
  PROVE  Tracked(A \o s, Q, R, n, acc) /\ A \o s \in Seq(Consistent)
<1> DEFINE B == A \o s
<1>1. /\ B \in Seq(Consistent) /\ Len(A) \in Nat
      /\ \A i \in 1..Len(A) : B[i] = A[i] /\ i \in 1..Len(B)
      /\ \A j \in 1..N : B[Len(A) + j] = s[j] /\ Len(A) + j \in 1..Len(B)
      /\ \A i \in 1..Len(B) : i \in 1..Len(A) \/ \E j \in 1..N : i = Len(A) + j
  <2>1. /\ A \o s \in Seq(Consistent) /\ Len(A) \in Nat
        /\ \A i \in 1..Len(A) : (A \o s)[i] = A[i]
        /\ \A i \in 1..Len(A) : i \in 1..Len(A \o s)
    BY SeqConcat, SMTT(30)
  <2>2. /\ \A j \in 1..Len(s) : (A \o s)[Len(A) + j] = s[j]
        /\ \A j \in 1..Len(s) : Len(A) + j \in 1..Len(A \o s)
    BY SeqConcat, SMTT(30)
  <2>3. \A i \in 1..Len(A \o s) : i \in 1..Len(A) \/ \E j \in 1..Len(s) : i = Len(A) + j
    BY SeqConcat, SMTT(30)
  <2>4. Len(s) = N
    BY DEF EmitsAt
  <2> QED
    BY <2>1, <2>2, <2>3, <2>4
<1>2. /\ \A j \in 1..N : o[j] \in E
      /\ \A i, j \in 1..N : o[i] = o[j] => i = j
      /\ \A k \in E : \E j \in 1..N : o[j] = k
  <2>1. o \in Injection(1..N, E) /\ o \in Surjection(1..N, E)
    BY DEF Bijection
  <2>2. o \in [1..N -> E] /\ DOMAIN o = 1..N
    BY <2>1 DEF Injection
  <2>3. \A i, j \in 1..N : o[i] = o[j] => i = j
    BY <2>1, <2>2 DEF Injection, IsInjective
  <2>4. \A k \in E : \E j \in 1..N : o[j] = k
    BY <2>1 DEF Surjection
  <2> QED
    BY <2>2, <2>3, <2>4
<1>3. CollectingIn(Q) = CollectingIn(P) \ E /\ \A k \in CollectingIn(Q) : Q[k] = P[k]
  BY DEF CollectingIn, Emptied
<1>4. E \subseteq CollectingIn(P)
  OBVIOUS
<1> HIDE DEF B
<1>5. ASSUME NEW i \in 1..Len(B)
      PROVE  \/ i \in 1..Len(A) /\ B[i] = A[i]
             \/ \E j \in 1..N : i = Len(A) + j /\ B[i].key = o[j] /\ B[i].hit = P[o[j]].hit
  <2>1. CASE i \in 1..Len(A)
    BY <2>1, <1>1
  <2>2. CASE \E j \in 1..N : i = Len(A) + j
    <3>1. PICK j \in 1..N : i = Len(A) + j
      BY <2>2
    <3>2. B[i] = s[j]
      BY <3>1, <1>1
    <3> QED
      BY <3>1, <3>2 DEF EmitsAt
  <2> QED
    BY <2>1, <2>2, <1>1
<1>6. HeadersOrdered(R, n)
  BY DEF Tracked
<1>7. TableOrdered(Q, R, n)
  BY <1>3 DEF Tracked, TableOrdered
<1>8. ResultsOrdered(B, Q, R, n)
  <2> SUFFICES ASSUME NEW m \in 1..Len(B)
               PROVE  /\ B[m].hit \in 1..n
                      /\ \A i \in 1..Len(R) : R[i].type = "header" => B[m].hit < R[i].hit
                      /\ \A k \in CollectingIn(Q) :
                           B[m].hit # Q[k].hit /\ (B[m].key = k => B[m].hit < Q[k].hit)
                      /\ \A j \in 1..Len(B) : m < j =>
                           B[m].hit # B[j].hit /\ (B[m].key = B[j].key => B[m].hit < B[j].hit)
    BY DEF ResultsOrdered
  <2>1. CASE m \in 1..Len(A) /\ B[m] = A[m]
    <3>1. /\ A[m].hit \in 1..n
          /\ \A i \in 1..Len(R) : R[i].type = "header" => A[m].hit < R[i].hit
          /\ \A k \in CollectingIn(P) :
               A[m].hit # P[k].hit /\ (A[m].key = k => A[m].hit < P[k].hit)
          /\ \A j \in 1..Len(A) : m < j =>
               A[m].hit # A[j].hit /\ (A[m].key = A[j].key => A[m].hit < A[j].hit)
      BY <2>1 DEF Tracked, ResultsOrdered
    <3>2. ASSUME NEW j \in 1..Len(B), m < j
          PROVE  B[m].hit # B[j].hit /\ (B[m].key = B[j].key => B[m].hit < B[j].hit)
      <4>1. CASE j \in 1..Len(A) /\ B[j] = A[j]
        BY <2>1, <3>1, <3>2, <4>1
      <4>2. CASE \E i \in 1..N : j = Len(A) + i /\ B[j].key = o[i] /\ B[j].hit = P[o[i]].hit
        <5>1. PICK i \in 1..N : B[j].key = o[i] /\ B[j].hit = P[o[i]].hit
          BY <4>2
        <5>2. o[i] \in CollectingIn(P)
          BY <1>2, <1>4
        <5>3. A[m].hit # P[o[i]].hit /\ (A[m].key = o[i] => A[m].hit < P[o[i]].hit)
          BY <3>1, <5>2
        <5> QED
          BY <2>1, <5>1, <5>3
      <4> QED
        BY <4>1, <4>2, <1>5
    <3> QED
      BY <2>1, <3>1, <3>2, <1>3
  <2>2. CASE \E j \in 1..N : m = Len(A) + j /\ B[m].key = o[j] /\ B[m].hit = P[o[j]].hit
    <3>1. PICK j \in 1..N : m = Len(A) + j /\ B[m].key = o[j] /\ B[m].hit = P[o[j]].hit
      BY <2>2
    <3>2. o[j] \in E /\ o[j] \in CollectingIn(P)
      BY <1>2, <1>4
    <3>3. /\ P[o[j]].hit \in 1..n
          /\ \A i \in 1..Len(R) : R[i].type = "header" => P[o[j]].hit < R[i].hit
          /\ \A x \in CollectingIn(P) : P[x].hit = P[o[j]].hit => x = o[j]
      BY <3>2 DEF Tracked, TableOrdered
    <3>4. ASSUME NEW i \in 1..Len(B), m < i
          PROVE  B[m].hit # B[i].hit /\ B[m].key # B[i].key
      <4>1. ~(i \in 1..Len(A))
        BY <3>1, <3>4, <1>1, SMTT(30)
      <4>2. PICK l \in 1..N : i = Len(A) + l /\ B[i].key = o[l] /\ B[i].hit = P[o[l]].hit
        BY <4>1, <1>5
      <4>3. l # j
        BY <3>1, <3>4, <4>2, <1>1, SMTT(30)
      <4>4. o[l] # o[j] /\ o[l] \in CollectingIn(P)
        BY <4>3, <1>2, <1>4
      <4> QED
        BY <3>1, <3>3, <4>2, <4>4
    <3>5. ASSUME NEW k \in CollectingIn(Q) PROVE B[m].hit # Q[k].hit /\ B[m].key # k
      BY <3>1, <3>2, <3>3, <1>3
    <3> QED
      BY <3>1, <3>3, <3>4, <3>5
  <2> QED
    BY <2>1, <2>2, <1>5
<1>9. Somewhere(B, Q, R, n, acc)
  <2> SUFFICES ASSUME NEW h \in acc
               PROVE  /\ h \in 1..n
                      /\ \/ \E i \in 1..Len(R) : R[i].type = "header" /\ R[i].hit = h
                         \/ \E k \in CollectingIn(Q) : Q[k].hit = h
                         \/ \E m \in 1..Len(B) : B[m].hit = h
    BY DEF Somewhere
  <2>1. /\ h \in 1..n
        /\ \/ \E i \in 1..Len(R) : R[i].type = "header" /\ R[i].hit = h
           \/ \E k \in CollectingIn(P) : P[k].hit = h
           \/ \E m \in 1..Len(A) : A[m].hit = h
    BY DEF Tracked, Somewhere
  <2>2. CASE \E k \in CollectingIn(P) : P[k].hit = h
    <3>1. PICK k \in CollectingIn(P) : P[k].hit = h
      BY <2>2
    <3>2. CASE k \in E
      <4>1. PICK j \in 1..N : o[j] = k
        BY <3>2, <1>2
      <4>2. Len(A) + j \in 1..Len(B)
        BY <1>1
      <4>3. B[Len(A) + j].hit = h
        <5>1. B[Len(A) + j] = s[j] /\ s[j].hit = P[o[j]].hit
          BY <1>1 DEF EmitsAt
        <5> QED
          BY <3>1, <4>1, <5>1
      <4> QED
        BY <2>1, <4>2, <4>3
    <3>3. CASE k \notin E
      BY <2>1, <3>1, <3>3, <1>3
    <3> QED
      BY <3>2, <3>3
  <2>3. CASE \E m \in 1..Len(A) : A[m].hit = h
    <3>1. \A m \in 1..Len(A) : m \in 1..Len(B)
      BY <1>1
    <3> QED
      BY <2>1, <2>3, <3>1, <1>1
  <2> QED
    BY <2>1, <2>2, <2>3
<1> QED
  BY <1>1, <1>6, <1>7, <1>8, <1>9 DEF Tracked, B

(* What Tail leaves of the headers of the ring.                            *)
LEMMA TailHeaders ==
  ASSUME NEW R \in Seq(Event), R # <<>>, NEW n \in Nat, HeadersOrdered(R, n)
  PROVE  /\ Tail(R) \in Seq(Event) /\ HeadersOrdered(Tail(R), n)
         /\ \A i \in 1..Len(Tail(R)) : i + 1 \in 1..Len(R) /\ Tail(R)[i] = R[i + 1]
         /\ \A i \in 1..Len(R) : i # 1 => i - 1 \in 1..Len(Tail(R)) /\ Tail(R)[i - 1] = R[i]
         /\ R[1].type = "header" =>
              /\ R[1].hit \in 1..n
              /\ \A i \in 1..Len(Tail(R)) : Tail(R)[i].type = "header" => R[1].hit < Tail(R)[i].hit
<1> DEFINE T == Tail(R)
<1>1. /\ T \in Seq(Event)
      /\ \A i \in 1..Len(T) : i + 1 \in 1..Len(R) /\ T[i] = R[i + 1]
  BY SeqTail
<1>2. \A i \in 1..Len(R) : i # 1 => i - 1 \in 1..Len(T) /\ T[i - 1] = R[i]
  BY SeqTail
<1>3. /\ 1 \in 1..Len(R)
      /\ \A i \in 1..Len(T) : 1 < i + 1
      /\ \A i, j \in 1..Len(T) : i < j => i + 1 < j + 1
  BY SeqTail
<1> HIDE DEF T
<1>4. HeadersOrdered(T, n)
  BY <1>1, <1>3 DEF HeadersOrdered
<1>5. R[1].type = "header" =>
        /\ R[1].hit \in 1..n
        /\ \A i \in 1..Len(T) : T[i].type = "header" => R[1].hit < T[i].hit
  BY <1>1, <1>3 DEF HeadersOrdered
<1> QED
  BY <1>1, <1>2, <1>4, <1>5 DEF T

(* A parameter is taken from the ring.                                     *)
LEMMA TakeParam ==
  ASSUME NEW A, NEW P, NEW R \in Seq(Event), NEW n \in Nat,
         NEW acc, Tracked(A, P, R, n, acc), R # <<>>, R[1].type # "header"
  PROVE  Tracked(A, P, Tail(R), n, acc)
<1>1. /\ HeadersOrdered(Tail(R), n)
      /\ \A i \in 1..Len(Tail(R)) : i + 1 \in 1..Len(R) /\ Tail(R)[i] = R[i + 1]
      /\ \A i \in 1..Len(R) : i # 1 => i - 1 \in 1..Len(Tail(R)) /\ Tail(R)[i - 1] = R[i]
  BY TailHeaders DEF Tracked
<1>2. TableOrdered(P, Tail(R), n)
  <2> SUFFICES ASSUME NEW k \in CollectingIn(P), NEW i \in 1..Len(Tail(R)), Tail(R)[i].type = "header"
               PROVE  P[k].hit < Tail(R)[i].hit
    BY DEF Tracked, TableOrdered
  <2>1. \A j \in 1..Len(R) : R[j].type = "header" => P[k].hit < R[j].hit
    BY DEF Tracked, TableOrdered
  <2>2. i + 1 \in 1..Len(R) /\ Tail(R)[i] = R[i + 1]
    BY <1>1
  <2> QED
    BY <2>1, <2>2
<1>3. ResultsOrdered(A, P, Tail(R), n)
  <2> SUFFICES ASSUME NEW m \in 1..Len(A), NEW i \in 1..Len(Tail(R)), Tail(R)[i].type = "header"
               PROVE  A[m].hit < Tail(R)[i].hit
    BY DEF Tracked, ResultsOrdered
  <2>1. \A j \in 1..Len(R) : R[j].type = "header" => A[m].hit < R[j].hit
    BY DEF Tracked, ResultsOrdered
  <2>2. i + 1 \in 1..Len(R) /\ Tail(R)[i] = R[i + 1]
    BY <1>1
  <2> QED
    BY <2>1, <2>2
<1>4. Somewhere(A, P, Tail(R), n, acc)
  <2>1. \A i \in 1..Len(R) : R[i].type = "header" =>
          \E j \in 1..Len(Tail(R)) : Tail(R)[j] = R[i]
    BY <1>1
  <2> SUFFICES ASSUME NEW h \in acc
               PROVE  /\ h \in 1..n
                      /\ \/ \E i \in 1..Len(Tail(R)) : Tail(R)[i].type = "header" /\ Tail(R)[i].hit = h
                         \/ \E k \in CollectingIn(P) : P[k].hit = h
                         \/ \E m \in 1..Len(A) : A[m].hit = h
    BY DEF Somewhere
  <2>2. /\ h \in 1..n
        /\ \/ \E i \in 1..Len(R) : R[i].type = "header" /\ R[i].hit = h
           \/ \E k \in CollectingIn(P) : P[k].hit = h
           \/ \E m \in 1..Len(A) : A[m].hit = h
    BY DEF Tracked, Somewhere
  <2>3. CASE \E i \in 1..Len(R) : R[i].type = "header" /\ R[i].hit = h
    <3>1. PICK i \in 1..Len(R) : R[i].type = "header" /\ R[i].hit = h
      BY <2>3
    <3>2. PICK j \in 1..Len(Tail(R)) : Tail(R)[j] = R[i]
      BY <2>1, <3>1
    <3> QED
      BY <2>2, <3>1, <3>2
  <2> QED
    BY <2>2, <2>3
<1> QED
  BY <1>1, <1>2, <1>3, <1>4 DEF Tracked

(* A header is taken from the ring when nothing is collected for its key:  *)
(* its hit is collected, or handed on at once.                             *)
LEMMA TakeHeader ==
  ASSUME NEW A \in Seq(Consistent), NEW P, NEW R \in Seq(Event), NEW n \in Nat,
         NEW acc, Tracked(A, P, R, n, acc), R # <<>>, R[1].type = "header",
         NEW k \in Keys, P[k] = NoEntry,
         NEW Q, NEW B, NEW h, h = R[1].hit,
         \/ /\ Q[k].hit = h /\ Q[k] # NoEntry /\ B = A
            /\ \A x \in Keys : x # k => Q[x] = P[x]
         \/ /\ \A x \in Keys : Q[x] = P[x]
            /\ \E r \in Consistent : r.key = k /\ r.hit = h /\ B = Append(A, r)
  PROVE  Tracked(B, Q, Tail(R), n, acc)
<1> DEFINE T == Tail(R)
<1>1. /\ HeadersOrdered(T, n)
      /\ \A i \in 1..Len(T) : i + 1 \in 1..Len(R) /\ T[i] = R[i + 1]
      /\ \A i \in 1..Len(R) : i # 1 => i - 1 \in 1..Len(T) /\ T[i - 1] = R[i]
      /\ h \in 1..n
      /\ \A i \in 1..Len(T) : T[i].type = "header" => h < T[i].hit
  BY TailHeaders DEF Tracked
<1>2. 1 \in 1..Len(R)
  BY SeqTail
<1> HIDE DEF T
<1>3. \A x \in CollectingIn(P) :
        /\ x # k /\ P[x].hit < h /\ P[x].hit \in 1..n
        /\ \A i \in 1..Len(T) : T[i].type = "header" => P[x].hit < T[i].hit
        /\ \A y \in CollectingIn(P) : P[y].hit = P[x].hit => y = x
  <2> SUFFICES ASSUME NEW x \in CollectingIn(P)
               PROVE  /\ x # k /\ P[x].hit < h /\ P[x].hit \in 1..n
                      /\ \A i \in 1..Len(T) : T[i].type = "header" => P[x].hit < T[i].hit
                      /\ \A y \in CollectingIn(P) : P[y].hit = P[x].hit => y = x
    OBVIOUS
  <2>1. x # k
    BY DEF CollectingIn
  <2>2. /\ P[x].hit \in 1..n
        /\ \A i \in 1..Len(R) : R[i].type = "header" => P[x].hit < R[i].hit
        /\ \A y \in CollectingIn(P) : P[y].hit = P[x].hit => y = x
    BY DEF Tracked, TableOrdered
  <2>3. P[x].hit < h
    BY <1>2, <2>2
  <2>4. ASSUME NEW i \in 1..Len(T), T[i].type = "header"
        PROVE  P[x].hit < T[i].hit
    <3>1. i + 1 \in 1..Len(R) /\ T[i] = R[i + 1]
      BY <1>1
    <3> QED
      BY <2>2, <2>4, <3>1
  <2> QED
    BY <2>1, <2>2, <2>3, <2>4
<1>4. \A m \in 1..Len(A) :
        /\ A[m].hit < h /\ A[m].hit \in 1..n
        /\ \A i \in 1..Len(T) : T[i].type = "header" => A[m].hit < T[i].hit
        /\ \A x \in CollectingIn(P) :
             A[m].hit # P[x].hit /\ (A[m].key = x => A[m].hit < P[x].hit)
        /\ \A j \in 1..Len(A) : m < j =>
             A[m].hit # A[j].hit /\ (A[m].key = A[j].key => A[m].hit < A[j].hit)
  <2> SUFFICES ASSUME NEW m \in 1..Len(A)
               PROVE  /\ A[m].hit < h /\ A[m].hit \in 1..n
                      /\ \A i \in 1..Len(T) : T[i].type = "header" => A[m].hit < T[i].hit
                      /\ \A x \in CollectingIn(P) :
                           A[m].hit # P[x].hit /\ (A[m].key = x => A[m].hit < P[x].hit)
                      /\ \A j \in 1..Len(A) : m < j =>
                           A[m].hit # A[j].hit /\ (A[m].key = A[j].key => A[m].hit < A[j].hit)
    OBVIOUS
  <2>1. /\ A[m].hit \in 1..n
        /\ \A i \in 1..Len(R) : R[i].type = "header" => A[m].hit < R[i].hit
        /\ \A x \in CollectingIn(P) :
             A[m].hit # P[x].hit /\ (A[m].key = x => A[m].hit < P[x].hit)
        /\ \A j \in 1..Len(A) : m < j =>
             A[m].hit # A[j].hit /\ (A[m].key = A[j].key => A[m].hit < A[j].hit)
    BY DEF Tracked, ResultsOrdered
  <2>2. A[m].hit < h
    BY <1>2, <2>1
  <2>3. \A i \in 1..Len(T) : T[i].type = "header" => A[m].hit < T[i].hit
    <3> SUFFICES ASSUME NEW i \in 1..Len(T), T[i].type = "header"
                 PROVE  A[m].hit < T[i].hit
      OBVIOUS
    <3>1. i + 1 \in 1..Len(R) /\ T[i] = R[i + 1]
      BY <1>1
    <3> QED
      BY <2>1, <3>1
  <2> QED
    BY <2>1, <2>2, <2>3
<1>5. \A v \in 1..n : v < h => v # h /\ h # v
  BY <1>1, SMTT(30)
<1>6. ASSUME NEW i \in 1..Len(R), R[i].type = "header"
       PROVE  R[i].hit = h \/ \E j \in 1..Len(T) : T[j].type = "header" /\ T[j].hit = R[i].hit
  <2>1. CASE i = 1
    BY <2>1
  <2>2. CASE i # 1
    <3>1. i - 1 \in 1..Len(T) /\ T[i - 1].type = "header" /\ T[i - 1].hit = R[i].hit
      BY <1>1, <1>6, <2>2
    <3> QED
      BY <3>1
  <2> QED
    BY <2>1, <2>2
<1>7. \A v \in acc :
        /\ v \in 1..n
        /\ \/ v = h
           \/ \E i \in 1..Len(T) : T[i].type = "header" /\ T[i].hit = v
           \/ \E x \in CollectingIn(P) : P[x].hit = v
           \/ \E m \in 1..Len(A) : A[m].hit = v
  <2> SUFFICES ASSUME NEW v \in acc
               PROVE  /\ v \in 1..n
                      /\ \/ v = h
                         \/ \E i \in 1..Len(T) : T[i].type = "header" /\ T[i].hit = v
                         \/ \E x \in CollectingIn(P) : P[x].hit = v
                         \/ \E m \in 1..Len(A) : A[m].hit = v
    OBVIOUS
  <2>1. /\ v \in 1..n
        /\ \/ \E i \in 1..Len(R) : R[i].type = "header" /\ R[i].hit = v
           \/ \E x \in CollectingIn(P) : P[x].hit = v
           \/ \E m \in 1..Len(A) : A[m].hit = v
    BY DEF Tracked, Somewhere
  <2>2. CASE \E i \in 1..Len(R) : R[i].type = "header" /\ R[i].hit = v
    <3>1. PICK i \in 1..Len(R) : R[i].type = "header" /\ R[i].hit = v
      BY <2>2
    <3> QED
      BY <2>1, <3>1, <1>6
  <2> QED
    BY <2>1, <2>2
<1>8. CASE /\ Q[k].hit = h /\ Q[k] # NoEntry /\ B = A
           /\ \A x \in Keys : x # k => Q[x] = P[x]
  <2>1. CollectingIn(Q) = CollectingIn(P) \cup {k} /\ \A x \in CollectingIn(P) : Q[x] = P[x]
    BY <1>3, <1>8 DEF CollectingIn
  <2>2. TableOrdered(Q, T, n)
    <3> SUFFICES ASSUME NEW y \in CollectingIn(Q)
                 PROVE  /\ Q[y].hit \in 1..n
                        /\ \A i \in 1..Len(T) : T[i].type = "header" => Q[y].hit < T[i].hit
                        /\ \A x \in CollectingIn(Q) : Q[x].hit = Q[y].hit => x = y
      BY DEF TableOrdered
    <3>1. CASE y = k
      BY <3>1, <1>1, <1>3, <1>5, <1>8, <2>1, ZenonT(60)
    <3>2. CASE y \in CollectingIn(P)
      BY <3>2, <1>3, <1>5, <1>8, <2>1
    <3> QED
      BY <3>1, <3>2, <2>1
  <2>3. ResultsOrdered(B, Q, T, n)
    <3>1. \A m \in 1..Len(A), x \in CollectingIn(Q) :
            A[m].hit # Q[x].hit /\ (A[m].key = x => A[m].hit < Q[x].hit)
      <4> SUFFICES ASSUME NEW m \in 1..Len(A), NEW x \in CollectingIn(Q)
                   PROVE  A[m].hit # Q[x].hit /\ (A[m].key = x => A[m].hit < Q[x].hit)
        OBVIOUS
      <4>1. CASE x = k
        BY <4>1, <1>4, <1>5, <1>8, ZenonT(60)
      <4>2. CASE x \in CollectingIn(P)
        BY <4>2, <1>4, <2>1, ZenonT(60)
      <4> QED
        BY <4>1, <4>2, <2>1
    <3> QED
      BY <1>4, <1>8, <3>1, ZenonT(60) DEF ResultsOrdered
  <2>4. Somewhere(B, Q, T, n, acc)
    <3>1. \A v \in acc : v = h => \E x \in CollectingIn(Q) : Q[x].hit = v
      BY <1>8, <2>1
    <3>2. \A x \in CollectingIn(P) : x \in CollectingIn(Q) /\ Q[x].hit = P[x].hit
      BY <2>1
    <3> SUFFICES ASSUME NEW v \in acc
                 PROVE  /\ v \in 1..n
                        /\ \/ \E i \in 1..Len(T) : T[i].type = "header" /\ T[i].hit = v
                           \/ \E x \in CollectingIn(Q) : Q[x].hit = v
                           \/ \E m \in 1..Len(A) : A[m].hit = v
      BY <1>8 DEF Somewhere
    <3>3. /\ v \in 1..n
          /\ \/ v = h
             \/ \E i \in 1..Len(T) : T[i].type = "header" /\ T[i].hit = v
             \/ \E x \in CollectingIn(P) : P[x].hit = v
             \/ \E m \in 1..Len(A) : A[m].hit = v
      BY <1>7
    <3>4. (\E x \in CollectingIn(P) : P[x].hit = v) => \E x \in CollectingIn(Q) : Q[x].hit = v
      BY <3>2
    <3> QED
      BY <3>1, <3>3, <3>4
  <2> QED
    BY <1>1, <2>2, <2>3, <2>4 DEF Tracked, T
<1>9. CASE /\ \A x \in Keys : Q[x] = P[x]
           /\ \E r \in Consistent : r.key = k /\ r.hit = h /\ B = Append(A, r)
  <2>1. PICK r \in Consistent : r.key = k /\ r.hit = h /\ B = Append(A, r)
    BY <1>9
  <2>2. CollectingIn(Q) = CollectingIn(P) /\ \A x \in CollectingIn(P) : Q[x] = P[x]
    BY <1>9 DEF CollectingIn
  <2>3. /\ Len(A) \in Nat /\ Len(B) = Len(A) + 1 /\ B[Len(A) + 1] = r
        /\ \A m \in 1..Len(A) : m \in 1..Len(B) /\ B[m] = A[m]
        /\ Len(A) + 1 \in 1..Len(B)
        /\ \A m \in 1..Len(B) : m \in 1..Len(A) \/ m = Len(A) + 1
    BY <2>1, SeqAppend, SMTT(30)
  <2>4. \A m \in 1..Len(B) : ~(Len(A) + 1 < m)
    BY <2>1, SeqAppend
  <2>5. TableOrdered(Q, T, n)
    BY <1>3, <2>2 DEF TableOrdered
  <2>6. ResultsOrdered(B, Q, T, n)
    <3>1. ASSUME NEW m \in 1..Len(B)
          PROVE  /\ B[m].hit \in 1..n
                 /\ \A i \in 1..Len(T) : T[i].type = "header" => B[m].hit < T[i].hit
                 /\ \A x \in CollectingIn(Q) :
                      B[m].hit # Q[x].hit /\ (B[m].key = x => B[m].hit < Q[x].hit)
                 /\ \A j \in 1..Len(B) : m < j =>
                      B[m].hit # B[j].hit /\ (B[m].key = B[j].key => B[m].hit < B[j].hit)
      <4>1. CASE m = Len(A) + 1
        <5>1. B[m].hit = h /\ B[m].key = k /\ \A j \in 1..Len(B) : ~(m < j)
          BY <2>1, <2>3, <2>4, <4>1
        <5>2. \A x \in CollectingIn(Q) : h # Q[x].hit /\ x # k
          BY <1>3, <1>5, <2>2
        <5> QED
          BY <1>1, <5>1, <5>2
      <4>2. CASE m \in 1..Len(A)
        <5>1. ASSUME NEW j \in 1..Len(B), m < j
              PROVE  B[m].hit # B[j].hit /\ (B[m].key = B[j].key => B[m].hit < B[j].hit)
          <6>1. CASE j \in 1..Len(A)
            <7>1. B[m] = A[m] /\ B[j] = A[j]
              BY <2>3, <4>2, <6>1
            <7> QED
              BY <1>4, <4>2, <5>1, <6>1, <7>1, SMTT(30)
          <6>2. CASE j = Len(A) + 1
            <7>1. B[m] = A[m] /\ B[j] = r
              BY <2>3, <4>2, <6>2
            <7>2. A[m].hit < h /\ A[m].hit # h
              BY <1>4, <1>5, <4>2
            <7> QED
              BY <2>1, <7>1, <7>2
          <6> QED
            BY <2>3, <6>1, <6>2
        <5>2. B[m] = A[m]
          BY <2>3, <4>2
        <5>3. \A x \in CollectingIn(Q) :
                A[m].hit # Q[x].hit /\ (A[m].key = x => A[m].hit < Q[x].hit)
          BY <1>4, <2>2, <4>2, ZenonT(60)
        <5> QED
          BY <1>4, <4>2, <5>1, <5>2, <5>3
      <4> QED
        BY <2>3, <4>1, <4>2
    <3> QED
      BY <3>1 DEF ResultsOrdered
  <2>7. Somewhere(B, Q, T, n, acc)
    BY <1>7, <2>1, <2>2, <2>3, ZenonT(60) DEF Somewhere
  <2> QED
    BY <1>1, <2>5, <2>6, <2>7 DEF Tracked, T
<1> QED
  BY <1>8, <1>9

(* An event is written to the ring: a parameter, or the header of the next *)
(* hit.                                                                    *)
LEMMA WriteTracked ==
  ASSUME NEW A, NEW P, NEW R \in Seq(Event), NEW n \in Nat,
         NEW acc, Tracked(A, P, R, n, acc), NEW e \in Event
  PROVE  /\ e.type # "header" => Tracked(A, P, Append(R, e), n, acc)
         /\ e.type = "header" /\ e.hit = n + 1 =>
              Tracked(A, P, Append(R, e), n + 1, acc \cup {n + 1})
         /\ Tracked(A, P, R, n + 1, acc)
<1> DEFINE T == Append(R, e)
<1>1. /\ Len(R) \in Nat /\ Len(T) = Len(R) + 1 /\ T[Len(R) + 1] = e
      /\ \A i \in 1..Len(R) : i \in 1..Len(T) /\ T[i] = R[i]
      /\ Len(R) + 1 \in 1..Len(T)
      /\ \A i \in 1..Len(T) : i \in 1..Len(R) \/ i = Len(R) + 1
  BY SeqAppend, SMTT(30)
<1>2. \A i \in 1..Len(T) : ~(Len(R) + 1 < i)
  BY SeqAppend
<1>3. n + 1 \in 1..(n + 1) /\ \A v \in 1..n : v \in 1..(n + 1) /\ v < n + 1
  BY SMTT(30)
<1>4. /\ HeadersOrdered(R, n) /\ TableOrdered(P, R, n) /\ ResultsOrdered(A, P, R, n)
      /\ Somewhere(A, P, R, n, acc)
  BY DEF Tracked
<1> HIDE DEF T
<1>5. ASSUME e.type # "header" PROVE Tracked(A, P, T, n, acc)
  <2>1. HeadersOrdered(T, n)
    BY <1>1, <1>4, <1>5 DEF HeadersOrdered
  <2>2. TableOrdered(P, T, n) /\ ResultsOrdered(A, P, T, n)
    BY <1>1, <1>4, <1>5 DEF TableOrdered, ResultsOrdered
  <2>3. Somewhere(A, P, T, n, acc)
    BY <1>1, <1>4 DEF Somewhere
  <2> QED
    BY <2>1, <2>2, <2>3 DEF Tracked
<1>6. Tracked(A, P, R, n + 1, acc)
  <2>1. HeadersOrdered(R, n + 1) /\ TableOrdered(P, R, n + 1)
    BY <1>3, <1>4 DEF HeadersOrdered, TableOrdered
  <2>2. ResultsOrdered(A, P, R, n + 1)
    BY <1>3, <1>4 DEF ResultsOrdered
  <2>3. Somewhere(A, P, R, n + 1, acc)
    BY <1>3, <1>4 DEF Somewhere
  <2> QED
    BY <2>1, <2>2, <2>3 DEF Tracked
<1>7. ASSUME e.type = "header", e.hit = n + 1 PROVE Tracked(A, P, T, n + 1, acc \cup {n + 1})
  <2>1. HeadersOrdered(T, n + 1)
    <3> SUFFICES ASSUME NEW i \in 1..Len(T), T[i].type = "header"
                 PROVE  /\ T[i].hit \in 1..(n + 1)
                        /\ \A j \in 1..Len(T) : i < j /\ T[j].type = "header" => T[i].hit < T[j].hit
      BY DEF HeadersOrdered
    <3>1. CASE i = Len(R) + 1
      BY <1>1, <1>2, <1>3, <1>7, <3>1
    <3>2. CASE i \in 1..Len(R)
      <4>1. T[i] = R[i] /\ R[i].hit \in 1..n
        BY <1>1, <1>4, <3>2 DEF HeadersOrdered
      <4>2. ASSUME NEW j \in 1..Len(T), i < j, T[j].type = "header" PROVE T[i].hit < T[j].hit
        <5>1. CASE j = Len(R) + 1
          BY <1>1, <1>3, <1>7, <4>1, <5>1
        <5>2. CASE j \in 1..Len(R)
          BY <1>1, <1>4, <3>2, <4>2, <5>2 DEF HeadersOrdered
        <5> QED
          BY <1>1, <5>1, <5>2
      <4> QED
        BY <1>3, <4>1, <4>2
    <3> QED
      BY <1>1, <3>1, <3>2
  <2>2. TableOrdered(P, T, n + 1)
    BY <1>1, <1>3, <1>4, <1>7 DEF TableOrdered
  <2>3. ResultsOrdered(A, P, T, n + 1)
    <3> SUFFICES ASSUME NEW m \in 1..Len(A)
                 PROVE  /\ A[m].hit \in 1..(n + 1)
                        /\ \A i \in 1..Len(T) : T[i].type = "header" => A[m].hit < T[i].hit
                        /\ \A k \in CollectingIn(P) :
                             A[m].hit # P[k].hit /\ (A[m].key = k => A[m].hit < P[k].hit)
                        /\ \A j \in 1..Len(A) : m < j =>
                             A[m].hit # A[j].hit /\ (A[m].key = A[j].key => A[m].hit < A[j].hit)
      BY DEF ResultsOrdered
    <3>1. /\ A[m].hit \in 1..n
          /\ \A i \in 1..Len(R) : R[i].type = "header" => A[m].hit < R[i].hit
          /\ \A k \in CollectingIn(P) :
               A[m].hit # P[k].hit /\ (A[m].key = k => A[m].hit < P[k].hit)
          /\ \A j \in 1..Len(A) : m < j =>
               A[m].hit # A[j].hit /\ (A[m].key = A[j].key => A[m].hit < A[j].hit)
      BY <1>4 DEF ResultsOrdered
    <3>2. A[m].hit \in 1..(n + 1) /\ A[m].hit < n + 1
      BY <1>3, <3>1
    <3>3. \A i \in 1..Len(T) : T[i].type = "header" => A[m].hit < T[i].hit
      BY <1>1, <1>7, <3>1, <3>2
    <3> QED
      BY <3>1, <3>2, <3>3
  <2>4. Somewhere(A, P, T, n + 1, acc \cup {n + 1})
    BY <1>1, <1>3, <1>4, <1>7 DEF Somewhere
  <2> QED
    BY <2>1, <2>2, <2>3, <2>4 DEF Tracked
<1> QED
  BY <1>5, <1>6, <1>7 DEF T

(* The key and the hit of a result.                                        *)
LEMMA EmittedFields ==
  \A k, pe : emitParsedEvent(k, pe).key = k /\ emitParsedEvent(k, pe).hit = pe.hit
BY DEF emitParsedEvent

(* Everything that has been handed on is consistent.                       *)
ResultsConsistent == parsed \in Seq(Consistent) /\ out \in Seq(Consistent)

PendingConsistent ==
  \A k \in Keys : \A x \in Arrived(pending[k]) : x.hit = pending[k].hit

IsHeader(j, k) == ring[j].type = "header" /\ <<ring[j].g, ring[j].probe>> = k

(* What an event of key k and hit h finds when it is read after the first  *)
(* i - 1 events of the ring: the last header of its key before it is that  *)
(* of its hit, and if there is none in the ring, then pendingEvents has    *)
(* the entry of its hit or none.                                           *)
Belongs(i, k, h) ==
  /\ \A j \in 1..(i - 1) :
       IsHeader(j, k) /\ (\A m \in (j + 1)..(i - 1) : ~IsHeader(m, k)) => ring[j].hit = h
  /\ (\A j \in 1..(i - 1) : ~IsHeader(j, k)) => pending[k] = NoEntry \/ pending[k].hit = h

RingOrdered ==
  \A i \in 1..Len(ring), k \in Keys, h \in Nat :
    ring[i].type = "param" /\ <<ring[i].g, ring[i].probe>> = k /\ ring[i].hit = h
      => Belongs(i, k, h)

ProgOrdered ==
  \A g \in Goroutines, p \in Probes, h \in Nat, n \in Nat :
    prog[g].at # "idle" /\ prog[g].probe = p /\ prog[g].hit = h /\ n = Len(ring) + 1
      => Belongs(n, <<g, p>>, h)

IInv ==
  /\ Typed /\ ResultsConsistent /\ PendingConsistent /\ RingOrdered /\ ProgOrdered

(* A probe has at most MaxParams parameters.                               *)
LEMMA ParamCount == \A p \in Probes : n_params(p) \in 0..MaxParams
<1> SUFFICES ASSUME NEW p \in Probes PROVE n_params(p) \in 0..MaxParams
  OBVIOUS
<1>1. p[1] \in Fns
  BY DEF Probes
<1>2. NIn[p[1]] \in 0..MaxParams /\ NRet[p[1]] \in 0..MaxParams /\ MaxParams \in Nat
  BY <1>1, EBPFAssumption
<1> QED
  BY <1>2, SMTT(30) DEF n_params

(* The fields of an event.                                                 *)
LEMMA EventFields ==
  ASSUME NEW e \in Event
  PROVE  /\ e.type \in {"header", "param"} /\ e.g \in Goroutines /\ e.probe \in Probes
         /\ e.hit \in Nat
         /\ <<e.g, e.probe>> \in Keys
         /\ e.type = "header" => e.n \in 0..MaxParams
         /\ e.type = "param" => e.i \in 1..MaxParams /\ e.val \in Nat
  BY DEF Event, HeaderEvent, ParamEvent, Keys

(* What is emitted of a consistent entry is consistent.                    *)
LEMMA EmitConsistent ==
  ASSUME NEW k \in Keys, NEW pe \in Entry, \A x \in Arrived(pe) : x.hit = pe.hit
  PROVE  emitParsedEvent(k, pe) \in Consistent
<1>1. Arrived(pe) \subseteq ParamRec
  BY SMTT(30) DEF Entry, Arrived
<1> QED
  BY <1>1 DEF Entry, emitParsedEvent, Consistent

(* There are finitely many keys.                                           *)
LEMMA KeysFinite == IsFiniteSet(Keys)
<1>1. IsFiniteSet({"entry", "ret"})
  <2>1. IsFiniteSet({"entry"})
    BY FS_Singleton, ZenonT(30)
  <2> QED
    BY <2>1, FS_AddElement, {"entry", "ret"} = {"entry"} \cup {"ret"}
<1> QED
  BY <1>1, EBPFAssumption, FS_Product, ZenonT(30) DEF Keys, Probes

(* And so are all the sequences in which entries are emitted together.     *)
LEMMA EmittedConsistent ==
  ASSUME Typed, PendingConsistent, NEW ks \in SUBSET Keys
  PROVE  Emitted(ks) \subseteq Seq(Consistent)
<1>2. Cardinality(ks) \in Nat
  BY KeysFinite, FS_Subset, FS_CardinalityType
<1> SUFFICES ASSUME NEW o \in Bijection(1..Cardinality(ks), ks)
             PROVE  [i \in DOMAIN o |-> emitParsedEvent(o[i], pending[o[i]])] \in Seq(Consistent)
  BY DEF Emitted
<1>3. o \in [1..Cardinality(ks) -> ks]
  BY DEF Bijection, Injection
<1>4. ASSUME NEW i \in DOMAIN o PROVE emitParsedEvent(o[i], pending[o[i]]) \in Consistent
  BY <1>3, <1>4, EmitConsistent, ZenonT(30) DEF Typed, PendingConsistent
<1> QED
  BY <1>2, <1>3, <1>4, SMTT(30)

(* A record written at the end of the ring does not change what an event   *)
(* before it finds, nor, unless it is a header of the same key, what the   *)
(* next one finds.                                                         *)
LEMMA AppendBelongs ==
  ASSUME ring \in Seq(Event), NEW e \in Event, ring' = Append(ring, e), pending' = pending,
         NEW i \in 1..(Len(ring) + 1), NEW k, NEW h, Belongs(i, k, h)
  PROVE  /\ Belongs(i, k, h)'
         /\ i = Len(ring) + 1 /\ ~(e.type = "header" /\ <<e.g, e.probe>> = k)
              => Belongs(i + 1, k, h)'
<1>1. Len(ring) \in Nat /\ ring'[Len(ring) + 1] = e
  BY SMTT(30)
<1>2. \A j \in 1..Len(ring) : ring'[j] = ring[j]
  BY SMTT(30)
<1>3. \A j \in 1..(i - 1) : ring'[j] = ring[j] /\ (IsHeader(j, k)' <=> IsHeader(j, k))
  BY <1>1, <1>2, SMTT(30) DEF IsHeader
<1>4. Belongs(i, k, h)'
  BY <1>1, <1>3, SMTT(30) DEF Belongs
<1>5. ASSUME i = Len(ring) + 1, ~(e.type = "header" /\ <<e.g, e.probe>> = k)
      PROVE  Belongs(i + 1, k, h)'
  <2>1. ~IsHeader(i, k)'
    BY <1>1, <1>5 DEF IsHeader
  <2>2. 1..((i + 1) - 1) = 1..(i - 1) \cup {i}
    BY <1>1, SMTT(30)
  <2>3. ASSUME NEW j \in 1..((i + 1) - 1), IsHeader(j, k)',
               \A m \in (j + 1)..((i + 1) - 1) : ~IsHeader(m, k)'
        PROVE  ring'[j].hit = h
    <3>1. j \in 1..(i - 1)
      BY <2>1, <2>2, <2>3
    <3>2. \A m \in (j + 1)..(i - 1) : ~IsHeader(m, k)
      BY <1>1, <1>3, <2>3, <3>1, SMTT(30)
    <3> QED
      BY <1>3, <2>3, <3>1, <3>2 DEF Belongs
  <2>4. ASSUME \A j \in 1..((i + 1) - 1) : ~IsHeader(j, k)'
        PROVE  pending'[k] = NoEntry \/ pending'[k].hit = h
    BY <1>3, <2>2, <2>4 DEF Belongs
  <2> QED
    BY <2>3, <2>4 DEF Belongs, NoEntry
<1> QED
  BY <1>4, <1>5

(* When the first event of the ring is handled, the ones after it find     *)
(* what they would have found.                                             *)
LEMMA TailBelongs ==
  ASSUME ring \in Seq(Event), ring # <<>>, ring' = Tail(ring),
         NEW i \in 1..Len(ring), NEW k, NEW h, Belongs(i + 1, k, h),
         IsHeader(1, k) => pending'[k] = NoEntry \/ pending'[k].hit = ring[1].hit,
         ~IsHeader(1, k) => pending'[k] = NoEntry
                              \/ (pending[k] # NoEntry /\ pending'[k].hit = pending[k].hit)
  PROVE  Belongs(i, k, h)'
<1>1. Len(ring) \in Nat \ {0}
  BY SMTT(30)
<1>2. \A j \in 1..(i - 1) : ring'[j] = ring[j + 1] /\ (IsHeader(j, k)' <=> IsHeader(j + 1, k))
  BY <1>1, SMTT(30) DEF IsHeader
<1>3. ASSUME NEW j \in 1..(i - 1), IsHeader(j, k)', \A m \in (j + 1)..(i - 1) : ~IsHeader(m, k)'
      PROVE  ring'[j].hit = h
  <2>1. \A m \in (j + 2)..i : ~IsHeader(m, k)
    <3> SUFFICES ASSUME NEW m \in (j + 2)..i PROVE ~IsHeader(m, k)
      OBVIOUS
    <3>1. m - 1 \in (j + 1)..(i - 1) /\ m - 1 \in 1..(i - 1) /\ (m - 1) + 1 = m
      BY <1>1, SMTT(30)
    <3> QED
      BY <1>2, <1>3, <3>1, ZenonT(30)
  <2>2. j + 1 \in 1..((i + 1) - 1) /\ IsHeader(j + 1, k)
        /\ \A m \in ((j + 1) + 1)..((i + 1) - 1) : ~IsHeader(m, k)
    BY <1>1, <1>2, <1>3, <2>1, SMTT(30)
  <2>3. ring[j + 1].hit = h
    BY <2>2 DEF Belongs
  <2> QED
    BY <1>2, <2>3
<1>4. ASSUME \A j \in 1..(i - 1) : ~IsHeader(j, k)'
      PROVE  pending'[k] = NoEntry \/ pending'[k].hit = h
  <2>1. \A j \in 2..i : ~IsHeader(j, k)
    <3> SUFFICES ASSUME NEW j \in 2..i PROVE ~IsHeader(j, k)
      OBVIOUS
    <3>1. j - 1 \in 1..(i - 1) /\ (j - 1) + 1 = j
      BY <1>1, SMTT(30)
    <3> QED
      BY <1>2, <1>4, <3>1
  <2>2. CASE IsHeader(1, k)
    <3>1. 1 \in 1..((i + 1) - 1) /\ \A m \in (1 + 1)..((i + 1) - 1) : ~IsHeader(m, k)
      BY <1>1, <2>1, SMTT(30)
    <3>2. ring[1].hit = h
      BY <2>2, <3>1 DEF Belongs
    <3> QED
      BY <2>2, <3>2
  <2>3. CASE ~IsHeader(1, k)
    <3>1. \A j \in 1..((i + 1) - 1) : ~IsHeader(j, k)
      BY <1>1, <2>1, <2>3, SMTT(30)
    <3>2. pending[k] = NoEntry \/ pending[k].hit = h
      BY <3>1 DEF Belongs
    <3> QED
      BY <2>3, <3>2
  <2> QED
    BY <2>2, <2>3
<1> QED
  BY <1>3, <1>4 DEF Belongs, NoEntry

(* No parameter has arrived in an entry that was just made.                *)
LEMMA NoneArrived ==
  ASSUME NEW n \in Nat, NEW h \in Nat
  PROVE  LET entry == [hit |-> h, params |-> [i \in 1..n |-> None]]
         IN  entry \in Entry /\ Arrived(entry) = {}
  BY SMTT(30) DEF Entry, Arrived

LEMMA NoEntryEmpty == NoEntry \in Entry /\ Arrived(NoEntry) = {}
  BY SMTT(30) DEF NoEntry, Entry, Arrived

(* The initial states are as IInv says.                                    *)
LEMMA InitIInv == Init => IInv
<1> SUFFICES ASSUME Init PROVE IInv
  OBVIOUS
<1> USE DEF Init
<1>1. Typed
  <2>1. MaxParams \in Nat
    BY EBPFAssumption
  <2>2. /\ hits \in Nat
        /\ slot \in [Probes -> [1..MaxParams -> Nat]]
        /\ ring \in Seq(Event)
        /\ nInputParams \in [Probes -> Nat]
        /\ paramInfo \in [Probes -> [1..2 * MaxParams -> Names]]
    BY SMTT(30) DEF Names
  <2>3. \A f \in Fns : nInputParams[<<f, "ret">>] = 0
    BY DEF Probes
  <2>4. prog \in [Goroutines -> Run] /\ \A g \in Goroutines : prog[g].at = "idle"
    BY <2>1, SMTT(30) DEF Idle, Run
  <2>5. pending \in [Keys -> Entry]
    BY NoEntryEmpty
  <2> QED
    BY <2>2, <2>3, <2>4, <2>5 DEF Typed
<1>2. ResultsConsistent /\ PendingConsistent
  BY NoEntryEmpty, SMTT(30) DEF ResultsConsistent, PendingConsistent
<1>3. RingOrdered /\ ProgOrdered
  BY SMTT(30) DEF RingOrdered, ProgOrdered, Idle
<1> QED
  BY <1>1, <1>2, <1>3 DEF IInv

(* With the same ring and table every event finds the same.                *)
LEMMA SameRing ==
  ASSUME UNCHANGED <<ring, pending>>
  PROVE  /\ RingOrdered => RingOrdered'
         /\ \A n, k, h : Belongs(n, k, h) => Belongs(n, k, h)'
<1>1. ASSUME NEW n, NEW k, NEW h, Belongs(n, k, h) PROVE Belongs(n, k, h)'
  <2>1. \A j : IsHeader(j, k)' <=> IsHeader(j, k)
    BY DEF IsHeader
  <2> QED
    BY <1>1, <2>1 DEF Belongs
<1>2. RingOrdered => RingOrdered'
  BY <1>1 DEF RingOrdered
<1> QED
  BY <1>1, <1>2

LEMMA SameOrder ==
  ASSUME RingOrdered, ProgOrdered, UNCHANGED <<prog, ring, pending>>
  PROVE  RingOrdered' /\ ProgOrdered'
  BY SameRing DEF ProgOrdered

(* A step that leaves the events and the tables alone keeps IInv.          *)
LEMMA QuietStep ==
  ASSUME IInv, UNCHANGED <<hits, slot, prog, ring, nInputParams, paramInfo, pending, parsed, out>>
  PROVE  IInv'
<1>1. Typed' /\ ResultsConsistent' /\ PendingConsistent'
  BY DEF IInv, Typed, ResultsConsistent, PendingConsistent
<1>2. RingOrdered' /\ ProgOrdered'
  BY SameOrder DEF IInv
<1> QED
  BY <1>1, <1>2 DEF IInv

(* Writing a record that finds what it should keeps the ring in order.     *)
LEMMA WriteRecord ==
  ASSUME IInv, NEW e \in Event, ring' = Append(ring, e), pending' = pending,
         NEW n \in Nat, n = Len(ring) + 1,
         e.type = "param" => Belongs(n, <<e.g, e.probe>>, e.hit)
  PROVE  RingOrdered'
<1>1. ring \in Seq(Event) /\ Len(ring) \in Nat /\ Len(ring') = n
  BY SMTT(30) DEF IInv, Typed
<1>2. ring'[n] = e /\ \A j \in 1..Len(ring) : ring'[j] = ring[j]
  BY <1>1, SMTT(30)
<1> SUFFICES ASSUME NEW i \in 1..Len(ring'), NEW k \in Keys, NEW h \in Nat,
                    ring'[i].type = "param", <<ring'[i].g, ring'[i].probe>> = k, ring'[i].hit = h
             PROVE  Belongs(i, k, h)'
  BY DEF RingOrdered
<1>3. i \in 1..(Len(ring) + 1)
  BY <1>1
<1>4. Belongs(i, k, h)
  <2>1. CASE i = n
    BY <1>2, <2>1
  <2>2. CASE i \in 1..Len(ring)
    <3>1. ring[i].type = "param" /\ <<ring[i].g, ring[i].probe>> = k /\ ring[i].hit = h
      BY <1>2, <2>2
    <3> QED
      BY <2>2, <3>1 DEF IInv, RingOrdered
  <2> QED
    BY <1>1, <1>3, <2>1, <2>2, SMTT(30)
<1> QED
  BY <1>1, <1>3, <1>4, AppendBelongs

(* A program that runs on finds the header of its hit, whatever the others *)
(* have written.                                                           *)
LEMMA WriteProg ==
  ASSUME IInv, NEW e \in Event, ring' = Append(ring, e), pending' = pending,
         NEW g \in Goroutines, NEW p \in Probes, NEW h \in Nat, NEW n \in Nat,
         n = Len(ring') + 1, prog[g].at # "idle", prog[g].probe = p, prog[g].hit = h,
         ~(e.type = "header" /\ e.g = g)
  PROVE  Belongs(n, <<g, p>>, h)'
<1>1. ring \in Seq(Event) /\ Len(ring) \in Nat /\ Len(ring') = Len(ring) + 1
  BY SMTT(30) DEF IInv, Typed
<1>2. n - 1 \in Nat /\ n - 1 = Len(ring) + 1 /\ n - 1 \in 1..(Len(ring) + 1) /\ (n - 1) + 1 = n
  BY <1>1, SMTT(30)
<1>3. Belongs(n - 1, <<g, p>>, h)
  BY <1>2 DEF IInv, ProgOrdered
<1>4. ~(e.type = "header" /\ <<e.g, e.probe>> = <<g, p>>)
  OBVIOUS
<1>5. Belongs((n - 1) + 1, <<g, p>>, h)'
  BY <1>1, <1>2, <1>3, <1>4, AppendBelongs, ZenonT(30)
<1> QED
  BY <1>2, <1>5

(* Handling the first event keeps the order.                               *)
LEMMA ReadRecord ==
  ASSUME IInv, ring # <<>>, ring' = Tail(ring), prog' = prog,
         \A k \in Keys :
           /\ IsHeader(1, k) => pending'[k] = NoEntry \/ pending'[k].hit = ring[1].hit
           /\ ~IsHeader(1, k) => pending'[k] = NoEntry
                \/ (pending[k] # NoEntry /\ pending'[k].hit = pending[k].hit)
  PROVE  RingOrdered' /\ ProgOrdered'
<1>1. ring \in Seq(Event) /\ Len(ring) \in Nat \ {0} /\ Len(ring') = Len(ring) - 1
  BY SMTT(30) DEF IInv, Typed
<1>2. \A j \in 1..Len(ring') : ring'[j] = ring[j + 1]
  BY <1>1, SMTT(30)
<1>3. RingOrdered'
  <2> SUFFICES ASSUME NEW i \in 1..Len(ring'), NEW k \in Keys, NEW h \in Nat,
                      ring'[i].type = "param", <<ring'[i].g, ring'[i].probe>> = k, ring'[i].hit = h
               PROVE  Belongs(i, k, h)'
    BY DEF RingOrdered
  <2>1. i \in 1..Len(ring) /\ i + 1 \in 1..Len(ring)
    BY <1>1, SMTT(30)
  <2>2. Belongs(i + 1, k, h)
    BY <1>2, <2>1 DEF IInv, RingOrdered
  <2> QED
    BY <1>1, <2>1, <2>2, TailBelongs
<1>4. ProgOrdered'
  <2> SUFFICES ASSUME NEW g \in Goroutines, NEW p \in Probes, NEW h \in Nat, NEW n \in Nat,
                      prog[g].at # "idle", prog[g].probe = p, prog[g].hit = h, n = Len(ring') + 1
               PROVE  Belongs(n, <<g, p>>, h)'
    BY DEF ProgOrdered
  <2>1. n \in 1..Len(ring) /\ n + 1 \in Nat /\ n + 1 = Len(ring) + 1
    BY <1>1, SMTT(30)
  <2>2. Belongs(n + 1, <<g, p>>, h)
    BY <2>1 DEF IInv, ProgOrdered
  <2>3. <<g, p>> \in Keys
    BY DEF Keys
  <2> QED
    BY <1>1, <2>1, <2>2, <2>3, TailBelongs
<1> QED
  BY <1>3, <1>4

(* A hit.                                                                  *)
LEMMA HitStep ==
  ASSUME IInv, NEW g \in Goroutines, NEW p \in Probes, Hit(g, p)
  PROVE  IInv'
<1> DEFINE e == Header(g, p, hits + 1)
<1> DEFINE run == [probe |-> p, hit |-> hits + 1, i |-> 1, at |-> "parse"]
<1>inv. /\ Typed /\ ResultsConsistent /\ PendingConsistent /\ RingOrdered /\ ProgOrdered
  BY DEF IInv
<1>1. /\ hits' = hits + 1
      /\ UNCHANGED <<slot, nInputParams, paramInfo, pending, parsed, out>>
  BY DEF Hit, meta, cvars
<1>2. /\ e \in Event /\ e.type = "header" /\ e.g = g /\ e.probe = p /\ e.hit = hits + 1
      /\ hits + 1 \in Nat /\ n_params(p) \in 0..MaxParams /\ MaxParams \in Nat
  BY <1>inv, ParamCount, EBPFAssumption, SMTT(30) DEF Header, Event, HeaderEvent, Typed
<1>3. PICK x : /\ prog' = [prog EXCEPT ![g] = x]
               /\ \/ ring' \in {ring, Append(ring, e)} /\ x = Idle
                  \/ ring' = Append(ring, e) /\ n_params(p) # 0 /\ x = run
  <2>1. Len(ring) \in Nat /\ RingSize \in Nat
    BY <1>inv, EBPFAssumption, SMTT(30) DEF Typed
  <2>2. CASE Len(ring) >= RingSize
    BY <2>1, <2>2, ZenonT(30) DEF Hit, Output
  <2>3. CASE Len(ring) < RingSize
    BY <2>1, <2>3, ZenonT(30) DEF Hit, Output
  <2> QED
    BY <2>1, <2>2, <2>3, SMTT(30)
<1>4. /\ x \in Run
      /\ x.at # "idle" => ring' = Append(ring, e) /\ x = run /\ x.probe = p /\ x.hit = hits + 1
                          /\ x.i = 1 /\ n_params(p) # 0
  BY <1>2, <1>3, SMTT(30) DEF Idle, Run
<1> HIDE DEF e, run
<1>5. ring' = ring \/ ring' = Append(ring, e)
  BY <1>3
<1>6. \A u \in Goroutines : u # g => prog'[u] = prog[u]
  BY <1>inv, <1>3 DEF Typed
<1>7. prog'[g] = x
  BY <1>inv, <1>3 DEF Typed
<1>8. Typed'
  <2>1. ring \in Seq(Event)
    BY <1>inv DEF Typed
  <2>2. ring' \in Seq(Event)
    BY <1>2, <1>5, <2>1, SMTT(30)
  <2>3. hits' \in Nat
    BY <1>1, <1>2
  <2>4. prog' \in [Goroutines -> Run]
    BY <1>inv, <1>3, <1>4 DEF Typed
  <2>5. ASSUME NEW u \in Goroutines, prog'[u].at # "idle"
        PROVE  prog'[u].probe \in Probes /\ prog'[u].i \in 1..n_params(prog'[u].probe)
    <3>1. CASE u = g
      BY <1>2, <1>4, <1>7, <2>5, <3>1, SMTT(30)
    <3>2. CASE u # g
      BY <1>inv, <1>6, <2>5, <3>2 DEF Typed
    <3> QED
      BY <3>1, <3>2
  <2> QED
    BY <1>inv, <1>1, <2>2, <2>3, <2>4, <2>5 DEF Typed
<1>9. ResultsConsistent' /\ PendingConsistent'
  BY <1>inv, <1>1 DEF ResultsConsistent, PendingConsistent
<1>10. CASE ring' = ring
  <2>1. RingOrdered'
    BY <1>inv, <1>1, <1>10, SameRing
  <2>2. x.at = "idle"
    <3>1. Len(ring) \in Nat /\ Len(Append(ring, e)) = Len(ring) + 1
      BY <1>inv, <1>2, SMTT(30) DEF Typed
    <3> QED
      BY <1>4, <1>10, <3>1, SMTT(30)
  <2>3. ProgOrdered'
    BY <1>inv, <1>1, <1>6, <1>7, <1>10, <2>2, SameRing DEF ProgOrdered
  <2> QED
    BY <1>8, <1>9, <2>1, <2>3 DEF IInv
<1>11. CASE ring' = Append(ring, e)
  <2>1. Len(ring) \in Nat /\ Len(ring') = Len(ring) + 1 /\ ring'[Len(ring) + 1] = e
    BY <1>inv, <1>2, <1>11, SMTT(30) DEF Typed
  <2>2. RingOrdered'
    <3>1. Len(ring) + 1 \in Nat /\ e.type # "param" /\ pending' = pending
      BY <1>1, <1>2, <2>1, SMTT(30)
    <3> QED
      BY <1>2, <1>11, <3>1, WriteRecord, ZenonT(30)
  <2>3. ProgOrdered'
    <3> SUFFICES ASSUME NEW u \in Goroutines, NEW q \in Probes, NEW h \in Nat, NEW n \in Nat,
                        prog'[u].at # "idle", prog'[u].probe = q, prog'[u].hit = h,
                        n = Len(ring') + 1
                 PROVE  Belongs(n, <<u, q>>, h)'
      BY DEF ProgOrdered
    <3>1. CASE u # g
      BY <1>1, <1>2, <1>6, <1>11, <3>1, WriteProg
    <3>2. CASE u = g
      <4>1. q = p /\ h = hits + 1
        BY <1>4, <1>7, <3>2
      <4>2. n - 1 \in 1..(n - 1) /\ IsHeader(n - 1, <<u, q>>)' /\ ring'[n - 1].hit = h
        BY <1>2, <2>1, <3>2, <4>1, SMTT(30) DEF IsHeader
      <4>3. ASSUME NEW j \in 1..(n - 1), \A m \in (j + 1)..(n - 1) : ~IsHeader(m, <<u, q>>)'
            PROVE  j = n - 1
        BY <2>1, <4>2, <4>3, SMTT(30)
      <4> QED
        BY <4>2, <4>3 DEF Belongs
    <3> QED
      BY <3>1, <3>2
  <2> QED
    BY <1>8, <1>9, <2>2, <2>3 DEF IInv
<1> QED
  BY <1>5, <1>10, <1>11

(* Reading a parameter.                                                    *)
LEMMA ParseStep ==
  ASSUME IInv, NEW g \in Goroutines, parse_param(g)
  PROVE  IInv'
<1>inv. /\ Typed /\ ResultsConsistent /\ PendingConsistent /\ RingOrdered /\ ProgOrdered
  BY DEF IInv
<1>1. /\ slot' = [slot EXCEPT ![prog[g].probe][prog[g].i] = prog[g].hit]
      /\ prog' = [prog EXCEPT ![g] = [prog[g] EXCEPT !.at = "copy"]]
      /\ prog[g].at = "parse"
      /\ UNCHANGED <<hits, ring, nInputParams, paramInfo, pending, parsed, out>>
  BY DEF parse_param, meta, cvars
<1>2. prog \in [Goroutines -> Run] /\ prog[g].hit \in Nat
  BY <1>inv DEF Typed, Run
<1>3. /\ prog' \in [Goroutines -> Run]
      /\ \A u \in Goroutines : /\ prog'[u].probe = prog[u].probe /\ prog'[u].i = prog[u].i
                               /\ prog'[u].hit = prog[u].hit
                               /\ prog'[u].at # "idle" => prog[u].at # "idle"
  BY <1>1, <1>2 DEF Run
<1>4. slot' \in [Probes -> [1..MaxParams -> Nat]]
  BY <1>inv, <1>1, <1>2, ZenonT(30) DEF Typed
<1>5. Typed'
  BY <1>inv, <1>1, <1>3, <1>4 DEF Typed
<1>6. ResultsConsistent' /\ PendingConsistent'
  BY <1>inv, <1>1 DEF ResultsConsistent, PendingConsistent
<1>7. RingOrdered' /\ ProgOrdered'
  BY <1>inv, <1>1, <1>3, SameRing DEF ProgOrdered
<1> QED
  BY <1>5, <1>6, <1>7 DEF IInv

(* Writing a parameter.                                                    *)
LEMMA WriteParamStep ==
  ASSUME IInv, NEW g \in Goroutines, WriteParam(g)
  PROVE  IInv'
<1> DEFINE r == prog[g]
<1> DEFINE e == Param(g, r)
<1>inv. /\ Typed /\ ResultsConsistent /\ PendingConsistent /\ RingOrdered /\ ProgOrdered
  BY DEF IInv
<1>1. /\ r.at = "copy"
      /\ ring' = ring \/ ring' = Append(ring, e)
      /\ prog' = [prog EXCEPT ![g] = IF r.i = n_params(r.probe) THEN Idle
                                     ELSE [r EXCEPT !.i = r.i + 1, !.at = "parse"]]
      /\ UNCHANGED <<hits, slot, nInputParams, paramInfo, pending, parsed, out>>
  BY DEF WriteParam, Output, meta, cvars
<1>2. /\ prog \in [Goroutines -> Run] /\ r \in Run
      /\ r.probe \in Probes /\ r.i \in 1..n_params(r.probe) /\ r.hit \in Nat
  BY <1>inv, <1>1 DEF Typed, Run
<1>3. n_params(r.probe) \in 0..MaxParams /\ MaxParams \in Nat /\ r.i \in 1..MaxParams
  BY <1>2, ParamCount, EBPFAssumption, SMTT(30)
<1>4. slot[r.probe][r.i] \in Nat
  BY <1>inv, <1>2, <1>3 DEF Typed
<1>5. e \in Event /\ e.type = "param" /\ e.g = g /\ e.probe = r.probe /\ e.hit = r.hit
  BY <1>2, <1>3, <1>4 DEF Param, Event, ParamEvent
<1>6. /\ prog' \in [Goroutines -> Run]
      /\ \A u \in Goroutines : prog'[u].at # "idle" =>
           /\ prog[u].at # "idle" /\ prog'[u].probe = prog[u].probe /\ prog'[u].hit = prog[u].hit
           /\ prog'[u].i \in 1..n_params(prog'[u].probe)
  <2>1. \A u \in Goroutines : u # g => prog'[u] = prog[u]
    BY <1>1, <1>2
  <2>2. CASE r.i = n_params(r.probe)
    <3>1. prog' = [prog EXCEPT ![g] = Idle] /\ Idle \in Run /\ Idle.at = "idle"
      BY <1>1, <1>3, <2>2, SMTT(30) DEF Idle, Run
    <3> QED
      BY <1>inv, <1>2, <2>1, <3>1 DEF Typed
  <2>3. CASE r.i # n_params(r.probe)
    <3> DEFINE x == [r EXCEPT !.i = r.i + 1, !.at = "parse"]
    <3>1. prog' = [prog EXCEPT ![g] = x]
      BY <1>1, <2>3
    <3>2. x \in Run /\ x.probe = r.probe /\ x.hit = r.hit /\ x.i \in 1..n_params(r.probe)
      <4>1. r.i + 1 \in 1..n_params(r.probe) /\ r.i + 1 \in 0..MaxParams
        BY <1>2, <1>3, <2>3, SMTT(30)
      <4>2. r \in [probe : Probes \cup {None}, hit : Nat, i : 0..MaxParams,
                   at : {"idle", "parse", "copy"}]
        BY <1>2 DEF Run
      <4> HIDE DEF r
      <4> QED
        BY <4>1, <4>2, ZenonT(30) DEF Run
    <3> HIDE DEF x
    <3> QED
      BY <1>inv, <1>1, <1>2, <2>1, <3>1, <3>2, ZenonT(30) DEF Typed
  <2> QED
    BY <2>2, <2>3
<1> HIDE DEF e, r
<1>7. Typed'
  <2>1. ring \in Seq(Event)
    BY <1>inv DEF Typed
  <2>2. ring' \in Seq(Event)
    BY <1>1, <1>5, <2>1, SMTT(30)
  <2> QED
    BY <1>inv, <1>1, <1>6, <2>2 DEF Typed
<1>8. ResultsConsistent' /\ PendingConsistent'
  BY <1>inv, <1>1 DEF ResultsConsistent, PendingConsistent
<1>9. CASE ring' = ring
  <2>1. RingOrdered' /\ ProgOrdered'
    BY <1>inv, <1>1, <1>6, <1>9, SameRing DEF ProgOrdered
  <2> QED
    BY <1>7, <1>8, <2>1 DEF IInv
<1>10. CASE ring' = Append(ring, e)
  <2>1. Len(ring) + 1 \in Nat /\ pending' = pending
    BY <1>inv, <1>1, SMTT(30) DEF Typed
  <2>2. Belongs(Len(ring) + 1, <<e.g, e.probe>>, e.hit)
    BY <1>inv, <1>1, <1>2, <1>5, <2>1 DEF ProgOrdered, r
  <2>3. RingOrdered'
    BY <1>5, <1>10, <2>1, <2>2, WriteRecord
  <2>4. ProgOrdered'
    BY <1>5, <1>6, <1>10, <2>1, WriteProg DEF ProgOrdered
  <2> QED
    BY <1>7, <1>8, <2>3, <2>4 DEF IInv
<1> QED
  BY <1>1, <1>9, <1>10

(* What SetUProbe records about the parameters of a function.              *)
LEMMA ArgNames ==
  ASSUME NEW f \in Fns
  PROVE  Len(Args(f)) \in Nat /\ \A i \in DOMAIN Args(f) : Args(f)[i] \in Names
<1>1. NIn[f] \in Nat /\ NRet[f] \in Nat
  BY EBPFAssumption, SMTT(30)
<1>2. Args(f) \in Seq(Names)
  <2> DEFINE arg(i) == IF i <= NIn[f] THEN <<f, "in", i>> ELSE <<f, "out", i - NIn[f]>>
  <2> DEFINE n == NIn[f] + NRet[f]
  <2>1. \A i \in 1..n : arg(i) \in Names
    BY <1>1, SMTT(30) DEF Names
  <2>2. n \in Nat /\ Args(f) = [i \in 1..n |-> arg(i)]
    BY <1>1, SMTT(30) DEF Args
  <2> HIDE DEF arg, n
  <2> QED
    BY <2>1, <2>2, SMTT(30)
<1> QED
  BY <1>2, SMTT(30)

LEMMA MetadataNames ==
  ASSUME Typed, NEW p \in Probes
  PROVE  Metadata(p) \in [Probes -> [1..2 * MaxParams -> Names]]
<1> DEFINE base == IF p[2] = "ret" THEN nInputParams[p] ELSE 0
<1> DEFINE row == [i \in DOMAIN paramInfo[p] |->
                     IF i - base \in DOMAIN Args(p[1]) THEN Args(p[1])[i - base]
                     ELSE paramInfo[p][i]]
<1>1. paramInfo \in [Probes -> [1..2 * MaxParams -> Names]] /\ p[1] \in Fns
  BY DEF Typed, Probes
<1>2. row \in [1..2 * MaxParams -> Names]
  BY <1>1, ArgNames, ZenonT(30)
<1>3. Metadata(p) = [paramInfo EXCEPT ![p] = row]
  BY DEF Metadata
<1> HIDE DEF row
<1> QED
  BY <1>1, <1>2, <1>3

(* A probe's parameters are recorded.                                      *)
LEMMA SetUProbeStep ==
  ASSUME IInv, NEW f \in Fns, NEW done \in 0..4, SetUProbe(f, done)
  PROVE  IInv'
<1> DEFINE e == <<f, "entry">>
<1> DEFINE r == <<f, "ret">>
<1>inv. /\ Typed /\ ResultsConsistent /\ PendingConsistent /\ RingOrdered /\ ProgOrdered
  BY DEF IInv
<1>1. e \in Probes /\ r \in Probes /\ e # r
  BY DEF Probes
<1>2. /\ nInputParams' = InputCount(e)
      /\ paramInfo' = [Metadata(e) EXCEPT ![r] = IF done >= 1 THEN Metadata(r)[r]
                                                 ELSE Metadata(e)[r]]
      /\ UNCHANGED <<slot, prog, ring, hits, pending, parsed, out>>
  BY DEF SetUProbe, cvars
<1>3. Len(Args(f)) \in Nat
  BY ArgNames
<1>4. InputCount(e) = [nInputParams EXCEPT ![e] = Len(Args(f))]
  BY DEF InputCount
<1>5. nInputParams' \in [Probes -> Nat] /\ \A x \in Fns : nInputParams'[<<x, "ret">>] = 0
  <2>1. nInputParams \in [Probes -> Nat] /\ \A x \in Fns : nInputParams[<<x, "ret">>] = 0
    BY <1>inv DEF Typed
  <2>2. \A x \in Fns : <<x, "ret">> \in Probes /\ <<x, "ret">> # e
    BY DEF Probes
  <2> HIDE DEF e, r
  <2> QED
    BY <1>1, <1>2, <1>3, <1>4, <2>1, <2>2
<1>6. paramInfo' \in [Probes -> [1..2 * MaxParams -> Names]]
  <2>1. /\ Metadata(e) \in [Probes -> [1..2 * MaxParams -> Names]]
        /\ Metadata(r) \in [Probes -> [1..2 * MaxParams -> Names]]
    BY <1>inv, <1>1, MetadataNames, ZenonT(30)
  <2> HIDE DEF e, r
  <2> QED
    BY <1>1, <1>2, <2>1
<1>7. Typed'
  BY <1>inv, <1>2, <1>5, <1>6, ZenonT(30) DEF Typed
<1>8. ResultsConsistent' /\ PendingConsistent'
  BY <1>inv, <1>2 DEF ResultsConsistent, PendingConsistent
<1>9. RingOrdered' /\ ProgOrdered'
  BY <1>inv, <1>2, SameOrder
<1> QED
  BY <1>7, <1>8, <1>9 DEF IInv

(* Everything that is pending is emitted.                                  *)
LEMMA FlushStep ==
  ASSUME IInv, CloseFlush
  PROVE  IInv'
<1>inv. /\ Typed /\ ResultsConsistent /\ PendingConsistent /\ RingOrdered /\ ProgOrdered
  BY DEF IInv
<1>1. /\ pending' = [k \in Keys |-> NoEntry]
      /\ UNCHANGED <<hits, slot, prog, ring, nInputParams, paramInfo, out>>
  BY DEF CloseFlush, kvars, meta
<1>2. PICK all \in Emitted(Collecting) : parsed' = parsed \o all
  BY DEF CloseFlush
<1>3. all \in Seq(Consistent)
  BY <1>inv, EmittedConsistent DEF Collecting
<1>4. ResultsConsistent'
  BY <1>inv, <1>1, <1>2, <1>3, SMTT(30) DEF ResultsConsistent
<1>5. Typed' /\ PendingConsistent'
  <2>1. pending' \in [Keys -> Entry]
    BY <1>1, NoEntryEmpty
  <2> QED
    BY <1>inv, <1>1, <2>1, NoEntryEmpty DEF Typed, PendingConsistent
<1>6. RingOrdered' /\ ProgOrdered'
  <2>1. ASSUME NEW i, NEW k \in Keys, NEW h, Belongs(i, k, h) PROVE Belongs(i, k, h)'
    BY <1>1, <2>1 DEF Belongs, IsHeader
  <2>2. \A g \in Goroutines, p \in Probes : <<g, p>> \in Keys
    BY DEF Keys
  <2>3. RingOrdered'
    BY <1>inv, <1>1, <2>1 DEF RingOrdered
  <2> QED
    BY <1>inv, <1>1, <2>1, <2>2, <2>3 DEF ProgOrdered
<1> QED
  BY <1>4, <1>5, <1>6 DEF IInv

(* A header is read.                                                       *)
LEMMA HeaderRead ==
  ASSUME IInv, storeEvent, Head(ring).type = "header"
  PROVE  IInv'
<1> DEFINE e == Head(ring)
<1> DEFINE k == <<e.g, e.probe>>
<1> DEFINE old == Collecting \cap {k}
<1> DEFINE evicted == IF Cardinality(Collecting \ {k}) >= MaxPending THEN Collecting \ {k} ELSE {}
<1> DEFINE entry == [hit |-> e.hit, params |-> [i \in 1..e.n |-> None]]
<1> DEFINE done == IF e.n = 0 THEN <<emitParsedEvent(k, entry)>> ELSE <<>>
<1>inv. /\ Typed /\ ResultsConsistent /\ PendingConsistent /\ RingOrdered /\ ProgOrdered
  BY DEF IInv
<1>1. /\ ring # <<>> /\ ring' = Tail(ring) /\ handleHeaderEvent(e)
      /\ UNCHANGED <<hits, slot, prog, nInputParams, paramInfo, out>>
  BY DEF storeEvent, meta
<1>2. ring \in Seq(Event) /\ pending \in [Keys -> Entry] /\ ring[1] = e
  BY <1>inv, <1>1, SMTT(30) DEF Typed
<1>3. e \in Event
  BY <1>1, <1>2, SMTT(30)
<1>4. k \in Keys /\ e.hit \in Nat /\ e.n \in 0..MaxParams /\ MaxParams \in Nat
  BY <1>3, EventFields, EBPFAssumption
<1>5. entry \in Entry /\ Arrived(entry) = {} /\ entry.hit = e.hit
  <2>1. e.n \in Nat /\ e.hit \in Nat
    BY <1>4, SMTT(30)
  <2>2. PICK n \in Nat, h \in Nat : n = e.n /\ h = e.hit
    BY <2>1
  <2>3. entry = [hit |-> h, params |-> [i \in 1..n |-> None]]
    BY <2>2
  <2> HIDE DEF entry, e
  <2> QED
    BY <2>2, <2>3, NoneArrived, ZenonT(30)
<1>6. pending' = [x \in Keys |-> IF x = k /\ e.n > 0 THEN entry
                                 ELSE IF x \in old \cup evicted THEN NoEntry
                                 ELSE pending[x]]
  BY <1>1 DEF handleHeaderEvent
<1>7. PICK first \in Emitted(old), others \in Emitted(evicted) :
        parsed' = parsed \o first \o others \o done
  BY <1>1, ZenonT(30) DEF handleHeaderEvent
<1>8. first \in Seq(Consistent) /\ others \in Seq(Consistent)
  <2>1. old \in SUBSET Keys /\ evicted \in SUBSET Keys
    BY DEF Collecting
  <2> QED
    BY <1>inv, <2>1, EmittedConsistent
<1>9. done \in Seq(Consistent)
  <2>1. emitParsedEvent(k, entry) \in Consistent
    BY <1>4, <1>5, EmitConsistent, ZenonT(30)
  <2> QED
    BY <2>1, SMTT(30)
<1>10. \A x \in old \cup evicted : x \in Collecting
  OBVIOUS
<1>11. ASSUME k \notin old PROVE pending[k] = NoEntry
  BY <1>4, <1>11 DEF Collecting
<1>12. IsHeader(1, k) /\ \A x \in Keys : IsHeader(1, x) => x = k
  BY <1>2 DEF IsHeader
<1> HIDE DEF e, entry, done, old, evicted
<1>13. ResultsConsistent'
  BY <1>inv, <1>1, <1>7, <1>8, <1>9, SMTT(30) DEF ResultsConsistent
<1>14. Typed'
  <2>1. pending' \in [Keys -> Entry]
    BY <1>2, <1>5, <1>6, NoEntryEmpty
  <2>2. ring' \in Seq(Event)
    BY <1>1, <1>2, SMTT(30)
  <2> QED
    BY <1>inv, <1>1, <2>1, <2>2 DEF Typed
<1>15. PendingConsistent'
  <2> SUFFICES ASSUME NEW x \in Keys PROVE \A y \in Arrived(pending'[x]) : y.hit = pending'[x].hit
    BY DEF PendingConsistent, Arrived
  <2>1. pending'[x] \in {entry, NoEntry, pending[x]}
    BY <1>6
  <2> QED
    BY <1>inv, <1>5, <2>1, NoEntryEmpty DEF PendingConsistent
<1>16. RingOrdered' /\ ProgOrdered'
  <2>1. pending'[k] = NoEntry \/ pending'[k].hit = ring[1].hit
    BY <1>2, <1>4, <1>5, <1>6, <1>11
  <2>2. ASSUME NEW x \in Keys, x # k
        PROVE  pending'[x] = NoEntry \/ (pending[x] # NoEntry /\ pending'[x].hit = pending[x].hit)
    BY <1>6, <2>2
  <2> HIDE DEF k
  <2> QED
    BY <1>1, <1>12, <2>1, <2>2, ReadRecord
<1> QED
  BY <1>13, <1>14, <1>15, <1>16 DEF IInv

(* An entry with another parameter at index i.                             *)
LEMMA EntryUpdate ==
  ASSUME NEW pe \in Entry, NEW i \in DOMAIN pe.params, NEW x
  PROVE  LET q == [pe EXCEPT !.params[i] = x]
         IN  /\ q.hit = pe.hit /\ q.params = [pe.params EXCEPT ![i] = x]
             /\ q = [hit |-> q.hit, params |-> q.params]
<1> DEFINE z == [pe.params EXCEPT ![i] = x]
<1>1. [pe EXCEPT !.params[i] = x] = [pe EXCEPT !.params = z]
  OBVIOUS
<1> HIDE DEF z
<1>2. LET q == [pe EXCEPT !.params = z]
      IN  q.hit = pe.hit /\ q.params = z /\ q = [hit |-> q.hit, params |-> q.params]
  BY SMTT(30) DEF Entry
<1> QED
  BY <1>1, <1>2 DEF z

(* The entry pe with parameter x of its hit at index i.                    *)
LEMMA CollectOne ==
  ASSUME NEW pe \in Entry, NEW i \in DOMAIN pe.params, NEW x \in ParamRec, x.hit = pe.hit,
         \A y \in Arrived(pe) : y.hit = pe.hit
  PROVE  LET q == [pe EXCEPT !.params[i] = x]
         IN  /\ q \in Entry /\ q.hit = pe.hit
             /\ \A y \in Arrived(q) : y.hit = q.hit
<1> DEFINE q == [pe EXCEPT !.params[i] = x]
<1>1. pe.params \in Seq(ParamRec \cup {None}) /\ pe.hit \in Nat
  BY DEF Entry
<1>2. [pe.params EXCEPT ![i] = x] \in Seq(ParamRec \cup {None})
  BY <1>1, SMTT(30)
<1>3. /\ q.hit = pe.hit /\ q.params = [pe.params EXCEPT ![i] = x]
      /\ q = [hit |-> q.hit, params |-> q.params]
  BY EntryUpdate, ZenonT(60)
<1> HIDE DEF q
<1>4. q \in Entry
  BY <1>1, <1>2, <1>3 DEF Entry
<1>5. Arrived(q) \subseteq Arrived(pe) \cup {x}
  BY <1>1, <1>3, ZenonT(60) DEF Arrived
<1>6. q \in Entry /\ q.hit = pe.hit /\ \A y \in Arrived(q) : y.hit = q.hit
  BY <1>3, <1>4, <1>5
<1> QED
  BY <1>6 DEF q

(* The metadata of a parameter event.                                      *)
LEMMA MetaNames ==
  ASSUME Typed, NEW e \in Event, e.type = "param"
  PROVE  MetaOf(e) \in Names
<1>1. e.probe \in Probes /\ e.i \in 1..MaxParams /\ MaxParams \in Nat
  BY EventFields, EBPFAssumption, ZenonT(30)
<1>2. e.probe[2] = "ret" => nInputParams[e.probe] = 0
  <2>1. PICK f \in Fns, s \in {"entry", "ret"} : e.probe = <<f, s>>
    BY <1>1, SMTT(30) DEF Probes
  <2> QED
    BY <2>1, SMTT(30) DEF Typed
<1>3. MetaOf(e) = paramInfo[e.probe][e.i]
  BY <1>1, <1>2, SMTT(30) DEF MetaOf
<1>4. e.i \in 1..2 * MaxParams
  BY <1>1, SMTT(30)
<1> QED
  BY <1>1, <1>3, <1>4, SMTT(30) DEF Typed

(* A parameter is read: the entry of its key is that of its hit.           *)
LEMMA ParamRead ==
  ASSUME IInv, storeEvent, Head(ring).type = "param"
  PROVE  IInv'
<1> DEFINE e == Head(ring)
<1> DEFINE k == <<e.g, e.probe>>
<1> DEFINE x == [hit |-> e.hit, i |-> e.i, val |-> e.val, name |-> MetaOf(e)]
<1> DEFINE pe == [pending[k] EXCEPT !.params[e.i] = x]
<1>inv. /\ Typed /\ ResultsConsistent /\ PendingConsistent /\ RingOrdered /\ ProgOrdered
  BY DEF IInv
<1>1. /\ ring # <<>> /\ ring' = Tail(ring) /\ handleParamEvent(e)
      /\ UNCHANGED <<hits, slot, prog, nInputParams, paramInfo, out>>
  BY DEF storeEvent, meta
<1>2. ring \in Seq(Event) /\ pending \in [Keys -> Entry] /\ ring[1] = e /\ Len(ring) \in Nat \ {0}
  BY <1>inv, <1>1, SMTT(30) DEF Typed
<1>3. e \in Event /\ ring' \in Seq(Event)
  BY <1>1, <1>2, SMTT(30)
<1>4. k \in Keys /\ e.hit \in Nat /\ e.i \in 1..MaxParams /\ e.val \in Nat
  BY <1>3, EventFields
<1>5. x \in ParamRec /\ x.hit = e.hit
  <2>1. MetaOf(e) \in Names
    BY <1>inv, <1>3, MetaNames
  <2> HIDE DEF e
  <2> QED
    BY <1>4, <2>1 DEF ParamRec
<1>6. pending[k] = NoEntry \/ pending[k].hit = e.hit
  <2>1. Belongs(1, k, e.hit)
    BY <1>inv, <1>2, <1>4, SMTT(30) DEF RingOrdered
  <2> QED
    BY <2>1, SMTT(30) DEF Belongs
<1>7. \A y \in Keys : ~IsHeader(1, y)
  BY <1>2 DEF IsHeader
<1>8. pending[k] \in Entry /\ \A y \in Arrived(pending[k]) : y.hit = pending[k].hit
  BY <1>inv, <1>2, <1>4 DEF PendingConsistent
<1>9. CASE e.i \notin DOMAIN pending[k].params
  <2>1. UNCHANGED <<pending, parsed>>
    BY <1>1, <1>9 DEF handleParamEvent
  <2> HIDE DEF e, k, x, pe
  <2>2. Typed' /\ ResultsConsistent' /\ PendingConsistent'
    BY <1>inv, <1>1, <1>3, <2>1 DEF Typed, ResultsConsistent, PendingConsistent
  <2>3. RingOrdered' /\ ProgOrdered'
    BY <1>1, <1>7, <2>1, ReadRecord
  <2> QED
    BY <2>2, <2>3 DEF IInv
<1>10. CASE e.i \in DOMAIN pending[k].params
  <2>1. pending[k] # NoEntry
    BY <1>10, SMTT(30) DEF NoEntry
  <2>2. pe \in Entry /\ pe.hit = pending[k].hit /\ \A y \in Arrived(pe) : y.hit = pe.hit
    BY <1>5, <1>6, <1>8, <1>10, <2>1, CollectOne, ZenonT(30)
  <2>3. emitParsedEvent(k, pe) \in Consistent
    BY <1>4, <2>2, EmitConsistent, ZenonT(30)
  <2>4. /\ \/ pending' = [pending EXCEPT ![k] = NoEntry]
           \/ pending' = [pending EXCEPT ![k] = pe]
        /\ parsed' = parsed \/ parsed' = Append(parsed, emitParsedEvent(k, pe))
    BY <1>1, <1>10, ZenonT(30) DEF handleParamEvent
  <2> HIDE DEF e, k, x, pe
  <2>5. PICK q \in {NoEntry, pe} : pending' = [pending EXCEPT ![k] = q]
    BY <2>4
  <2>6. q \in Entry /\ \A y \in Arrived(q) : y.hit = q.hit
    BY <2>2, <2>5, NoEntryEmpty
  <2>7. pending' \in [Keys -> Entry] /\ pending'[k] = q
        /\ \A y \in Keys : y # k => pending'[y] = pending[y]
    BY <1>2, <1>4, <2>5, <2>6
  <2>8. Typed'
    BY <1>inv, <1>1, <1>3, <2>7 DEF Typed
  <2>9. ResultsConsistent'
    <3>1. PICK c \in Consistent : c = emitParsedEvent(k, pe)
      BY <2>3
    <3>2. parsed \in Seq(Consistent) /\ out \in Seq(Consistent) /\ out' = out
      BY <1>inv, <1>1 DEF ResultsConsistent
    <3>3. parsed' = parsed \/ parsed' = Append(parsed, c)
      BY <2>4, <3>1
    <3>4. parsed' \in Seq(Consistent)
      BY <3>2, <3>3, SMTT(30)
    <3> QED
      BY <3>2, <3>4 DEF ResultsConsistent
  <2>10. PendingConsistent'
    <3> SUFFICES ASSUME NEW y \in Keys
                 PROVE  \A z \in Arrived(pending'[y]) : z.hit = pending'[y].hit
      BY DEF PendingConsistent, Arrived
    <3> QED
      BY <1>inv, <2>6, <2>7 DEF PendingConsistent
  <2>11. RingOrdered' /\ ProgOrdered'
    <3>1. \A y \in Keys : pending'[y] = NoEntry
                            \/ (pending[y] # NoEntry /\ pending'[y].hit = pending[y].hit)
      BY <2>1, <2>2, <2>5, <2>7
    <3> QED
      BY <1>1, <1>7, <3>1, ReadRecord
  <2> QED
    BY <2>8, <2>9, <2>10, <2>11 DEF IInv
<1> QED
  BY <1>9, <1>10

(* Every step of the specification keeps IInv.                             *)
LEMMA NextIInv == IInv /\ [Next]_vars => IInv'
<1> SUFFICES ASSUME IInv, [Next]_vars PROVE IInv'
  OBVIOUS
<1>1. ASSUME NEW g \in Goroutines, parse_param(g) PROVE IInv'
  BY <1>1, ParseStep
<1>2. ASSUME NEW g \in Goroutines, WriteParam(g) PROVE IInv'
  BY <1>2, WriteParamStep
<1>3. ASSUME NEW g \in Goroutines, NEW p \in Probes, Hit(g, p) PROVE IInv'
  BY <1>3, HitStep
<1>4. CASE CheckContext \/ ReadDeadline \/ ReadError \/ Cancel \/ CloseLinks \/ UNCHANGED vars
  BY <1>4, QuietStep
     DEF CheckContext, ReadDeadline, ReadError, Cancel, CloseLinks, vars, kvars, meta, cvars
<1>5. CASE storeEvent
  <2>1. ring \in Seq(Event) /\ ring # <<>>
    BY <1>5, ZenonT(30) DEF IInv, Typed, storeEvent
  <2>2. Head(ring) \in Event
    BY <2>1, SMTT(30)
  <2>3. Head(ring).type \in {"header", "param"}
    BY <2>2, EventFields, ZenonT(30)
  <2> QED
    BY <1>5, <2>3, HeaderRead, ParamRead
<1>6. CASE CloseFlush
  BY <1>6, FlushStep
<1>7. CASE GetBufferedTracepoints
  <2>1. /\ parsed' = <<>> /\ out' = out \o parsed
        /\ UNCHANGED <<hits, slot, prog, ring, nInputParams, paramInfo, pending>>
    BY <1>7 DEF GetBufferedTracepoints, kvars, meta
  <2>2. ResultsConsistent'
    BY <2>1, SMTT(30) DEF IInv, ResultsConsistent
  <2>3. Typed' /\ PendingConsistent'
    BY <2>1, ZenonT(30) DEF IInv, Typed, PendingConsistent
  <2>4. RingOrdered' /\ ProgOrdered'
    BY <2>1, SameOrder DEF IInv
  <2> QED
    BY <2>2, <2>3, <2>4 DEF IInv
<1>8. ASSUME NEW f \in Fns, NEW n \in 0..4, SetUProbe(f, n) PROVE IInv'
  BY <1>8, SetUProbeStep
<1> QED
  BY <1>1, <1>2, <1>3, <1>4, <1>5, <1>6, <1>7, <1>8
     DEF Next, Program, Reader, Closer, User

(* IInv holds in every reachable state: what the programs, the ring and    *)
(* pendingEvents hold of a hit always fits together.                       *)
THEOREM IInvariant == Spec => []IInv
<1>1. Init => IInv
  BY InitIInv
<1>2. IInv /\ [Next]_vars => IInv'
  BY NextIInv
<1> QED
  BY <1>1, <1>2, PTL DEF Spec

(* storeEvent and emitParsedEvent never mix hits: whatever the ring drops  *)
(* and pendingEvents evicts, a result carries only parameters of the hit   *)
(* its header announced.                                                   *)
THEOREM HitsNotMixed == Spec => []ParamsOfOneHit
<1>1. IInv => ParamsOfOneHit
  <2> SUFFICES ASSUME IInv PROVE ParamsOfOneHit
    OBVIOUS
  <2>1. parsed \in Seq(Consistent) /\ out \in Seq(Consistent)
    BY DEF IInv, ResultsConsistent
  <2>2. Results \subseteq Consistent
    BY <2>1, SMTT(30) DEF Results, Range
  <2>3. \A r \in Consistent : \A x \in r.params : x.hit = r.hit
    BY DEF Consistent
  <2> QED
    BY <2>2, <2>3 DEF IInv, PendingConsistent, ParamsOfOneHit
<1> QED
  BY <1>1, IInvariant, PTL

(* pendingEvents without the entries of ks; the entries of ks as they are. *)
Without(P, ks) == [k \in Keys |-> IF k \in ks THEN NoEntry ELSE P[k]]

Untouched(P, ks) == \A k \in ks : P[k] = pending[k]

(* Entries of pendingEvents are emitted, in any order of the map.          *)
LEMMA EmittedTracked ==
  ASSUME Typed, PendingConsistent,
         NEW A \in Seq(Consistent), NEW P \in [Keys -> Entry], NEW R \in Seq(Event), NEW n \in Nat,
         NEW acc, Tracked(A, P, R, n, acc),
         NEW ks \in SUBSET CollectingIn(P), Untouched(P, ks),
         NEW s \in Emitted(ks)
  PROVE  Tracked(A \o s, Without(P, ks), R, n, acc) /\ A \o s \in Seq(Consistent)
<1> DEFINE N == Cardinality(ks)
<1>1. ks \in SUBSET Keys
  BY DEF CollectingIn
<1>2. N \in Nat
  BY <1>1, KeysFinite, FS_Subset, FS_CardinalityType
<1>3. s \in Seq(Consistent)
  BY <1>1, EmittedConsistent
<1>4. PICK o \in Bijection(1..N, ks) : s = [i \in DOMAIN o |-> emitParsedEvent(o[i], pending[o[i]])]
  BY DEF Emitted
<1> HIDE DEF N
<1>5. o \in [1..N -> ks]
  BY DEF Bijection, Injection
<1>6. DOMAIN s = 1..N /\ \A j \in 1..N : s[j] = emitParsedEvent(o[j], pending[o[j]])
  BY <1>4, <1>5
<1>7. Len(s) = N
  BY <1>2, <1>3, <1>6, SeqDomain
<1>8. \A j \in 1..N : s[j].key = o[j] /\ s[j].hit = pending[o[j]].hit /\ P[o[j]] = pending[o[j]]
  <2> SUFFICES ASSUME NEW j \in 1..N
               PROVE  s[j].key = o[j] /\ s[j].hit = pending[o[j]].hit /\ P[o[j]] = pending[o[j]]
    OBVIOUS
  <2>1. o[j] \in ks
    BY <1>5
  <2> QED
    <3>1. s[j] = emitParsedEvent(o[j], pending[o[j]]) /\ P[o[j]] = pending[o[j]]
      BY <1>6, <2>1 DEF Untouched
    <3>2. /\ emitParsedEvent(o[j], pending[o[j]]).key = o[j]
          /\ emitParsedEvent(o[j], pending[o[j]]).hit = pending[o[j]].hit
      BY EmittedFields
    <3> QED
      BY <3>1, <3>2
<1>9. EmitsAt(s, o, N, P)
  BY <1>7, <1>8 DEF EmitsAt
<1>10. Emptied(P, ks, Without(P, ks))
  BY DEF Without, Emptied
<1> QED
  BY <1>2, <1>3, <1>4, <1>9, <1>10, EmitTracked, ZenonT(40)

(* Sequences of results.                                                   *)
LEMMA Concat ==
  \A a, b, c \in Seq(Consistent) : Assoc(a, b, c) /\ a \o b \in Seq(Consistent)
BY SeqAssoc

Regrouped(a, b, c, d, f) == a \o (((b \o c) \o d) \o f) = (((a \o b) \o c) \o d) \o f

LEMMA ConcatAssoc ==
  ASSUME NEW a \in Seq(Consistent), NEW b \in Seq(Consistent), NEW c \in Seq(Consistent)
  PROVE  Assoc(a, b, c)
BY Concat

LEMMA Regroup ==
  ASSUME NEW a \in Seq(Consistent), NEW b \in Seq(Consistent), NEW c \in Seq(Consistent),
         NEW d \in Seq(Consistent), NEW f \in Seq(Consistent)
  PROVE  Regrouped(a, b, c, d, f)
<1>1. PICK x \in Seq(Consistent), y \in Seq(Consistent) : x = b \o c /\ y = x \o d
  BY Concat
<1>2. Assoc(a, y, f) /\ Assoc(a, x, d) /\ Assoc(a, b, c)
  BY ConcatAssoc
<1> QED
  BY <1>1, <1>2 DEF Assoc, Regrouped

(* Every hit is where it should be.                                        *)
HitsTracked == Tracked(out \o parsed, pending, ring, hits, accepted)

(* A header is read.                                                       *)
LEMMA HeaderTracked ==
  ASSUME IInv, HitsTracked, storeEvent, Head(ring).type = "header"
  PROVE  HitsTracked'
<1> DEFINE e == Head(ring)
<1> DEFINE k == <<e.g, e.probe>>
<1> DEFINE old == Collecting \cap {k}
<1> DEFINE evicted == IF Cardinality(Collecting \ {k}) >= MaxPending THEN Collecting \ {k} ELSE {}
<1> DEFINE entry == [hit |-> e.hit, params |-> [i \in 1..e.n |-> None]]
<1> DEFINE done == IF e.n = 0 THEN <<emitParsedEvent(k, entry)>> ELSE <<>>
<1> DEFINE P1 == Without(pending, old)
<1> DEFINE P2 == Without(P1, evicted)
<1> DEFINE A == out \o parsed
<1>inv. /\ Typed /\ ResultsConsistent /\ PendingConsistent
  BY DEF IInv
<1>1. /\ ring # <<>> /\ ring' = Tail(ring) /\ handleHeaderEvent(e)
      /\ UNCHANGED <<hits, accepted, out>>
  BY DEF storeEvent, meta
<1>2. ring \in Seq(Event) /\ pending \in [Keys -> Entry] /\ ring[1] = e /\ hits \in Nat
  BY <1>inv, <1>1, SMTT(30) DEF Typed
<1>3. e \in Event
  BY <1>1, <1>2, SMTT(30)
<1>4. k \in Keys /\ e.hit \in Nat /\ e.n \in 0..MaxParams /\ MaxParams \in Nat
  BY <1>3, EventFields, EBPFAssumption
<1>5. /\ parsed \in Seq(Consistent) /\ out \in Seq(Consistent) /\ A \in Seq(Consistent)
      /\ Tracked(A, pending, ring, hits, accepted)
  BY <1>inv, Concat, ZenonT(40) DEF ResultsConsistent, HitsTracked
<1>6. pending' = [x \in Keys |-> IF x = k /\ e.n > 0 THEN entry
                                 ELSE IF x \in old \cup evicted THEN NoEntry
                                 ELSE pending[x]]
  BY <1>1 DEF handleHeaderEvent
<1>7. PICK first \in Emitted(old), others \in Emitted(evicted) :
        parsed' = parsed \o first \o others \o done
  BY <1>1, ZenonT(30) DEF handleHeaderEvent
<1>8. /\ old \in SUBSET CollectingIn(pending) /\ evicted \in SUBSET CollectingIn(pending)
      /\ old \cap evicted = {} /\ \A x \in old : x = k
      /\ old \in SUBSET Keys /\ evicted \in SUBSET Keys
      /\ k \notin old => pending[k] = NoEntry
  BY <1>4, ZenonT(30) DEF Collecting, CollectingIn
<1>9. first \in Seq(Consistent) /\ others \in Seq(Consistent)
  BY <1>inv, <1>8, EmittedConsistent
<1>10. NoEntry \in Entry
  BY NoEntryEmpty
<1>11. e.hit \in 1..hits
  <2>1. HeadersOrdered(ring, hits) /\ 1 \in 1..Len(ring)
    BY <1>1, <1>2, <1>5, SMTT(30) DEF Tracked
  <2> QED
    BY <1>2, <2>1, ZenonT(40) DEF HeadersOrdered
<1>12. entry.hit = e.hit /\ entry # NoEntry
  <2>1. entry.hit = e.hit
    OBVIOUS
  <2>2. NoEntry.hit = 0 /\ e.hit # 0
    BY <1>11, SMTT(30) DEF NoEntry
  <2> QED
    BY <2>1, <2>2
<1>13. e.n = 0 => emitParsedEvent(k, entry).key = k /\ emitParsedEvent(k, entry).hit = e.hit
                  /\ emitParsedEvent(k, entry) \in Consistent
  <2> SUFFICES ASSUME e.n = 0
               PROVE  emitParsedEvent(k, entry).key = k /\ emitParsedEvent(k, entry).hit = e.hit
                      /\ emitParsedEvent(k, entry) \in Consistent
    OBVIOUS
  <2>1. entry = [hit |-> e.hit, params |-> [i \in 1..0 |-> None]]
    OBVIOUS
  <2>2. entry \in Entry /\ Arrived(entry) = {}
    <3>1. PICK n \in Nat, h \in Nat : n = 0 /\ h = e.hit
      BY <1>4, SMTT(30)
    <3>2. entry = [hit |-> h, params |-> [i \in 1..n |-> None]]
      BY <2>1, <3>1
    <3> HIDE DEF entry
    <3> QED
      BY <3>2, NoneArrived, ZenonT(30)
  <2>3. emitParsedEvent(k, entry) \in Consistent
    BY <1>4, <2>2, EmitConsistent, ZenonT(30)
  <2> QED
    <3> HIDE DEF e, k, entry
    <3>1. emitParsedEvent(k, entry).key = k /\ emitParsedEvent(k, entry).hit = entry.hit
      BY EmittedFields, ZenonT(40)
    <3> QED
      BY <1>12, <2>3, <3>1
<1> HIDE DEF e, k, entry, old, evicted
<1>14. P1 \in [Keys -> Entry] /\ P2 \in [Keys -> Entry]
  BY <1>2, <1>10 DEF Without
<1>15. Tracked(A \o first, P1, ring, hits, accepted) /\ A \o first \in Seq(Consistent)
  <2>1. Untouched(pending, old)
    BY DEF Untouched
  <2> HIDE DEF A
  <2> QED
    BY <1>inv, <1>2, <1>5, <1>8, <2>1, EmittedTracked
<1>16. /\ Tracked((A \o first) \o others, P2, ring, hits, accepted)
       /\ (A \o first) \o others \in Seq(Consistent)
  <2>1. evicted \in SUBSET CollectingIn(P1) /\ Untouched(P1, evicted)
    BY <1>8 DEF CollectingIn, Untouched, Without
  <2> HIDE DEF P1, A
  <2> QED
    BY <1>inv, <1>2, <1>14, <1>15, <2>1, EmittedTracked
<1>17. P2[k] = NoEntry
  BY <1>4, <1>8 DEF Without
<1>18. out' \o parsed' = ((A \o first) \o others) \o done
  <2>1. done \in Seq(Consistent)
    BY <1>13, SMTT(30)
  <2> HIDE DEF done
  <2>2. Regrouped(out, parsed, first, others, done)
    BY <1>5, <1>9, <2>1, Regroup
  <2> QED
    BY <1>1, <1>7, <2>2 DEF Regrouped
<1> DEFINE B == (A \o first) \o others
<1>19. CASE e.n = 0
  <2>1. \A x \in Keys : pending'[x] = P2[x]
    <3>1. ~(e.n > 0)
      BY <1>19, SMTT(30)
    <3> QED
      BY <1>6, <3>1 DEF Without
  <2>2. PICK r \in Consistent : r.key = k /\ r.hit = e.hit /\ r = emitParsedEvent(k, entry)
    BY <1>13, <1>19
  <2>3. out' \o parsed' = B \o <<r>>
    BY <1>18, <1>19, <2>2
  <2>4. B \o <<r>> = Append(B, r)
    <3>1. B \in Seq(Consistent)
      BY <1>16
    <3> HIDE DEF B
    <3> QED
      BY <3>1, SMTT(30)
  <2>5. Tracked(Append(B, r), pending', Tail(ring), hits, accepted)
    <3>1. Tracked(B, P2, ring, hits, accepted) /\ B \in Seq(Consistent) /\ ring[1].type = "header"
      BY <1>2, <1>16 DEF e
    <3> HIDE DEF B, P2
    <3> QED
      BY <1>1, <1>2, <1>4, <1>17, <2>1, <2>2, <3>1, TakeHeader, ZenonT(60)
  <2> QED
    BY <1>1, <2>3, <2>4, <2>5 DEF HitsTracked
<1>20. CASE e.n # 0
  <2>1. /\ pending'[k] = entry
        /\ \A x \in Keys : x # k => pending'[x] = P2[x]
    <3>1. e.n > 0
      BY <1>4, <1>20, SMTT(30)
    <3> QED
      BY <1>4, <1>6, <3>1 DEF Without
  <2>2. out' \o parsed' = B
    <3>1. B \in Seq(Consistent) /\ out' \o parsed' = B \o <<>>
      BY <1>16, <1>18, <1>20
    <3> HIDE DEF B
    <3> QED
      BY <3>1, SMTT(30)
  <2>3. Tracked(B, pending', Tail(ring), hits, accepted)
    <3>1. Tracked(B, P2, ring, hits, accepted) /\ B \in Seq(Consistent) /\ ring[1].type = "header"
      BY <1>2, <1>16 DEF e
    <3>2. pending'[k].hit = e.hit /\ pending'[k] # NoEntry /\ e.hit = ring[1].hit
      BY <1>2, <1>12, <2>1
    <3> HIDE DEF B, P2
    <3> QED
      BY <1>1, <1>2, <1>4, <1>17, <2>1, <3>1, <3>2, TakeHeader
  <2> QED
    BY <1>1, <2>2, <2>3 DEF HitsTracked
<1> QED
  BY <1>19, <1>20

(* A parameter is read.                                                    *)
LEMMA ParamTracked ==
  ASSUME IInv, HitsTracked, storeEvent, Head(ring).type = "param"
  PROVE  HitsTracked'
<1> DEFINE e == Head(ring)
<1> DEFINE k == <<e.g, e.probe>>
<1> DEFINE x == [hit |-> e.hit, i |-> e.i, val |-> e.val, name |-> MetaOf(e)]
<1> DEFINE pe == [pending[k] EXCEPT !.params[e.i] = x]
<1> DEFINE A == out \o parsed
<1>inv. /\ Typed /\ ResultsConsistent /\ PendingConsistent /\ RingOrdered
  BY DEF IInv
<1>1. /\ ring # <<>> /\ ring' = Tail(ring) /\ handleParamEvent(e)
      /\ UNCHANGED <<hits, accepted, out>>
  BY DEF storeEvent, meta
<1>2. /\ ring \in Seq(Event) /\ pending \in [Keys -> Entry]
      /\ ring[1] = e /\ Len(ring) \in Nat \ {0}
      /\ hits \in Nat
  BY <1>inv, <1>1, SMTT(30) DEF Typed
<1>3. e \in Event /\ ring[1].type # "header" /\ ring' \in Seq(Event)
  BY <1>1, <1>2, SMTT(30)
<1>4. k \in Keys /\ e.hit \in Nat /\ e.i \in 1..MaxParams /\ e.val \in Nat
  BY <1>3, EventFields
<1>5. /\ parsed \in Seq(Consistent) /\ out \in Seq(Consistent) /\ A \in Seq(Consistent)
      /\ Tracked(A, pending, ring, hits, accepted)
  BY <1>inv, Concat DEF ResultsConsistent, HitsTracked
<1>6. Tracked(A, pending, ring', hits, accepted)
  BY <1>1, <1>2, <1>3, <1>5, TakeParam
<1>7. CASE e.i \notin DOMAIN pending[k].params
  <2>1. UNCHANGED <<pending, parsed>>
    BY <1>1, <1>7 DEF handleParamEvent
  <2> QED
    BY <1>1, <1>6, <2>1 DEF HitsTracked
<1>8. CASE e.i \in DOMAIN pending[k].params
  <2>1. pending[k] # NoEntry /\ pending[k] \in Entry
    BY <1>2, <1>4, <1>8, SMTT(30) DEF NoEntry
  <2>2. pe.hit = pending[k].hit
    <3>1. \A y : [pending[k] EXCEPT !.params[e.i] = y].hit = pending[k].hit
      <4>1. PICK q \in Entry : q = pending[k]
        BY <2>1
      <4>2. PICK j \in DOMAIN q.params : j = e.i
        BY <1>8, <4>1
      <4>3. \A y : [q EXCEPT !.params[j] = y].hit = q.hit
        <5> SUFFICES ASSUME NEW y PROVE [q EXCEPT !.params[j] = y].hit = q.hit
          OBVIOUS
        <5> DEFINE u == [q EXCEPT !.params[j] = y]
        <5>1. u.hit = q.hit /\ u.params = [q.params EXCEPT ![j] = y]
              /\ u = [hit |-> u.hit, params |-> u.params]
          BY EntryUpdate, ZenonT(60)
        <5> QED
          BY <5>1
      <4> QED
        BY <4>1, <4>2, <4>3
    <3> QED
      BY <3>1
  <2>3. \/ /\ pending' = [pending EXCEPT ![k] = NoEntry]
           /\ parsed' = Append(parsed, emitParsedEvent(k, pe))
        \/ /\ pending' = [pending EXCEPT ![k] = pe]
           /\ parsed' = parsed /\ \E i \in DOMAIN pe.params : pe.params[i] = None
    BY <1>1, <1>8, ZenonT(30) DEF handleParamEvent
  <2>4. CASE /\ pending' = [pending EXCEPT ![k] = pe] /\ parsed' = parsed
             /\ \E i \in DOMAIN pe.params : pe.params[i] = None
    <3>1. pe # NoEntry
      BY <2>4, SMTT(30) DEF NoEntry
    <3> HIDE DEF e, k, x, pe
    <3>2. pending'[k] = pe /\ \A y \in Keys : y # k => pending'[y] = pending[y]
      BY <1>2, <1>4, <2>4
    <3>3. CollectingIn(pending') = CollectingIn(pending)
          /\ \A y \in CollectingIn(pending) : pending'[y].hit = pending[y].hit
      BY <2>1, <2>2, <3>1, <3>2 DEF CollectingIn
    <3>4. Tracked(A, pending', ring', hits, accepted)
      <4>1. TableOrdered(pending', ring', hits) /\ ResultsOrdered(A, pending', ring', hits)
        BY <1>6, <3>3, ZenonT(60) DEF Tracked, TableOrdered, ResultsOrdered
      <4>2. Somewhere(A, pending', ring', hits, accepted)
        BY <1>6, <3>3 DEF Tracked, Somewhere
      <4> QED
        BY <1>6, <4>1, <4>2 DEF Tracked
    <3> QED
      BY <1>1, <2>4, <3>4 DEF HitsTracked
  <2>5. CASE /\ pending' = [pending EXCEPT ![k] = NoEntry]
             /\ parsed' = Append(parsed, emitParsedEvent(k, pe))
    <3>1. emitParsedEvent(k, pe) \in Consistent
      <4>1. \A y \in Arrived(pending[k]) : y.hit = pending[k].hit
        BY <1>inv, <1>4 DEF PendingConsistent
      <4>2. Belongs(1, k, e.hit)
        BY <1>inv, <1>2, <1>4, SMTT(30) DEF RingOrdered
      <4>3. pending[k].hit = e.hit
        BY <2>1, <4>2, SMTT(30) DEF Belongs
      <4>4. x \in ParamRec /\ x.hit = e.hit
        <5>1. MetaOf(e) \in Names
          BY <1>inv, <1>3, MetaNames
        <5> HIDE DEF e
        <5> QED
          BY <1>4, <5>1 DEF ParamRec
      <4>5. pe \in Entry /\ \A y \in Arrived(pe) : y.hit = pe.hit
        BY <1>8, <2>1, <4>1, <4>3, <4>4, CollectOne, ZenonT(30)
      <4> QED
        BY <1>4, <4>5, EmitConsistent, ZenonT(30)
    <3>2. PICK r \in Consistent : r = emitParsedEvent(k, pe)
      BY <3>1
    <3>3. r.key = k /\ r.hit = pending[k].hit
      BY <2>2, <3>2 DEF emitParsedEvent
    <3> HIDE DEF e, k, x, pe
    <3>4. out' \o parsed' = A \o <<r>>
      <4>1. parsed' = parsed \o <<r>> /\ <<r>> \in Seq(Consistent)
        BY <1>5, <2>5, <3>2, SMTT(30)
      <4> QED
        BY <1>1, <1>5, <4>1, ConcatAssoc DEF Assoc
    <3>5. Emptied(pending, {k}, pending')
      BY <1>2, <1>4, <2>5 DEF Emptied
    <3> DEFINE o == [i \in 1..1 |-> k]
               s == <<r>>
    <3>6. o \in Bijection(1..1, {k})
      BY SMTT(30) DEF Bijection, Injection, Surjection, IsInjective
    <3>7. s \in Seq(Consistent) /\ Len(s) = 1 /\ 1 \in Nat
      BY SMTT(30)
    <3>8. EmitsAt(s, o, 1, pending)
      BY <3>3, SMTT(30) DEF EmitsAt
    <3>9. {k} \in SUBSET CollectingIn(pending)
      BY <1>4, <2>1 DEF CollectingIn
    <3> HIDE DEF o, s, A
    <3>10. Tracked(A \o s, pending', ring', hits, accepted)
      BY <1>2, <1>3, <1>5, <1>6, <3>5, <3>6, <3>7, <3>8, <3>9, EmitTracked, ZenonT(40)
    <3> QED
      BY <1>1, <3>4, <3>10 DEF HitsTracked, s
  <2> QED
    BY <2>3, <2>4, <2>5
<1> QED
  BY <1>7, <1>8

(* A header or parameter is written to the ring, or dropped.               *)
LEMMA ProgramTracked ==
  ASSUME IInv, HitsTracked, NEW g \in Goroutines
  PROVE  /\ WriteParam(g) => HitsTracked'
         /\ \A p \in Probes : Hit(g, p) => HitsTracked'
<1> DEFINE A == out \o parsed
<1>inv. /\ Typed /\ ring \in Seq(Event) /\ hits \in Nat /\ Len(ring) \in Nat /\ RingSize \in Nat
        /\ Tracked(A, pending, ring, hits, accepted)
  <2>1. Typed /\ ring \in Seq(Event) /\ hits \in Nat
    BY DEF IInv, Typed
  <2>2. Tracked(A, pending, ring, hits, accepted)
    BY DEF HitsTracked
  <2>3. Len(ring) \in Nat
    BY <2>1, SeqConcat
  <2> QED
    BY <2>1, <2>2, <2>3, EBPFAssumption
<1>1. ASSUME WriteParam(g) PROVE HitsTracked'
  <2> DEFINE r == prog[g]
  <2> DEFINE e == Param(g, r)
  <2>1. /\ r.at = "copy" /\ (ring' = ring \/ ring' = Append(ring, e))
        /\ UNCHANGED <<hits, accepted, pending, parsed, out>>
    BY <1>1 DEF WriteParam, Output, cvars
  <2>2. r.probe \in Probes /\ r.i \in 1..n_params(r.probe) /\ r.hit \in Nat
    BY <1>inv, <1>1 DEF Typed, Run, WriteParam
  <2>3. n_params(r.probe) \in 0..MaxParams /\ MaxParams \in Nat /\ r.i \in 1..MaxParams
    BY <2>2, ParamCount, EBPFAssumption, SMTT(30)
  <2>4. slot[r.probe][r.i] \in Nat
    BY <1>inv, <2>2, <2>3 DEF Typed
  <2>5. e \in Event /\ e.type # "header"
    <3>1. e \in Event
      BY <2>2, <2>3, <2>4, RecordsAreEvents DEF Param
    <3>2. e.type = "param"
      BY DEF Param
    <3> QED
      BY <3>1, <3>2
  <2> HIDE DEF e, A
  <2>6. Tracked(A, pending, Append(ring, e), hits, accepted)
    BY <1>inv, <2>5, WriteTracked
  <2> QED
    BY <1>inv, <2>1, <2>6 DEF HitsTracked, A
<1>2. ASSUME NEW p \in Probes, Hit(g, p) PROVE HitsTracked'
  <2> DEFINE e == Header(g, p, hits + 1)
  <2>1. /\ hits' = hits + 1
        /\ UNCHANGED <<pending, parsed, out>>
    BY <1>2 DEF Hit, cvars
  <2>2. e \in Event /\ e.type = "header" /\ e.hit = hits + 1
    <3>1. hits + 1 \in Nat
      BY <1>inv, SMTT(30)
    <3>2. e \in Event
      BY <3>1, ParamCount, RecordsAreEvents DEF Header
    <3>3. e.type = "header" /\ e.hit = hits + 1
      BY DEF Header
    <3> QED
      BY <3>2, <3>3
  <2>3. \/ ring' = ring /\ accepted' = accepted
        \/ ring' = Append(ring, e) /\ accepted' = accepted \cup {hits + 1}
    <3>1. Len(ring) < RingSize <=> ~(Len(ring) >= RingSize)
      BY <1>inv, SMTT(30)
    <3>2. /\ ring' = IF Len(ring) < RingSize THEN Append(ring, e) ELSE ring
          /\ accepted' = IF Len(ring) >= RingSize THEN accepted ELSE accepted \cup {hits + 1}
      BY <1>2 DEF Hit, Output
    <3> QED
      BY <3>1, <3>2
  <2> HIDE DEF e, A
  <2>4. /\ Tracked(A, pending, Append(ring, e), hits + 1, accepted \cup {hits + 1})
        /\ Tracked(A, pending, ring, hits + 1, accepted)
    BY <1>inv, <2>2, WriteTracked
  <2> QED
    BY <2>1, <2>3, <2>4 DEF HitsTracked, A
<1> QED
  BY <1>1, <1>2

(* Close hands on everything that is pending.                              *)
LEMMA FlushTracked ==
  ASSUME IInv, HitsTracked, CloseFlush
  PROVE  HitsTracked'
<1> DEFINE A == out \o parsed
<1>inv. Typed /\ ResultsConsistent /\ PendingConsistent
  BY DEF IInv
<1>1. pending' = [k \in Keys |-> NoEntry] /\ UNCHANGED <<hits, accepted, ring, out>>
  BY DEF CloseFlush, kvars
<1>2. PICK s \in Emitted(Collecting) : parsed' = parsed \o s
  BY DEF CloseFlush
<1>3. /\ parsed \in Seq(Consistent) /\ out \in Seq(Consistent) /\ A \in Seq(Consistent)
      /\ Tracked(A, pending, ring, hits, accepted)
  BY <1>inv, Concat DEF ResultsConsistent, HitsTracked
<1>4. /\ ring \in Seq(Event) /\ pending \in [Keys -> Entry] /\ hits \in Nat
      /\ Collecting = CollectingIn(pending) /\ Collecting \in SUBSET Keys
  BY <1>inv DEF Typed, Collecting, CollectingIn
<1>5. s \in Seq(Consistent)
  BY <1>inv, <1>4, EmittedConsistent
<1>6. Untouched(pending, Collecting)
  BY DEF Untouched
<1>7. pending' = Without(pending, Collecting)
  BY <1>1 DEF Without, Collecting
<1>8. out' \o parsed' = A \o s
  BY <1>1, <1>2, <1>3, <1>5, ConcatAssoc DEF Assoc
<1> HIDE DEF A
<1>9. Tracked(A \o s, Without(pending, Collecting), ring, hits, accepted)
  BY <1>inv, <1>3, <1>4, <1>6, EmittedTracked
<1> QED
  BY <1>1, <1>7, <1>8, <1>9 DEF HitsTracked

LEMMA InitTracked == Init => HitsTracked
<1> SUFFICES ASSUME Init PROVE HitsTracked
  OBVIOUS
<1>1. out \o parsed = <<>> /\ ring = <<>> /\ accepted = {} /\ Len(<<>>) = 0
  BY SMTT(30) DEF Init
<1>2. CollectingIn(pending) = {}
  BY DEF Init, CollectingIn
<1>3. /\ HeadersOrdered(ring, hits) /\ ResultsOrdered(out \o parsed, pending, ring, hits)
  BY <1>1, SMTT(30) DEF HeadersOrdered, ResultsOrdered
<1>4. TableOrdered(pending, ring, hits) /\ Somewhere(out \o parsed, pending, ring, hits, accepted)
  BY <1>1, <1>2 DEF TableOrdered, Somewhere
<1> QED
  BY <1>3, <1>4 DEF HitsTracked, Tracked

LEMMA NextTracked == IInv /\ HitsTracked /\ [Next]_vars => HitsTracked'
<1> SUFFICES ASSUME IInv, HitsTracked, [Next]_vars PROVE HitsTracked'
  OBVIOUS
<1>1. ASSUME NEW g \in Goroutines, WriteParam(g) \/ \E p \in Probes : Hit(g, p) PROVE HitsTracked'
  BY <1>1, ProgramTracked
<1>2. ASSUME UNCHANGED <<out, parsed, pending, ring, hits, accepted>> PROVE HitsTracked'
  BY <1>2 DEF HitsTracked
<1>3. ASSUME NEW g \in Goroutines, parse_param(g) PROVE HitsTracked'
  BY <1>2, <1>3 DEF parse_param, cvars
<1>4. CASE CheckContext \/ ReadDeadline \/ ReadError \/ Cancel \/ CloseLinks \/ UNCHANGED vars
  BY <1>2, <1>4 DEF CheckContext, ReadDeadline, ReadError, Cancel, CloseLinks, vars, kvars, cvars
<1>5. CASE storeEvent
  <2>1. ring \in Seq(Event) /\ ring # <<>>
    BY <1>5, ZenonT(30) DEF IInv, Typed, storeEvent
  <2>2. Head(ring) \in Event
    BY <2>1, SMTT(30)
  <2>3. Head(ring).type \in {"header", "param"}
    BY <2>2, EventFields, ZenonT(30)
  <2> QED
    BY <1>5, <2>3, HeaderTracked, ParamTracked
<1>6. CASE CloseFlush
  BY <1>6, FlushTracked
<1>7. CASE GetBufferedTracepoints
  <2>1. /\ parsed' = <<>> /\ out' = out \o parsed
        /\ UNCHANGED <<pending, ring, hits, accepted>>
    BY <1>7 DEF GetBufferedTracepoints, kvars
  <2>2. \A a \in Seq(Consistent) : a \o <<>> = a
    BY SeqEmpty
  <2>3. out \o parsed \in Seq(Consistent)
    BY Concat DEF IInv, ResultsConsistent
  <2>4. out' \o parsed' = out \o parsed
    BY <2>1, <2>2, <2>3
  <2> QED
    BY <2>1, <2>4 DEF HitsTracked
<1>8. ASSUME NEW f \in Fns, NEW n \in 0..4, SetUProbe(f, n) PROVE HitsTracked'
  BY <1>2, <1>8 DEF SetUProbe, cvars
<1> QED
  BY <1>1, <1>3, <1>4, <1>5, <1>6, <1>7, <1>8, ZenonT(30)
     DEF Next, Program, Reader, Closer, User

(* Every hit is always where it should be.                                 *)
THEOREM TrackedInvariant == Spec => [](IInv /\ HitsTracked)
<1>1. Init => HitsTracked
  BY InitTracked
<1>2. IInv /\ HitsTracked /\ [Next]_vars => HitsTracked'
  BY NextTracked
<1> QED
  BY <1>1, <1>2, IInvariant, PTL DEF Spec

(* pollEvents reads the ring in the order it was filled, and storeEvent    *)
(* hands on an incomplete hit before it collects a later one of the same   *)
(* goroutine and function: their hits are reported in the order they were  *)
(* made, also those cut short by drops and evictions.                      *)
THEOREM InOrder == Spec => []ReportedInOrder
<1>1. IInv /\ HitsTracked => ReportedInOrder
  <2> SUFFICES ASSUME IInv, HitsTracked PROVE ReportedInOrder
    OBVIOUS
  <2>1. out \o parsed \in Seq(Consistent)
    BY Concat DEF IInv, ResultsConsistent
  <2>2. PICK A \in Seq(Consistent) : A = out \o parsed
    BY <2>1
  <2>3. DOMAIN A = 1..Len(A)
    BY SMTT(30)
  <2>4. ResultsOrdered(A, pending, ring, hits)
    BY <2>2 DEF HitsTracked, Tracked
  <2> QED
    BY <2>2, <2>3, <2>4 DEF ResultsOrdered, ReportedInOrder, Collecting, CollectingIn
<1> QED
  BY <1>1, TrackedInvariant, PTL

(* Every hit whose header found room in the ring is in exactly one place   *)
(* on its way through pendingEvents and parsedBpfEvents to the caller of   *)
(* GetBufferedTracepoints: evictions, drops of parameters and Close lose   *)
(* none and report none twice.                                             *)
THEOREM Once == Spec => []ReportedOnce
<1>1. IInv /\ HitsTracked => ReportedOnce
  <2> SUFFICES ASSUME IInv, HitsTracked, NEW h \in accepted
               PROVE  Cardinality({i \in DOMAIN ring : ring[i].type = "header" /\ ring[i].hit = h})
                      + Cardinality({k \in Keys : pending[k].hit = h})
                      + Cardinality({i \in DOMAIN parsed : parsed[i].hit = h})
                      + Cardinality({i \in DOMAIN out : out[i].hit = h}) = 1
    BY DEF ReportedOnce
  <2> DEFINE HS == {i \in DOMAIN ring : ring[i].type = "header" /\ ring[i].hit = h}
             KS == {k \in Keys : pending[k].hit = h}
             PS == {i \in DOMAIN parsed : parsed[i].hit = h}
             OS == {i \in DOMAIN out : out[i].hit = h}
  <2>1. /\ parsed \in Seq(Consistent) /\ out \in Seq(Consistent) /\ ring \in Seq(Event)
        /\ pending \in [Keys -> Entry] /\ hits \in Nat
    BY DEF IInv, ResultsConsistent, Typed
  <2>2. PICK A \in Seq(Consistent) :
          /\ A = out \o parsed /\ Len(A) = Len(out) + Len(parsed)
          /\ \A i \in 1..Len(out) : A[i] = out[i]
          /\ \A i \in 1..Len(parsed) : A[Len(out) + i] = parsed[i]
    <3>2. /\ out \o parsed \in Seq(Consistent) /\ Len(out \o parsed) = Len(out) + Len(parsed)
          /\ \A i \in 1..Len(out) : (out \o parsed)[i] = out[i]
          /\ \A i \in 1..Len(parsed) : (out \o parsed)[Len(out) + i] = parsed[i]
      BY <2>1, SeqConcat, SMTT(30)
    <3> QED
      BY <3>2
  <2>3. /\ HeadersOrdered(ring, hits) /\ TableOrdered(pending, ring, hits)
        /\ ResultsOrdered(A, pending, ring, hits)
        /\ Somewhere(A, pending, ring, hits, accepted)
    BY <2>2 DEF HitsTracked, Tracked
  <2>4. /\ DOMAIN ring = 1..Len(ring) /\ DOMAIN out = 1..Len(out) /\ DOMAIN parsed = 1..Len(parsed)
        /\ Len(ring) \in Nat /\ Len(out) \in Nat /\ Len(parsed) \in Nat
    BY <2>1, SMTT(30)
  <2>5. h \in 1..hits
    BY <2>3 DEF Somewhere
  <2>6. \A k \in KS : k \in CollectingIn(pending) /\ pending[k].hit = h
    BY <2>5, SMTT(30) DEF CollectingIn, NoEntry
  <2>7. /\ \A i \in OS : i \in 1..Len(A) /\ A[i].hit = h
        /\ \A i \in PS : Len(out) + i \in 1..Len(A) /\ A[Len(out) + i].hit = h
    BY <2>2, <2>4, SMTT(30)
  <2>8. \A m, j \in 1..Len(A) : A[m].hit = A[j].hit => m = j
    <3> SUFFICES ASSUME NEW m \in 1..Len(A), NEW j \in 1..Len(A), A[m].hit = A[j].hit PROVE m = j
      OBVIOUS
    <3>1. ~(m < j) /\ ~(j < m)
      BY <2>3 DEF ResultsOrdered
    <3> QED
      BY <3>1, SMTT(30)
  <2>9. \A i, j \in HS : i = j
    <3> SUFFICES ASSUME NEW i \in HS, NEW j \in HS PROVE i = j
      OBVIOUS
    <3>0. /\ i \in 1..Len(ring) /\ ring[i].type = "header" /\ ring[i].hit = h
          /\ j \in 1..Len(ring) /\ ring[j].type = "header" /\ ring[j].hit = h
      BY <2>4
    <3>1. ~(h < h)
      BY <2>5, SMTT(30)
    <3>2. ~(i < j) /\ ~(j < i)
      BY <2>3, <3>0, <3>1 DEF HeadersOrdered
    <3> QED
      BY <3>0, <3>2, SMTT(30)
  <2>10. \A k, x \in KS : k = x
    BY <2>3, <2>6 DEF TableOrdered
  <2>11. ~(h < h)
    BY <2>5, SMTT(30)
  <2>12. \A i \in HS : KS = {} /\ OS = {} /\ PS = {}
    <3> SUFFICES ASSUME NEW i \in HS PROVE KS = {} /\ OS = {} /\ PS = {}
      OBVIOUS
    <3>0. i \in 1..Len(ring) /\ ring[i].type = "header" /\ ring[i].hit = h
      BY <2>4
    <3>1. \A k \in KS : FALSE
      BY <2>3, <2>6, <2>11, <3>0 DEF TableOrdered
    <3>2. \A m \in 1..Len(A) : A[m].hit # h
      BY <2>3, <2>11, <3>0 DEF ResultsOrdered
    <3> QED
      BY <2>7, <3>1, <3>2
  <2>13. \A k \in KS : OS = {} /\ PS = {}
    <3> SUFFICES ASSUME NEW k \in KS PROVE OS = {} /\ PS = {}
      OBVIOUS
    <3>1. \A m \in 1..Len(A) : A[m].hit # h
      BY <2>3, <2>6 DEF ResultsOrdered
    <3> QED
      BY <2>7, <3>1
  <2>14. \A i \in OS : PS = {}
    <3> SUFFICES ASSUME NEW i \in OS, NEW j \in PS PROVE FALSE
      OBVIOUS
    <3>1. i = Len(out) + j
      BY <2>7, <2>8
    <3> QED
      BY <2>4, <3>1, SMTT(30)
  <2>15. (\A i, j \in OS : i = j) /\ (\A i, j \in PS : i = j)
    <3>1. \A i, j \in PS : Len(out) + i = Len(out) + j
      BY <2>7, <2>8
    <3>2. \A i, j \in PS : i = j
      BY <2>4, <3>1, SMTT(30)
    <3> QED
      BY <2>7, <2>8, <3>2
  <2>16. HS # {} \/ KS # {} \/ OS # {} \/ PS # {}
    <3>1. CASE \E i \in 1..Len(ring) : ring[i].type = "header" /\ ring[i].hit = h
      BY <2>4, <3>1
    <3>2. CASE \E k \in CollectingIn(pending) : pending[k].hit = h
      BY <3>2 DEF CollectingIn
    <3>3. CASE \E m \in 1..Len(A) : A[m].hit = h
      <4>1. PICK m \in 1..Len(A) : A[m].hit = h
        BY <3>3
      <4>2. CASE m <= Len(out)
        <5>1. m \in DOMAIN out
          BY <2>4, <4>1, <4>2, SMTT(30)
        <5>2. out[m].hit = h
          <6>1. m \in 1..Len(out)
            BY <2>4, <5>1
          <6> QED
            BY <2>2, <4>1, <6>1
        <5>3. m \in OS
          BY <5>1, <5>2
        <5> QED
          BY <5>3
      <4>3. CASE m > Len(out)
        <5>1. m - Len(out) \in 1..Len(parsed) /\ Len(out) + (m - Len(out)) = m
          BY <2>2, <2>4, <4>3, SMTT(30)
        <5>2. m - Len(out) \in DOMAIN parsed
          BY <2>4, <5>1
        <5>3. parsed[m - Len(out)] = A[Len(out) + (m - Len(out))]
          BY <2>2, <5>1
        <5>4. parsed[m - Len(out)].hit = h
          BY <4>1, <5>1, <5>3
        <5>5. m - Len(out) \in PS
          BY <5>2, <5>4
        <5> QED
          BY <5>5
      <4> QED
        BY <2>4, <4>2, <4>3, SMTT(30)
    <3> QED
      BY <2>3, <3>1, <3>2, <3>3 DEF Somewhere
  <2>17. Cardinality({}) = 0 /\ \A x : Cardinality({x}) = 1
    BY FS_EmptySet, FS_Singleton
  <2>18. ASSUME NEW S, \A i, j \in S : i = j
         PROVE  (S = {} /\ Cardinality(S) = 0) \/ (S # {} /\ Cardinality(S) = 1)
    <3>1. CASE S = {}
      BY <2>17, <3>1
    <3>2. CASE S # {}
      <4>1. PICK x : S = {x}
        <5>1. PICK x : x \in S
          BY <3>2
        <5> QED
          <6>1. \A y : y \in S <=> y = x
            BY <2>18, <5>1
          <6>2. S = {x}
            BY <6>1
          <6> QED
            BY <6>2
      <4> QED
        BY <2>17, <3>2, <4>1
    <3> QED
      BY <3>1, <3>2
  <2> HIDE DEF HS, KS, OS, PS
  <2>19. /\ (HS = {} /\ Cardinality(HS) = 0) \/ (HS # {} /\ Cardinality(HS) = 1)
         /\ (KS = {} /\ Cardinality(KS) = 0) \/ (KS # {} /\ Cardinality(KS) = 1)
         /\ (OS = {} /\ Cardinality(OS) = 0) \/ (OS # {} /\ Cardinality(OS) = 1)
         /\ (PS = {} /\ Cardinality(PS) = 0) \/ (PS # {} /\ Cardinality(PS) = 1)
    BY <2>9, <2>10, <2>15, <2>18
  <2>20. Cardinality(HS) + Cardinality(KS) + Cardinality(PS) + Cardinality(OS) = 1
    BY <2>12, <2>13, <2>14, <2>16, <2>17, <2>19, SMTT(30)
  <2> QED
    BY <2>20 DEF HS, KS, OS, PS
<1> QED
  BY <1>1, TrackedInvariant, PTL
=============================================================================
