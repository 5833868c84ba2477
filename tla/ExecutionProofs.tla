--------------------------- MODULE ExecutionProofs ---------------------------
(***************************************************************************)
(* Proofs about Execution for any number of threads and addresses, any     *)
(* plan of stepping breakpoints and any hit conditions: what Continue      *)
(* reports agrees with the breakpoints it leaves behind, and the user      *)
(* breakpoint is in the process exactly when a later hit may satisfy its   *)
(* hit condition.                                                          *)
(***************************************************************************)
EXTENDS Execution, WellFoundedInduction, TLAPS

USE Zenon

(* The provers get the time that the larger leaves below need.             *)
(* The kinds of the breaklets of a list.                                   *)
Kinds(list) == {list[i].kind : i \in 1..Len(list)}

(* The breaklets the table may hold.                                       *)
Placed == {b \in Breaklet : b.kind = "newproc" => b.cb # "none"}
Tables == [Addrs -> Seq(Placed)]
Logical == [hits : Nat, hitsG : [Threads -> Nat], hitCond : HitConds, condSatisfiable : BOOLEAN]

(* A set of natural numbers has a least element.                           *)
LEMMA LeastElement ==
  ASSUME NEW T, T \subseteq Nat, T # {}
  PROVE  \E x \in T : \A y \in T : x <= y
<1>1. PICK x \in T : \A y \in T : ~(<<y, x>> \in OpToRel(<, Nat))
  BY NatLessThanWellFounded, WFMin
<1>2. \A y \in T : ~(y < x)
  BY <1>1 DEF OpToRel
<1> QED
  BY <1>2, SMTT(30)

(* A set of natural numbers that holds 0 and the successor of each of its  *)
(* elements holds them all.                                                *)
LEMMA Induction ==
  ASSUME NEW S, 0 \in S, \A m \in Nat : m \in S => m + 1 \in S
  PROVE  \A m \in Nat : m \in S
<1> SUFFICES ASSUME NEW k \in Nat, k \notin S PROVE FALSE
  OBVIOUS
<1> DEFINE T == {m \in Nat : m \notin S}
<1>1. PICK x \in T : \A y \in T : x <= y
  BY LeastElement
<1>2. x # 0 /\ x \in Nat
  OBVIOUS
<1>3. x - 1 \in Nat /\ x - 1 \notin T
  BY <1>1, <1>2, SMTT(30)
<1>4. (x - 1) + 1 = x
  BY <1>2, SMTT(30)
<1> QED
  BY <1>1, <1>3, <1>4

-----------------------------------------------------------------------------
(* The recursion of Keep, and that it is well defined.                     *)
KeepRec(f, list, kinds, n) ==
  [i \in 0..n |->
     IF i = 0 THEN <<>>
     ELSE IF list[i].kind \in kinds THEN f[i - 1] ELSE Append(f[i - 1], list[i])]

LEMMA KeepDefined ==
  ASSUME NEW list, NEW kinds, NEW n \in Nat
  PROVE  \E f : f = KeepRec(f, list, kinds, n)
<1> DEFINE One(x, i) == IF list[i].kind \in kinds THEN x ELSE Append(x, list[i])
           S == {m \in Nat : \E f : f = [i \in 0..m |-> IF i = 0 THEN <<>> ELSE One(f[i - 1], i)]}
<1> HIDE DEF One
<1>1. 0 \in S
  <2> DEFINE f == [i \in 0..0 |-> <<>>]
  <2>1. f = [i \in 0..0 |-> IF i = 0 THEN <<>> ELSE One(f[i - 1], i)]
    BY SMTT(30)
  <2> QED
    BY <2>1
<1>2. ASSUME NEW m \in Nat, m \in S PROVE m + 1 \in S
  <2>1. PICK f : f = [i \in 0..m |-> IF i = 0 THEN <<>> ELSE One(f[i - 1], i)]
    BY <1>2
  <2> DEFINE h == [i \in 0..(m + 1) |-> IF i = m + 1 THEN One(f[m], m + 1) ELSE f[i]]
  <2>2. ASSUME NEW i \in 0..(m + 1) PROVE h[i] = IF i = 0 THEN <<>> ELSE One(h[i - 1], i)
    <3>1. CASE i = m + 1
      BY <3>1, SMTT(30)
    <3>2. CASE i # m + 1
      <4>1. i \in 0..m /\ (i # 0 => i - 1 \in 0..m /\ i - 1 # m + 1 /\ i - 1 \in 0..(m + 1))
        BY <3>2, SMTT(30)
      <4>2. h[i] = f[i] /\ (i # 0 => h[i - 1] = f[i - 1])
        BY <4>1, <3>2
      <4>3. f[i] = IF i = 0 THEN <<>> ELSE One(f[i - 1], i)
        BY <2>1, <4>1
      <4> QED
        BY <4>2, <4>3
    <3> QED
      BY <3>1, <3>2
  <2>3. h = [i \in 0..(m + 1) |-> h[i]]
    OBVIOUS
  <2> HIDE DEF h
  <2>4. h = [i \in 0..(m + 1) |-> IF i = 0 THEN <<>> ELSE One(h[i - 1], i)]
    BY <2>2, <2>3
  <2> QED
    BY <2>4, SMTT(30)
<1>3. n \in S
  BY <1>1, <1>2, Induction
<1> QED
  BY <1>3 DEF One, KeepRec

(* Keep drops the breaklets of the kinds it is given and no other.         *)
LEMMA KeepKinds ==
  ASSUME NEW list \in Seq(Placed), NEW kinds
  PROVE  /\ Keep(list, kinds) \in Seq(Placed)
         /\ Kinds(Keep(list, kinds)) = Kinds(list) \ kinds
<1> DEFINE n == Len(list)
           kept == CHOOSE f : f = KeepRec(f, list, kinds, n)
<1>1. n \in Nat /\ \A i \in 1..n : list[i] \in Placed
  BY SMTT(30)
<1>2. kept = KeepRec(kept, list, kinds, n)
  <2>1. n \in Nat
    BY <1>1
  <2> HIDE DEF n
  <2> QED
    BY <2>1, KeepDefined
<1>3. Keep(list, kinds) = kept[n]
  BY DEF Keep, KeepRec
<1> HIDE DEF kept, n
<1> DEFINE Upto(m) == {list[i].kind : i \in 1..m}
           S == {m \in Nat : m <= n => kept[m] \in Seq(Placed) /\ Kinds(kept[m]) = Upto(m) \ kinds}
<1>4. 0 \in S
  <2>1. kept[0] = <<>>
    BY <1>1, <1>2, SMTT(30) DEF KeepRec
  <2>2. 1..0 = {} /\ Len(<<>>) = 0
    BY SMTT(30)
  <2>3. Kinds(<<>>) = {} /\ Upto(0) = {}
    BY <2>2 DEF Kinds
  <2>4. <<>> \in Seq(Placed)
    BY SMTT(30)
  <2> HIDE DEF Upto
  <2> QED
    BY <2>1, <2>3, <2>4
<1>5. ASSUME NEW m \in Nat, m \in S PROVE m + 1 \in S
  <2> SUFFICES ASSUME m + 1 <= n
               PROVE  kept[m + 1] \in Seq(Placed) /\ Kinds(kept[m + 1]) = Upto(m + 1) \ kinds
    BY SMTT(30)
  <2>1. m <= n /\ m + 1 \in 1..n /\ m + 1 \in 0..n /\ m + 1 # 0 /\ (m + 1) - 1 = m
    BY <1>1, SMTT(30)
  <2>2. kept[m] \in Seq(Placed) /\ Kinds(kept[m]) = Upto(m) \ kinds
    BY <1>5, <2>1
  <2>3. kept[m + 1] = IF list[m + 1].kind \in kinds THEN kept[m] ELSE Append(kept[m], list[m + 1])
    BY <1>2, <2>1 DEF KeepRec
  <2>4. Upto(m + 1) = Upto(m) \cup {list[m + 1].kind}
    <3>1. 1..(m + 1) = (1..m) \cup {m + 1}
      BY SMTT(30)
    <3> QED
      BY <3>1
  <2>5. CASE list[m + 1].kind \in kinds
    <3> HIDE DEF Upto
    <3> QED
      BY <2>2, <2>3, <2>4, <2>5
  <2>6. CASE list[m + 1].kind \notin kinds
    <3> DEFINE b == list[m + 1]
               k == kept[m]
    <3>1. b \in Placed /\ k \in Seq(Placed)
      BY <1>1, <2>1, <2>2
    <3> HIDE DEF b, k
    <3>2. Append(k, b) \in Seq(Placed) /\ Kinds(Append(k, b)) = Kinds(k) \cup {b.kind}
      <4>1. /\ Len(Append(k, b)) = Len(k) + 1 /\ Len(k) \in Nat
            /\ \A i \in 1..Len(k) : Append(k, b)[i] = k[i]
            /\ Append(k, b)[Len(k) + 1] = b
        BY <3>1, SMTT(30)
      <4>2. 1..(Len(k) + 1) = (1..Len(k)) \cup {Len(k) + 1}
        BY <4>1, SMTT(30)
      <4>3. Append(k, b) \in Seq(Placed)
        BY <3>1, SMTT(30)
      <4> QED
        BY <4>1, <4>2, <4>3, ZenonT(60) DEF Kinds
    <3> HIDE DEF Upto
    <3> QED
      BY <3>2, <2>2, <2>3, <2>4, <2>6 DEF b, k
  <2> QED
    BY <2>5, <2>6
<1>6. n \in S
  <2> HIDE DEF S
  <2> QED
    BY <1>1, <1>4, <1>5, Induction
<1> QED
  BY <1>1, <1>3, <1>6, SMTT(30) DEF n, Kinds

-----------------------------------------------------------------------------
Accs == [st : States, lbp : Logical, ran : SUBSET Callbacks]

(* What checkCondition makes of a state st and a logical breakpoint l: the *)
(* place, the hit condition and whether the breakpoint is enabled stay,    *)
(* hits are added, and a thread that is stopped but does not step has met  *)
(* a user breakpoint.                                                      *)
Evaluated(acc, st, l, kinds) ==
  /\ acc \in Accs /\ acc.st.at = st.at
  /\ acc.lbp.hits >= l.hits /\ acc.lbp.hitCond = l.hitCond
  /\ acc.lbp.condSatisfiable = l.condSatisfiable
  /\ acc.st.Active /\ ~acc.st.Stepping => "user" \in kinds

(* A hit condition holds or does not.                                      *)
LEMMA HitCondBoolean ==
  ASSUME NEW hc \in HitConds, NEW n \in Nat
  PROVE  checkHitCond(hc, n) \in BOOLEAN
<1>1. hc.op \in {"nil", "==", "!=", "<", "<=", ">", ">=", "%"} /\ hc.val \in Nat
  BY ExecutionAssumption DEF HitOps
<1> DEFINE v == hc.val
<1>2. /\ (n = v) \in BOOLEAN /\ (n # v) \in BOOLEAN /\ (n < v) \in BOOLEAN
      /\ (n <= v) \in BOOLEAN /\ (n > v) \in BOOLEAN /\ (n >= v) \in BOOLEAN
      /\ (n % v = 0) \in BOOLEAN
  BY <1>1, SMTT(30)
<1> QED
  BY <1>1, <1>2 DEF checkHitCond

(* One breaklet is evaluated (checkCond).                                  *)
LEMMA CheckCondStep ==
  ASSUME NEW st, NEW l, NEW kinds, NEW acc, Evaluated(acc, st, l, kinds), l.hits \in Nat,
         NEW b \in Placed, b.kind \in kinds, NEW o \in Outcomes(b), NEW g \in Threads
  PROVE  Evaluated(checkCond(acc, b, o, g), st, l, kinds)
<1> DEFINE kind == IF "newproc" \in acc.ran /\ b.kind \in SteppingKinds
                   THEN "inactivated" ELSE b.kind
           lbp1 == IF kind = "user" THEN counted(acc.lbp, g) ELSE acc.lbp
           active == KindActive(kind, o, lbp1, g)
           Active == IF active THEN b.cb = "none" ELSE acc.st.Active
           stops(ks) == Active /\ kind \in ks
           Stepping1 == acc.st.Stepping \/ stops({"next", "nextdefer", "step", "rangebody"})
           Into == acc.st.SteppingInto \/ stops({"step"})
           Body == acc.st.RangeBody \/ stops({"rangebody"})
           Err == acc.st.CondError \/ o.cond = "error" \/ (active /\ b.cb # "none" /\ o.cbErr # "none")
           uMet == acc.st.userMet \/ (kind = "user" /\ active)
           sMet == acc.st.stepMet \/ (kind \in SteppingKinds /\ active /\ b.cb = "none")
           st1 == [acc.st EXCEPT !.Active = Active, !.Stepping = Stepping1, !.SteppingInto = Into,
                                 !.RangeBody = Body, !.CondError = Err, !.userMet = uMet,
                                 !.stepMet = sMet]
           ran1 == IF active /\ o.cbErr # "early" THEN acc.ran \cup {b.cb} ELSE acc.ran
<1>1. /\ acc.st \in States /\ acc.lbp \in Logical /\ acc.ran \subseteq Callbacks
      /\ b.kind \in BreakletKinds /\ b.cb \in Callbacks
      /\ o.frame \in BOOLEAN
  BY DEF Evaluated, Accs, Placed, Breaklet, Outcomes
<1>2. /\ lbp1 \in Logical /\ lbp1.hits >= acc.lbp.hits /\ lbp1.hitCond = acc.lbp.hitCond
      /\ lbp1.condSatisfiable = acc.lbp.condSatisfiable
  <2>1. CASE kind = "user"
    <3> DEFINE hits1 == acc.lbp.hits + 1
               hitsG1 == [acc.lbp.hitsG EXCEPT ![g] = @ + 1]
    <3>1. lbp1 = [acc.lbp EXCEPT !.hits = hits1, !.hitsG = hitsG1]
      BY <2>1, <1>1 DEF counted, Logical
    <3>2. hits1 \in Nat /\ hits1 >= acc.lbp.hits /\ hitsG1 \in [Threads -> Nat]
      BY <1>1, SMTT(30) DEF Logical
    <3> HIDE DEF hits1, hitsG1, lbp1
    <3> QED
      BY <3>1, <3>2, <1>1 DEF Logical
  <2>2. CASE kind # "user"
    BY <2>2, <1>1, SMTT(30) DEF Logical
  <2> QED
    BY <2>1, <2>2
<1> HIDE DEF lbp1
<1>3. kind \in BreakletKinds /\ (kind = b.kind \/ kind = "inactivated")
  BY <1>1 DEF BreakletKinds, SteppingKinds
<1> HIDE DEF kind
<1>4. active \in BOOLEAN /\ (kind = "inactivated" => ~active)
  <2>1. lbp1.hitCond \in HitConds /\ hitCount(lbp1, g) \in Nat
    BY <1>2 DEF Logical, hitCount
  <2>2. checkHitCond(lbp1.hitCond, hitCount(lbp1, g)) \in BOOLEAN
    BY <2>1, HitCondBoolean
  <2> QED
    BY <2>2, <1>1 DEF KindActive
<1> HIDE DEF active
<1>5. Active \in BOOLEAN
  BY <1>1, <1>4 DEF States
<1>6. Active /\ ~Stepping1 => "user" \in kinds
  <2>1. CASE ~active
    BY <2>1 DEF Evaluated
  <2>2. CASE active
    BY <2>2, <1>3, <1>4 DEF Placed, BreakletKinds, SteppingKinds
  <2> QED
    BY <2>1, <2>2, <1>4
<1> HIDE DEF Active
<1>7. {Stepping1, Into, Body, Err, uMet, sMet} \subseteq BOOLEAN
  BY <1>1, <1>4, <1>5 DEF States
<1> HIDE DEF Stepping1, Into, Body, Err, uMet, sMet
<1>8. /\ st1 \in States /\ st1.at = acc.st.at /\ st1.Active = Active /\ st1.Stepping = Stepping1
  BY <1>1, <1>5, <1>7, ZenonT(60) DEF States
<1>9. ran1 \subseteq Callbacks
  BY <1>1
<1> HIDE DEF st1, ran1
<1>10. checkCond(acc, b, o, g)
         = IF o.cond = "false" THEN acc ELSE [lbp |-> lbp1, ran |-> ran1, st |-> st1]
  BY DEF checkCond, st1, ran1, Stepping1, Into, Body, Err, uMet, sMet, Active, active, lbp1, kind
<1>11. Evaluated([lbp |-> lbp1, ran |-> ran1, st |-> st1], st, l, kinds)
  BY <1>1, <1>2, <1>6, <1>8, <1>9, SMTT(30) DEF Evaluated, Accs, Logical
<1> QED
  BY <1>10, <1>11

(* The recursion of checkCondition, and that it is well defined.           *)
CheckRec(f, base, breaklets, os, g, n) ==
  [i \in 0..n |-> IF i = 0 THEN base ELSE checkCond(f[i - 1], breaklets[i], os[i], g)]

LEMMA CheckDefined ==
  ASSUME NEW base, NEW breaklets, NEW os, NEW g, NEW n \in Nat
  PROVE  \E f : f = CheckRec(f, base, breaklets, os, g, n)
<1> DEFINE One(x, i) == checkCond(x, breaklets[i], os[i], g)
           S == {m \in Nat : \E f : f = [i \in 0..m |-> IF i = 0 THEN base ELSE One(f[i - 1], i)]}
<1> HIDE DEF One
<1>1. 0 \in S
  <2> DEFINE f == [i \in 0..0 |-> base]
  <2>1. f = [i \in 0..0 |-> IF i = 0 THEN base ELSE One(f[i - 1], i)]
    BY SMTT(30)
  <2> QED
    BY <2>1
<1>2. ASSUME NEW m \in Nat, m \in S PROVE m + 1 \in S
  <2>1. PICK f : f = [i \in 0..m |-> IF i = 0 THEN base ELSE One(f[i - 1], i)]
    BY <1>2
  <2> DEFINE h == [i \in 0..(m + 1) |-> IF i = m + 1 THEN One(f[m], m + 1) ELSE f[i]]
  <2>2. ASSUME NEW i \in 0..(m + 1) PROVE h[i] = IF i = 0 THEN base ELSE One(h[i - 1], i)
    <3>1. CASE i = m + 1
      BY <3>1, SMTT(30)
    <3>2. CASE i # m + 1
      <4>1. i \in 0..m /\ (i # 0 => i - 1 \in 0..m /\ i - 1 # m + 1 /\ i - 1 \in 0..(m + 1))
        BY <3>2, SMTT(30)
      <4>2. h[i] = f[i] /\ (i # 0 => h[i - 1] = f[i - 1])
        BY <4>1, <3>2
      <4>3. f[i] = IF i = 0 THEN base ELSE One(f[i - 1], i)
        BY <2>1, <4>1
      <4> QED
        BY <4>2, <4>3
    <3> QED
      BY <3>1, <3>2
  <2>3. h = [i \in 0..(m + 1) |-> h[i]]
    OBVIOUS
  <2> HIDE DEF h
  <2>4. h = [i \in 0..(m + 1) |-> IF i = 0 THEN base ELSE One(h[i - 1], i)]
    BY <2>2, <2>3
  <2> QED
    BY <2>4, SMTT(30)
<1>3. n \in S
  BY <1>1, <1>2, Induction
<1> QED
  BY <1>3 DEF One, CheckRec

(* checkCondition evaluates them all.                                      *)
LEMMA CheckConditionFacts ==
  ASSUME NEW st \in States, NEW breaklets \in Seq(Placed), NEW l \in Logical, NEW g \in Threads,
         NEW os, \A i \in 1..Len(breaklets) : os[i] \in Outcomes(breaklets[i])
  PROVE  Evaluated(checkCondition(st, breaklets, os, l, g), st, l, Kinds(breaklets))
<1> DEFINE fresh == [st EXCEPT !.Active = FALSE, !.Stepping = FALSE, !.SteppingInto = FALSE,
                               !.RangeBody = FALSE, !.CondError = FALSE,
                               !.userMet = FALSE, !.stepMet = FALSE]
           base == [st |-> fresh, lbp |-> l, ran |-> {}]
           n == Len(breaklets)
           kinds == Kinds(breaklets)
           acc == CHOOSE f : f = CheckRec(f, base, breaklets, os, g, n)
           S == {m \in Nat : m <= n => Evaluated(acc[m], st, l, kinds)}
<1>1. n \in Nat /\ l.hits \in Nat /\ \A i \in 1..n : breaklets[i] \in Placed
  BY SMTT(30) DEF Logical
<1>2. Evaluated(base, st, l, kinds)
  <2>1. fresh \in States /\ fresh.at = st.at /\ fresh.Active = FALSE
    BY DEF States
  <2> HIDE DEF fresh
  <2> QED
    BY <2>1, SMTT(30) DEF Evaluated, Accs, Logical
<1>3. checkCondition(st, breaklets, os, l, g) = acc[n]
  BY DEF checkCondition, CheckRec
<1>4. \A i \in 1..n : breaklets[i].kind \in kinds
  BY DEF Kinds
<1> HIDE DEF base, n, kinds
<1>5. acc = CheckRec(acc, base, breaklets, os, g, n)
  <2>1. n \in Nat
    BY <1>1
  <2> QED
    BY <2>1, CheckDefined, ZenonT(60)
<1> HIDE DEF acc
<1>6. 0 \in S
  <2>1. acc[0] = base
    BY <1>1, <1>5, SMTT(30) DEF CheckRec
  <2> QED
    BY <2>1, <1>2
<1>7. ASSUME NEW m \in Nat, m \in S PROVE m + 1 \in S
  <2> SUFFICES ASSUME m + 1 <= n PROVE Evaluated(acc[m + 1], st, l, kinds)
    BY SMTT(30)
  <2>1. m <= n /\ m + 1 \in 1..n /\ m + 1 \in 0..n /\ m + 1 # 0 /\ (m + 1) - 1 = m
    BY <1>1, SMTT(30)
  <2>2. Evaluated(acc[m], st, l, kinds)
    BY <1>7, <2>1
  <2>3. acc[m + 1] = checkCond(acc[m], breaklets[m + 1], os[m + 1], g)
    BY <1>5, <2>1 DEF CheckRec
  <2>4. os[m + 1] \in Outcomes(breaklets[m + 1])
    BY <2>1 DEF n
  <2> QED
    BY <1>1, <1>4, <2>1, <2>2, <2>3, <2>4, CheckCondStep
<1>8. n \in S
  <2> HIDE DEF S
  <2> QED
    BY <1>1, <1>6, <1>7, Induction
<1> QED
  BY <1>1, <1>3, <1>8, SMTT(30) DEF kinds

-----------------------------------------------------------------------------
(* The operations on the table and on the states of the threads.           *)

(* A function of 1..n is a sequence.                                       *)
LEMMA IsSeq ==
  ASSUME NEW S, NEW n \in Nat, NEW f, f = [i \in 1..n |-> f[i]], \A i \in 1..n : f[i] \in S
  PROVE  f \in Seq(S) /\ Len(f) = n
<1>1. f \in [1..n -> S]
  OBVIOUS
<1> QED
  BY <1>1, SMTT(30)

(* A list followed by another.                                             *)
LEMMA ConcatKinds ==
  ASSUME NEW s \in Seq(Placed), NEW r \in Seq(Placed)
  PROVE  s \o r \in Seq(Placed) /\ Kinds(s \o r) = Kinds(s) \cup Kinds(r)
<1> DEFINE q == s \o r
<1>1. /\ q \in Seq(Placed) /\ Len(q) = Len(s) + Len(r) /\ Len(s) \in Nat /\ Len(r) \in Nat
      /\ \A i \in 1..Len(s) : q[i] = s[i]
      /\ \A i \in 1..Len(r) : q[Len(s) + i] = r[i]
  BY SMTT(30)
<1> HIDE DEF q
<1>2. ASSUME NEW i \in 1..Len(q) PROVE q[i].kind \in Kinds(s) \cup Kinds(r)
  <2>1. CASE i <= Len(s)
    <3>1. i \in 1..Len(s)
      BY <1>1, <2>1, SMTT(30)
    <3> QED
      BY <3>1, <1>1 DEF Kinds
  <2>2. CASE ~(i <= Len(s))
    <3>1. i - Len(s) \in 1..Len(r) /\ i = Len(s) + (i - Len(s))
      BY <1>1, <2>2, SMTT(30)
    <3> QED
      BY <3>1, <1>1 DEF Kinds
  <2> QED
    BY <2>1, <2>2
<1>3. ASSUME NEW i \in 1..Len(s) PROVE s[i].kind \in Kinds(q)
  <2>1. i \in 1..Len(q)
    BY <1>1, SMTT(30)
  <2> QED
    BY <2>1, <1>1 DEF Kinds
<1>4. ASSUME NEW i \in 1..Len(r) PROVE r[i].kind \in Kinds(q)
  <2>1. Len(s) + i \in 1..Len(q)
    BY <1>1, SMTT(30)
  <2> QED
    BY <2>1, <1>1 DEF Kinds
<1>5. Kinds(q) = Kinds(s) \cup Kinds(r)
  BY <1>2, <1>3, <1>4 DEF Kinds
<1> QED
  BY <1>1, <1>5 DEF q

(* A breaklet added to a list.                                             *)
LEMMA AppendKinds ==
  ASSUME NEW s \in Seq(Placed), NEW b \in Placed
  PROVE  Append(s, b) \in Seq(Placed) /\ Kinds(Append(s, b)) = Kinds(s) \cup {b.kind}
<1>1. /\ Len(Append(s, b)) = Len(s) + 1 /\ Len(s) \in Nat
      /\ \A i \in 1..Len(s) : Append(s, b)[i] = s[i]
      /\ Append(s, b)[Len(s) + 1] = b
  BY SMTT(30)
<1>2. 1..(Len(s) + 1) = (1..Len(s)) \cup {Len(s) + 1}
  BY <1>1, SMTT(30)
<1>3. Append(s, b) \in Seq(Placed)
  BY SMTT(30)
<1> QED
  BY <1>1, <1>2, <1>3, ZenonT(60) DEF Kinds

(* A list without breaklets.                                               *)
LEMMA NoKinds == Kinds(<<>>) = {}
<1>1. 1..Len(<<>>) = {}
  BY SMTT(30)
<1> QED
  BY <1>1 DEF Kinds

(* The state of a thread that is cleared.                                  *)
LEMMA ClearState ==
  ASSUME NEW st \in States
  PROVE  Clear(st) \in States /\ Clear(st).at = NoAddr /\ Clear(st).Active = FALSE
  BY ZenonT(30) DEF Clear, Cleared, States

(* What a clear that is not about user breakpoints keeps: they stay in the *)
(* table, and with them the state of the threads at them; a thread that    *)
(* loses its breakpoint is not stopped.                                    *)
Kept(tab, states, new, det) ==
  /\ new \in Tables /\ det \in [Threads -> States]
  /\ \A a \in Addrs : "user" \in Kinds(new[a]) <=> "user" \in Kinds(tab[a])
  /\ \A t \in Threads : det[t] = states[t] \/ det[t] = Clear(states[t])
  /\ \A t \in Threads : states[t].at \in Addrs /\ "user" \in Kinds(tab[states[t].at])
                          => det[t] = states[t]

LEMMA WithoutKinds ==
  ASSUME NEW tab \in Tables, NEW kinds
  PROVE  /\ Without(tab, kinds) \in Tables
         /\ \A a \in Addrs : Kinds(Without(tab, kinds)[a]) = Kinds(tab[a]) \ kinds
<1>1. ASSUME NEW a \in Addrs
      PROVE  /\ Without(tab, kinds)[a] \in Seq(Placed)
             /\ Kinds(Without(tab, kinds)[a]) = Kinds(tab[a]) \ kinds
  <2>1. Without(tab, kinds)[a] = Keep(tab[a], kinds) /\ tab[a] \in Seq(Placed)
    BY DEF Without, Tables
  <2> QED
    BY <2>1, KeepKinds, ZenonT(60)
<1> QED
  BY <1>1 DEF Without, Tables

LEMMA ClearFacts ==
  ASSUME NEW tab \in Tables, NEW states \in [Threads -> States], NEW kinds, "user" \notin kinds
  PROVE  Kept(tab, states, Without(tab, kinds), Detached(states, tab, Without(tab, kinds)))
<1> DEFINE new == Without(tab, kinds)
           det == Detached(states, tab, new)
<1>1. new \in Tables /\ \A a \in Addrs : Kinds(new[a]) = Kinds(tab[a]) \ kinds
  BY WithoutKinds
<1> HIDE DEF new
<1>2. ASSUME NEW t \in Threads PROVE /\ det[t] \in States
                                     /\ det[t] = states[t] \/ det[t] = Clear(states[t])
  <2>1. det[t] = states[t] \/ det[t] = Clear(states[t])
    BY DEF Detached
  <2>2. states[t] \in States
    OBVIOUS
  <2> QED
    BY <2>1, <2>2, ClearState
<1>3. ASSUME NEW t \in Threads, states[t].at \in Addrs, "user" \in Kinds(tab[states[t].at])
      PROVE  det[t] = states[t]
  <2>1. "user" \in Kinds(new[states[t].at])
    BY <1>1, <1>3
  <2>2. new[states[t].at] # <<>>
    BY <2>1, NoKinds
  <2> QED
    BY <2>2 DEF Detached
<1>4. det \in [Threads -> States]
  BY <1>2 DEF Detached
<1>5. \A a \in Addrs : "user" \in Kinds(new[a]) <=> "user" \in Kinds(tab[a])
  BY <1>1
<1>6. Kept(tab, states, new, det)
  BY <1>1, <1>2, <1>3, <1>4, <1>5 DEF Kept
<1> QED
  BY <1>6 DEF new

(* ClearSteppingBreakpoints leaves no step behind.                         *)
LEMMA ClearSteppingFacts ==
  ASSUME NEW tab \in Tables, NEW states \in [Threads -> States]
  PROVE  /\ Kept(tab, states, ClearStepping(tab, states).bps, ClearStepping(tab, states).ts)
         /\ ~HasSteppingBreakpoints(ClearStepping(tab, states).bps)
<1> DEFINE new == Without(tab, SteppingKinds)
<1>1. /\ ClearStepping(tab, states).bps = new
      /\ ClearStepping(tab, states).ts = Detached(states, tab, new)
  BY DEF ClearStepping
<1>2. "user" \notin SteppingKinds
  BY DEF SteppingKinds
<1>3. Kept(tab, states, new, Detached(states, tab, new))
  BY <1>2, ClearFacts
<1>4. \A a \in Addrs : Kinds(new[a]) = Kinds(tab[a]) \ SteppingKinds
  BY WithoutKinds
<1> HIDE DEF new
<1>5. ~HasSteppingBreakpoints(new)
  <2>1. \A a \in Addrs : \A i \in 1..Len(new[a]) : new[a][i].kind \in Kinds(new[a])
    BY DEF Kinds
  <2> QED
    BY <2>1, <1>4 DEF HasSteppingBreakpoints, Stepping
<1> QED
  BY <1>1, <1>3, <1>5

(* Inactivated breakpoints go.                                             *)
LEMMA ClearInactivatedFacts ==
  ASSUME NEW tab \in Tables, NEW states \in [Threads -> States]
  PROVE  Kept(tab, states, ClearInactivated(tab, states).bps, ClearInactivated(tab, states).ts)
<1> DEFINE new == Without(tab, {"inactivated"})
<1>1. /\ ClearInactivated(tab, states).bps = new
      /\ ClearInactivated(tab, states).ts = Detached(states, tab, new)
  BY DEF ClearInactivated
<1>2. "user" \notin {"inactivated"}
  OBVIOUS
<1>3. Kept(tab, states, new, Detached(states, tab, new))
  BY <1>2, ClearFacts
<1> QED
  BY <1>1, <1>3

(* A plan is set.                                                          *)
LEMMA AddFacts ==
  ASSUME NEW tab \in Tables, NEW plan \in StepPlans
  PROVE  /\ Add(tab, plan) \in Tables
         /\ \A a \in Addrs : "user" \in Kinds(Add(tab, plan)[a]) <=> "user" \in Kinds(tab[a])
<1>1. plan \in [Addrs -> Seq(StepBreaklet)]
  BY ExecutionAssumption
<1>2. ASSUME NEW a \in Addrs PROVE plan[a] \in Seq(Placed) /\ "user" \notin Kinds(plan[a])
  <2>1. plan[a] \in Seq(StepBreaklet)
    BY <1>1
  <2>2. StepBreaklet \subseteq Placed /\ \A b \in StepBreaklet : b.kind # "user"
    BY DEF StepBreaklet, Placed
  <2> QED
    BY <2>1, <2>2, SMTT(30) DEF Kinds
<1>3. ASSUME NEW a \in Addrs
      PROVE  /\ Add(tab, plan)[a] \in Seq(Placed)
             /\ Kinds(Add(tab, plan)[a]) = Kinds(tab[a]) \cup Kinds(plan[a])
  BY <1>2, ConcatKinds DEF Add, Tables
<1>4. Add(tab, plan) \in Tables
  BY <1>3 DEF Add, Tables
<1> QED
  BY <1>2, <1>3, <1>4

(* A NextBreakpoint is set.                                                *)
LEMMA NextFacts ==
  ASSUME NEW tab \in Tables, NEW d \in Addrs
  PROVE  /\ AppendNext(tab, d) \in Tables
         /\ \A a \in Addrs : "user" \in Kinds(AppendNext(tab, d)[a]) <=> "user" \in Kinds(tab[a])
<1> DEFINE b == [kind |-> "next", cb |-> "none"]
<1>1. b \in Placed /\ b.kind = "next"
  BY DEF Placed, Breaklet, BreakletKinds, SteppingKinds, Callbacks
<1>2. AppendNext(tab, d) = [tab EXCEPT ![d] = Append(@, b)]
  BY DEF AppendNext
<1> HIDE DEF b
<1>3. Append(tab[d], b) \in Seq(Placed) /\ Kinds(Append(tab[d], b)) = Kinds(tab[d]) \cup {"next"}
  BY <1>1, AppendKinds DEF Tables
<1> QED
  BY <1>2, <1>3, SMTT(30) DEF Tables

(* Breakpoints of a step are inactivated.                                  *)
LEMMA InactivateFacts ==
  ASSUME NEW tab \in Tables, NEW A, NEW kinds \in SUBSET SteppingKinds
  PROVE  /\ Inactivate(tab, A, kinds) \in Tables
         /\ \A a \in Addrs :
              "user" \in Kinds(Inactivate(tab, A, kinds)[a]) <=> "user" \in Kinds(tab[a])
<1> DEFINE new == Inactivate(tab, A, kinds)
<1>1. ASSUME NEW a \in Addrs
      PROVE  new[a] \in Seq(Placed) /\ ("user" \in Kinds(new[a]) <=> "user" \in Kinds(tab[a]))
  <2>1. CASE a \notin A
    BY <2>1 DEF Inactivate, Tables
  <2>2. CASE a \in A
    <3>1. /\ tab[a] \in Seq(Placed) /\ Len(tab[a]) \in Nat
          /\ \A i \in 1..Len(tab[a]) : tab[a][i] \in Placed
      BY SMTT(30) DEF Tables
    <3>2. new[a] = [i \in 1..Len(tab[a]) |->
                      IF tab[a][i].kind \in kinds
                      THEN [kind |-> "inactivated", cb |-> tab[a][i].cb] ELSE tab[a][i]]
      BY <2>2 DEF Inactivate
    <3>3. ASSUME NEW i \in 1..Len(tab[a])
          PROVE  new[a][i] \in Placed /\ (new[a][i].kind = "user" <=> tab[a][i].kind = "user")
      <4>1. tab[a][i] \in Placed
        BY <3>1
      <4>2. CASE tab[a][i].kind \in kinds
        <5>1. new[a][i] = [kind |-> "inactivated", cb |-> tab[a][i].cb]
          BY <3>2, <4>2
        <5> QED
          BY <5>1, <4>1, <4>2, SMTT(30) DEF Placed, Breaklet, BreakletKinds, SteppingKinds
      <4>3. CASE tab[a][i].kind \notin kinds
        BY <3>2, <4>1, <4>3
      <4> QED
        BY <4>2, <4>3
    <3>4. new[a] \in Seq(Placed) /\ Len(new[a]) = Len(tab[a])
      <4>1. new[a] = [i \in 1..Len(tab[a]) |-> new[a][i]]
        BY <3>2
      <4> HIDE DEF new
      <4> QED
        BY <4>1, <3>1, <3>3, IsSeq
    <3> QED
      BY <3>3, <3>4 DEF Kinds
  <2> QED
    BY <2>1, <2>2
<1>2. new \in Tables
  BY <1>1 DEF Inactivate, Tables
<1> QED
  BY <1>1, <1>2

(* The callbacks leave user breaklets alone.                               *)
LEMMA CallbackFacts ==
  ASSUME NEW tab \in Tables, NEW ran, NEW dest \in Addrs \cup {NoAddr}, NEW body
  PROVE  /\ AfterCallbacks(tab, ran, dest, body) \in Tables
         /\ \A a \in Addrs :
              "user" \in Kinds(AfterCallbacks(tab, ran, dest, body)[a]) <=> "user" \in Kinds(tab[a])
<1> DEFINE t1 == IF "inactivate" \in ran THEN Inactivate(tab, body, {"next"}) ELSE tab
           t2 == IF "newproc" \in ran THEN Inactivate(t1, Addrs, SteppingKinds) ELSE t1
<1>1. t1 \in Tables /\ \A a \in Addrs : "user" \in Kinds(t1[a]) <=> "user" \in Kinds(tab[a])
  <2>1. {"next"} \subseteq SteppingKinds
    BY DEF SteppingKinds
  <2> QED
    BY <2>1, InactivateFacts
<1> HIDE DEF t1
<1>2. t2 \in Tables /\ \A a \in Addrs : "user" \in Kinds(t2[a]) <=> "user" \in Kinds(t1[a])
  BY <1>1, InactivateFacts
<1> HIDE DEF t2
<1>3. AfterCallbacks(tab, ran, dest, body)
        = IF ran \cap {"stepInto", "newproc"} # {} /\ dest # NoAddr
          THEN AppendNext(t2, dest) ELSE t2
  BY DEF AfterCallbacks, t1, t2
<1> QED
  BY <1>1, <1>2, <1>3, NextFacts

-----------------------------------------------------------------------------
(* The invariant.  The first part is about the table and the hit           *)
(* condition, the second about a stop whose conditions are being           *)
(* evaluated, the third about the stop that Continue returns.              *)

Typed ==
  /\ bps \in Tables /\ lbp \in Logical /\ ts \in [Threads -> States]
  /\ cur \in Threads /\ trap \in Threads /\ todo \subseteq Threads

UserKept(tab, new) == \A a \in Addrs : "user" \in Kinds(new[a]) <=> "user" \in Kinds(tab[a])

(* The user breaklet is in the table while its breakpoint is enabled.      *)
UserBreaklet == \A a \in Addrs : "user" \in Kinds(bps[a]) <=> a = UserAddr /\ lbp.condSatisfiable

Satisfiable ==
  /\ ~lbp.condSatisfiable => ~satisfiable(lbp)
  /\ phase = "run" /\ lbp.condSatisfiable => satisfiable(lbp)

Fresh ==
  /\ phase \in {"check", "decide"} => reason \in {"unknown", "hardcoded", "callReturned"}
  /\ phase = "check" => reason = "unknown"
  /\ phase = "run" => \A t \in Threads : ~ts[t].Active
  /\ phase = "check" => \A t \in Threads : /\ t \in todo => ts[t].at \in Addrs
                                           /\ ts[t].at = Hard => ~ts[t].Active

AtUser(tab, st) == st.at \in Addrs /\ "user" \in Kinds(tab[st.at])

(* A thread that is stopped, but not by a step or an instruction of the    *)
(* program, is at the user breakpoint.                                     *)
StoppedAt ==
  phase \in {"check", "decide"} =>
    \A t \in Threads : ts[t].Active /\ ~ts[t].Stepping /\ ts[t].at # Hard => AtUser(bps, ts[t])

HardReported ==
  phase = "decide" => \A t \in Threads : ts[t].Active /\ ts[t].at = Hard => reason = "hardcoded"

CurrentAt ==
  phase \in {"ret", "idle"} /\ ret = "nil" /\ reason = "breakpoint"
    => ts[cur].Active /\ AtUser(bps, ts[cur])

(* The reasons with which a step may outlive a stop.                       *)
Interruptions ==
  {"breakpoint", "hardcoded", "callReturned"} \cup (IF KeepOnHalt THEN {"manual"} ELSE {})

StepsLeft == phase = "ret" /\ ret = "nil" /\ HasSteppingBreakpoints(bps) => reason \in Interruptions

Evaluating == Fresh /\ StoppedAt /\ HardReported
Returned == CurrentAt /\ StepsLeft /\ StepEndReported
IInv == Typed /\ UserBreaklet /\ Satisfiable /\ Evaluating /\ Returned

LEMMA KeptUser ==
  ASSUME NEW tab, NEW states, NEW new, NEW det, Kept(tab, states, new, det)
  PROVE  new \in Tables /\ det \in [Threads -> States] /\ UserKept(tab, new)
  BY DEF Kept, UserKept

LEMMA UserStays ==
  ASSUME UserBreaklet, UserKept(bps, bps'), lbp'.condSatisfiable = lbp.condSatisfiable
  PROVE  UserBreaklet'
  BY DEF UserBreaklet, UserKept

(* The phases a part of the invariant is not about.                        *)
LEMMA NotEvaluating ==
  ASSUME phase' \notin {"check", "decide", "run"} PROVE Evaluating'
  BY DEF Evaluating, Fresh, StoppedAt, HardReported

LEMMA NotReturned ==
  ASSUME phase' \notin {"ret", "idle"} PROVE Returned'
  BY DEF Returned, CurrentAt, StepsLeft, StepEndReported

LEMMA StillSatisfiable ==
  ASSUME Satisfiable, lbp' = lbp, phase' # "run" PROVE Satisfiable'
  BY DEF Satisfiable

(* A hit condition that no later hit can satisfy stays so.                 *)
LEMMA MoreHits ==
  ASSUME NEW l \in Logical, NEW m \in Logical, m.hits >= l.hits, m.hitCond = l.hitCond,
         ~satisfiable(l)
  PROVE  ~satisfiable(m)
<1>1. /\ l.hitCond.val \in Nat /\ l.hitCond.perG \in BOOLEAN /\ l.hits \in Nat /\ m.hits \in Nat
  BY ExecutionAssumption DEF Logical
<1> DEFINE hc == l.hitCond
<1>2. /\ ~hc.perG /\ hc.op \in {"==", "<=", "<"}
      /\ hc.op \in {"==", "<="} => ~(l.hits < hc.val)
      /\ hc.op = "<" => ~(l.hits < hc.val - 1)
  BY <1>1 DEF satisfiable
<1>3. /\ hc.op \in {"==", "<="} => ~(m.hits < hc.val)
      /\ hc.op = "<" => ~(m.hits < hc.val - 1)
  BY <1>1, <1>2, SMTT(30)
<1> QED
  BY <1>2, <1>3 DEF satisfiable

LEMMA SatisfiableBoolean ==
  ASSUME NEW l \in Logical PROVE satisfiable(l) \in BOOLEAN
<1>1. /\ l.hitCond.val \in Nat /\ l.hits \in Nat /\ l.hitCond.perG \in BOOLEAN
  BY ExecutionAssumption DEF Logical
<1>2. (l.hits < l.hitCond.val) \in BOOLEAN /\ (l.hits < l.hitCond.val - 1) \in BOOLEAN
  BY <1>1, SMTT(30)
<1> QED
  BY <1>1, <1>2 DEF satisfiable

(* clearHardcodedBreakpoints.                                              *)
LEMMA ClearHardcodedFacts ==
  ASSUME NEW states \in [Threads -> States]
  PROVE  ClearHardcoded(states) \in [Threads -> States]
<1>1. ASSUME NEW t \in Threads PROVE ClearHardcoded(states)[t] \in States
  <2>1. states[t] \in States
    OBVIOUS
  <2>2. [states[t] EXCEPT !.at = NoAddr, !.Active = FALSE] \in States
    BY <2>1 DEF States
  <2> QED
    BY <2>1, <2>2 DEF ClearHardcoded
<1> QED
  BY <1>1 DEF ClearHardcoded

(* finishManualStop.                                                       *)
LEMMA FinishFacts ==
  ASSUME NEW tab \in Tables, ts \in [Threads -> States], finishManualStop(tab)
  PROVE  /\ bps' \in Tables /\ ts' \in [Threads -> States] /\ UserKept(tab, bps')
         /\ reason' = "manual" /\ (HasSteppingBreakpoints(bps') => KeepOnHalt)
<1> DEFINE states == ClearHardcoded(ts)
<1>1. states \in [Threads -> States]
  BY ClearHardcodedFacts
<1> HIDE DEF states
<1>2. CASE KeepOnHalt
  <2>1. bps' = tab /\ ts' = states /\ reason' = "manual"
    BY <1>2 DEF finishManualStop, states
  <2> QED
    BY <1>1, <1>2, <2>1 DEF UserKept
<1>3. CASE ~KeepOnHalt
  <2>1. /\ bps' = ClearStepping(tab, states).bps /\ ts' = ClearStepping(tab, states).ts
        /\ reason' = "manual"
    BY <1>3 DEF finishManualStop, states
  <2>2. Kept(tab, states, bps', ts') /\ ~HasSteppingBreakpoints(bps')
    BY <2>1, <1>1, ClearSteppingFacts
  <2> QED
    BY <2>1, <2>2, KeptUser
<1> QED
  BY <1>2, <1>3

(* manageUnsatisfiableBreakpoints.                                         *)
LEMMA ManagedFacts ==
  ASSUME bps \in Tables, lbp \in Logical, UserBreaklet, Satisfiable
  PROVE  /\ Managed.bps \in Tables /\ Managed.lbp \in Logical
         /\ \A a \in Addrs : "user" \in Kinds(Managed.bps[a])
                               <=> a = UserAddr /\ Managed.lbp.condSatisfiable
         /\ Managed.lbp.condSatisfiable <=> satisfiable(Managed.lbp)
<1>1. CASE lbp.condSatisfiable /\ ~satisfiable(lbp)
  <2>1. /\ Managed.lbp = [lbp EXCEPT !.condSatisfiable = FALSE]
        /\ Managed.bps = Without(bps, {"user"})
    BY <1>1 DEF Managed
  <2>2. /\ Managed.lbp \in Logical /\ Managed.lbp.condSatisfiable = FALSE
        /\ Managed.lbp.hits = lbp.hits /\ Managed.lbp.hitCond = lbp.hitCond /\ lbp.hits \in Nat
    BY <2>1 DEF Logical
  <2>3. ~satisfiable(Managed.lbp)
    BY <2>2, <1>1, MoreHits, SMTT(30)
  <2>4. /\ Managed.bps \in Tables
        /\ \A a \in Addrs : Kinds(Managed.bps[a]) = Kinds(bps[a]) \ {"user"}
    <3>1. /\ Without(bps, {"user"}) \in Tables
          /\ \A a \in Addrs : Kinds(Without(bps, {"user"})[a]) = Kinds(bps[a]) \ {"user"}
      BY WithoutKinds
    <3> QED
      BY <2>1, <3>1
  <2> QED
    BY <2>2, <2>3, <2>4
<1>2. CASE ~(lbp.condSatisfiable /\ ~satisfiable(lbp))
  <2>1. Managed.lbp = lbp /\ Managed.bps = bps
    BY <1>2 DEF Managed
  <2>2. lbp.condSatisfiable <=> satisfiable(lbp)
    BY <1>2 DEF Satisfiable
  <2> QED
    BY <2>1, <2>2 DEF UserBreaklet
<1> QED
  BY <1>1, <1>2

(* pickCurrentThread: a thread that ends a step has priority.              *)
LEMMA PickFacts ==
  ASSUME trap \in Threads, ts \in [Threads -> States], SwitchThread
  PROVE  /\ cur' \in Threads /\ trap' \in Threads
         /\ ts[cur'].Active /\ ~ts[cur'].Stepping
              => \A t \in Threads : ~(ts[t].Active /\ ts[t].Stepping)
<1>1. cur' \in pickCurrentThread /\ trap' = cur'
  BY DEF SwitchThread
<1> DEFINE active == {t \in Threads : ts[t].Active}
           stepping == {t \in active : ts[t].Stepping}
<1>2. CASE stepping # {}
  <2>1. cur' \in stepping
    BY <1>1, <1>2 DEF pickCurrentThread
  <2> QED
    BY <2>1, <1>1
<1>3. CASE stepping = {}
  <2>1. cur' \in active \cup {trap}
    BY <1>1, <1>3 DEF pickCurrentThread
  <2> QED
    BY <2>1, <1>1, <1>3
<1> QED
  BY <1>2, <1>3

(* next() gives the current thread its breakpoint.                         *)
LEMMA SetCurrentTyped ==
  ASSUME NEW states \in [Threads -> States], NEW tab, NEW t \in Threads,
         NEW a \in Addrs \cup {NoAddr}
  PROVE  SetCurrentBreakpoint(states, tab, t, a) \in [Threads -> States]
<1>1. [states[t] EXCEPT !.at = a] \in States
  BY DEF States
<1>2. [states EXCEPT ![t].at = a] = [states EXCEPT ![t] = [states[t] EXCEPT !.at = a]]
  OBVIOUS
<1> QED
  BY <1>1, <1>2 DEF SetCurrentBreakpoint

-----------------------------------------------------------------------------
(* The steps, one lemma per action or group of actions.                    *)

LEMMA InitIInv == Init => IInv
<1> SUFFICES ASSUME Init PROVE IInv
  OBVIOUS
<1>1. PICK hc \in HitConds :
        lbp = [hits |-> 0, hitsG |-> [t \in Threads |-> 0], hitCond |-> hc,
               condSatisfiable |-> TRUE]
  BY DEF Init
<1>2. lbp \in Logical /\ lbp.condSatisfiable = TRUE
  BY <1>1 DEF Logical
<1> DEFINE b == [kind |-> "user", cb |-> "none"]
<1>3. b \in Placed /\ b.kind = "user"
  BY DEF Placed, Breaklet, BreakletKinds, SteppingKinds, Callbacks
<1> HIDE DEF b
<1>4. <<b>> \in Seq(Placed) /\ <<>> \in Seq(Placed) /\ "user" \in Kinds(<<b>>)
  <2>1. Len(<<b>>) = 1 /\ <<b>>[1] = b /\ 1 \in 1..1
    BY SMTT(30)
  <2>2. b.kind \in Kinds(<<b>>)
    BY <2>1 DEF Kinds
  <2> QED
    BY <1>3, <2>2, SMTT(30)
<1>5. bps = [a \in Addrs |-> IF a = UserAddr THEN <<b>> ELSE <<>>]
  BY DEF Init, b
<1>6. bps \in Tables
  BY <1>4, <1>5 DEF Tables
<1>7. UserBreaklet
  BY <1>2, <1>4, <1>5, NoKinds DEF UserBreaklet
<1>8. NewState \in States
  BY DEF NewState, States
<1>9. Typed
  BY <1>2, <1>6, <1>8 DEF Typed, Init
<1>10. phase = "idle" /\ reason = "launched"
  BY DEF Init
<1> QED
  BY <1>2, <1>7, <1>9, <1>10
     DEF IInv, Satisfiable, Evaluating, Fresh, StoppedAt, HardReported, Returned, CurrentAt,
         StepsLeft,
         StepEndReported

(* A command is accepted.                                                  *)
LEMMA CommandSteps ==
  ASSUME IInv, ContinueCmd \/ StepCmd \/ StepParked PROVE IInv'
<1>1. /\ phase' = "start" /\ lbp' = lbp /\ cur' = cur /\ trap' = trap /\ todo' = todo
  BY DEF ContinueCmd, StepCmd, StepParked
<1>2. bps' \in Tables /\ UserKept(bps, bps') /\ ts' \in [Threads -> States]
  <2>1. CASE ContinueCmd
    BY <2>1 DEF ContinueCmd, IInv, Typed, UserKept
  <2>2. CASE StepCmd
    <3>1. PICK plan \in StepPlans, a \in Addrs \cup {NoAddr} :
            bps' = Add(bps, plan) /\ ts' = SetCurrentBreakpoint(ts, bps', cur, a)
      BY <2>2 DEF StepCmd
    <3>2. bps' \in Tables /\ UserKept(bps, bps')
      BY <3>1, AddFacts DEF IInv, Typed, UserKept
    <3>3. ts' \in [Threads -> States]
      BY <3>1, SetCurrentTyped DEF IInv, Typed
    <3> QED
      BY <3>2, <3>3
  <2>3. CASE StepParked
    <3>1. PICK a \in Addrs : bps' = AppendNext(bps, a)
      BY <2>3 DEF StepParked, AppendNext
    <3> QED
      BY <3>1, <2>3, NextFacts DEF StepParked, IInv, Typed, UserKept
  <2> QED
    BY <2>1, <2>2, <2>3
<1>3. Typed' /\ UserBreaklet'
  BY <1>1, <1>2, UserStays DEF IInv, Typed
<1> QED
  BY <1>1, <1>3, NotEvaluating, NotReturned, StillSatisfiable DEF IInv

LEMMA StepInstructionStep ==
  ASSUME IInv, StepInstruction PROVE IInv'
<1>1. PICK a \in Addrs \cup {NoAddr} : ts' = [ts EXCEPT ![cur] = [Clear(ts[cur]) EXCEPT !.at = a]]
  BY DEF StepInstruction
<1>2. [Clear(ts[cur]) EXCEPT !.at = a] \in States
  <2>1. Clear(ts[cur]) \in States
    BY ClearState DEF IInv, Typed
  <2> QED
    BY <2>1 DEF States
<1>3. ts' \in [Threads -> States]
  BY <1>1, <1>2 DEF IInv, Typed
<1>4. /\ phase' = phase /\ phase = "idle" /\ lbp' = lbp /\ cur' = cur /\ trap' = trap
      /\ todo' = todo
      /\ bps' = bps /\ reason' = "nextFinished"
  BY DEF StepInstruction
<1>5. Typed' /\ UserBreaklet'
  BY <1>3, <1>4 DEF IInv, Typed, UserBreaklet
<1>6. Returned'
  BY <1>4 DEF Returned, CurrentAt, StepsLeft, StepEndReported
<1> QED
  BY <1>4, <1>5, <1>6, NotEvaluating, StillSatisfiable DEF IInv

LEMMA StepBackStep ==
  ASSUME IInv, StepBack PROVE IInv'
<1>1. PICK plan \in StepPlans, a \in Addrs \cup {NoAddr} :
        LET c == ClearStepping(Add(bps, plan), ts) IN
        bps' = c.bps /\ ts' = [c.ts EXCEPT ![cur] = [Clear(c.ts[cur]) EXCEPT !.at = a]]
  BY DEF StepBack
<1> DEFINE tab == Add(bps, plan)
           c == ClearStepping(tab, ts)
<1>2. /\ phase' = phase /\ phase = "idle" /\ lbp' = lbp /\ cur' = cur /\ trap' = trap
      /\ todo' = todo /\ reason' = "nextFinished"
  BY DEF StepBack
<1>3. tab \in Tables /\ UserKept(bps, tab)
  BY AddFacts DEF IInv, Typed, UserKept
<1> HIDE DEF tab
<1>4. Kept(tab, ts, c.bps, c.ts)
  BY <1>3, ClearSteppingFacts DEF IInv, Typed
<1>5. bps' = c.bps /\ ts' = [c.ts EXCEPT ![cur] = [Clear(c.ts[cur]) EXCEPT !.at = a]]
  BY <1>1 DEF tab
<1> HIDE DEF c
<1>6. c.bps \in Tables /\ c.ts \in [Threads -> States] /\ UserKept(tab, c.bps)
  BY <1>3, <1>4, KeptUser
<1>7. ts' \in [Threads -> States]
  <2>1. Clear(c.ts[cur]) \in States
    BY <1>6, ClearState DEF IInv, Typed
  <2>2. [Clear(c.ts[cur]) EXCEPT !.at = a] \in States
    BY <2>1 DEF States
  <2> QED
    BY <2>2, <1>5, <1>6 DEF IInv, Typed
<1>8. bps' \in Tables /\ UserKept(bps, bps')
  BY <1>3, <1>5, <1>6 DEF UserKept
<1>9. Typed' /\ UserBreaklet'
  BY <1>2, <1>7, <1>8, UserStays DEF IInv, Typed
<1>10. Returned'
  BY <1>2 DEF Returned, CurrentAt, StepsLeft, StepEndReported
<1> QED
  BY <1>2, <1>9, <1>10, NotEvaluating, StillSatisfiable DEF IInv

LEMMA CancelNextStep ==
  ASSUME IInv, CancelNext PROVE IInv'
<1>1. /\ phase' = phase /\ phase = "idle" /\ lbp' = lbp /\ cur' = cur /\ trap' = trap
      /\ todo' = todo
      /\ ret' = ret /\ reason' = reason
      /\ bps' = ClearStepping(bps, ts).bps /\ ts' = ClearStepping(bps, ts).ts
  BY DEF CancelNext
<1>2. Kept(bps, ts, bps', ts')
  BY <1>1, ClearSteppingFacts DEF IInv, Typed
<1>3. Typed' /\ UserBreaklet'
  BY <1>1, <1>2, KeptUser, UserStays DEF IInv, Typed
<1>4. CurrentAt'
  BY <1>1, <1>2 DEF IInv, Typed, Returned, CurrentAt, AtUser, Kept
<1>5. Returned'
  BY <1>1, <1>4 DEF Returned, StepsLeft, StepEndReported
<1> QED
  BY <1>1, <1>3, <1>5, NotEvaluating, StillSatisfiable DEF IInv

(* A manual stop is requested, or nothing happens: no part of the          *)
(* invariant reads flag or sig.                                            *)
LEMMA RequestStep ==
  ASSUME IInv, RequestManualStop \/ UNCHANGED vars PROVE IInv'
<1>1. UNCHANGED <<bps, lbp, ts, cur, reason, phase, todo, trap, ret>>
  BY DEF RequestManualStop, vars
<1>2. Typed' /\ UserBreaklet' /\ Satisfiable'
  BY <1>1 DEF IInv, Typed, UserBreaklet, Satisfiable
<1>3. Evaluating'
  BY <1>1 DEF IInv, Evaluating, Fresh, StoppedAt, HardReported, AtUser
<1>4. Returned'
  BY <1>1 DEF IInv, Returned, CurrentAt, StepsLeft, StepEndReported, AtUser
<1> QED
  BY <1>2, <1>3, <1>4 DEF IInv

LEMMA EnterStep ==
  ASSUME IInv, Enter \/ Exit PROVE IInv'
<1>1. /\ phase' \in {"top", "exited"} /\ lbp' = lbp /\ cur' = cur /\ trap' = trap /\ todo' = todo
      /\ bps' = bps /\ (ts' = ts \/ ts' = ClearHardcoded(ts))
  BY DEF Enter, Exit
<1>2. Typed' /\ UserBreaklet'
  BY <1>1, ClearHardcodedFacts DEF IInv, Typed, UserBreaklet
<1> QED
  BY <1>1, <1>2, NotEvaluating, NotReturned, StillSatisfiable DEF IInv

LEMMA TopHaltedStep ==
  ASSUME IInv, TopHalted PROVE IInv'
<1>1. /\ phase' = "ret" /\ lbp' = Managed.lbp /\ cur' = cur /\ trap' = trap /\ todo' = todo
      /\ ret' = "nil" /\ finishManualStop(Managed.bps)
  BY DEF TopHalted
<1>2. /\ Managed.bps \in Tables /\ Managed.lbp \in Logical
      /\ \A a \in Addrs : "user" \in Kinds(Managed.bps[a])
                               <=> a = UserAddr /\ Managed.lbp.condSatisfiable
      /\ Managed.lbp.condSatisfiable <=> satisfiable(Managed.lbp)
  BY ManagedFacts DEF IInv, Typed
<1>3. /\ bps' \in Tables /\ ts' \in [Threads -> States] /\ UserKept(Managed.bps, bps')
      /\ reason' = "manual" /\ (HasSteppingBreakpoints(bps') => KeepOnHalt)
  BY <1>1, <1>2, FinishFacts DEF IInv, Typed
<1>4. Typed' /\ UserBreaklet' /\ Satisfiable'
  <2>1. Typed'
    BY <1>1, <1>2, <1>3 DEF IInv, Typed
  <2>2. UserBreaklet'
    BY <1>1, <1>2, <1>3 DEF UserBreaklet, UserKept
  <2>3. Satisfiable'
    BY <1>1, <1>2 DEF Satisfiable
  <2> QED
    BY <2>1, <2>2, <2>3
<1>5. Returned'
  BY <1>1, <1>3 DEF Returned, CurrentAt, StepsLeft, StepEndReported, Interruptions
<1> QED
  BY <1>1, <1>4, <1>5, NotEvaluating DEF IInv

LEMMA ResumeStep ==
  ASSUME IInv, Resume PROVE IInv'
<1>1. /\ phase' = "run" /\ lbp' = Managed.lbp /\ bps' = Managed.bps
      /\ ts' = [t \in Threads |-> Clear(ts[t])] /\ cur' = cur /\ trap' = trap /\ todo' = todo
  BY DEF Resume
<1>2. /\ Managed.bps \in Tables /\ Managed.lbp \in Logical
      /\ \A a \in Addrs : "user" \in Kinds(Managed.bps[a])
                               <=> a = UserAddr /\ Managed.lbp.condSatisfiable
      /\ Managed.lbp.condSatisfiable <=> satisfiable(Managed.lbp)
  BY ManagedFacts DEF IInv, Typed
<1>3. ASSUME NEW t \in Threads PROVE ts'[t] \in States /\ ts'[t].Active = FALSE
  BY <1>1, ClearState DEF IInv, Typed
<1>4. Typed' /\ UserBreaklet' /\ Satisfiable'
  <2>1. ts' \in [Threads -> States]
    BY <1>1, <1>3
  <2>2. Typed'
    BY <1>1, <1>2, <2>1 DEF IInv, Typed
  <2>3. UserBreaklet'
    BY <1>1, <1>2 DEF UserBreaklet
  <2>4. Satisfiable'
    BY <1>1, <1>2 DEF Satisfiable
  <2> QED
    BY <2>2, <2>3, <2>4
<1>5. Evaluating'
  BY <1>1, <1>3 DEF Evaluating, Fresh, StoppedAt, HardReported
<1> QED
  BY <1>1, <1>4, <1>5, NotReturned DEF IInv

LEMMA TrapStep ==
  ASSUME IInv, TrapHit \/ TrapSignal PROVE IInv'
<1>1. PICK where \in [Threads -> Addrs \cup {NoAddr, Hard}] : Stop(where) /\ trap' \in Threads
  BY DEF TrapHit, TrapSignal
<1>2. /\ phase = "run" /\ phase' = "check" /\ lbp' = lbp /\ bps' = bps /\ cur' = cur
      /\ ts' = [t \in Threads |-> [ts[t] EXCEPT !.at = where[t]]]
      /\ todo' = {t \in Threads : where[t] \in Addrs} /\ reason' = "unknown"
  BY <1>1 DEF Stop, TrapHit, TrapSignal
<1>3. ASSUME NEW t \in Threads
      PROVE  /\ ts'[t] \in States /\ ts'[t].at = where[t]
             /\ ts'[t].Active = ts[t].Active /\ ~ts[t].Active
  <2>1. ts'[t] = [ts[t] EXCEPT !.at = where[t]] /\ where[t] \in Addrs \cup {NoAddr, Hard}
    BY <1>2
  <2>2. ts[t] \in States /\ ~ts[t].Active
    BY <1>2 DEF IInv, Typed, Evaluating, Fresh
  <2> QED
    BY <2>1, <2>2 DEF States
<1>4. ts' \in [Threads -> States]
  BY <1>2, <1>3
<1>5. Typed' /\ UserBreaklet'
  BY <1>1, <1>2, <1>4 DEF IInv, Typed, UserBreaklet
<1>6. Evaluating'
  BY <1>2, <1>3 DEF Evaluating, Fresh, StoppedAt, HardReported
<1> QED
  BY <1>2, <1>5, <1>6, NotReturned, StillSatisfiable DEF IInv

LEMMA CheckThreadStep ==
  ASSUME IInv, CheckThread PROVE IInv'
<1>1. PICK t \in todo :
        LET a == ts[t].at IN
        \E os \in {f \in [1..Len(bps[a]) -> UNION {Outcomes(bps[a][i]) : i \in 1..Len(bps[a])}] :
                   \A i \in 1..Len(bps[a]) : f[i] \in Outcomes(bps[a][i])} :
          LET r == checkCondition(ts[t], bps[a], os, lbp, t) IN
          /\ \E dest \in (IF r.ran \cap {"stepInto", "newproc"} = {} THEN {NoAddr}
                          ELSE {d \in Addrs : Len(bps[d]) < MaxBreaklets} \cup {NoAddr}),
                body \in (IF "inactivate" \in r.ran THEN SUBSET (Addrs \ {a}) ELSE {{}}) :
               bps' = AfterCallbacks(bps, r.ran, dest, body)
          /\ ts' = [ts EXCEPT ![t] = r.st]
          /\ lbp' = r.lbp
          /\ todo' = todo \ {t}
  BY DEF CheckThread
<1>2. PICK os : /\ \A i \in 1..Len(bps[ts[t].at]) : os[i] \in Outcomes(bps[ts[t].at][i])
                /\ LET r == checkCondition(ts[t], bps[ts[t].at], os, lbp, t) IN
                   /\ \E dest \in Addrs \cup {NoAddr} : \E body :
                        bps' = AfterCallbacks(bps, r.ran, dest, body)
                   /\ ts' = [ts EXCEPT ![t] = r.st]
                   /\ lbp' = r.lbp
                   /\ todo' = todo \ {t}
  BY <1>1, ZenonT(30)
<1> DEFINE a == ts[t].at
           r == checkCondition(ts[t], bps[a], os, lbp, t)
<1>3. /\ phase = "check" /\ phase' = phase /\ cur' = cur /\ trap' = trap /\ reason' = reason
  BY DEF CheckThread
<1>4. t \in Threads /\ a \in Addrs /\ ts[t] \in States /\ bps[a] \in Seq(Placed) /\ lbp \in Logical
  BY <1>3 DEF IInv, Typed, Tables, Evaluating, Fresh
<1>5. Evaluated(r, ts[t], lbp, Kinds(bps[a]))
  BY <1>2, <1>4, CheckConditionFacts
<1>6. /\ \E dest \in Addrs \cup {NoAddr} : \E body : bps' = AfterCallbacks(bps, r.ran, dest, body)
      /\ ts' = [ts EXCEPT ![t] = r.st] /\ lbp' = r.lbp /\ todo' = todo \ {t}
  BY <1>2
<1> HIDE DEF r
<1>7. /\ r.st \in States /\ r.lbp \in Logical /\ r.st.at = a
      /\ r.lbp.hits >= lbp.hits /\ r.lbp.hitCond = lbp.hitCond
      /\ r.lbp.condSatisfiable = lbp.condSatisfiable
      /\ r.st.Active /\ ~r.st.Stepping => "user" \in Kinds(bps[a])
  BY <1>5 DEF Evaluated, Accs
<1>8. bps' \in Tables /\ UserKept(bps, bps')
  BY <1>6, CallbackFacts, SMTT(30) DEF IInv, Typed, UserKept
<1>9. /\ ts' \in [Threads -> States] /\ ts'[t] = r.st
      /\ \A u \in Threads : u # t => ts'[u] = ts[u]
  BY <1>4, <1>6, <1>7 DEF IInv, Typed
<1>10. Typed' /\ UserBreaklet'
  <2>1. Typed'
    BY <1>3, <1>6, <1>7, <1>8, <1>9 DEF IInv, Typed
  <2>2. UserBreaklet'
    BY <1>6, <1>7, <1>8, UserStays DEF IInv
  <2> QED
    BY <2>1, <2>2
<1>11. Satisfiable'
  <2>1. lbp' \in Logical /\ lbp'.hits >= lbp.hits /\ lbp'.hitCond = lbp.hitCond
        /\ lbp'.condSatisfiable = lbp.condSatisfiable
    BY <1>6, <1>7
  <2>2. ~satisfiable(lbp) => ~satisfiable(lbp')
    BY <2>1, <1>4, MoreHits
  <2> QED
    BY <2>1, <2>2, <1>3 DEF IInv, Satisfiable
<1>12. Evaluating'
  <2>1. Fresh'
    <3>1. ASSUME NEW u \in Threads
          PROVE  (u \in todo' => ts'[u].at \in Addrs) /\ (ts'[u].at = Hard => ~ts'[u].Active)
      <4>1. CASE u = t
        <5>1. a # Hard
          BY <1>4, ExecutionAssumption
        <5> QED
          BY <4>1, <5>1, <1>4, <1>7, <1>9
      <4>2. CASE u # t
        BY <4>2, <1>3, <1>6, <1>9 DEF IInv, Evaluating, Fresh
      <4> QED
        BY <4>1, <4>2
    <3> QED
      BY <3>1, <1>3 DEF IInv, Evaluating, Fresh
  <2>2. ASSUME NEW u \in Threads, ts'[u].Active, ~ts'[u].Stepping, ts'[u].at # Hard
        PROVE  AtUser(bps', ts'[u])
    <3>1. CASE u = t
      BY <2>2, <3>1, <1>4, <1>7, <1>8, <1>9 DEF AtUser, UserKept
    <3>2. CASE u # t
      BY <2>2, <3>2, <1>3, <1>8, <1>9 DEF AtUser, UserKept, IInv, Evaluating, StoppedAt
    <3> QED
      BY <3>1, <3>2
  <2>3. StoppedAt'
    BY <2>2 DEF StoppedAt
  <2>4. HardReported'
    BY <1>3 DEF HardReported
  <2> QED
    BY <2>1, <2>3, <2>4 DEF Evaluating
<1> QED
  BY <1>3, <1>10, <1>11, <1>12, NotReturned DEF IInv

LEMMA CheckDoneStep ==
  ASSUME IInv, CheckDone PROVE IInv'
<1> DEFINE c == ClearInactivated(bps, ts)
           hard == {t \in Threads : c.ts[t].at = Hard /\ ~(t = trap /\ flag)}
<1>1. /\ phase = "check" /\ phase' = "decide" /\ lbp' = lbp /\ cur' = cur /\ trap' = trap
      /\ todo' = todo
      /\ bps' = c.bps
      /\ ts' = [t \in Threads |-> IF t \in hard THEN [c.ts[t] EXCEPT !.Active = TRUE] ELSE c.ts[t]]
      /\ reason' \in IF hard # {} THEN {"hardcoded"}
                     ELSE {reason} \cup (IF InjectedCalls THEN {"callReturned"} ELSE {})
  BY DEF CheckDone
<1>2. Kept(bps, ts, c.bps, c.ts)
  BY ClearInactivatedFacts DEF IInv, Typed
<1>3. \A t \in hard : c.ts[t].at = Hard
  OBVIOUS
<1> HIDE DEF hard
<1> HIDE DEF c
<1>4. bps' \in Tables /\ UserKept(bps, bps') /\ c.ts \in [Threads -> States]
  BY <1>1, <1>2, KeptUser
<1>5. ASSUME NEW t \in Threads
      PROVE  /\ ts'[t] \in States
             /\ t \in hard => ts'[t].at = Hard
             /\ t \notin hard => ts'[t] = c.ts[t]
  <2>1. CASE t \in hard
    <3>1. ts'[t] = [c.ts[t] EXCEPT !.Active = TRUE] /\ c.ts[t] \in States /\ c.ts[t].at = Hard
      BY <1>1, <1>3, <1>4, <2>1
    <3> QED
      BY <3>1, <2>1 DEF States
  <2>2. CASE t \notin hard
    BY <1>1, <1>4, <2>2
  <2> QED
    BY <2>1, <2>2
<1>6. ts' \in [Threads -> States]
  BY <1>1, <1>5
<1>7. Typed' /\ UserBreaklet'
  BY <1>1, <1>4, <1>6, UserStays DEF IInv, Typed
<1>8. reason' \in {"unknown", "hardcoded", "callReturned"} /\ (hard # {} => reason' = "hardcoded")
  BY <1>1 DEF IInv, Evaluating, Fresh
<1>9. ASSUME NEW t \in Threads, ts'[t].Active, t \notin hard
      PROVE  ts'[t] = ts[t] /\ ts[t].at # Hard
  <2>1. ts[t] \in States /\ (ts'[t] = ts[t] \/ ts'[t] = Clear(ts[t]))
    BY <1>2, <1>5, <1>9 DEF Kept, IInv, Typed
  <2>2. ts'[t] = ts[t]
    BY <2>1, <1>9, ClearState
  <2> QED
    BY <2>2, <1>1, <1>9 DEF IInv, Evaluating, Fresh
<1>10. Evaluating'
  <2>1. Fresh'
    BY <1>1, <1>8 DEF Fresh
  <2>2. ASSUME NEW t \in Threads, ts'[t].Active, ~ts'[t].Stepping, ts'[t].at # Hard
        PROVE  AtUser(bps', ts'[t])
    <3>1. ts'[t] = ts[t] /\ ts[t].at # Hard
      BY <1>5, <1>9, <2>2
    <3> QED
      BY <3>1, <2>2, <1>1, <1>4 DEF AtUser, UserKept, IInv, Evaluating, StoppedAt
  <2>3. StoppedAt'
    BY <2>2 DEF StoppedAt
  <2>4. HardReported'
    BY <1>8, <1>9 DEF HardReported
  <2> QED
    BY <2>1, <2>3, <2>4 DEF Evaluating
<1> QED
  BY <1>1, <1>7, <1>10, NotReturned, StillSatisfiable DEF IInv

LEMMA DecideFailedStep ==
  ASSUME IInv, DecideFailed PROVE IInv'
<1>1. /\ phase = "decide" /\ phase' = "ret" /\ ret' = "err" /\ SwitchThread
      /\ UNCHANGED <<bps, lbp, ts, reason, todo>>
  BY DEF DecideFailed, Return
<1>2. Typed' /\ UserBreaklet'
  BY <1>1, PickFacts DEF IInv, Typed, UserBreaklet
<1>3. Returned'
  BY <1>1 DEF IInv, Evaluating, Fresh, Returned, CurrentAt, StepsLeft, StepEndReported
<1> QED
  BY <1>1, <1>2, <1>3, NotEvaluating, StillSatisfiable DEF IInv

LEMMA DecideStepIntoStep ==
  ASSUME IInv, DecideStepInto PROVE IInv'
<1> DEFINE c == ClearStepping(bps, ts)
<1>1. /\ phase = "decide" /\ phase' = "ret" /\ SwitchThread /\ UNCHANGED <<lbp, todo>>
      /\ \/ ret' = "err" /\ UNCHANGED <<bps, ts, reason>>
         \/ /\ bps' = c.bps /\ reason' = "nextFinished"
            /\ \E a \in Addrs \cup {NoAddr} :
                 ts' = [c.ts EXCEPT ![cur'] = [Clear(c.ts[cur']) EXCEPT !.at = a]]
  BY DEF DecideStepInto, Return
<1>2. cur' \in Threads /\ trap' \in Threads
  BY <1>1, PickFacts DEF IInv, Typed
<1>3. Kept(bps, ts, c.bps, c.ts) /\ ~HasSteppingBreakpoints(c.bps)
  BY ClearSteppingFacts DEF IInv, Typed
<1> HIDE DEF c
<1>4. c.bps \in Tables /\ c.ts \in [Threads -> States] /\ UserKept(bps, c.bps)
  BY <1>3, KeptUser
<1>5. ASSUME NEW a \in Addrs \cup {NoAddr} PROVE [Clear(c.ts[cur']) EXCEPT !.at = a] \in States
  <2>1. Clear(c.ts[cur']) \in States
    BY <1>2, <1>4, ClearState
  <2> QED
    BY <2>1 DEF States
<1>6. bps' \in Tables /\ ts' \in [Threads -> States] /\ UserKept(bps, bps')
  <2>1. CASE UNCHANGED <<bps, ts>>
    BY <2>1 DEF IInv, Typed, UserKept
  <2>2. CASE /\ bps' = c.bps
             /\ \E a \in Addrs \cup {NoAddr} :
                  ts' = [c.ts EXCEPT ![cur'] = [Clear(c.ts[cur']) EXCEPT !.at = a]]
    <3>1. ts' \in [Threads -> States]
      BY <2>2, <1>2, <1>4, <1>5
    <3> QED
      BY <3>1, <2>2, <1>4
  <2> QED
    BY <1>1, <2>1, <2>2
<1>7. Typed' /\ UserBreaklet'
  BY <1>1, <1>2, <1>6, UserStays DEF IInv, Typed
<1>8. Returned'
  BY <1>1, <1>3 DEF IInv, Evaluating, Fresh, Returned, CurrentAt, StepsLeft, StepEndReported
<1> QED
  BY <1>1, <1>7, <1>8, NotEvaluating, StillSatisfiable DEF IInv

LEMMA DecideRangeBodyStep ==
  ASSUME IInv, DecideRangeBody PROVE IInv'
<1> DEFINE c == ClearStepping(bps, ts)
           Again == /\ phase' = "top" \/ (reason \in Interruptions /\ phase' = "ret" /\ ret' = "nil")
                    /\ \E plan \in StepPlans, a \in Addrs \cup {NoAddr} :
                         bps' = Add(c.bps, plan) /\ ts' = SetCurrentBreakpoint(c.ts, bps', cur', a)
           Failed == phase' = "ret" /\ ret' = "err" /\ bps' = c.bps /\ ts' = c.ts
           Refused == phase' = "ret" /\ ret' = "err" /\ UNCHANGED <<bps, ts>>
<1>1. /\ phase = "decide" /\ SwitchThread /\ UNCHANGED <<lbp, reason, todo>>
      /\ Again \/ Failed \/ Refused
  BY DEF DecideRangeBody, Return, callInjectionDone, Interruptions
<1>2. cur' \in Threads /\ trap' \in Threads
  BY <1>1, PickFacts DEF IInv, Typed
<1>3. Kept(bps, ts, c.bps, c.ts)
  BY ClearSteppingFacts DEF IInv, Typed
<1> HIDE DEF c
<1>4. c.bps \in Tables /\ c.ts \in [Threads -> States] /\ UserKept(bps, c.bps)
  BY <1>3, KeptUser
<1>5. bps' \in Tables /\ ts' \in [Threads -> States] /\ UserKept(bps, bps')
  <2>1. CASE Again
    <3>1. PICK plan \in StepPlans, a \in Addrs \cup {NoAddr} :
            bps' = Add(c.bps, plan) /\ ts' = SetCurrentBreakpoint(c.ts, bps', cur', a)
      BY <2>1
    <3>2. bps' \in Tables /\ UserKept(c.bps, bps')
      BY <3>1, <1>4, AddFacts, ZenonT(60) DEF UserKept
    <3>3. ts' \in [Threads -> States]
      BY <3>1, <1>2, <1>4, SetCurrentTyped
    <3> QED
      BY <3>2, <3>3, <1>4 DEF UserKept
  <2>2. CASE Failed
    BY <2>2, <1>4
  <2>3. CASE Refused
    BY <2>3 DEF IInv, Typed, UserKept
  <2> QED
    BY <1>1, <2>1, <2>2, <2>3
<1>6. Typed' /\ UserBreaklet'
  BY <1>1, <1>2, <1>5, UserStays DEF IInv, Typed
<1>7. phase' \in {"top", "ret"} /\ (phase' = "ret" => ret' = "err" \/ reason' \in Interruptions)
  BY <1>1
<1>8. Returned'
  BY <1>1, <1>7 DEF IInv, Evaluating, Fresh, Returned, CurrentAt, StepsLeft, StepEndReported
<1> QED
  BY <1>1, <1>6, <1>7, <1>8, NotEvaluating, StillSatisfiable DEF IInv

LEMMA DecideNextFinishedStep ==
  ASSUME IInv, DecideNextFinished PROVE IInv'
<1>1. /\ phase = "decide" /\ phase' = "ret" /\ SwitchThread /\ UNCHANGED <<lbp, todo>>
      /\ bps' = ClearStepping(bps, ts).bps /\ ts' = ClearStepping(bps, ts).ts
      /\ reason' = "nextFinished"
  BY DEF DecideNextFinished, Return
<1>2. Kept(bps, ts, bps', ts') /\ ~HasSteppingBreakpoints(bps')
  BY <1>1, ClearSteppingFacts, ZenonT(60) DEF IInv, Typed
<1>3. Typed' /\ UserBreaklet'
  BY <1>1, <1>2, PickFacts, KeptUser, UserStays DEF IInv, Typed
<1>4. Returned'
  BY <1>1, <1>2 DEF Returned, CurrentAt, StepsLeft, StepEndReported
<1> QED
  BY <1>1, <1>3, <1>4, NotEvaluating, StillSatisfiable DEF IInv

LEMMA DecideBreakpointStep ==
  ASSUME IInv, DecideBreakpoint PROVE IInv'
<1> DEFINE c == ClearStepping(bps, ts)
<1>1. /\ phase = "decide" /\ phase' = "ret" /\ SwitchThread /\ UNCHANGED <<lbp, todo>>
      /\ ts[cur'].Active /\ ~ts[cur'].Stepping
      /\ UNCHANGED <<bps, ts>> \/ (bps' = c.bps /\ ts' = c.ts)
      /\ reason' = IF ts[cur'].at = Hard THEN reason ELSE "breakpoint"
  BY DEF DecideBreakpoint, Return
<1>2. /\ cur' \in Threads /\ trap' \in Threads
      /\ \A t \in Threads : ~(ts[t].Active /\ ts[t].Stepping)
  BY <1>1, PickFacts DEF IInv, Typed
<1>3. Kept(bps, ts, bps, ts)
  BY DEF Kept, IInv, Typed
<1>4. Kept(bps, ts, c.bps, c.ts)
  BY ClearSteppingFacts DEF IInv, Typed
<1>5. Kept(bps, ts, bps', ts')
  BY <1>1, <1>3, <1>4
<1> HIDE DEF c
<1>6. Typed' /\ UserBreaklet'
  BY <1>1, <1>2, <1>5, KeptUser, UserStays DEF IInv, Typed
<1>7. CASE ts[cur'].at = Hard
  <2>1. reason' = "hardcoded"
    BY <1>1, <1>2, <1>7 DEF IInv, Evaluating, HardReported
  <2>2. Returned'
    BY <1>1, <2>1 DEF Returned, CurrentAt, StepsLeft, StepEndReported, Interruptions
  <2> QED
    BY <1>1, <1>6, <2>2, NotEvaluating, StillSatisfiable DEF IInv
<1>8. CASE ts[cur'].at # Hard
  <2>1. AtUser(bps, ts[cur'])
    BY <1>1, <1>2, <1>8 DEF IInv, Evaluating, StoppedAt
  <2>2. ts'[cur'] = ts[cur'] /\ AtUser(bps', ts'[cur'])
    BY <2>1, <1>2, <1>5 DEF Kept, AtUser
  <2>3. \A t \in Threads : ~(ts'[t].Active /\ ts'[t].Stepping)
    <3>1. ASSUME NEW t \in Threads PROVE ~(ts'[t].Active /\ ts'[t].Stepping)
      <4>1. ts[t] \in States /\ (ts'[t] = ts[t] \/ ts'[t] = Clear(ts[t]))
        BY <1>5 DEF Kept, IInv, Typed
      <4> QED
        BY <4>1, <1>2, ClearState
    <3> QED
      BY <3>1
  <2>4. Returned'
    BY <1>1, <1>8, <2>2, <2>3 DEF Returned, CurrentAt, StepsLeft, StepEndReported, Interruptions
  <2> QED
    BY <1>1, <1>6, <2>4, NotEvaluating, StillSatisfiable DEF IInv
<1> QED
  BY <1>7, <1>8

LEMMA DecideRepeatStep ==
  ASSUME IInv, DecideRepeat PROVE IInv'
<1>1. /\ phase = "decide" /\ SwitchThread /\ UNCHANGED <<bps, lbp, ts, reason, todo>>
      /\ phase' = "top" \/ (phase' = "ret" /\ reason \in Interruptions)
  BY DEF DecideRepeat, Return, callInjectionDone, Interruptions
<1>2. Typed' /\ UserBreaklet'
  BY <1>1, PickFacts DEF IInv, Typed, UserBreaklet
<1>3. Returned'
  BY <1>1 DEF IInv, Evaluating, Fresh, Returned, CurrentAt, StepsLeft, StepEndReported
<1> QED
  BY <1>1, <1>2, <1>3, NotEvaluating, StillSatisfiable DEF IInv

(* The deferred function of Continue.                                      *)
LEMMA DeferredStep ==
  ASSUME IInv, Deferred PROVE IInv'
<1>1. /\ phase = "ret" /\ phase' = "idle" /\ UNCHANGED <<lbp, cur, todo, trap, ret>>
      /\ finishManualStop(bps) \/ UNCHANGED <<bps, ts, reason>>
  BY DEF Deferred
<1>2. /\ bps' \in Tables /\ ts' \in [Threads -> States] /\ UserKept(bps, bps')
      /\ reason' = "manual" \/ UNCHANGED <<bps, ts, reason>>
  BY <1>1, FinishFacts DEF IInv, Typed, UserKept
<1>3. Typed' /\ UserBreaklet'
  BY <1>1, <1>2, UserStays DEF IInv, Typed
<1>4. Returned'
  BY <1>1, <1>2 DEF IInv, Returned, CurrentAt, StepsLeft, StepEndReported, AtUser
<1> QED
  BY <1>1, <1>3, <1>4, NotEvaluating, StillSatisfiable DEF IInv

LEMMA NextIInv == IInv /\ [Next]_vars => IInv'
<1> SUFFICES ASSUME IInv, [Next]_vars PROVE IInv'
  OBVIOUS
<1>1. CASE Command
  BY <1>1, CommandSteps, StepInstructionStep, StepBackStep, CancelNextStep DEF Command
<1>2. CASE RequestManualStop \/ UNCHANGED vars
  BY <1>2, RequestStep
<1>3. CASE Enter \/ Exit \/ TopHalted \/ Resume
  BY <1>3, EnterStep, TopHaltedStep, ResumeStep
<1>4. CASE TrapHit \/ TrapSignal \/ CheckThread \/ CheckDone
  BY <1>4, TrapStep, CheckThreadStep, CheckDoneStep
<1>5. CASE Decide
  BY <1>5, DecideFailedStep, DecideStepIntoStep, DecideRangeBodyStep, DecideNextFinishedStep,
     DecideBreakpointStep, DecideRepeatStep DEF Decide
<1>6. CASE Deferred
  BY <1>6, DeferredStep
<1> QED
  BY <1>1, <1>2, <1>3, <1>4, <1>5, <1>6 DEF Next

THEOREM Invariance == Spec => []IInv
  BY InitIInv, NextIInv, PTL DEF Spec

-----------------------------------------------------------------------------
(* When a thread has reached the end of the step, the stop is reported as  *)
(* the end of the step, whatever other threads stopped for.                *)
THEOREM EndReported == Spec => []StepEndReported
<1>1. IInv => StepEndReported
  BY DEF IInv, Returned
<1> QED
  BY <1>1, Invariance, PTL

(* A stop is reported as a breakpoint only with a current thread that is   *)
(* at an active breakpoint, until the target is resumed: clearing the step *)
(* that the stop ends never detaches the thread that is reported.          *)
THEOREM CurrentAtBreakpoint == Spec => []CurrentThreadAtBreakpoint
<1>1. IInv => CurrentThreadAtBreakpoint
  BY DEF IInv, Returned, CurrentAt, CurrentThreadAtBreakpoint
<1> QED
  BY <1>1, Invariance, PTL

(* A step outlives a stop that is reported without an error only when      *)
(* another goroutine's breakpoint, or a manual stop that keeps steps,      *)
(* interrupted it.                                                         *)
THEOREM OutlivesOnlyInterruption == Spec => StepOutlivesOnlyInterruption
<1> DEFINE Left ==
      phase = "ret" /\ phase' = "idle" /\ ret = "nil" /\ HasSteppingBreakpoints(bps')
        => reason' \in {"breakpoint", "hardcoded", "callReturned"}
                       \cup (IF KeepOnHalt THEN {"manual"} ELSE {})
<1>1. IInv /\ [Next]_vars => [Left]_vars
  <2> SUFFICES ASSUME IInv, Next, phase = "ret", phase' = "idle", ret = "nil",
                      HasSteppingBreakpoints(bps')
               PROVE  reason' \in Interruptions
    BY DEF Interruptions
  <2>1. Deferred
    <3>1. ~Command /\ ~RequestManualStop
      BY
         DEF Command, ContinueCmd, StepCmd, StepInstruction, StepBack, StepParked, CancelNext,
             RequestManualStop
    <3>2. ~Enter /\ ~TopHalted /\ ~Resume /\ ~TrapHit /\ ~TrapSignal /\ ~Exit
      BY DEF Enter, TopHalted, Resume, TrapHit, TrapSignal, Exit
    <3>3. ~CheckThread /\ ~CheckDone /\ ~Decide
      BY DEF CheckThread, CheckDone, Decide, DecideFailed, DecideStepInto, DecideRangeBody,
             DecideNextFinished, DecideBreakpoint, DecideRepeat
    <3> QED
      BY <3>1, <3>2, <3>3 DEF Next
  <2>2. CASE finishManualStop(bps)
    BY <2>2, FinishFacts DEF IInv, Typed, Interruptions
  <2>3. CASE UNCHANGED <<bps, ts, reason>>
    BY <2>3 DEF IInv, Returned, StepsLeft
  <2> QED
    BY <2>1, <2>2, <2>3 DEF Deferred
<1> QED
  BY <1>1, Invariance, PTL DEF Spec, StepOutlivesOnlyInterruption

(* Among v consecutive numbers is a multiple of v.                         *)
LEMMA Multiple ==
  ASSUME NEW v \in Nat, v > 0, NEW h \in Nat
  PROVE  \E n \in h + 1..h + v + 1 : n % v = 0
<1> DEFINE q == h \div v
<1>1. h = (v * q) + (h % v) /\ q \in Nat /\ h % v \in 0..(v - 1)
  BY SMTT(30)
<1> HIDE DEF q
<1>2. v * (q + 1) = v * q + v /\ v * q \in Nat
  BY <1>1, SMTT(30)
<1>3. v * (q + 1) \in h + 1..h + v + 1
  BY <1>1, <1>2, SMTT(30)
<1>4. (v * (q + 1)) % v = 0
  BY <1>1, SMTT(30)
<1> QED
  BY <1>3, <1>4

(* breakpointConditionSatisfiable decides whether a later hit satisfies    *)
(* the hit condition, for every operator, operand and number of hits.      *)
LEMMA SatisfiableExact ==
  ASSUME lbp \in Logical
  PROVE  satisfiable(lbp) <=> lbp.hitCond.perG \/ \E n \in LaterHits : checkHitCond(lbp.hitCond, n)
<1> DEFINE h == lbp.hits
           hc == lbp.hitCond
           v == hc.val
<1>1. /\ h \in Nat /\ v \in Nat /\ hc.perG \in BOOLEAN
      /\ hc.op \in {"nil", "==", "!=", "<", "<=", ">", ">=", "%"}
  BY ExecutionAssumption DEF Logical, HitOps
<1>2. hc.op = "%" => v > 0
  <2>1. hc \in HitConds
    BY DEF Logical
  <2> QED
    BY <2>1, ExecutionAssumption
<1>3. LaterHits = h + 1..h + v + 1
  BY DEF LaterHits
<1> HIDE DEF h, v
<1>4. ASSUME ~hc.perG
      PROVE  satisfiable(lbp) <=> \E n \in h + 1..h + v + 1 : checkHitCond(hc, n)
  <2>1. CASE hc.op = "nil"
    <3>1. satisfiable(lbp) /\ checkHitCond(hc, h + 1)
      BY <2>1 DEF satisfiable, checkHitCond
    <3> QED
      BY <3>1, <1>1, SMTT(30)
  <2>2. CASE hc.op = "=="
    <3>1. /\ satisfiable(lbp) <=> h < v
          /\ \A n : checkHitCond(hc, n) <=> n = v
      BY <2>2, <1>4 DEF satisfiable, checkHitCond, h, v
    <3> QED
      BY <3>1, <1>1, SMTT(30)
  <2>3. CASE hc.op = "!="
    <3>1. satisfiable(lbp) /\ \A n : checkHitCond(hc, n) <=> n # v
      BY <2>3, <1>4 DEF satisfiable, checkHitCond, v
    <3>2. \E n \in h + 1..h + v + 1 : n # v
      <4>1. CASE v = h + 1
        <5>1. h + 2 \in h + 1..h + v + 1 /\ h + 2 # v
          BY <4>1, <1>1, SMTT(30)
        <5> QED
          BY <5>1
      <4>2. CASE v # h + 1
        <5>1. h + 1 \in h + 1..h + v + 1
          BY <1>1, SMTT(30)
        <5> QED
          BY <5>1, <4>2
      <4> QED
        BY <4>1, <4>2
    <3> QED
      BY <3>1, <3>2
  <2>4. CASE hc.op = "<"
    <3>1. /\ satisfiable(lbp) <=> h < v - 1
          /\ \A n : checkHitCond(hc, n) <=> n < v
      BY <2>4, <1>4 DEF satisfiable, checkHitCond, h, v
    <3>2. h + 1 \in h + 1..h + v + 1 /\ (h < v - 1 <=> h + 1 < v)
          /\ \A n \in h + 1..h + v + 1 : n < v => h + 1 < v
      BY <1>1, SMTT(30)
    <3> QED
      BY <3>1, <3>2
  <2>5. CASE hc.op = "<="
    <3>1. /\ satisfiable(lbp) <=> h < v
          /\ \A n : checkHitCond(hc, n) <=> n <= v
      BY <2>5, <1>4 DEF satisfiable, checkHitCond, h, v
    <3>2. h + 1 \in h + 1..h + v + 1 /\ (h < v <=> h + 1 <= v)
          /\ \A n \in h + 1..h + v + 1 : n <= v => h + 1 <= v
      BY <1>1, SMTT(30)
    <3> QED
      BY <3>1, <3>2
  <2>6. CASE hc.op \in {">", ">="}
    <3>1. satisfiable(lbp) /\ \A n : checkHitCond(hc, n) <=> IF hc.op = ">" THEN n > v ELSE n >= v
      BY <2>6, <1>4 DEF satisfiable, checkHitCond, v
    <3>2. h + v + 1 \in h + 1..h + v + 1 /\ h + v + 1 > v /\ h + v + 1 >= v
      BY <1>1, SMTT(30)
    <3> QED
      BY <3>1, <3>2
  <2>7. CASE hc.op = "%"
    <3>1. satisfiable(lbp) /\ \A n : checkHitCond(hc, n) <=> n % v = 0
      BY <2>7, <1>4 DEF satisfiable, checkHitCond, v
    <3>2. \E n \in h + 1..h + v + 1 : n % v = 0
      BY <1>1, <1>2, <2>7, Multiple
    <3> QED
      BY <3>1, <3>2
  <2> QED
    BY <1>1, <2>1, <2>2, <2>3, <2>4, <2>5, <2>6, <2>7
<1>5. ASSUME hc.perG PROVE satisfiable(lbp)
  BY <1>5 DEF satisfiable
<1> QED
  BY <1>1, <1>3, <1>4, <1>5

(* A breakpoint that Continue disables because of its hit condition could  *)
(* never be hit again by a program that would satisfy it.                  *)
THEOREM DisabledForGood == Spec => []DisabledIsUnsatisfiable
<1>1. IInv => DisabledIsUnsatisfiable
  <2> SUFFICES ASSUME IInv, ~lbp.condSatisfiable
               PROVE  ~lbp.hitCond.perG /\ \A n \in LaterHits : ~checkHitCond(lbp.hitCond, n)
    BY DEF DisabledIsUnsatisfiable
  <2>1. ~satisfiable(lbp) /\ lbp \in Logical
    BY DEF IInv, Typed, Satisfiable
  <2> QED
    BY <2>1, SatisfiableExact
<1> QED
  BY <1>1, Invariance, PTL

(* While the target runs, the user breakpoint is in the process exactly    *)
(* when a later hit may satisfy its condition.                             *)
THEOREM Armed == Spec => []ArmedWhileRunning
<1>1. IInv => ArmedWhileRunning
  <2> SUFFICES ASSUME IInv, phase = "run"
               PROVE  /\ lbp.condSatisfiable
                           <=> \E i \in 1..Len(bps[UserAddr]) : bps[UserAddr][i].kind = "user"
                      /\ lbp.condSatisfiable
                           <=> lbp.hitCond.perG \/ \E n \in LaterHits : checkHitCond(lbp.hitCond, n)
    BY DEF ArmedWhileRunning
  <2>1. lbp.condSatisfiable \in BOOLEAN /\ lbp \in Logical
    BY DEF IInv, Typed, Logical
  <2>2. lbp.condSatisfiable <=> "user" \in Kinds(bps[UserAddr])
    BY <2>1, ExecutionAssumption DEF IInv, UserBreaklet
  <2>3. lbp.condSatisfiable <=> satisfiable(lbp)
    BY <2>1 DEF IInv, Satisfiable
  <2>4. "user" \in Kinds(bps[UserAddr])
          <=> \E i \in 1..Len(bps[UserAddr]) : bps[UserAddr][i].kind = "user"
    BY DEF Kinds
  <2> QED
    BY <2>1, <2>2, <2>3, <2>4, SatisfiableExact
<1> QED
  BY <1>1, Invariance, PTL
=============================================================================
