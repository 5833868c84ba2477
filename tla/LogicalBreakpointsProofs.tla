---------------------- MODULE LogicalBreakpointsProofs ----------------------
(***************************************************************************)
(* Proofs about LogicalBreakpoints for any number of targets, places,      *)
(* addresses and breakpoints: types; what Restart discards; that no        *)
(* location of a disabled or unsatisfiable breakpoint is left behind; that *)
(* every location has an owner; that an armed breakpoint is written        *)
(* everywhere.                                                             *)
(*                                                                         *)
(* First comes what each operation may do to the map of breakpoints and to *)
(* the locations (Extends, Changed, Shrunk, Touched, the ...Effect         *)
(* operators), as the provers do not see through the sets of outcomes.     *)
(***************************************************************************)
EXTENDS LogicalBreakpoints, TLAPS

(* The prover of a leaf that names none.  A leaf that needs arithmetic,    *)
(* strings or records names the SMT solver.                                *)
USE Zenon

Good(b) == b.enabled /\ b.condSatisfiable

(* The addresses of place l in target t, as long as it can be found there. *)
Resolved(l, t) == {Resolve(l, t)[i] : i \in 1 .. Len(Resolve(l, t))}

(* Location table q with the first k addresses of as given to id where     *)
(* they are free.                                                          *)
Written(q, as, k, id) == [a \in DOMAIN q \cup {as[i] : i \in 1 .. k} |->
                            IF a \in DOMAIN q THEN q[a] ELSE id]

LEMMA ResolveSeq ==
  ASSUME NEW l \in Locs, NEW t \in Targets
  PROVE  /\ Resolve(l, t) \in Seq(Addrs) /\ Len(Resolve(l, t)) \in Nat
         /\ \A i \in 1 .. Len(Resolve(l, t)) : Resolve(l, t)[i] \in Addrs
<1>1. LocAddrs[l][t] \in Seq(Addrs) /\ ProgramAddrs[l][t] \in Seq(Addrs)
  BY LogicalAssumption
<1>2. Resolve(l, t) \in Seq(Addrs)
  BY <1>1, SMTT(30) DEF Resolve
<1> QED
  BY <1>2, SMTT(30)

(* What enableBreakpointOnTarget may do, and the error it then returns.    *)
OnTargetCases(q, t, id, b, o) ==
  LET as == Resolve(b.set, t) IN
  \/ ~Good(b) /\ o.q = q /\ o.err = "nil"
  \/ Good(b) /\ b.set = NoSet /\ o.q = q /\ o.err = "fail"
  \/ /\ Good(b) /\ b.set \in Locs /\ Len(as) = 0 /\ o.q = q
     /\ o.err = IF MayBeNowhere(b.set) THEN "nil" ELSE "notfound"
  \/ Good(b) /\ b.set \in Locs /\ Len(as) # 0 /\ st[t] = "exited" /\ o.q = q /\ o.err = "fail"
  \/ /\ Good(b) /\ b.set \in Locs /\ st[t] # "exited"
     /\ \E k \in 1 .. Len(as) : as[k] \in WriteFaults /\ o.q = Written(q, as, k - 1, id)
     /\ o.err = "fail"
  \/ /\ Good(b) /\ b.set \in Locs /\ Len(as) # 0 /\ st[t] # "exited"
     /\ o.q = Written(q, as, Len(as), id)
     /\ o.err = IF as[Len(as)] \in DOMAIN q THEN "exists" ELSE "nil"

LEMMA OnTarget ==
  ASSUME NEW q, NEW t \in Targets, NEW id, NEW b \in LogicalBreakpoint,
         NEW o \in enableBreakpointOnTarget(q, t, id, b)
  PROVE  OnTargetCases(q, t, id, b, o)
<1> DEFINE as == Resolve(b.set, t)
<1>0. b.set \in Locs \cup {NoSet} /\ NoSet \notin Locs
  BY LogicalAssumption DEF LogicalBreakpoint
<1>1. CASE ~b.enabled \/ ~b.condSatisfiable
  <2>1. o = [q |-> q, err |-> "nil"]
    BY <1>1 DEF enableBreakpointOnTarget
  <2> QED
    BY <1>1, <2>1 DEF Good, OnTargetCases
<1>2. CASE b.enabled /\ b.condSatisfiable /\ b.set = NoSet
  <2>1. o = [q |-> q, err |-> "fail"]
    BY <1>2 DEF enableBreakpointOnTarget
  <2> QED
    BY <1>2, <2>1 DEF Good, OnTargetCases
<1>3. CASE b.enabled /\ b.condSatisfiable /\ b.set # NoSet
  <2>1. o \in IF Len(as) = 0 THEN {[q |-> q, err |-> IF MayBeNowhere(b.set) THEN "nil" ELSE "notfound"]}
              ELSE IF st[t] = "exited" THEN {[q |-> q, err |-> "fail"]}
              ELSE {[q |-> Written(q, as, k - 1, id), err |-> "fail"] :
                      k \in {i \in 1 .. Len(as) : as[i] \in WriteFaults \ DOMAIN q}}
                   \cup {[q |-> Written(q, as, Len(as), id),
                          err |-> IF as[Len(as)] \in DOMAIN q THEN "exists" ELSE "nil"]}
    BY <1>3, ZenonT(30) DEF enableBreakpointOnTarget, Written
  <2>2. Good(b) /\ b.set \in Locs
    BY <1>0, <1>3 DEF Good
  <2>3. CASE Len(as) = 0
    <3>1. o.q = q /\ o.err = IF MayBeNowhere(b.set) THEN "nil" ELSE "notfound"
      BY <2>1, <2>3, SMTT(30)
    <3> QED
      BY <2>2, <2>3, <3>1 DEF OnTargetCases
  <2>4. CASE Len(as) # 0 /\ st[t] = "exited"
    <3>1. o.q = q /\ o.err = "fail"
      BY <2>1, <2>4, SMTT(30)
    <3> QED
      BY <2>2, <2>4, <3>1 DEF OnTargetCases
  <2>5. CASE Len(as) # 0 /\ st[t] # "exited"
    <3>1. CASE \E k \in {i \in 1 .. Len(as) : as[i] \in WriteFaults \ DOMAIN q} :
                 o = [q |-> Written(q, as, k - 1, id), err |-> "fail"]
      <4>1. PICK k \in 1 .. Len(as) : /\ as[k] \in WriteFaults
                                      /\ o = [q |-> Written(q, as, k - 1, id), err |-> "fail"]
        BY <3>1
      <4>2. o.q = Written(q, as, k - 1, id) /\ o.err = "fail"
        BY <4>1
      <4> QED
        BY <2>2, <2>5, <4>1, <4>2 DEF OnTargetCases
    <3>2. CASE o = [q |-> Written(q, as, Len(as), id),
                    err |-> IF as[Len(as)] \in DOMAIN q THEN "exists" ELSE "nil"]
      <4>1. o.q = Written(q, as, Len(as), id)
            /\ o.err = IF as[Len(as)] \in DOMAIN q THEN "exists" ELSE "nil"
        BY <3>2
      <4> QED
        BY <2>2, <2>5, <4>1 DEF OnTargetCases
    <3> QED
      BY <2>1, <2>5, <3>1, <3>2, ZenonT(30)
  <2> QED
    BY <2>3, <2>4, <2>5
<1> QED
  BY <1>0, <1>1, <1>2, <1>3

(* Table r is q with, where b can be written, locations of id at its place. *)
Extends(q, r, t, id, b) ==
  /\ \A a \in DOMAIN q : a \in DOMAIN r /\ r[a] = q[a]
  /\ \A a \in DOMAIN r : a \notin DOMAIN q =>
       r[a] = id /\ a \in Addrs /\ Good(b) /\ b.set \in Locs /\ a \in Resolved(b.set, t)

LEMMA WrittenExtends ==
  ASSUME NEW q, NEW t \in Targets, NEW id, NEW b, Good(b), b.set \in Locs,
         NEW k \in 0 .. Len(Resolve(b.set, t))
  PROVE  Extends(q, Written(q, Resolve(b.set, t), k, id), t, id, b)
<1> DEFINE as == Resolve(b.set, t)
<1>1. Len(as) \in Nat /\ \A i \in 1 .. Len(as) : as[i] \in Addrs
  BY ResolveSeq
<1>2. \A i \in 1 .. k : i \in 1 .. Len(as)
  BY <1>1, SMTT(30)
<1>3. \A i \in 1 .. k : as[i] \in Addrs /\ as[i] \in Resolved(b.set, t)
  BY <1>1, <1>2 DEF Resolved
<1> QED
  BY <1>3 DEF Written, Extends

LEMMA OnTargetExtends ==
  ASSUME NEW q, NEW t \in Targets, NEW id, NEW b \in LogicalBreakpoint,
         NEW o \in enableBreakpointOnTarget(q, t, id, b)
  PROVE  Extends(q, o.q, t, id, b) /\ o.err \in {"nil", "fail", "notfound", "exists"}
<1> DEFINE as == Resolve(b.set, t)
<1>1. Extends(q, q, t, id, b)
  BY DEF Extends
<1>2. b.set \in Locs => Len(as) \in Nat
  BY ResolveSeq
<1>3. ASSUME Good(b), b.set \in Locs, NEW k \in 1 .. Len(as)
      PROVE  Extends(q, Written(q, as, k - 1, id), t, id, b)
  <2>1. k - 1 \in 0 .. Len(as)
    BY <1>2, <1>3, SMTT(30)
  <2> QED
    BY <1>3, <2>1, WrittenExtends
<1>4. ASSUME Good(b), b.set \in Locs
      PROVE  Extends(q, Written(q, as, Len(as), id), t, id, b)
  <2>1. Len(as) \in 0 .. Len(as)
    BY <1>2, <1>4, SMTT(30)
  <2> QED
    BY <1>4, <2>1, WrittenExtends
<1>5. \/ o.q = q /\ o.err \in {"nil", "fail", "notfound"}
      \/ /\ Good(b) /\ b.set \in Locs /\ o.err = "fail"
         /\ \E k \in 1 .. Len(as) : o.q = Written(q, as, k - 1, id)
      \/ /\ Good(b) /\ b.set \in Locs /\ o.err \in {"exists", "nil"}
         /\ o.q = Written(q, as, Len(as), id)
  <2> DEFINE e1 == IF MayBeNowhere(b.set) THEN "nil" ELSE "notfound"
             e2 == IF as[Len(as)] \in DOMAIN q THEN "exists" ELSE "nil"
  <2>1. e1 \in {"nil", "notfound"} /\ e2 \in {"exists", "nil"}
    OBVIOUS
  <2>a. OnTargetCases(q, t, id, b, o)
    BY OnTarget
  <2>2. \/ o.q = q /\ o.err \in {"nil", "fail", e1}
        \/ /\ Good(b) /\ b.set \in Locs /\ o.err = "fail"
           /\ \E k \in 1 .. Len(as) : o.q = Written(q, as, k - 1, id)
        \/ /\ Good(b) /\ b.set \in Locs /\ o.err = e2
           /\ o.q = Written(q, as, Len(as), id)
    BY <2>a DEF OnTargetCases
  <2> HIDE DEF e1, e2, as
  <2> QED
    BY <2>1, <2>2
<1>6. Extends(q, o.q, t, id, b)
  BY <1>1, <1>3, <1>4, <1>5
<1> QED
  BY <1>5, <1>6

(* Table q is p without some of the locations of id.                       *)
Shrunk(p, q, id) ==
  /\ DOMAIN q = Targets
  /\ \A t \in Targets :
       /\ \A a \in DOMAIN q[t] : a \in DOMAIN p[t] /\ q[t][a] = p[t][a]
       /\ \A a \in DOMAIN p[t] : p[t][a] # id => a \in DOMAIN q[t]

Cleared(q, id) == \A t \in Valid : Located(q, t, id) = {}

(* The locations of id are removed from all valid targets.                 *)
Without(p, id) == [t \in Targets |-> IF t \in Valid THEN Drop(p[t], Located(p, t, id)) ELSE p[t]]

LEMMA WithoutShrinks ==
  ASSUME NEW p, NEW id
  PROVE  /\ Shrunk(p, Without(p, id), id) /\ Cleared(Without(p, id), id)
         /\ \A t \in Targets : t \notin Valid => Without(p, id)[t] = p[t]
<1> DEFINE whole == Without(p, id)
<1>0. Valid \subseteq Targets
  BY DEF Valid
<1>1. \A t \in Targets : whole[t] = IF t \in Valid THEN Drop(p[t], Located(p, t, id)) ELSE p[t]
  BY DEF Without
<1>4. DOMAIN whole = Targets
  BY DEF Without
<1> HIDE DEF whole
<1>2. \A t \in Targets :
        /\ \A a \in DOMAIN whole[t] : a \in DOMAIN p[t] /\ whole[t][a] = p[t][a]
        /\ \A a \in DOMAIN p[t] : p[t][a] # id => a \in DOMAIN whole[t]
  <2> SUFFICES ASSUME NEW t \in Targets
               PROVE  /\ \A a \in DOMAIN whole[t] : a \in DOMAIN p[t] /\ whole[t][a] = p[t][a]
                      /\ \A a \in DOMAIN p[t] : p[t][a] # id => a \in DOMAIN whole[t]
    OBVIOUS
  <2>1. CASE t \in Valid
    <3>1. /\ DOMAIN whole[t] = DOMAIN p[t] \ Located(p, t, id)
          /\ \A x \in DOMAIN p[t] \ Located(p, t, id) : whole[t][x] = p[t][x]
      BY <1>1, <2>1 DEF Drop
    <3> QED
      BY <3>1 DEF Located
  <2>2. CASE t \notin Valid
    BY <1>1, <2>2
  <2> QED
    BY <2>1, <2>2
<1>3. Cleared(whole, id)
  <2> SUFFICES ASSUME NEW t \in Valid, NEW a \in DOMAIN whole[t], whole[t][a] = id PROVE FALSE
    BY DEF Cleared, Located
  <2>1. whole[t] = Drop(p[t], Located(p, t, id))
    BY <1>0, <1>1
  <2> QED
    <3>1. /\ DOMAIN whole[t] = DOMAIN p[t] \ Located(p, t, id)
          /\ \A x \in DOMAIN p[t] \ Located(p, t, id) : whole[t][x] = p[t][x]
      BY <2>1 DEF Drop
    <3> QED
      BY <3>1 DEF Located
<1> QED
  BY <1>1, <1>2, <1>3, <1>4 DEF Shrunk, whole

LEMMA RollbackShrinks ==
  ASSUME NEW p, NEW id, NEW q \in rollback(p, id)
  PROVE  Shrunk(p, q, id) /\ (EraseFaults = {} => Cleared(q, id))
<1> DEFINE whole == Without(p, id)
<1>1. Shrunk(p, whole, id) /\ Cleared(whole, id)
  BY WithoutShrinks
<1>2. ASSUME NEW f \in Valid, NEW S \in SUBSET Located(p, f, id), S \cap EraseFaults # {},
             q = [t \in Targets |-> IF t \in Valid /\ t < f THEN Drop(p[t], Located(p, t, id))
                                    ELSE IF t = f THEN Drop(p[t], S) ELSE p[t]]
      PROVE  Shrunk(p, q, id) /\ EraseFaults # {}
  <2>0. DOMAIN q = Targets
    BY <1>2
  <2> SUFFICES ASSUME NEW t \in Targets
               PROVE  /\ \A a \in DOMAIN q[t] : a \in DOMAIN p[t] /\ q[t][a] = p[t][a]
                      /\ \A a \in DOMAIN p[t] : p[t][a] # id => a \in DOMAIN q[t]
    BY <1>2, <2>0 DEF Shrunk
  <2>1. \/ q[t] = Drop(p[t], Located(p, t, id))
        \/ q[t] = Drop(p[t], S) /\ t = f
        \/ q[t] = p[t]
    BY <1>2
  <2>2. ASSUME NEW T \in SUBSET Located(p, t, id), q[t] = Drop(p[t], T)
        PROVE  /\ \A a \in DOMAIN q[t] : a \in DOMAIN p[t] /\ q[t][a] = p[t][a]
               /\ \A a \in DOMAIN p[t] : p[t][a] # id => a \in DOMAIN q[t]
    <3>1. DOMAIN q[t] = DOMAIN p[t] \ T /\ \A a \in DOMAIN p[t] \ T : q[t][a] = p[t][a]
      BY <2>2 DEF Drop
    <3> QED
      BY <3>1 DEF Located
  <2>3. CASE q[t] = p[t]
    BY <2>3
  <2> QED
    BY <2>1, <2>2, <2>3
<1>3. \/ q = whole
      \/ \E f \in Valid : \E S \in {T \in SUBSET Located(p, f, id) : T \cap EraseFaults # {}} :
           q = [t \in Targets |-> IF t \in Valid /\ t < f THEN Drop(p[t], Located(p, t, id))
                                  ELSE IF t = f THEN Drop(p[t], S) ELSE p[t]]
  BY SMTT(30) DEF rollback, Without
<1> QED
  BY <1>1, <1>2, <1>3, ZenonT(30)

(* What enableBreakpoint leaves when it has tried the targets in V with    *)
(* results r.                                                              *)
Left(p, r, V) == [t \in Targets |-> IF t \in V THEN r[t].q ELSE p[t]]

(* The results of enableBreakpoint: r on the targets V.                    *)
Ran(p, id, b, r, V) ==
  /\ V \subseteq Group
  /\ \A t \in Group : r[t] \in enableBreakpointOnTarget(p[t], t, id, b)
  /\ \A t \in Group : (\A u \in Group : u < t => r[u].err # "fail") => t \in V

(* The run ends in o.                                                      *)
EndsIn(p, id, b, r, V, o) ==
  /\ Ran(p, id, b, r, V)
  /\ \/ o.p = Left(p, r, V) /\ o.err = "notfound" /\ \A t \in V : r[t].err # "nil"
     \/ o.p = Left(p, r, V) /\ o.err = "exists" /\ \A t \in V : r[t].err # "nil"
     \/ o.p = Left(p, r, V) /\ o.err = "exited" /\ Valid = {} /\ \A t \in V : r[t].err = "fail"
     \/ o.p \in rollback(Left(p, r, V), id) /\ o.err = "fail" /\ \E t \in V : r[t].err = "fail"
     \/ /\ o.p = Left(p, r, V) /\ o.err = "nil" /\ \A t \in V : r[t].err # "fail"
        /\ (V = {} \/ \E t \in V : r[t].err = "nil")

LEMMA EnableCases ==
  ASSUME NEW p, NEW id, NEW b \in LogicalBreakpoint, NEW o \in enableBreakpoint(p, id, b)
  PROVE  \E r, V : EndsIn(p, id, b, r, V, o)
<1> DEFINE outs(t) == enableBreakpointOnTarget(p[t], t, id, b)
           visited(r) == {t \in Group : \A u \in Group : u < t => r[u].err # "fail"}
           errs(r) == {r[t].err : t \in visited(r)}
           left(r) == [t \in Targets |-> IF t \in visited(r) THEN r[t].q ELSE p[t]]
           didSet(r) == "nil" \in errs(r)
           out(q, e) == {[p |-> q, err |-> e]}
           result(r) ==
             CASE ~didSet(r) /\ "notfound" \in errs(r) -> out(left(r), "notfound")
               [] ~didSet(r) /\ "notfound" \notin errs(r) /\ "exists" \in errs(r) -> out(left(r), "exists")
               [] ~didSet(r) /\ errs(r) = {"fail"} /\ Valid = {} -> out(left(r), "exited")
               [] "fail" \in errs(r) /\ (didSet(r) \/ (errs(r) = {"fail"} /\ Valid # {})) ->
                    UNION {out(q, "fail") : q \in rollback(left(r), id)}
               [] OTHER -> out(left(r), "nil")
<1>1. PICK r \in [Group -> UNION {outs(t) : t \in Group}] :
        (\A t \in Group : r[t] \in outs(t)) /\ o \in result(r)
  BY ZenonT(30) DEF enableBreakpoint
<1> DEFINE V == visited(r)
           E == errs(r)
<1>2. Ran(p, id, b, r, V) /\ Left(p, r, V) = left(r)
  BY <1>1 DEF Ran, Left
<1>3. E \subseteq {"nil", "fail", "notfound", "exists"}
  <2>1. \A t \in V : t \in Targets /\ r[t] \in outs(t)
    BY <1>1 DEF Group
  <2>2. \A t \in V : r[t].err \in {"nil", "fail", "notfound", "exists"}
    BY <2>1, OnTargetExtends
  <2> QED
    BY <2>2
<1>4. \A t \in V : r[t].err \in E
  OBVIOUS
<1>5. CASE ~didSet(r) /\ "notfound" \in E
  <2>1. o = [p |-> left(r), err |-> "notfound"]
    BY <1>1, <1>5, ZenonT(30)
  <2>2. o.p = Left(p, r, V) /\ o.err = "notfound" /\ \A t \in V : r[t].err # "nil"
    <3>1. o.p = left(r) /\ o.err = "notfound"
      BY <2>1
    <3> QED
      BY <1>2, <1>4, <1>5, <3>1, ZenonT(60)
  <2> QED
    BY <1>2, <2>2 DEF EndsIn
<1>6. CASE ~didSet(r) /\ "notfound" \notin E /\ "exists" \in E
  <2>1. o = [p |-> left(r), err |-> "exists"]
    BY <1>1, <1>6, ZenonT(30)
  <2>2. o.p = Left(p, r, V) /\ o.err = "exists" /\ \A t \in V : r[t].err # "nil"
    <3>1. o.p = left(r) /\ o.err = "exists"
      BY <2>1
    <3> QED
      BY <1>2, <1>4, <1>6, <3>1, ZenonT(60)
  <2> QED
    BY <1>2, <2>2 DEF EndsIn
<1>7. CASE ~didSet(r) /\ E = {"fail"} /\ Valid = {}
  <2>1. "notfound" \notin E /\ "exists" \notin E
    BY <1>7
  <2>2. o = [p |-> left(r), err |-> "exited"]
    BY <1>1, <1>7, <2>1, ZenonT(30)
  <2>3. o.p = Left(p, r, V) /\ o.err = "exited" /\ \A t \in V : r[t].err = "fail"
    <3>1. o.p = left(r) /\ o.err = "exited"
      BY <2>2
    <3> QED
      BY <1>2, <1>4, <1>7, <3>1
  <2> QED
    BY <1>2, <1>7, <2>3 DEF EndsIn
<1>8. CASE "fail" \in E /\ (didSet(r) \/ (E = {"fail"} /\ Valid # {}))
  <2>1. didSet(r) \/ ("notfound" \notin E /\ "exists" \notin E /\ Valid # {})
    BY <1>8
  <2>2. PICK q \in rollback(left(r), id) : o = [p |-> q, err |-> "fail"]
    BY <1>1, <1>8, <2>1, ZenonT(30)
  <2>3. o.p \in rollback(Left(p, r, V), id) /\ o.err = "fail" /\ \E t \in V : r[t].err = "fail"
    <3>1. o.p = q /\ o.err = "fail"
      BY <2>2
    <3> QED
      BY <1>2, <1>8, <2>2, <3>1
  <2> QED
    BY <1>2, <2>3 DEF EndsIn
<1>9. CASE /\ ~(~didSet(r) /\ "notfound" \in E)
           /\ ~(~didSet(r) /\ "notfound" \notin E /\ "exists" \in E)
           /\ ~(~didSet(r) /\ E = {"fail"} /\ Valid = {})
           /\ ~("fail" \in E /\ (didSet(r) \/ (E = {"fail"} /\ Valid # {})))
  <2>1. o = [p |-> left(r), err |-> "nil"]
    BY <1>1, <1>9, ZenonT(30)
  <2>2. o.p = left(r) /\ o.err = "nil"
    BY <2>1
  <2>3. "fail" \notin E /\ ("nil" \in E \/ E = {})
    <3> HIDE DEF E
    <3>1. CASE "nil" \in E
      BY <1>9, <3>1 DEF E
    <3>2. CASE "nil" \notin E
      <4>1. E \subseteq {"fail"}
        BY <1>3, <1>9, <3>2 DEF E
      <4>2. E = {} \/ E = {"fail"}
        BY <4>1
      <4> QED
        BY <1>9, <3>2, <4>2 DEF E
    <3> QED
      BY <3>1, <3>2
  <2>4. (\A t \in V : r[t].err # "fail") /\ (V = {} \/ \E t \in V : r[t].err = "nil")
    BY <2>3
  <2> HIDE DEF V
  <2>5. o.p = Left(p, r, V) /\ o.err = "nil"
    BY <1>2, <2>2
  <2> QED
    <3>1. /\ o.p = Left(p, r, V) /\ o.err = "nil" /\ \A t \in V : r[t].err # "fail"
          /\ (V = {} \/ \E t \in V : r[t].err = "nil")
      BY <2>4, <2>5
    <3>2. Ran(p, id, b, r, V)
      BY <1>2
    <3>3. EndsIn(p, id, b, r, V, o)
      BY <3>1, <3>2 DEF EndsIn
    <3> QED
      BY <3>3
<1> QED
  BY <1>5, <1>6, <1>7, <1>8, <1>9

(***************************************************************************)
(* Table q is p with breakpoint b of that id enabled or disabled: the      *)
(* locations of the others stay, and a new one is one of id, at its place. *)
(***************************************************************************)
Changed(p, q, id, b) ==
  /\ DOMAIN p = Targets => DOMAIN q = Targets
  /\ \A t \in Targets :
       /\ \A a \in DOMAIN p[t] : p[t][a] # id => a \in DOMAIN q[t] /\ q[t][a] = p[t][a]
       /\ \A a \in DOMAIN q[t] :
            \/ a \in DOMAIN p[t] /\ q[t][a] = p[t][a]
            \/ /\ q[t][a] = id /\ a \in Addrs /\ t \in Group
               /\ Good(b) /\ b.set \in Locs /\ a \in Resolved(b.set, t)

LEMMA LeftChanges ==
  ASSUME NEW p, NEW id, NEW b \in LogicalBreakpoint, NEW r, NEW V, Ran(p, id, b, r, V)
  PROVE  Changed(p, Left(p, r, V), id, b)
<1> DEFINE q == Left(p, r, V)
<1>0. DOMAIN q = Targets
  BY DEF Left
<1>1. \A t \in Targets : q[t] = IF t \in V THEN r[t].q ELSE p[t]
  BY DEF Left
<1>2. \A t \in V : t \in Group /\ t \in Targets /\ Extends(p[t], r[t].q, t, id, b)
  <2>1. \A t \in V : t \in Group /\ t \in Targets /\ r[t] \in enableBreakpointOnTarget(p[t], t, id, b)
    BY DEF Ran, Group
  <2> QED
    BY <2>1, OnTargetExtends
<1> HIDE DEF q
<1> SUFFICES ASSUME NEW t \in Targets
             PROVE  /\ \A a \in DOMAIN p[t] : p[t][a] # id => a \in DOMAIN q[t] /\ q[t][a] = p[t][a]
                    /\ \A a \in DOMAIN q[t] :
                         \/ a \in DOMAIN p[t] /\ q[t][a] = p[t][a]
                         \/ /\ q[t][a] = id /\ a \in Addrs /\ t \in Group
                            /\ Good(b) /\ b.set \in Locs /\ a \in Resolved(b.set, t)
  BY <1>0 DEF Changed, q
<1>3. CASE t \in V
  <2>1. q[t] = r[t].q /\ Extends(p[t], q[t], t, id, b) /\ t \in Group
    BY <1>1, <1>2, <1>3
  <2> QED
    BY <2>1 DEF Extends
<1>4. CASE t \notin V
  <2>1. q[t] = p[t]
    BY <1>1, <1>4
  <2> QED
    BY <2>1
<1> QED
  BY <1>3, <1>4

LEMMA ShrunkChanges ==
  ASSUME NEW p, NEW q, NEW u, NEW id, NEW b, Changed(p, q, id, b), Shrunk(q, u, id)
  PROVE  Changed(p, u, id, b)
<1> SUFFICES ASSUME NEW t \in Targets
             PROVE  /\ \A a \in DOMAIN p[t] : p[t][a] # id => a \in DOMAIN u[t] /\ u[t][a] = p[t][a]
                    /\ \A a \in DOMAIN u[t] :
                         \/ a \in DOMAIN p[t] /\ u[t][a] = p[t][a]
                         \/ /\ u[t][a] = id /\ a \in Addrs /\ t \in Group
                            /\ Good(b) /\ b.set \in Locs /\ a \in Resolved(b.set, t)
  BY DEF Changed, Shrunk
<1>a. /\ \A a \in DOMAIN p[t] : p[t][a] # id => a \in DOMAIN q[t] /\ q[t][a] = p[t][a]
      /\ \A a \in DOMAIN q[t] :
           \/ a \in DOMAIN p[t] /\ q[t][a] = p[t][a]
           \/ /\ q[t][a] = id /\ a \in Addrs /\ t \in Group
              /\ Good(b) /\ b.set \in Locs /\ a \in Resolved(b.set, t)
  BY DEF Changed
<1>b. /\ \A a \in DOMAIN u[t] : a \in DOMAIN q[t] /\ u[t][a] = q[t][a]
      /\ \A a \in DOMAIN q[t] : q[t][a] # id => a \in DOMAIN u[t]
  BY DEF Shrunk
<1>1. ASSUME NEW a \in DOMAIN p[t], p[t][a] # id PROVE a \in DOMAIN u[t] /\ u[t][a] = p[t][a]
  BY <1>a, <1>b, <1>1
<1>2. ASSUME NEW a \in DOMAIN u[t]
      PROVE  \/ a \in DOMAIN p[t] /\ u[t][a] = p[t][a]
             \/ /\ u[t][a] = id /\ a \in Addrs /\ t \in Group
                /\ Good(b) /\ b.set \in Locs /\ a \in Resolved(b.set, t)
  BY <1>a, <1>b, <1>2
<1> QED
  BY <1>1, <1>2

LEMMA SameChanges ==
  ASSUME NEW p, NEW id, NEW b
  PROVE  Changed(p, p, id, b)
BY DEF Changed

LEMMA EnableChanges ==
  ASSUME NEW p, NEW id, NEW b \in LogicalBreakpoint, NEW o \in enableBreakpoint(p, id, b)
  PROVE  Changed(p, o.p, id, b)
<1>a. PICK r, V : EndsIn(p, id, b, r, V, o)
  BY EnableCases
<1>1. /\ Ran(p, id, b, r, V)
      /\ o.p = Left(p, r, V) \/ o.p \in rollback(Left(p, r, V), id)
  BY <1>a DEF EndsIn
<1>2. Changed(p, Left(p, r, V), id, b)
  BY <1>1, LeftChanges
<1> QED
  BY <1>1, <1>2, RollbackShrinks, ShrunkChanges

(***************************************************************************)
(* The outcomes of enabling and disabling.                                 *)
(***************************************************************************)
LEMMA EnabledOutcome ==
  ASSUME NEW L, NEW p, NEW id, L[id] \in LogicalBreakpoint, NEW o \in Enabled(L, p, id)
  PROVE  o.L = L /\ Changed(p, o.p, id, L[id])
<1>1. PICK e \in enableBreakpoint(p, id, L[id]) : o = Outcome(L, e.p, e.err)
  BY DEF Enabled
<1>2. o.L = L /\ o.p = e.p
  BY <1>1 DEF Outcome
<1> QED
  BY <1>1, <1>2, EnableChanges

LEMMA DisabledOutcome ==
  ASSUME NEW L, NEW p, NEW id, NEW o \in Disabled(L, p, id)
  PROVE  o.p = Without(p, id) /\ (o.L = L \/ o.L = Drop(L, {id}))
<1>1. PICK e : o = Outcome(disableBreakpoint(L, p, id).L, disableBreakpoint(L, p, id).p, e)
  BY DEF Disabled
<1>2. o.L = disableBreakpoint(L, p, id).L /\ o.p = disableBreakpoint(L, p, id).p
  BY <1>1 DEF Outcome
<1>3. /\ disableBreakpoint(L, p, id).p = Without(p, id)
      /\ \/ disableBreakpoint(L, p, id).L = L
         \/ disableBreakpoint(L, p, id).L = Drop(L, {id})
  BY DEF disableBreakpoint, Without
<1> QED
  BY <1>2, <1>3

(***************************************************************************)
(* Map M is L with other conditions or flags in the breakpoint id.         *)
(***************************************************************************)
Flagged(L, M, id) ==
  /\ DOMAIN M = DOMAIN L
  /\ \A j \in DOMAIN L : j # id => M[j] = L[j]
  /\ M[id] \in LogicalBreakpoint /\ M[id].set = L[id].set

(* What an operation on the breakpoint id does: it leaves its flags, or    *)
(* enables what was not armed, or disables what was enabled.               *)
Touched(L, p, id, o) ==
  \E M :
    /\ Flagged(L, M, id)
    /\ \/ /\ o.L = M /\ o.p = p
          /\ M[id].enabled = L[id].enabled /\ M[id].condSatisfiable = L[id].condSatisfiable
       \/ ~Good(L[id]) /\ M[id].enabled /\ \E e \in Enabled(M, p, id) : o.L = e.L /\ o.p = e.p
       \/ ~Good(M[id]) /\ \E e \in Disabled(M, p, id) : o.L = e.L /\ o.p = e.p

(* The fields of a logical breakpoint.                                     *)
LEMMA UpdateEnabled ==
  ASSUME NEW b \in LogicalBreakpoint, NEW v \in BOOLEAN
  PROVE  LET c == [b EXCEPT !.enabled = v] IN
         c \in LogicalBreakpoint /\ c.set = b.set /\ c.enabled = v /\ c.condSatisfiable = b.condSatisfiable
BY DEF LogicalBreakpoint

LEMMA UpdateSat ==
  ASSUME NEW b \in LogicalBreakpoint, NEW v \in BOOLEAN
  PROVE  LET c == [b EXCEPT !.condSatisfiable = v] IN
         c \in LogicalBreakpoint /\ c.set = b.set /\ c.enabled = b.enabled /\ c.condSatisfiable = v
BY DEF LogicalBreakpoint

LEMMA UpdateCond ==
  ASSUME NEW b \in LogicalBreakpoint, NEW v \in Deps \cup {0}
  PROVE  LET c == [b EXCEPT !.cond = v] IN
         c \in LogicalBreakpoint /\ c.set = b.set /\ c.enabled = b.enabled /\ c.condSatisfiable = b.condSatisfiable
BY DEF LogicalBreakpoint

LEMMA UpdateHitCond ==
  ASSUME NEW b \in LogicalBreakpoint, NEW v \in HitConds \cup {0}
  PROVE  LET c == [b EXCEPT !.hitCond = v] IN
         c \in LogicalBreakpoint /\ c.set = b.set /\ c.enabled = b.enabled /\ c.condSatisfiable = b.condSatisfiable
BY DEF LogicalBreakpoint

LEMMA UpdateUses ==
  ASSUME NEW b \in LogicalBreakpoint, NEW v \in BOOLEAN
  PROVE  LET c == [b EXCEPT !.condUsesHitCounts = v] IN
         c \in LogicalBreakpoint /\ c.set = b.set /\ c.enabled = b.enabled /\ c.condSatisfiable = b.condSatisfiable
BY DEF LogicalBreakpoint

LEMMA UpdateSet ==
  ASSUME NEW b \in LogicalBreakpoint, NEW v \in Locs \cup {NoSet}
  PROVE  LET c == [b EXCEPT !.set = v] IN
         c \in LogicalBreakpoint /\ c.set = v /\ c.enabled = b.enabled /\ c.condSatisfiable = b.condSatisfiable
BY DEF LogicalBreakpoint

LEMMA UpdateHits ==
  ASSUME NEW b \in LogicalBreakpoint, NEW v \in 0 .. MaxHits
  PROVE  LET c == [b EXCEPT !.TotalHitCount = v] IN
         c \in LogicalBreakpoint /\ c.set = b.set /\ c.enabled = b.enabled /\ c.condSatisfiable = b.condSatisfiable
BY DEF LogicalBreakpoint

(* The map with the breakpoint id replaced.                                *)
LEMMA UpdateMap ==
  ASSUME NEW L, NEW id \in DOMAIN L, NEW b
  PROVE  LET M == [L EXCEPT ![id] = b] IN
         DOMAIN M = DOMAIN L /\ M[id] = b /\ \A j \in DOMAIN L : j # id => M[j] = L[j]
OBVIOUS

LEMMA SatisfiableBool ==
  ASSUME NEW L, NEW b
  PROVE  \E v \in BOOLEAN : v = Satisfiable(L, b)
<1>1. CASE Satisfiable(L, b)
  <2>1. TRUE = Satisfiable(L, b)
    BY <1>1
  <2> QED
    BY <2>1
<1>2. CASE ~Satisfiable(L, b)
  <2>1. FALSE = Satisfiable(L, b)
    BY <1>2, SMTT(30)
  <2> QED
    BY <2>1
<1> QED
  BY <1>1, <1>2

LEMMA SetEnabledTouches ==
  ASSUME NEW L, NEW p, NEW id \in DOMAIN L, L[id] \in LogicalBreakpoint, NEW en \in BOOLEAN,
         NEW o \in SetBreakpointEnabled(L, p, id, en)
  PROVE  Touched(L, p, id, o)
<1>0. L[id].enabled \in BOOLEAN /\ L[id].condSatisfiable \in BOOLEAN
  BY DEF LogicalBreakpoint
<1>1. CASE L[id].enabled /\ ~en
  <2> DEFINE M == [L EXCEPT ![id].enabled = FALSE]
  <2>1. o \in Disabled(M, p, id)
    BY <1>1 DEF SetBreakpointEnabled
  <2>2. M = [L EXCEPT ![id] = [L[id] EXCEPT !.enabled = FALSE]]
    OBVIOUS
  <2>3. PICK c : c = [L[id] EXCEPT !.enabled = FALSE]
    OBVIOUS
  <2>4. c \in LogicalBreakpoint /\ c.set = L[id].set /\ c.enabled = FALSE
    BY <2>3, UpdateEnabled
  <2>5. DOMAIN M = DOMAIN L /\ M[id] = c /\ \A j \in DOMAIN L : j # id => M[j] = L[j]
    BY <2>2, <2>3, UpdateMap
  <2> HIDE DEF M
  <2>6. Flagged(L, M, id) /\ ~Good(M[id])
    BY <2>4, <2>5 DEF Flagged, Good
  <2> QED
    BY <2>1, <2>6 DEF Touched
<1>2. CASE ~L[id].enabled /\ en
  <2>1. PICK v \in BOOLEAN : v = Satisfiable(L, L[id])
    BY SatisfiableBool
  <2> DEFINE M == [L EXCEPT ![id].enabled = TRUE, ![id].condSatisfiable = v]
  <2>2. o \in Enabled(M, p, id)
    BY <1>2, <2>1 DEF SetBreakpointEnabled
  <2>3. PICK c : c = [L[id] EXCEPT !.enabled = TRUE]
    OBVIOUS
  <2>4. PICK d : d = [c EXCEPT !.condSatisfiable = v]
    OBVIOUS
  <2>5. M = [[L EXCEPT ![id] = c] EXCEPT ![id] = d]
    BY <2>3, <2>4
  <2>6. c \in LogicalBreakpoint /\ c.set = L[id].set /\ c.enabled = TRUE
    BY <2>3, UpdateEnabled
  <2>7. d \in LogicalBreakpoint /\ d.set = L[id].set /\ d.enabled = TRUE
    <3>1. d \in LogicalBreakpoint /\ d.set = c.set /\ d.enabled = c.enabled
      BY <2>4, <2>6, UpdateSat
    <3> QED
      BY <2>6, <3>1
  <2>8. DOMAIN M = DOMAIN L /\ M[id] = d /\ \A j \in DOMAIN L : j # id => M[j] = L[j]
    BY <2>5
  <2> HIDE DEF M
  <2>9. Flagged(L, M, id) /\ M[id].enabled /\ ~Good(L[id])
    BY <1>2, <2>7, <2>8 DEF Flagged, Good
  <2> QED
    BY <2>2, <2>9 DEF Touched
<1>3. CASE (L[id].enabled /\ en) \/ (~L[id].enabled /\ ~en)
  <2>1. o = Outcome(L, p, "nil")
    BY <1>3 DEF SetBreakpointEnabled
  <2>2. o.L = L /\ o.p = p
    BY <2>1 DEF Outcome
  <2>3. Flagged(L, L, id)
    BY DEF Flagged
  <2> QED
    BY <2>2, <2>3 DEF Touched
<1> QED
  BY <1>0, <1>1, <1>2, <1>3

(* The breakpoint id with new conditions.                                  *)
Tuned(L, M, id) ==
  /\ Flagged(L, M, id)
  /\ M[id].enabled = L[id].enabled /\ M[id].condSatisfiable = L[id].condSatisfiable

LEMMA TuneOne ==
  ASSUME NEW L, NEW K, NEW id \in DOMAIN L, Tuned(L, K, id), NEW c \in LogicalBreakpoint,
         c.set = K[id].set, c.enabled = K[id].enabled, c.condSatisfiable = K[id].condSatisfiable
  PROVE  Tuned(L, [K EXCEPT ![id] = c], id)
<1> DEFINE M == [K EXCEPT ![id] = c]
<1>1. /\ DOMAIN K = DOMAIN L /\ \A j \in DOMAIN L : j # id => K[j] = L[j]
      /\ K[id].set = L[id].set /\ K[id].enabled = L[id].enabled
      /\ K[id].condSatisfiable = L[id].condSatisfiable
  BY DEF Tuned, Flagged
<1>2. DOMAIN M = DOMAIN L /\ M[id] = c /\ \A j \in DOMAIN L : j # id => M[j] = L[j]
  BY <1>1
<1> HIDE DEF M
<1>3. Tuned(L, M, id)
  BY <1>1, <1>2 DEF Tuned, Flagged
<1> QED
  BY <1>3 DEF M

SetSat(K, id, v) == [K EXCEPT ![id].condSatisfiable = v]

LEMMA TuneSat ==
  ASSUME NEW L, NEW K, NEW id \in DOMAIN L, Tuned(L, K, id), NEW v \in BOOLEAN
  PROVE  /\ Flagged(L, SetSat(K, id, v), id) /\ SetSat(K, id, v)[id].enabled = L[id].enabled
         /\ SetSat(K, id, v)[id].condSatisfiable = v
<1> DEFINE M == SetSat(K, id, v)
<1>1. PICK c : c = [K[id] EXCEPT !.condSatisfiable = v]
  OBVIOUS
<1>2. /\ DOMAIN K = DOMAIN L /\ \A j \in DOMAIN L : j # id => K[j] = L[j]
      /\ K[id] \in LogicalBreakpoint
      /\ K[id].set = L[id].set /\ K[id].enabled = L[id].enabled
  BY DEF Tuned, Flagged
<1>3. /\ c \in LogicalBreakpoint /\ c.set = K[id].set /\ c.enabled = K[id].enabled
      /\ c.condSatisfiable = v
  BY <1>1, <1>2, UpdateSat
<1>4. DOMAIN M = DOMAIN L /\ M[id] = c /\ \A j \in DOMAIN L : j # id => M[j] = L[j]
  BY <1>1, <1>2 DEF SetSat
<1> QED
  BY <1>2, <1>3, <1>4 DEF Flagged

LEMMA TuneFields ==
  ASSUME NEW L, NEW K, NEW id \in DOMAIN L, Tuned(L, K, id)
  PROVE  /\ \A v \in Deps \cup {0} : Tuned(L, [K EXCEPT ![id].cond = v], id)
         /\ \A v \in HitConds \cup {0} : Tuned(L, [K EXCEPT ![id].hitCond = v], id)
         /\ \A v \in BOOLEAN : Tuned(L, [K EXCEPT ![id].condUsesHitCounts = v], id)
<1>1. K[id] \in LogicalBreakpoint
  BY DEF Tuned, Flagged
<1>2. ASSUME NEW v \in Deps \cup {0} PROVE Tuned(L, [K EXCEPT ![id].cond = v], id)
  <2>1. PICK c : c = [K[id] EXCEPT !.cond = v]
    OBVIOUS
  <2>2. /\ c \in LogicalBreakpoint /\ c.set = K[id].set /\ c.enabled = K[id].enabled
        /\ c.condSatisfiable = K[id].condSatisfiable
    BY <1>1, <2>1, UpdateCond
  <2>3. [K EXCEPT ![id].cond = v] = [K EXCEPT ![id] = c]
    BY <2>1
  <2> QED
    BY <2>2, <2>3, TuneOne
<1>3. ASSUME NEW v \in HitConds \cup {0} PROVE Tuned(L, [K EXCEPT ![id].hitCond = v], id)
  <2>1. PICK c : c = [K[id] EXCEPT !.hitCond = v]
    OBVIOUS
  <2>2. /\ c \in LogicalBreakpoint /\ c.set = K[id].set /\ c.enabled = K[id].enabled
        /\ c.condSatisfiable = K[id].condSatisfiable
    BY <1>1, <2>1, UpdateHitCond
  <2>3. [K EXCEPT ![id].hitCond = v] = [K EXCEPT ![id] = c]
    BY <2>1
  <2> QED
    BY <2>2, <2>3, TuneOne
<1>4. ASSUME NEW v \in BOOLEAN PROVE Tuned(L, [K EXCEPT ![id].condUsesHitCounts = v], id)
  <2>1. PICK c : c = [K[id] EXCEPT !.condUsesHitCounts = v]
    OBVIOUS
  <2>2. /\ c \in LogicalBreakpoint /\ c.set = K[id].set /\ c.enabled = K[id].enabled
        /\ c.condSatisfiable = K[id].condSatisfiable
    BY <1>1, <2>1, UpdateUses
  <2>3. [K EXCEPT ![id].condUsesHitCounts = v] = [K EXCEPT ![id] = c]
    BY <2>1
  <2> QED
    BY <2>2, <2>3, TuneOne
<1> QED
  BY <1>2, <1>3, <1>4

LEMMA ChangeTouches ==
  ASSUME NEW L, NEW p, NEW id \in DOMAIN L, L[id] \in LogicalBreakpoint,
         NEW hc \in HitConds, NEW dep \in Deps, NEW bad \in ParseErrors \cup {"nil"},
         NEW o \in ChangeBreakpointCondition(L, p, id, hc, dep, bad)
  PROVE  /\ Touched(L, p, id, o)
         /\ ~L[id].enabled => o.p = p /\ Tuned(L, o.L, id)
<1>0. bad \in {"cond", "hitcond", "nil"}
  BY LogicalAssumption
<1>1. Tuned(L, L, id)
  BY DEF Tuned, Flagged
<1>2. ASSUME NEW M, Tuned(L, M, id), o.L = M, o.p = p
      PROVE  Touched(L, p, id, o) /\ o.p = p /\ Tuned(L, o.L, id)
  BY <1>2 DEF Tuned, Touched
<1>3. CASE bad = "cond"
  <2> DEFINE M == [L EXCEPT ![id].cond = 0]
  <2>1. o = Outcome(M, p, "fail")
    BY <1>3 DEF ChangeBreakpointCondition
  <2>2. o.L = M /\ o.p = p
    BY <2>1 DEF Outcome
  <2>3. Tuned(L, M, id)
    BY <1>1, TuneFields
  <2> QED
    BY <1>2, <2>2, <2>3
<1>4. CASE bad = "hitcond"
  <2> DEFINE K == [L EXCEPT ![id].cond = dep]
             M == [K EXCEPT ![id].hitCond = 0]
  <2>1. o = Outcome([L EXCEPT ![id].cond = dep, ![id].hitCond = 0], p, "fail")
    BY <1>4 DEF ChangeBreakpointCondition
  <2>2. o.L = [L EXCEPT ![id].cond = dep, ![id].hitCond = 0] /\ o.p = p
    BY <2>1 DEF Outcome
  <2>3. Tuned(L, K, id)
    BY <1>1, TuneFields
  <2>4. Tuned(L, M, id)
    BY <2>3, TuneFields
  <2>5. o.L = M
    BY <2>2
  <2> QED
    BY <1>2, <2>2, <2>4, <2>5
<1>5. CASE bad = "nil"
  <2>1. PICK u \in BOOLEAN : u = (dep # 0)
    OBVIOUS
  <2> DEFINE K1 == [L EXCEPT ![id].cond = dep]
             K2 == [K1 EXCEPT ![id].hitCond = hc]
             K3 == [K2 EXCEPT ![id].condUsesHitCounts = u]
             L1 == [L EXCEPT ![id].cond = dep, ![id].hitCond = hc,
                             ![id].condUsesHitCounts = (dep # 0)]
  <2>2. L1 = K3
    BY <2>1
  <2>3. Tuned(L, K1, id)
    BY <1>1, TuneFields
  <2>4. Tuned(L, K2, id)
    BY <2>3, TuneFields
  <2>5. Tuned(L, L1, id)
    BY <2>2, <2>4, TuneFields
  <2>6. PICK v \in BOOLEAN : v = Satisfiable(L1, L1[id])
    BY SatisfiableBool, ZenonT(60)
  <2> DEFINE L2 == SetSat(L1, id, v)
  <2>7. o \in IF ~L[id].enabled \/ L[id].condSatisfiable = v THEN {Outcome(L1, p, "nil")}
              ELSE IF v THEN {Outcome(e.L, e.p, "nil") : e \in Enabled(L2, p, id)}
              ELSE {Outcome(e.L, e.p, "nil") : e \in Disabled(L2, p, id)}
    BY <1>5, <2>6, ZenonT(60) DEF ChangeBreakpointCondition, SetSat
  <2> HIDE DEF L1
  <2>8. Flagged(L, L2, id) /\ L2[id].enabled = L[id].enabled /\ L2[id].condSatisfiable = v
    BY <2>5, TuneSat, ZenonT(60)
  <2> HIDE DEF L2
  <2>9. CASE ~L[id].enabled \/ L[id].condSatisfiable = v
    <3>1. o = Outcome(L1, p, "nil")
      BY <2>7, <2>9
    <3>2. o.L = L1 /\ o.p = p
      BY <3>1 DEF Outcome
    <3> QED
      BY <1>2, <2>5, <3>2
  <2>10. CASE L[id].enabled /\ L[id].condSatisfiable # v /\ v
    <3>1. PICK e \in Enabled(L2, p, id) : o = Outcome(e.L, e.p, "nil")
      BY <2>7, <2>10
    <3>2. o.L = e.L /\ o.p = e.p
      BY <3>1 DEF Outcome
    <3>3. ~Good(L[id]) /\ L2[id].enabled
      BY <2>8, <2>10 DEF Good, LogicalBreakpoint
    <3> QED
      BY <2>8, <2>10, <3>1, <3>2, <3>3 DEF Touched
  <2>11. CASE L[id].enabled /\ L[id].condSatisfiable # v /\ ~v
    <3>1. PICK e \in Disabled(L2, p, id) : o = Outcome(e.L, e.p, "nil")
      BY <2>7, <2>11
    <3>2. o.L = e.L /\ o.p = e.p
      BY <3>1 DEF Outcome
    <3>3. ~Good(L2[id])
      BY <2>8, <2>11 DEF Good
    <3> QED
      BY <2>8, <2>11, <3>1, <3>2, <3>3 DEF Touched
  <2> QED
    BY <2>9, <2>10, <2>11
<1> QED
  BY <1>0, <1>3, <1>4, <1>5

LEMMA SelfTuned ==
  ASSUME NEW L, NEW id, L[id] \in LogicalBreakpoint
  PROVE  Tuned(L, L, id)
BY DEF Tuned, Flagged

LEMMA ManageTouches ==
  ASSUME NEW id \in DOMAIN lbps, lbps[id] \in LogicalBreakpoint, NEW o \in manageUnsatisfiable(id)
  PROVE  Touched(lbps, phys, id, o)
<1>1. PICK v \in BOOLEAN : v = Satisfiable(lbps, lbps[id])
  BY SatisfiableBool
<1> DEFINE M == SetSat(lbps, id, v)
<1>2. Tuned(lbps, lbps, id)
  BY SelfTuned
<1>3. Flagged(lbps, M, id) /\ M[id].enabled = lbps[id].enabled /\ M[id].condSatisfiable = v
  BY <1>2, TuneSat, ZenonT(60)
<1>4. CASE lbps[id].enabled /\ lbps[id].condSatisfiable /\ ~v
  <2>1. o \in Disabled(M, phys, id)
    BY <1>1, <1>4, ZenonT(30) DEF manageUnsatisfiable, SetSat
  <2>2. ~Good(M[id])
    BY <1>3, <1>4 DEF Good
  <2> HIDE DEF M
  <2> QED
    BY <1>3, <2>1, <2>2 DEF Touched
<1>5. CASE /\ lbps[id].enabled /\ ~lbps[id].condSatisfiable /\ lbps[id].condUsesHitCounts /\ v
  <2>1. o \in Enabled(M, phys, id)
    BY <1>1, <1>5, ZenonT(30) DEF manageUnsatisfiable, SetSat
  <2>2. ~Good(lbps[id]) /\ M[id].enabled
    BY <1>3, <1>5 DEF Good
  <2> HIDE DEF M
  <2> QED
    BY <1>3, <2>1, <2>2 DEF Touched
<1>6. CASE /\ ~(lbps[id].enabled /\ lbps[id].condSatisfiable /\ ~v)
           /\ ~(lbps[id].enabled /\ ~lbps[id].condSatisfiable /\ lbps[id].condUsesHitCounts /\ v)
  <2>1. o = Outcome(lbps, phys, "nil")
    BY <1>1, <1>6, ZenonT(30) DEF manageUnsatisfiable
  <2>2. o.L = lbps /\ o.p = phys
    BY <2>1 DEF Outcome
  <2> QED
    BY <1>2, <2>2 DEF Touched, Tuned
<1> QED
  BY <1>4, <1>5, <1>6

(***************************************************************************)
(* Types.                                                                  *)
(***************************************************************************)
MapTyped(L) == DOMAIN L \subseteq IDs /\ \A id \in DOMAIN L : L[id] \in LogicalBreakpoint

TableTyped(p) ==
  \A t \in Targets : /\ DOMAIN p[t] \subseteq Addrs \cup WatchAddrs
                     /\ \A a \in DOMAIN p[t] : p[t][a] \in IDs

LEMMA DropTyped ==
  ASSUME NEW L, NEW id, MapTyped(L)
  PROVE  MapTyped(Drop(L, {id}))
BY DEF MapTyped, Drop

LEMMA FlaggedTyped ==
  ASSUME NEW L, NEW M, NEW id, MapTyped(L), Flagged(L, M, id)
  PROVE  MapTyped(M)
BY DEF MapTyped, Flagged

LEMMA ChangedTyped ==
  ASSUME NEW p, NEW q, NEW id \in IDs, NEW b, TableTyped(p), Changed(p, q, id, b)
  PROVE  TableTyped(q)
<1> SUFFICES ASSUME NEW t \in Targets, NEW a \in DOMAIN q[t]
             PROVE  a \in Addrs \cup WatchAddrs /\ q[t][a] \in IDs
  BY DEF TableTyped
<1>1. \/ a \in DOMAIN p[t] /\ q[t][a] = p[t][a]
      \/ q[t][a] = id /\ a \in Addrs
  BY DEF Changed
<1> QED
  BY <1>1 DEF TableTyped

LEMMA WithoutChanges ==
  ASSUME NEW p, NEW id, NEW b
  PROVE  Changed(p, Without(p, id), id, b)
BY SameChanges, WithoutShrinks, ShrunkChanges

LEMMA TouchedTyped ==
  ASSUME NEW L, NEW p, NEW id \in DOMAIN L, NEW o, MapTyped(L), TableTyped(p), Touched(L, p, id, o)
  PROVE  MapTyped(o.L) /\ TableTyped(o.p) /\ DOMAIN o.L \subseteq DOMAIN L
<1>0. id \in IDs
  BY DEF MapTyped
<1>1. PICK M : /\ Flagged(L, M, id)
               /\ \/ o.L = M /\ o.p = p
                  \/ \E e \in Enabled(M, p, id) : o.L = e.L /\ o.p = e.p
                  \/ \E e \in Disabled(M, p, id) : o.L = e.L /\ o.p = e.p
  BY DEF Touched
<1>2. MapTyped(M) /\ DOMAIN M = DOMAIN L /\ M[id] \in LogicalBreakpoint
  BY <1>1, FlaggedTyped DEF Flagged
<1>3. CASE o.L = M /\ o.p = p
  BY <1>2, <1>3
<1>4. CASE \E e \in Enabled(M, p, id) : o.L = e.L /\ o.p = e.p
  <2>1. PICK e \in Enabled(M, p, id) : o.L = e.L /\ o.p = e.p
    BY <1>4
  <2>2. e.L = M /\ Changed(p, e.p, id, M[id])
    BY <1>2, EnabledOutcome
  <2> QED
    BY <1>0, <1>2, <2>1, <2>2, ChangedTyped
<1>5. CASE \E e \in Disabled(M, p, id) : o.L = e.L /\ o.p = e.p
  <2>1. PICK e \in Disabled(M, p, id) : o.L = e.L /\ o.p = e.p
    BY <1>5
  <2>2. e.p = Without(p, id) /\ (e.L = M \/ e.L = Drop(M, {id}))
    BY DisabledOutcome
  <2>3. TableTyped(Without(p, id))
    BY <1>0, WithoutChanges, ChangedTyped
  <2>4. MapTyped(e.L) /\ DOMAIN e.L \subseteq DOMAIN L
    <3>1. CASE e.L = M
      BY <1>2, <3>1
    <3>2. CASE e.L = Drop(M, {id})
      <4>1. MapTyped(e.L)
        BY <1>2, <3>2, DropTyped
      <4>2. DOMAIN e.L \subseteq DOMAIN L
        BY <1>2, <3>2 DEF Drop
      <4> QED
        BY <4>1, <4>2
    <3> QED
      BY <2>2, <3>1, <3>2
  <2> QED
    BY <2>1, <2>2, <2>3, <2>4
<1> QED
  BY <1>1, <1>3, <1>4, <1>5

(***************************************************************************)
(* The effects of the operations.                                          *)
(***************************************************************************)
Added(L, M, id) ==
  /\ DOMAIN M = DOMAIN L \cup {id} /\ M[id] \in LogicalBreakpoint
  /\ \A j \in DOMAIN L : j # id => M[j] = L[j]

LEMMA AddedFlagged ==
  ASSUME NEW L, NEW K, NEW M, NEW id, Added(L, K, id), Flagged(K, M, id)
  PROVE  Added(L, M, id)
BY DEF Added, Flagged

CreateEffect(id, l) ==
  \E M :
    /\ Added(lbps, M, id)
    /\ \/ lbps' = M /\ phys' = phys /\ ~M[id].enabled
       \/ /\ M[id].enabled /\ M[id].set = l
          /\ \E o \in Enabled(M, phys, id) :
               /\ phys' = o.p
               /\ lbps' = M \/ (o.err # "nil" /\ lbps' = Drop(M, {id}))

LEMMA SetEnabledFromOff ==
  ASSUME NEW L, NEW p, NEW id \in DOMAIN L, L[id] \in LogicalBreakpoint, ~L[id].enabled,
         NEW o \in SetBreakpointEnabled(L, p, id, TRUE)
  PROVE  \E M : Flagged(L, M, id) /\ M[id].enabled /\ o \in Enabled(M, p, id)
<1>1. PICK v \in BOOLEAN : v = Satisfiable(L, L[id])
  BY SatisfiableBool
<1>K. PICK K : K = [L EXCEPT ![id].enabled = TRUE]
  OBVIOUS
<1> DEFINE M == SetSat(K, id, v)
<1>2. o \in Enabled([L EXCEPT ![id].enabled = TRUE, ![id].condSatisfiable = v], p, id)
  BY <1>1 DEF SetBreakpointEnabled
<1>3. M = [L EXCEPT ![id].enabled = TRUE, ![id].condSatisfiable = v]
  BY <1>K DEF SetSat
<1>4. PICK c : c = [L[id] EXCEPT !.enabled = TRUE]
  OBVIOUS
<1>5. c \in LogicalBreakpoint /\ c.set = L[id].set /\ c.enabled = TRUE
  BY <1>4, UpdateEnabled
<1>6. DOMAIN K = DOMAIN L /\ K[id] = c /\ \A j \in DOMAIN L : j # id => K[j] = L[j]
  BY <1>K, <1>4
<1>7. Tuned(K, K, id) /\ id \in DOMAIN K
  BY <1>5, <1>6, SelfTuned
<1>8. Flagged(K, M, id) /\ M[id].enabled = K[id].enabled
  BY <1>7, TuneSat, SMTT(30)
<1> HIDE DEF M
<1>9. Flagged(L, M, id) /\ M[id].enabled
  BY <1>5, <1>6, <1>8 DEF Flagged
<1> QED
  BY <1>2, <1>3, <1>9

LEMMA CreateEffects ==
  ASSUME TypeOK, NEW req \in ReqIDs, NEW l \in Locs, NEW hc \in HitConds, NEW dep \in Deps,
         NEW bad \in ParseErrors \cup {"nil"}, NEW s,
         CreateBreakpoint(req, l, hc, dep, bad, s)
  PROVE  \E id \in IDs : /\ counter' = id /\ (req = 0 => id = counter + 1)
                         /\ CreateEffect(id, l)
<1> DEFINE id == IF req = 0 THEN counter + 1 ELSE req
           new == [set |-> NoSet, enabled |-> FALSE, condSatisfiable |-> FALSE, hitCond |-> 0,
                   cond |-> 0, condUsesHitCounts |-> FALSE, TotalHitCount |-> 0]
           L == Put(lbps, id, new)
<1>1. id \in IDs /\ counter' = id
  <2>1. id <= MaxID /\ counter' = id
    BY DEF CreateBreakpoint
  <2>2. req \in Nat /\ counter \in Nat /\ MaxID \in Nat
    BY LogicalAssumption, SMTT(30) DEF TypeOK, IDs
  <2> QED
    BY <2>1, <2>2, SMTT(30) DEF IDs
<1>2. PICK c \in ChangeBreakpointCondition(L, phys, id, hc, dep, bad) :
        \/ lbps' = c.L /\ phys' = c.p
        \/ \E o \in SetBreakpointEnabled([c.L EXCEPT ![id].set = l], c.p, id, TRUE) :
             /\ phys' = o.p
             /\ lbps' = o.L \/ (o.err # "nil" /\ lbps' = Drop(o.L, {id}))
  BY ZenonT(30) DEF CreateBreakpoint, Apply
<1>3. new \in LogicalBreakpoint /\ ~new.enabled
  BY LogicalAssumption, SMTT(30) DEF LogicalBreakpoint
<1> HIDE DEF new
<1>4. DOMAIN L = DOMAIN lbps \cup {id} /\ L[id] = new /\ \A j \in DOMAIN lbps : j # id => L[j] = lbps[j]
  BY DEF Put
<1> HIDE DEF id, L
<1>5. Added(lbps, L, id) /\ id \in DOMAIN L /\ L[id] \in LogicalBreakpoint /\ ~L[id].enabled
  BY <1>3, <1>4 DEF Added
<1>6. c.p = phys /\ Tuned(L, c.L, id)
  BY <1>5, ChangeTouches
<1>7. /\ Added(lbps, c.L, id) /\ DOMAIN c.L = DOMAIN L /\ c.L[id] \in LogicalBreakpoint
      /\ ~c.L[id].enabled
  BY <1>5, <1>6, AddedFlagged DEF Tuned, Flagged
<1>8. CASE lbps' = c.L /\ phys' = c.p
  BY <1>1, <1>6, <1>7, <1>8 DEF CreateEffect, id
<1>9. ASSUME NEW o \in SetBreakpointEnabled([c.L EXCEPT ![id].set = l], c.p, id, TRUE),
             phys' = o.p,
             lbps' = o.L \/ (o.err # "nil" /\ lbps' = Drop(o.L, {id}))
      PROVE  CreateEffect(id, l)
  <2>1. PICK d : d = [c.L[id] EXCEPT !.set = l]
    OBVIOUS
  <2>2. d \in LogicalBreakpoint /\ d.set = l /\ d.enabled = c.L[id].enabled
    BY <1>7, <2>1, UpdateSet
  <2>3. PICK K : K = [c.L EXCEPT ![id].set = l]
    OBVIOUS
  <2>4. DOMAIN K = DOMAIN c.L /\ K[id] = d /\ \A j \in DOMAIN c.L : j # id => K[j] = c.L[j]
    BY <1>5, <1>7, <2>1, <2>3
  <2>5. /\ Added(lbps, K, id) /\ id \in DOMAIN K /\ K[id] \in LogicalBreakpoint /\ ~K[id].enabled
        /\ K[id].set = l
    BY <1>5, <1>7, <2>2, <2>4 DEF Added
  <2>6. o \in SetBreakpointEnabled(K, phys, id, TRUE)
    BY <1>6, <1>9, <2>3
  <2>7. PICK M : Flagged(K, M, id) /\ M[id].enabled /\ o \in Enabled(M, phys, id)
    BY <2>5, <2>6, SetEnabledFromOff
  <2>8. Added(lbps, M, id) /\ M[id].set = l /\ M[id] \in LogicalBreakpoint
    BY <2>5, <2>7, AddedFlagged DEF Flagged
  <2>9. o.L = M
    BY <2>7, <2>8, EnabledOutcome
  <2> QED
    BY <1>9, <2>7, <2>8, <2>9 DEF CreateEffect
<1> QED
  BY <1>1, <1>2, <1>8, <1>9 DEF id

AmendEffect(id) ==
  \E c : /\ Touched(lbps, phys, id, c)
         /\ \/ lbps' = c.L /\ phys' = c.p
            \/ /\ id \in DOMAIN c.L
               /\ \E o : Touched(c.L, c.p, id, o) /\ lbps' = o.L /\ phys' = o.p

LEMMA AmendEffects ==
  ASSUME TypeOK, NEW id \in IDs, NEW disable \in BOOLEAN, NEW hc \in HitConds, NEW dep \in Deps,
         NEW bad \in ParseErrors \cup {"nil"}, AmendBreakpoint(id, disable, hc, dep, bad)
  PROVE  id \in DOMAIN lbps /\ AmendEffect(id)
<1>1. /\ id \in DOMAIN lbps /\ MapTyped(lbps) /\ TableTyped(phys) /\ lbps[id] \in LogicalBreakpoint
      /\ (~disable) \in BOOLEAN
  BY DEF AmendBreakpoint, TypeOK, MapTyped, TableTyped
<1>2. PICK c \in ChangeBreakpointCondition(lbps, phys, id, hc, dep, bad) :
        \/ lbps' = c.L /\ phys' = c.p
        \/ /\ id \in DOMAIN c.L
           /\ \E o \in SetBreakpointEnabled(c.L, c.p, id, ~disable) : lbps' = o.L /\ phys' = o.p
  BY ZenonT(30) DEF AmendBreakpoint, Apply
<1>3. Touched(lbps, phys, id, c)
  BY <1>1, ChangeTouches
<1>4. MapTyped(c.L)
  BY <1>1, <1>3, TouchedTyped
<1>5. ASSUME id \in DOMAIN c.L, NEW o \in SetBreakpointEnabled(c.L, c.p, id, ~disable)
      PROVE  Touched(c.L, c.p, id, o)
  BY <1>1, <1>4, <1>5, SetEnabledTouches DEF MapTyped
<1> QED
  BY <1>1, <1>2, <1>3, <1>5 DEF AmendEffect

(* What ClearBreakpoint does.                                              *)
ClearEffect(id) ==
  \E o : /\ Touched(lbps, phys, id, o) /\ phys' = o.p
         /\ lbps' = o.L \/ lbps' = Drop(o.L, {id})

LEMMA ClearEffects ==
  ASSUME TypeOK, NEW id \in IDs, ClearBreakpoint(id)
  PROVE  id \in DOMAIN lbps /\ ClearEffect(id)
<1>1. id \in DOMAIN lbps /\ lbps[id] \in LogicalBreakpoint
  BY DEF ClearBreakpoint, TypeOK
<1>2. PICK o \in SetBreakpointEnabled(lbps, phys, id, FALSE) :
        IF o.err # "nil" THEN Apply(o) ELSE lbps' = Drop(o.L, {id}) /\ phys' = o.p
  BY DEF ClearBreakpoint
<1>3. Touched(lbps, phys, id, o)
  BY <1>1, SetEnabledTouches
<1>4. phys' = o.p /\ (lbps' = o.L \/ lbps' = Drop(o.L, {id}))
  BY <1>2 DEF Apply
<1> QED
  BY <1>1, <1>3, <1>4 DEF ClearEffect

(* What an iteration of the loop of Restart does: M is the map with the    *)
(* flag of id computed again.                                              *)
RestoreEffect(id) ==
  \E M : /\ Flagged(lbps, M, id) /\ M[id].enabled = lbps[id].enabled
         /\ \E o \in enableBreakpoint(phys, id, M[id]) :
              /\ phys' = o.p
              /\ \/ o.err = "nil" /\ lbps' = M
                 \/ o.err # "nil" /\ lbps' = Drop(M, {id})

LEMMA RestoreEffects ==
  ASSUME NEW id \in DOMAIN lbps, lbps[id] \in LogicalBreakpoint, Restore(id)
  PROVE  RestoreEffect(id)
<1>1. PICK v \in BOOLEAN : v = Satisfiable(lbps, lbps[id])
  BY SatisfiableBool
<1> DEFINE M == SetSat(lbps, id, v)
<1>2. Flagged(lbps, M, id) /\ M[id].enabled = lbps[id].enabled /\ M[id].condSatisfiable = v
  <2>1. Tuned(lbps, lbps, id)
    BY SelfTuned
  <2> QED
    BY <2>1, TuneSat, ZenonT(60)
<1>3. PICK o \in Enabled(M, phys, id) :
        IF o.err = "nil" THEN Apply(o) ELSE lbps' = Drop(M, {id}) /\ phys' = o.p
  BY <1>1 DEF Restore, SetSat
<1> HIDE DEF M
<1>4. PICK e \in enableBreakpoint(phys, id, M[id]) : o = Outcome(M, e.p, e.err)
  BY DEF Enabled
<1>5. o.L = M /\ o.p = e.p /\ o.err = e.err
  BY <1>4 DEF Outcome
<1>6. phys' = e.p /\ ((e.err = "nil" /\ lbps' = M) \/ (e.err # "nil" /\ lbps' = Drop(M, {id})))
  BY <1>3, <1>5 DEF Apply
<1> QED
  BY <1>2, <1>6 DEF RestoreEffect

LEMMA TouchedChanges ==
  ASSUME NEW L, NEW p, NEW id, NEW o, Touched(L, p, id, o)
  PROVE  \E b : Changed(p, o.p, id, b)
<1>1. PICK M : /\ Flagged(L, M, id)
               /\ \/ o.p = p
                  \/ \E e \in Enabled(M, p, id) : o.p = e.p
                  \/ \E e \in Disabled(M, p, id) : o.p = e.p
  BY DEF Touched
<1>2. M[id] \in LogicalBreakpoint
  BY <1>1 DEF Flagged
<1>3. CASE o.p = p
  BY <1>3, SameChanges
<1>4. CASE \E e \in Enabled(M, p, id) : o.p = e.p
  <2>1. PICK e \in Enabled(M, p, id) : o.p = e.p
    BY <1>4
  <2>2. Changed(p, e.p, id, M[id])
    BY <1>2, EnabledOutcome
  <2> QED
    BY <2>1, <2>2
<1>5. CASE \E e \in Disabled(M, p, id) : o.p = e.p
  <2>1. PICK e \in Disabled(M, p, id) : o.p = e.p
    BY <1>5
  <2>2. e.p = Without(p, id) /\ (e.L = M \/ e.L = Drop(M, {id}))
    BY DisabledOutcome
  <2> QED
    BY <2>1, <2>2, WithoutChanges
<1> QED
  BY <1>1, <1>3, <1>4, <1>5

(***************************************************************************)
(* Types.                                                                  *)
(***************************************************************************)
Control ==
  /\ counter \in 0 .. MaxID
  /\ st \in [Targets -> {"none", "adding", "valid", "exited"}]
  /\ loaded \subseteq Targets /\ todo \subseteq IDs /\ at \in Targets

Tables(p) == TableTyped(p) /\ DOMAIN p = Targets

(* The loops over the map look at breakpoints that are in it, as nothing   *)
(* removes one meanwhile.                                                  *)
Pending == phase \in {"adding", "plugin", "restarting"} => todo \subseteq DOMAIN lbps

Typed == MapTyped(lbps) /\ Tables(phys) /\ Control /\ Pending

LEMMA TypedIsTypeOK == Typed => TypeOK
BY DEF Typed, TypeOK, MapTyped, TableTyped, Tables, Control

LEMMA ChangedTables ==
  ASSUME NEW p, NEW q, NEW id \in IDs, NEW b, Tables(p), Changed(p, q, id, b)
  PROVE  Tables(q)
<1>1. TableTyped(q)
  BY ChangedTyped DEF Tables
<1>2. DOMAIN q = Targets
  BY DEF Tables, Changed
<1> QED
  BY <1>1, <1>2 DEF Tables

LEMMA TouchedTables ==
  ASSUME NEW L, NEW p, NEW id \in DOMAIN L, NEW o, MapTyped(L), Tables(p), Touched(L, p, id, o)
  PROVE  MapTyped(o.L) /\ Tables(o.p) /\ DOMAIN o.L \subseteq DOMAIN L
<1>1. MapTyped(o.L) /\ DOMAIN o.L \subseteq DOMAIN L
  BY TouchedTyped DEF Tables
<1>2. PICK b : Changed(p, o.p, id, b)
  BY TouchedChanges
<1>3. Tables(o.p)
  BY <1>2, ChangedTables DEF MapTyped
<1> QED
  BY <1>1, <1>3

LEMMA AddedTyped ==
  ASSUME NEW L, NEW M, NEW id \in IDs, MapTyped(L), Added(L, M, id)
  PROVE  MapTyped(M)
<1>1. DOMAIN M = DOMAIN L \cup {id} /\ M[id] \in LogicalBreakpoint
  BY DEF Added
<1>2. \A j \in DOMAIN L : j # id => M[j] = L[j]
  BY DEF Added
<1>3. DOMAIN M \subseteq IDs
  BY <1>1 DEF MapTyped
<1>4. ASSUME NEW j \in DOMAIN M PROVE M[j] \in LogicalBreakpoint
  BY <1>1, <1>2 DEF MapTyped
<1> QED
  BY <1>3, <1>4 DEF MapTyped

(* A location is added to the table of a target.                           *)
LEMMA PutTables ==
  ASSUME NEW p, NEW t \in Targets, NEW q, Tables(p),
         DOMAIN q \subseteq Addrs \cup WatchAddrs, \A a \in DOMAIN q : q[a] \in IDs
  PROVE  /\ Tables([p EXCEPT ![t] = q]) /\ [p EXCEPT ![t] = q][t] = q
         /\ \A u \in Targets : u # t => [p EXCEPT ![t] = q][u] = p[u]
<1> DEFINE r == [p EXCEPT ![t] = q]
<1>1. DOMAIN r = Targets /\ r[t] = q /\ \A u \in Targets : u # t => r[u] = p[u]
  BY DEF Tables
<1> HIDE DEF r
<1>2. TableTyped(r)
  <2> SUFFICES ASSUME NEW u \in Targets
               PROVE  DOMAIN r[u] \subseteq Addrs \cup WatchAddrs /\ \A a \in DOMAIN r[u] : r[u][a] \in IDs
    BY DEF TableTyped
  <2>1. CASE u = t
    BY <1>1, <2>1
  <2>2. CASE u # t
    <3>1. r[u] = p[u]
      BY <1>1, <2>2
    <3> QED
      BY <3>1 DEF Tables, TableTyped
  <2> QED
    BY <2>1, <2>2
<1> QED
  BY <1>1, <1>2 DEF Tables, r

LEMMA InitTyped == Init => Typed
<1> SUFFICES ASSUME Init PROVE Typed
  OBVIOUS
<1>1. DOMAIN NoLocations = {}
  BY DEF NoLocations
<1>2. MapTyped(lbps)
  BY <1>1 DEF Init, MapTyped
<1>3. Tables(phys)
  <2>1. DOMAIN phys = Targets /\ \A t \in Targets : phys[t] = NoLocations
    BY DEF Init
  <2> QED
    BY <1>1, <2>1 DEF Tables, TableTyped
<1>4. Control
  BY LogicalAssumption, SMTT(30) DEF Init, Control, Targets
<1>5. Pending
  BY DEF Init, Pending
<1> QED
  BY <1>2, <1>3, <1>4, <1>5 DEF Typed

LEMMA CreateTyped ==
  ASSUME Typed, NEW id \in IDs, NEW l, CreateEffect(id, l)
  PROVE  MapTyped(lbps') /\ Tables(phys') /\ DOMAIN lbps' \subseteq DOMAIN lbps \cup {id}
<1>1. PICK M :
        /\ Added(lbps, M, id)
        /\ \/ lbps' = M /\ phys' = phys /\ ~M[id].enabled
           \/ /\ M[id].enabled /\ M[id].set = l
              /\ \E o \in Enabled(M, phys, id) :
                   /\ phys' = o.p
                   /\ lbps' = M \/ (o.err # "nil" /\ lbps' = Drop(M, {id}))
  BY DEF CreateEffect
<1>2. MapTyped(M) /\ DOMAIN M = DOMAIN lbps \cup {id} /\ M[id] \in LogicalBreakpoint
  BY <1>1, AddedTyped DEF Typed, Added
<1>3. Tables(phys')
  <2>1. CASE phys' = phys
    BY <2>1 DEF Typed
  <2>2. CASE \E o \in Enabled(M, phys, id) : phys' = o.p
    <3>1. PICK o \in Enabled(M, phys, id) : phys' = o.p
      BY <2>2
    <3>2. o.L = M /\ Changed(phys, o.p, id, M[id])
      BY <1>2, EnabledOutcome
    <3> QED
      BY <3>1, <3>2, ChangedTables DEF Typed
  <2> QED
    BY <1>1, <2>1, <2>2
<1>4. CASE lbps' = M
  BY <1>2, <1>3, <1>4
<1>5. CASE lbps' = Drop(M, {id})
  <2>1. MapTyped(lbps')
    BY <1>2, <1>5, DropTyped
  <2>2. DOMAIN lbps' \subseteq DOMAIN M
    BY <1>5 DEF Drop
  <2> QED
    BY <1>2, <1>3, <2>1, <2>2
<1> QED
  BY <1>1, <1>4, <1>5

LEMMA WatchTyped ==
  ASSUME Typed, NEW a \in WatchAddrs, NEW ok, CreateWatchpoint(a, ok)
  PROVE  /\ MapTyped(lbps') /\ Tables(phys') /\ counter' \in 0 .. MaxID
         /\ counter' = counter + 1 /\ counter + 1 \in IDs
<1>1. counter' = counter + 1 /\ counter + 1 \in IDs /\ counter' \in 0 .. MaxID /\ 1 \in Targets
  BY LogicalAssumption, SMTT(30) DEF CreateWatchpoint, Typed, Control, IDs, Targets
<1>2. \/ UNCHANGED <<lbps, phys>>
      \/ /\ phys' = [phys EXCEPT ![1] = Put(phys[1], a, counter')]
         /\ \/ lbps' = lbps
            \/ lbps' = Put(lbps, counter', [set |-> NoSet, enabled |-> TRUE, condSatisfiable |-> TRUE,
                                            hitCond |-> 0, cond |-> 0, condUsesHitCounts |-> FALSE,
                                            TotalHitCount |-> 0])
  BY DEF CreateWatchpoint
<1> DEFINE new == [set |-> NoSet, enabled |-> TRUE, condSatisfiable |-> TRUE,
                   hitCond |-> 0, cond |-> 0, condUsesHitCounts |-> FALSE, TotalHitCount |-> 0]
<1>3. new \in LogicalBreakpoint
  BY LogicalAssumption, SMTT(30) DEF LogicalBreakpoint
<1> HIDE DEF new
<1>4. MapTyped(Put(lbps, counter + 1, new))
  <2>1. Added(lbps, Put(lbps, counter + 1, new), counter + 1)
    BY <1>3 DEF Added, Put
  <2> QED
    BY <1>1, <2>1, AddedTyped DEF Typed
<1>5. Tables([phys EXCEPT ![1] = Put(phys[1], a, counter + 1)])
  <2> DEFINE q == Put(phys[1], a, counter + 1)
  <2>1. DOMAIN phys[1] \subseteq Addrs \cup WatchAddrs /\ \A x \in DOMAIN phys[1] : phys[1][x] \in IDs
    BY <1>1 DEF Typed, Tables, TableTyped
  <2>2. /\ DOMAIN q = DOMAIN phys[1] \cup {a} /\ q[a] = counter + 1
        /\ \A y \in DOMAIN phys[1] : y # a => q[y] = phys[1][y]
    BY DEF Put
  <2> HIDE DEF q
  <2>3. DOMAIN q \subseteq Addrs \cup WatchAddrs
    BY <2>1, <2>2
  <2>4. ASSUME NEW y \in DOMAIN q PROVE q[y] \in IDs
    BY <1>1, <2>1, <2>2
  <2> QED
    BY <1>1, <2>3, <2>4, PutTables DEF Typed, q
<1>6. MapTyped(lbps')
  BY <1>1, <1>2, <1>4 DEF Typed, new
<1>7. Tables(phys')
  BY <1>1, <1>2, <1>5 DEF Typed
<1> QED
  BY <1>1, <1>6, <1>7

LEMMA AmendTyped ==
  ASSUME Typed, NEW id \in DOMAIN lbps, AmendEffect(id)
  PROVE  MapTyped(lbps') /\ Tables(phys') /\ DOMAIN lbps' \subseteq DOMAIN lbps
<1>1. PICK c : /\ Touched(lbps, phys, id, c)
               /\ \/ lbps' = c.L /\ phys' = c.p
                  \/ /\ id \in DOMAIN c.L
                     /\ \E o : Touched(c.L, c.p, id, o) /\ lbps' = o.L /\ phys' = o.p
  BY DEF AmendEffect
<1>2. MapTyped(c.L) /\ Tables(c.p) /\ DOMAIN c.L \subseteq DOMAIN lbps
  BY <1>1, TouchedTables DEF Typed
<1>3. CASE lbps' = c.L /\ phys' = c.p
  BY <1>2, <1>3
<1>4. CASE /\ id \in DOMAIN c.L
           /\ \E o : Touched(c.L, c.p, id, o) /\ lbps' = o.L /\ phys' = o.p
  <2>1. PICK o : Touched(c.L, c.p, id, o) /\ lbps' = o.L /\ phys' = o.p
    BY <1>4
  <2>2. MapTyped(o.L) /\ Tables(o.p) /\ DOMAIN o.L \subseteq DOMAIN c.L
    BY <1>2, <1>4, <2>1, TouchedTables
  <2> QED
    BY <1>2, <2>1, <2>2
<1> QED
  BY <1>1, <1>3, <1>4

LEMMA ClearTyped ==
  ASSUME Typed, NEW id \in DOMAIN lbps, ClearEffect(id)
  PROVE  MapTyped(lbps') /\ Tables(phys') /\ DOMAIN lbps' \subseteq DOMAIN lbps
<1>1. PICK o : /\ Touched(lbps, phys, id, o) /\ phys' = o.p
               /\ lbps' = o.L \/ lbps' = Drop(o.L, {id})
  BY DEF ClearEffect
<1>2. MapTyped(o.L) /\ Tables(o.p) /\ DOMAIN o.L \subseteq DOMAIN lbps
  BY <1>1, TouchedTables DEF Typed
<1>3. MapTyped(Drop(o.L, {id})) /\ DOMAIN Drop(o.L, {id}) \subseteq DOMAIN o.L
  <2>1. MapTyped(Drop(o.L, {id}))
    BY <1>2, DropTyped
  <2>2. DOMAIN Drop(o.L, {id}) \subseteq DOMAIN o.L
    BY DEF Drop
  <2> QED
    BY <2>1, <2>2
<1> QED
  BY <1>1, <1>2, <1>3

LEMMA RestoreTyped ==
  ASSUME Typed, NEW id \in DOMAIN lbps, RestoreEffect(id)
  PROVE  /\ MapTyped(lbps') /\ Tables(phys') /\ DOMAIN lbps' \subseteq DOMAIN lbps
         /\ \A j \in DOMAIN lbps : j # id => j \in DOMAIN lbps'
<1>1. PICK M, o : /\ Flagged(lbps, M, id) /\ o \in enableBreakpoint(phys, id, M[id])
                  /\ phys' = o.p /\ (lbps' = M \/ lbps' = Drop(M, {id}))
  BY DEF RestoreEffect
<1>2. MapTyped(M) /\ DOMAIN M = DOMAIN lbps /\ M[id] \in LogicalBreakpoint
  BY <1>1, FlaggedTyped DEF Typed, Flagged
<1>3. Tables(phys')
  <2>1. Changed(phys, o.p, id, M[id])
    BY <1>1, <1>2, EnableChanges
  <2> QED
    BY <1>1, <2>1, ChangedTables DEF Typed, MapTyped
<1>4. CASE lbps' = M
  BY <1>2, <1>3, <1>4
<1>5. CASE lbps' = Drop(M, {id})
  <2>1. MapTyped(lbps')
    BY <1>2, <1>5, DropTyped
  <2>2. DOMAIN lbps' = DOMAIN M \ {id}
    BY <1>5 DEF Drop
  <2> QED
    BY <1>2, <1>3, <2>1, <2>2
<1> QED
  BY <1>1, <1>4, <1>5

LEMMA MaterializeTyped ==
  ASSUME Typed, NEW id \in DOMAIN lbps, EnableOne(id)
  PROVE  /\ Tables(phys')
         /\ \A u \in Targets : u # at => phys'[u] = phys[u]
         /\ phys'[at] = phys[at] \/ Extends(phys[at], phys'[at], at, id, lbps[id])
<1>0. at \in Targets /\ lbps[id] \in LogicalBreakpoint /\ id \in IDs
  BY DEF Typed, MapTyped, Control
<1>1. CASE phys' = phys
  BY <1>1 DEF Typed
<1>2. CASE \E o \in enableBreakpointOnTarget(phys[at], at, id, lbps[id]) :
             phys' = [phys EXCEPT ![at] = o.q]
  <2>1. PICK o \in enableBreakpointOnTarget(phys[at], at, id, lbps[id]) :
          phys' = [phys EXCEPT ![at] = o.q]
    BY <1>2
  <2>2. Extends(phys[at], o.q, at, id, lbps[id])
    BY <1>0, OnTargetExtends
  <2>3. PICK q : q = o.q
    OBVIOUS
  <2>4. DOMAIN phys[at] \subseteq Addrs \cup WatchAddrs /\ \A x \in DOMAIN phys[at] : phys[at][x] \in IDs
    BY <1>0 DEF Typed, Tables, TableTyped
  <2>5. DOMAIN q \subseteq Addrs \cup WatchAddrs /\ \A x \in DOMAIN q : q[x] \in IDs
    BY <1>0, <2>2, <2>3, <2>4 DEF Extends
  <2>6. /\ Tables([phys EXCEPT ![at] = q]) /\ [phys EXCEPT ![at] = q][at] = q
        /\ \A u \in Targets : u # at => [phys EXCEPT ![at] = q][u] = phys[u]
    <3>1. Tables(phys)
      BY DEF Typed
    <3> QED
      BY <1>0, <2>5, <3>1, PutTables, SMTT(30)
  <2> QED
    BY <2>1, <2>2, <2>3, <2>6
<1> QED
  BY <1>1, <1>2 DEF EnableOne

LEMMA HitTyped ==
  ASSUME Typed, NEW t, NEW a, Hit(t, a)
  PROVE  \E id \in DOMAIN lbps :
           /\ MapTyped(lbps') /\ DOMAIN lbps' = DOMAIN lbps
           /\ \A j \in DOMAIN lbps : j # id => lbps'[j] = lbps[j]
           /\ lbps'[id].set = lbps[id].set /\ lbps'[id].enabled = lbps[id].enabled
           /\ lbps'[id].condSatisfiable = lbps[id].condSatisfiable
<1>1. PICK id \in DOMAIN lbps :
        lbps[id].TotalHitCount < MaxHits /\ lbps' = [lbps EXCEPT ![id].TotalHitCount = @ + 1]
  BY DEF Hit
<1>2. lbps[id] \in LogicalBreakpoint
  BY DEF Typed, MapTyped
<1>3. PICK v \in 0 .. MaxHits : v = lbps[id].TotalHitCount + 1
  <2>1. lbps[id].TotalHitCount \in 0 .. MaxHits
    BY <1>2 DEF LogicalBreakpoint
  <2>2. lbps[id].TotalHitCount + 1 \in 0 .. MaxHits
    BY <1>1, <2>1, LogicalAssumption, SMTT(30)
  <2> QED
    BY <2>2
<1>4. PICK c \in LogicalBreakpoint :
        /\ c = [lbps[id] EXCEPT !.TotalHitCount = v]
        /\ c.set = lbps[id].set /\ c.enabled = lbps[id].enabled
        /\ c.condSatisfiable = lbps[id].condSatisfiable
  BY <1>2, UpdateHits
<1>5. lbps' = [lbps EXCEPT ![id] = c]
  BY <1>1, <1>3, <1>4
<1>6. DOMAIN lbps' = DOMAIN lbps /\ lbps'[id] = c /\ \A j \in DOMAIN lbps : j # id => lbps'[j] = lbps[j]
  BY <1>5, UpdateMap
<1>7. MapTyped(lbps')
  BY <1>6 DEF Typed, MapTyped
<1> QED
  BY <1>4, <1>6, <1>7

(* The map after Restart.                                                  *)
LEMMA RestartTyped ==
  ASSUME Typed, Restart
  PROVE  /\ MapTyped(lbps') /\ Tables(phys') /\ DOMAIN lbps' = DOMAIN lbps
         /\ \A t \in Targets : DOMAIN phys'[t] = {}
         /\ \A id \in DOMAIN lbps :
              lbps'[id].enabled = lbps[id].enabled /\ lbps'[id].set \notin PidLocs
<1>1. /\ DOMAIN lbps' = DOMAIN lbps
      /\ \A id \in DOMAIN lbps :
           lbps'[id] = [lbps[id] EXCEPT !.TotalHitCount = 0,
                                        !.set = IF @ \in PidLocs THEN ExprOf[@] ELSE @]
  BY DEF Restart
<1>2. ASSUME NEW id \in DOMAIN lbps
      PROVE  /\ lbps'[id] \in LogicalBreakpoint
             /\ lbps'[id].enabled = lbps[id].enabled /\ lbps'[id].set \notin PidLocs
  <2>1. lbps[id] \in LogicalBreakpoint
    BY DEF Typed, MapTyped
  <2>2. 0 \in 0 .. MaxHits
    BY LogicalAssumption, SMTT(30)
  <2>3. PICK b \in LogicalBreakpoint :
          /\ b = [lbps[id] EXCEPT !.TotalHitCount = 0]
          /\ b.set = lbps[id].set /\ b.enabled = lbps[id].enabled
    BY <2>1, <2>2, UpdateHits
  <2>4. lbps[id].set \in Locs \cup {NoSet}
    BY <2>1 DEF LogicalBreakpoint
  <2>5. PICK v \in Locs \cup {NoSet} :
          /\ v = IF lbps[id].set \in PidLocs THEN ExprOf[lbps[id].set] ELSE lbps[id].set
          /\ v \notin PidLocs
    <3>1. \A l \in PidLocs : ExprOf[l] \in Locs \cup {NoSet} /\ ExprOf[l] \notin PidLocs
      BY LogicalAssumption
    <3> QED
      BY <2>4, <3>1
  <2>6. PICK c \in LogicalBreakpoint :
          c = [b EXCEPT !.set = v] /\ c.set = v /\ c.enabled = b.enabled
    BY UpdateSet
  <2>7. lbps'[id] = c
    BY <1>1, <2>3, <2>5, <2>6
  <2> QED
    BY <2>3, <2>5, <2>6, <2>7
<1>3. DOMAIN phys' = Targets /\ \A t \in Targets : phys'[t] = NoLocations
  BY DEF Restart
<1>4. DOMAIN NoLocations = {}
  BY DEF NoLocations
<1>5. Tables(phys')
  BY <1>3, <1>4 DEF Tables, TableTyped
<1>6. MapTyped(lbps')
  BY <1>1, <1>2 DEF Typed, MapTyped
<1> QED
  BY <1>1, <1>2, <1>3, <1>4, <1>5, <1>6

LEMMA NextTyped == Typed /\ [Next]_vars => Typed'
<1> SUFFICES ASSUME Typed, [Next]_vars PROVE Typed'
  OBVIOUS
<1>a. MapTyped(lbps) /\ Tables(phys) /\ Control /\ Pending /\ TypeOK
  BY TypedIsTypeOK DEF Typed
<1>b. ASSUME MapTyped(lbps'), Tables(phys'), Control', Pending' PROVE Typed'
  BY <1>b DEF Typed
<1>c. DOMAIN lbps \subseteq IDs
  BY <1>a DEF MapTyped
<1>e. ASSUME phase' \in {"stopped", "managing", "running"} PROVE Pending'
  BY <1>e DEF Pending
<1>d. ASSUME counter' \in 0 .. MaxID, phase = "stopped", Idle PROVE Control' /\ Pending'
  <2>1. phase' \in {"stopped", "managing", "running"}
    BY <1>d DEF Idle
  <2> QED
    BY <1>a, <1>d, <1>e, <2>1 DEF Control, Idle
<1>f. ASSUME UNCHANGED <<lbps, phys>> PROVE MapTyped(lbps') /\ Tables(phys')
  BY <1>a, <1>f
<1>1. ASSUME NEW req \in ReqIDs, NEW l \in Locs, NEW hc \in HitConds, NEW dep \in Deps,
             NEW bad \in ParseErrors \cup {"nil"}, NEW s \in Suspend,
             CreateBreakpoint(req, l, hc, dep, bad, s)
      PROVE  Typed'
  <2>1. PICK id \in IDs : counter' = id /\ CreateEffect(id, l)
    BY <1>a, <1>1, CreateEffects, ZenonT(30)
  <2>2. MapTyped(lbps') /\ Tables(phys')
    BY <2>1, CreateTyped
  <2>3. counter' \in 0 .. MaxID
    BY <2>1, SMTT(30) DEF IDs
  <2>4. phase = "stopped" /\ Idle
    BY <1>1 DEF CreateBreakpoint
  <2> QED
    BY <1>b, <1>d, <2>2, <2>3, <2>4
<1>2. ASSUME NEW a \in WatchAddrs, NEW ok \in BOOLEAN, CreateWatchpoint(a, ok) PROVE Typed'
  <2>1. MapTyped(lbps') /\ Tables(phys') /\ counter' \in 0 .. MaxID
    BY <1>2, WatchTyped
  <2>2. phase = "stopped" /\ Idle
    BY <1>2 DEF CreateWatchpoint
  <2> QED
    BY <1>b, <1>d, <2>1, <2>2
<1>3. ASSUME NEW id \in IDs, NEW disable \in BOOLEAN, NEW hc \in HitConds, NEW dep \in Deps,
             NEW bad \in ParseErrors \cup {"nil"}, AmendBreakpoint(id, disable, hc, dep, bad)
      PROVE  Typed'
  <2>1. id \in DOMAIN lbps /\ AmendEffect(id)
    BY <1>a, <1>3, AmendEffects
  <2>2. MapTyped(lbps') /\ Tables(phys')
    BY <2>1, AmendTyped
  <2>3. counter' \in 0 .. MaxID /\ phase = "stopped" /\ Idle
    BY <1>a, <1>3 DEF AmendBreakpoint, Control
  <2> QED
    BY <1>b, <1>d, <2>2, <2>3
<1>4. ASSUME NEW id \in IDs, ClearBreakpoint(id) PROVE Typed'
  <2>1. id \in DOMAIN lbps /\ ClearEffect(id)
    BY <1>a, <1>4, ClearEffects
  <2>2. MapTyped(lbps') /\ Tables(phys')
    BY <2>1, ClearTyped
  <2>3. counter' \in 0 .. MaxID /\ phase = "stopped" /\ Idle
    BY <1>a, <1>4 DEF ClearBreakpoint, Control
  <2> QED
    BY <1>b, <1>d, <2>2, <2>3
<1>5. ASSUME NEW id \in IDs, ManageOne(id) PROVE Typed'
  <2>1. id \in DOMAIN lbps /\ lbps[id] \in LogicalBreakpoint
    BY <1>a, <1>5 DEF ManageOne, MapTyped
  <2>2. PICK o \in manageUnsatisfiable(id) :
          lbps' = o.L /\ phys' = o.p /\ (todo' = todo \ {id} \/ todo' = {})
    BY <1>5 DEF ManageOne, Apply
  <2>p. phase' \in {"stopped", "managing", "running"}
    BY <1>5 DEF ManageOne
  <2>3. Touched(lbps, phys, id, o)
    BY <2>1, ManageTouches
  <2>4. MapTyped(lbps') /\ Tables(phys')
    BY <1>a, <2>1, <2>2, <2>3, TouchedTables
  <2>5. UNCHANGED <<counter, st, loaded, at>>
    BY <1>5 DEF ManageOne
  <2>6. Control'
    BY <1>a, <2>2, <2>5 DEF Control
  <2> QED
    BY <1>b, <1>e, <2>p, <2>4, <2>6
<1>6. ASSUME NEW id \in IDs, Materialize(id) PROVE Typed'
  <2>1. /\ id \in todo /\ phase \in {"adding", "plugin", "restarting"} /\ EnableOne(id)
        /\ todo' = todo \ {id} /\ UNCHANGED <<lbps, counter, st, loaded, phase, at>>
    BY <1>6 DEF Materialize
  <2>2. id \in DOMAIN lbps
    BY <1>a, <2>1 DEF Pending
  <2>3. Tables(phys')
    BY <2>1, <2>2, MaterializeTyped
  <2>4. Control' /\ Pending'
    BY <1>a, <2>1 DEF Control, Pending
  <2>5. MapTyped(lbps')
    BY <1>a, <2>1
  <2> QED
    BY <1>b, <2>3, <2>4, <2>5
<1>7. ASSUME NEW id \in IDs, RestartOne(id) PROVE Typed'
  <2>1. /\ id \in todo /\ phase = "restarting" /\ Restore(id)
        /\ todo' = todo \ {id} /\ UNCHANGED <<counter, st, loaded, phase, at>>
    BY <1>7 DEF RestartOne
  <2>2. id \in DOMAIN lbps /\ lbps[id] \in LogicalBreakpoint
    BY <1>a, <2>1 DEF Pending, MapTyped
  <2>3. RestoreEffect(id)
    BY <2>1, <2>2, RestoreEffects
  <2>4. /\ MapTyped(lbps') /\ Tables(phys') /\ DOMAIN lbps' \subseteq DOMAIN lbps
        /\ \A j \in DOMAIN lbps : j # id => j \in DOMAIN lbps'
    BY <2>2, <2>3, RestoreTyped
  <2>5. Control' /\ Pending'
    BY <1>a, <2>1, <2>4 DEF Control, Pending
  <2> QED
    BY <1>b, <2>4, <2>5
<1>8. CASE Continue \/ ManageDone \/ Stop \/ RestartDone
  <2>1. UNCHANGED <<lbps, phys, counter, st, loaded, at>> /\ (todo' = todo \/ todo' = DOMAIN lbps)
    BY <1>8 DEF Continue, ManageDone, Stop, RestartDone
  <2>2. phase' \in {"stopped", "managing", "running"}
    BY <1>8 DEF Continue, ManageDone, Stop, RestartDone
  <2>3. Control'
    BY <1>a, <1>c, <2>1 DEF Control
  <2> QED
    BY <1>b, <1>e, <1>f, <2>1, <2>2, <2>3
<1>9. CASE Spawn
  <2>1. PICK t \in Targets \ {1} : st' = [st EXCEPT ![t] = "adding"] /\ at' = t
    BY <1>9 DEF Spawn
  <2>2. UNCHANGED <<lbps, phys, counter, loaded>> /\ todo' = DOMAIN lbps
    BY <1>9 DEF Spawn
  <2>3. Control' /\ Pending'
    BY <1>a, <1>c, <2>1, <2>2 DEF Control, Pending
  <2> QED
    BY <1>b, <1>f, <2>2, <2>3
<1>10. CASE MaterializeDone
  <2>1. /\ st' = [st EXCEPT ![at] = "valid"] /\ phase' = "running"
        /\ UNCHANGED <<lbps, phys, counter, loaded, todo, at>>
    BY <1>10 DEF MaterializeDone
  <2>2. Control' /\ Pending'
    BY <1>a, <2>1 DEF Control, Pending
  <2> QED
    BY <1>b, <1>f, <2>1, <2>2
<1>11. CASE Restart
  <2>1. MapTyped(lbps') /\ Tables(phys') /\ DOMAIN lbps' = DOMAIN lbps
    BY <1>11, RestartTyped
  <2>2. /\ todo' \subseteq DOMAIN lbps /\ loaded' = {} /\ at' = 1 /\ UNCHANGED counter
        /\ st' = [t \in Targets |-> IF t = 1 THEN "valid" ELSE "none"]
    BY <1>11 DEF Restart
  <2>3. Control' /\ Pending'
    BY <1>a, <1>c, <2>1, <2>2, LogicalAssumption, SMTT(30) DEF Control, Pending, Targets
  <2> QED
    BY <1>b, <2>1, <2>3
<1>12. ASSUME NEW t \in Targets, Exit(t) PROVE Typed'
  <2>1. /\ st' = [st EXCEPT ![t] = "exited"] /\ phase' = "stopped"
        /\ UNCHANGED <<lbps, phys, counter, loaded, todo, at>>
    BY <1>12 DEF Exit
  <2>2. Control' /\ Pending'
    BY <1>a, <2>1 DEF Control, Pending
  <2> QED
    BY <1>b, <1>f, <2>1, <2>2
<1>13. ASSUME NEW t \in Targets, PluginOpen(t) PROVE Typed'
  <2>1. /\ loaded' = loaded \cup {t} /\ at' = t /\ todo' = DOMAIN lbps
        /\ UNCHANGED <<lbps, phys, counter, st>>
    BY <1>13 DEF PluginOpen
  <2>2. Control' /\ Pending'
    BY <1>a, <1>c, <2>1 DEF Control, Pending
  <2> QED
    BY <1>b, <1>f, <2>1, <2>2
<1>14. ASSUME NEW t \in Targets, NEW a, Hit(t, a) PROVE Typed'
  <2>1. MapTyped(lbps') /\ DOMAIN lbps' = DOMAIN lbps
    BY <1>14, HitTyped
  <2>2. UNCHANGED <<phys, counter, st, loaded, phase, todo, at>>
    BY <1>14 DEF Hit
  <2>3. Control' /\ Pending' /\ Tables(phys')
    BY <1>a, <2>1, <2>2 DEF Control, Pending
  <2> QED
    BY <1>b, <2>1, <2>3
<1>15. CASE UNCHANGED vars
  BY <1>15 DEF vars, Typed, Control, Pending
<1> QED
  BY <1>1, <1>2, <1>3, <1>4, <1>5, <1>6, <1>7, <1>8, <1>9, <1>10, <1>11, <1>12, <1>13, <1>14,
     <1>15, ZenonT(60) DEF Next

(* The map of logical breakpoints and the tables of locations keep their   *)
(* types.                                                                  *)
THEOREM TypeCorrect == Spec => []TypeOK
<1>1. Init => Typed
  BY InitTyped
<1>2. Typed /\ [Next]_vars => Typed'
  BY NextTyped
<1>3. Typed => TypeOK
  BY TypedIsTypeOK
<1> QED
  BY <1>1, <1>2, <1>3, PTL DEF Spec

(***************************************************************************)
(* Restart.  While it enables the breakpoints the group has one process,   *)
(* no breakpoint is a list of addresses, and those it has looked at and    *)
(* kept have a location if they should.                                    *)
(***************************************************************************)
(* In the new process the expression l has no value.                       *)
Nowhere(l) == l \in ExprLocs /\ ProgramAddrs[l][1] = <<>>

Restoring ==
  phase = "restarting" =>
    /\ Group = {1}
    /\ \A id \in DOMAIN lbps : lbps[id].set \notin PidLocs
    /\ 1 \notin loaded
    /\ \A id \in DOMAIN lbps : id \notin todo /\ Good(lbps[id]) =>
         Located(phys, 1, id) # {} \/ Nowhere(lbps[id].set)

(* A breakpoint that is not a list of addresses and is enabled without     *)
(* error on the only target has a location there, or its expression has no *)
(* value there.                                                            *)
LEMMA EnabledIsLocated ==
  ASSUME NEW p, NEW id, NEW b \in LogicalBreakpoint, NEW o \in enableBreakpoint(p, id, b),
         Group = {1}, 1 \notin loaded, b.set \notin PidLocs, ~Nowhere(b.set), o.err = "nil", Good(b)
  PROVE  Located(o.p, 1, id) # {}
<1>0. 1 \in Targets
  BY LogicalAssumption, SMTT(30) DEF Targets
<1>a. PICK r, V : EndsIn(p, id, b, r, V, o)
  BY EnableCases
<1>1. /\ Ran(p, id, b, r, V) /\ o.p = Left(p, r, V)
      /\ V = {} \/ \E t \in V : r[t].err = "nil"
  BY <1>a DEF EndsIn
<1>2. 1 \in V /\ \A t \in V : t = 1
  <2>1. \A u \in Group : ~(u < 1)
    BY SMTT(30)
  <2> QED
    BY <1>1, <2>1 DEF Ran
<1>3. r[1].err = "nil" /\ r[1] \in enableBreakpointOnTarget(p[1], 1, id, b)
  BY <1>1, <1>2 DEF Ran
<1>4. o.p[1] = r[1].q
  BY <1>0, <1>1, <1>2 DEF Left
<1> DEFINE as == Resolve(b.set, 1)
<1>5. /\ b.set \in Locs /\ Len(as) # 0 /\ r[1].q = Written(p[1], as, Len(as), id)
      /\ as[Len(as)] \notin DOMAIN p[1]
  <2>1. PICK x \in enableBreakpointOnTarget(p[1], 1, id, b) : x = r[1] /\ x.err = "nil"
    BY <1>3
  <2>a. OnTargetCases(p[1], 1, id, b, x)
    BY <1>0, OnTarget
  <2>2. \/ x.err = "fail"
        \/ /\ b.set \in Locs /\ Len(as) = 0
           /\ x.err = IF MayBeNowhere(b.set) THEN "nil" ELSE "notfound"
        \/ /\ b.set \in Locs /\ Len(as) # 0 /\ x.q = Written(p[1], as, Len(as), id)
           /\ x.err = IF as[Len(as)] \in DOMAIN p[1] THEN "exists" ELSE "nil"
    BY <2>a DEF OnTargetCases
  <2>3. b.set \in Locs /\ Len(as) = 0 => ~MayBeNowhere(b.set)
    <3>1. as = ProgramAddrs[b.set][1]
      BY DEF Resolve
    <3>2. \A z \in Seq(Addrs) : Len(z) = 0 => z = <<>>
      BY SMTT(30)
    <3>3. b.set \in Locs => as \in Seq(Addrs)
      BY <1>0, ResolveSeq
    <3> HIDE DEF as
    <3> QED
      BY <3>1, <3>2, <3>3 DEF MayBeNowhere, Nowhere
  <2> HIDE DEF as
  <2> QED
    BY <2>1, <2>2, <2>3
<1>6. Len(as) \in 1 .. Len(as)
  BY <1>0, <1>5, ResolveSeq, SMTT(30)
<1> HIDE DEF as
<1>7. PICK a : a = as[Len(as)] /\ a \notin DOMAIN p[1] /\ a \in {as[i] : i \in 1 .. Len(as)}
  BY <1>5, <1>6
<1>8. a \in DOMAIN r[1].q /\ r[1].q[a] = id
  BY <1>5, <1>7 DEF Written
<1> QED
  BY <1>4, <1>8 DEF Located

LEMMA RestoreLocates ==
  ASSUME Typed, NEW id \in DOMAIN lbps, Group = {1}, 1 \notin loaded, lbps[id].set \notin PidLocs,
         RestoreEffect(id)
  PROVE  /\ id \in DOMAIN lbps' /\ Good(lbps'[id]) =>
              Located(phys', 1, id) # {} \/ Nowhere(lbps'[id].set)
         /\ id \in DOMAIN lbps' => lbps'[id].set = lbps[id].set
         /\ \A j \in DOMAIN lbps' : j # id =>
              /\ j \in DOMAIN lbps /\ lbps'[j] = lbps[j]
              /\ Located(phys, 1, j) # {} => Located(phys', 1, j) # {}
<1>1. PICK M, o : /\ Flagged(lbps, M, id) /\ o \in enableBreakpoint(phys, id, M[id])
                  /\ phys' = o.p /\ ((o.err = "nil" /\ lbps' = M) \/ lbps' = Drop(M, {id}))
  BY DEF RestoreEffect
<1>2. /\ DOMAIN M = DOMAIN lbps /\ M[id] \in LogicalBreakpoint /\ M[id].set = lbps[id].set
      /\ \A j \in DOMAIN lbps : j # id => M[j] = lbps[j]
  BY <1>1 DEF Flagged
<1>3. Changed(phys, phys', id, M[id])
  BY <1>1, <1>2, EnableChanges
<1>4. 1 \in Targets
  BY LogicalAssumption, SMTT(30) DEF Targets
<1>5. ASSUME NEW j, j # id, Located(phys, 1, j) # {} PROVE Located(phys', 1, j) # {}
  <2>1. PICK a \in DOMAIN phys[1] : phys[1][a] = j
    BY <1>5 DEF Located
  <2>2. a \in DOMAIN phys'[1] /\ phys'[1][a] = phys[1][a]
    BY <1>3, <1>4, <1>5, <2>1, ZenonT(60) DEF Changed
  <2> QED
    BY <2>1, <2>2 DEF Located
<1>6. CASE o.err = "nil" /\ lbps' = M
  <2>1. Good(M[id]) => Located(phys', 1, id) # {} \/ Nowhere(M[id].set)
    BY <1>1, <1>2, <1>6, EnabledIsLocated
  <2> QED
    BY <1>2, <1>5, <1>6, <2>1
<1>7. CASE lbps' = Drop(M, {id})
  <2>1. DOMAIN lbps' = DOMAIN M \ {id} /\ \A j \in DOMAIN M \ {id} : lbps'[j] = M[j]
    BY <1>7 DEF Drop
  <2> QED
    BY <1>2, <1>5, <2>1
<1> QED
  BY <1>1, <1>6, <1>7

LEMMA NextRestoring == Typed /\ Restoring /\ [Next]_vars => Restoring'
<1> SUFFICES ASSUME Typed, Restoring, [Next]_vars, phase' = "restarting"
             PROVE  /\ Group' = {1}
                    /\ \A id \in DOMAIN lbps' : lbps'[id].set \notin PidLocs
                    /\ 1 \notin loaded'
                    /\ \A id \in DOMAIN lbps' : id \notin todo' /\ Good(lbps'[id]) =>
                         Located(phys', 1, id) # {} \/ Nowhere(lbps'[id].set)
  BY DEF Restoring, Good, Nowhere
<1>1. CASE Restart
  <2>1. st' = [t \in Targets |-> IF t = 1 THEN "valid" ELSE "none"]
    BY <1>1 DEF Restart
  <2>2. Group' = {1}
    BY <2>1, LogicalAssumption, SMTT(30) DEF Group, Targets
  <2>3. /\ DOMAIN lbps' = DOMAIN lbps
        /\ \A id \in DOMAIN lbps :
              lbps'[id].enabled = lbps[id].enabled /\ lbps'[id].set \notin PidLocs
    BY <1>1, RestartTyped
  <2>4. (\A id \in DOMAIN lbps : lbps[id].enabled => id \in todo') /\ loaded' = {}
    BY <1>1 DEF Restart
  <2> QED
    BY <2>2, <2>3, <2>4 DEF Good
<1>2. ASSUME NEW id \in IDs, RestartOne(id)
      PROVE  /\ Group' = {1}
             /\ \A j \in DOMAIN lbps' : lbps'[j].set \notin PidLocs
             /\ 1 \notin loaded'
             /\ \A j \in DOMAIN lbps' : j \notin todo' /\ Good(lbps'[j]) =>
                  Located(phys', 1, j) # {} \/ Nowhere(lbps'[j].set)
  <2>1. /\ id \in todo /\ phase = "restarting" /\ Restore(id) /\ todo' = todo \ {id}
        /\ UNCHANGED <<st, loaded>>
    BY <1>2 DEF RestartOne
  <2>2. id \in DOMAIN lbps /\ lbps[id] \in LogicalBreakpoint
    BY <2>1 DEF Typed, Pending, MapTyped
  <2>3. /\ Group = {1}
        /\ \A j \in DOMAIN lbps : lbps[j].set \notin PidLocs
        /\ 1 \notin loaded
        /\ \A j \in DOMAIN lbps : j \notin todo /\ Good(lbps[j]) =>
             Located(phys, 1, j) # {} \/ Nowhere(lbps[j].set)
    BY <2>1 DEF Restoring
  <2>4. RestoreEffect(id)
    BY <2>1, <2>2, RestoreEffects
  <2>5. /\ id \in DOMAIN lbps' /\ Good(lbps'[id]) =>
              Located(phys', 1, id) # {} \/ Nowhere(lbps'[id].set)
        /\ id \in DOMAIN lbps' => lbps'[id].set = lbps[id].set
        /\ \A j \in DOMAIN lbps' : j # id =>
              /\ j \in DOMAIN lbps /\ lbps'[j] = lbps[j]
              /\ Located(phys, 1, j) # {} => Located(phys', 1, j) # {}
    BY <2>2, <2>3, <2>4, RestoreLocates
  <2>6. Group' = {1}
    BY <2>1, <2>3 DEF Group
  <2>7. ASSUME NEW j \in DOMAIN lbps' PROVE lbps'[j].set \notin PidLocs
    BY <2>2, <2>3, <2>5
  <2>8. ASSUME NEW j \in DOMAIN lbps', j \notin todo', Good(lbps'[j])
        PROVE  Located(phys', 1, j) # {} \/ Nowhere(lbps'[j].set)
    <3>1. CASE j = id
      BY <2>5, <2>8, <3>1
    <3>2. CASE j # id
      BY <2>1, <2>3, <2>5, <2>8, <3>2
    <3> QED
      BY <3>1, <3>2
  <2> QED
    BY <2>1, <2>3, <2>6, <2>7, <2>8
<1>3. CASE UNCHANGED vars
  BY <1>3 DEF vars, Restoring, Group
<1>4. \/ Restart \/ (\E id \in IDs : RestartOne(id)) \/ UNCHANGED vars
  BY ZenonT(60) DEF Next, CreateBreakpoint, CreateWatchpoint, AmendBreakpoint, ClearBreakpoint, ManageOne,
         Materialize, Continue, ManageDone, Stop, Spawn, MaterializeDone, RestartDone, Exit,
         PluginOpen, Hit, Idle
<1> QED
  BY <1>1, <1>2, <1>3, <1>4

(* A restart keeps no enabled and satisfiable breakpoint without a         *)
(* location, except one whose expression has no value in the new process:  *)
(* those that can not be set again are discarded.  For any targets, places *)
(* and faults.                                                             *)
THEOREM RestartDiscards == Spec => RestartDiscardsUnset
<1>1. Init => Typed /\ Restoring
  <2>1. Init => Restoring
    BY DEF Init, Restoring
  <2> QED
    BY <2>1, InitTyped
<1>2. Typed /\ Restoring /\ [Next]_vars => (Typed /\ Restoring)'
  BY NextTyped, NextRestoring
<1>3. Typed /\ Restoring /\ [Next]_vars =>
        [phase = "restarting" /\ phase' = "stopped" =>
           \A id \in DOMAIN lbps : lbps[id].enabled /\ lbps[id].condSatisfiable =>
             \/ Located(phys, 1, id) # {}
             \/ lbps[id].set \in ExprLocs /\ Resolve(lbps[id].set, 1) = <<>>]_vars
  <2> SUFFICES ASSUME Restoring, Next, phase = "restarting", phase' = "stopped",
                      NEW id \in DOMAIN lbps, Good(lbps[id])
               PROVE  \/ Located(phys, 1, id) # {}
                      \/ lbps[id].set \in ExprLocs /\ Resolve(lbps[id].set, 1) = <<>>
    BY DEF Good
  <2>1. RestartDone
    BY ZenonT(60) DEF Next, CreateBreakpoint, CreateWatchpoint, AmendBreakpoint, ClearBreakpoint, ManageOne,
           Materialize, Continue, ManageDone, Stop, Spawn, MaterializeDone, Restart, RestartOne,
           Exit,
           PluginOpen, Hit, Idle
  <2>2. id \notin todo
    BY <2>1 DEF RestartDone
  <2> QED
    BY <2>2 DEF Restoring, Nowhere, Resolve
<1> QED
  BY <1>1, <1>2, <1>3, PTL DEF Spec, RestartDiscardsUnset

(***************************************************************************)
(* Locations of breakpoints that are disabled or unsatisfiable.  On the    *)
(* targets that have not exited there are none.                            *)
(***************************************************************************)
Live == {t \in Targets : st[t] # "exited"}

Clean(L, p, S) ==
  \A t \in S : \A a \in DOMAIN p[t] : p[t][a] \in DOMAIN L => Good(L[p[t][a]])

Empty(p, S) == \A t \in S : DOMAIN p[t] = {}

Absent(p, S, id) == \A t \in S : \A a \in DOMAIN p[t] : p[t][a] # id

(* The map M is L but for id, which has become b if it is still there.     *)
Revised(L, M, id, b) ==
  /\ \A j \in DOMAIN M : j # id => j \in DOMAIN L /\ M[j] = L[j]
  /\ id \in DOMAIN M => M[id] = b

LEMMA FreshClean ==
  ASSUME NEW L, NEW M, NEW p, NEW q, NEW id, NEW b, NEW S \in SUBSET Targets,
         Clean(L, p, S), Absent(p, S, id), Changed(p, q, id, b), Revised(L, M, id, b)
  PROVE  Clean(M, q, S)
<1> SUFFICES ASSUME NEW t \in S, NEW a \in DOMAIN q[t], q[t][a] \in DOMAIN M
             PROVE  Good(M[q[t][a]])
  BY DEF Clean
<1>1. t \in Targets
  OBVIOUS
<1>2. \/ a \in DOMAIN p[t] /\ q[t][a] = p[t][a]
      \/ q[t][a] = id /\ Good(b)
  BY <1>1 DEF Changed
<1>3. CASE a \in DOMAIN p[t] /\ q[t][a] = p[t][a]
  <2>1. p[t][a] # id
    BY <1>3 DEF Absent
  <2>2. PICK j \in DOMAIN M : j = q[t][a]
    OBVIOUS
  <2>3. j \in DOMAIN L /\ M[j] = L[j]
    BY <1>3, <2>1, <2>2 DEF Revised
  <2>4. Good(L[j])
    BY <1>3, <2>2, <2>3 DEF Clean
  <2> QED
    BY <2>2, <2>3, <2>4
<1>4. CASE q[t][a] = id /\ Good(b)
  <2>1. M[id] = b
    BY <1>4 DEF Revised
  <2> QED
    BY <1>4, <2>1
<1> QED
  BY <1>2, <1>3, <1>4

LEMMA ChangedEmpty ==
  ASSUME NEW p, NEW q, NEW id, NEW b, Empty(p, Targets \ Group), Changed(p, q, id, b)
  PROVE  Empty(q, Targets \ Group)
<1> SUFFICES ASSUME NEW t \in Targets \ Group, NEW a \in DOMAIN q[t] PROVE FALSE
  BY DEF Empty
<1>1. a \in DOMAIN p[t] \/ t \in Group
  BY DEF Changed
<1>2. DOMAIN p[t] = {}
  BY DEF Empty
<1> QED
  BY <1>1, <1>2

LEMMA ChangedKnown ==
  ASSUME NEW p, NEW q, NEW id, NEW b, Changed(p, q, id, b), NEW K, id \in K,
         \A t \in Targets : \A a \in DOMAIN p[t] : p[t][a] \in K
  PROVE  \A t \in Targets : \A a \in DOMAIN q[t] : q[t][a] \in K
<1> SUFFICES ASSUME NEW t \in Targets, NEW a \in DOMAIN q[t] PROVE q[t][a] \in K
  OBVIOUS
<1>1. (a \in DOMAIN p[t] /\ q[t][a] = p[t][a]) \/ q[t][a] = id
  BY DEF Changed
<1> QED
  BY <1>1

LEMMA LiveValid ==
  ASSUME NEW p, Empty(p, Targets \ Group), NEW t \in Live, NEW a \in DOMAIN p[t]
  PROVE  t \in Valid
<1>1. t \in Targets /\ st[t] # "exited"
  BY DEF Live
<1>2. t \in Group
  BY <1>1 DEF Empty
<1> QED
  BY <1>1, <1>2 DEF Valid, Group

LEMMA DropRevised ==
  ASSUME NEW L, NEW M, NEW id, NEW b, Revised(L, M, id, b)
  PROVE  Revised(L, Drop(M, {id}), id, b)
<1>1. DOMAIN Drop(M, {id}) = DOMAIN M \ {id} /\ \A j \in DOMAIN M \ {id} : Drop(M, {id})[j] = M[j]
  BY DEF Drop
<1>2. id \notin DOMAIN Drop(M, {id})
  BY <1>1
<1>3. ASSUME NEW j \in DOMAIN Drop(M, {id}), j # id PROVE j \in DOMAIN L /\ Drop(M, {id})[j] = L[j]
  <2>1. j \in DOMAIN M /\ Drop(M, {id})[j] = M[j]
    BY <1>1, <1>3
  <2>2. j \in DOMAIN L /\ M[j] = L[j]
    BY <1>3, <2>1 DEF Revised
  <2> QED
    BY <2>1, <2>2
<1> QED
  BY <1>2, <1>3 DEF Revised

LEMMA CleanSubmap ==
  ASSUME NEW L, NEW id, NEW p, NEW S, Clean(L, p, S)
  PROVE  Clean(Drop(L, {id}), p, S)
<1>1. \A j \in DOMAIN Drop(L, {id}) : j \in DOMAIN L /\ Drop(L, {id})[j] = L[j]
  BY DEF Drop
<1> SUFFICES ASSUME NEW t \in S, NEW a \in DOMAIN p[t], p[t][a] \in DOMAIN Drop(L, {id})
             PROVE  Good(Drop(L, {id})[p[t][a]])
  BY DEF Clean
<1>2. PICK j \in DOMAIN Drop(L, {id}) : j = p[t][a]
  OBVIOUS
<1>3. j \in DOMAIN L /\ Drop(L, {id})[j] = L[j]
  BY <1>1
<1>4. Good(L[j])
  BY <1>2, <1>3 DEF Clean
<1> QED
  BY <1>2, <1>3, <1>4

(* An operation on one breakpoint leaves none behind.                      *)
LEMMA TouchedClean ==
  ASSUME NEW L, NEW p, NEW id \in DOMAIN L, NEW o, Touched(L, p, id, o),
         Clean(L, p, Live), Empty(p, Targets \ Group)
  PROVE  Clean(o.L, o.p, Live) /\ Empty(o.p, Targets \ Group)
<1>1. PICK M :
        /\ Flagged(L, M, id)
        /\ \/ /\ o.L = M /\ o.p = p
              /\ M[id].enabled = L[id].enabled /\ M[id].condSatisfiable = L[id].condSatisfiable
           \/ ~Good(L[id]) /\ M[id].enabled /\ \E e \in Enabled(M, p, id) : o.L = e.L /\ o.p = e.p
           \/ ~Good(M[id]) /\ \E e \in Disabled(M, p, id) : o.L = e.L /\ o.p = e.p
  BY DEF Touched
<1>2. /\ DOMAIN M = DOMAIN L /\ M[id] \in LogicalBreakpoint
      /\ \A j \in DOMAIN L : j # id => M[j] = L[j]
  BY <1>1 DEF Flagged
<1>3. Revised(L, M, id, M[id])
  BY <1>2 DEF Revised
<1>4. Live \subseteq Targets
  BY DEF Live
<1>5. Empty(o.p, Targets \ Group)
  <2>1. PICK b : Changed(p, o.p, id, b)
    BY TouchedChanges
  <2> QED
    BY <2>1, ChangedEmpty
<1>6. CASE /\ o.L = M /\ o.p = p
           /\ M[id].enabled = L[id].enabled /\ M[id].condSatisfiable = L[id].condSatisfiable
  <2> SUFFICES ASSUME NEW t \in Live, NEW a \in DOMAIN p[t], p[t][a] \in DOMAIN M
               PROVE  Good(M[p[t][a]])
    BY <1>5, <1>6 DEF Clean
  <2>1. PICK j \in DOMAIN L : j = p[t][a]
    BY <1>2
  <2>2. Good(L[j])
    BY <2>1 DEF Clean
  <2>3. CASE j = id
    BY <1>6, <2>1, <2>2, <2>3 DEF Good
  <2>4. CASE j # id
    BY <1>2, <2>1, <2>2, <2>4
  <2> QED
    BY <2>3, <2>4
<1>7. CASE ~Good(L[id]) /\ \E e \in Enabled(M, p, id) : o.L = e.L /\ o.p = e.p
  <2>1. PICK e \in Enabled(M, p, id) : o.L = e.L /\ o.p = e.p
    BY <1>7
  <2>2. e.L = M /\ Changed(p, e.p, id, M[id])
    BY <1>2, EnabledOutcome
  <2>3. Absent(p, Live, id)
    BY <1>7 DEF Absent, Clean
  <2>4. Clean(M, e.p, Live)
    BY <1>3, <1>4, <2>2, <2>3, FreshClean
  <2> QED
    BY <1>5, <2>1, <2>2, <2>4
<1>8. CASE ~Good(M[id]) /\ \E e \in Disabled(M, p, id) : o.L = e.L /\ o.p = e.p
  <2>1. PICK e \in Disabled(M, p, id) : o.L = e.L /\ o.p = e.p
    BY <1>8
  <2>2. e.p = Without(p, id) /\ (e.L = M \/ e.L = Drop(M, {id}))
    BY DisabledOutcome
  <2>3. Clean(M, Without(p, id), Live)
    <3> DEFINE q == Without(p, id)
    <3>1. Shrunk(p, q, id) /\ Cleared(q, id)
      BY WithoutShrinks
    <3>2. Empty(q, Targets \ Group)
      BY <1>5, <2>1, <2>2
    <3> HIDE DEF q
    <3> SUFFICES ASSUME NEW t \in Live, NEW a \in DOMAIN q[t], q[t][a] \in DOMAIN M
                 PROVE  Good(M[q[t][a]])
      BY DEF Clean, q
    <3>3. a \in DOMAIN p[t] /\ q[t][a] = p[t][a]
      BY <1>4, <3>1 DEF Shrunk
    <3>4. t \in Valid
      BY <3>2, LiveValid
    <3>5. q[t][a] # id
      BY <3>1, <3>4 DEF Cleared, Located
    <3>6. PICK j \in DOMAIN L : j = p[t][a] /\ j # id
      BY <1>2, <3>3, <3>5
    <3>7. Good(L[j])
      BY <3>3, <3>6 DEF Clean
    <3> QED
      BY <1>2, <3>3, <3>6, <3>7
  <2>4. Clean(Drop(M, {id}), Without(p, id), Live)
    BY <2>3, CleanSubmap
  <2> QED
    BY <1>5, <2>1, <2>2, <2>3, <2>4
<1> QED
  BY <1>1, <1>6, <1>7, <1>8

LEMMA AmendClean ==
  ASSUME Typed, NEW id \in DOMAIN lbps, AmendEffect(id),
         Clean(lbps, phys, Live), Empty(phys, Targets \ Group)
  PROVE  Clean(lbps', phys', Live) /\ Empty(phys', Targets \ Group)
<1>1. PICK c : /\ Touched(lbps, phys, id, c)
               /\ \/ lbps' = c.L /\ phys' = c.p
                  \/ /\ id \in DOMAIN c.L
                     /\ \E o : Touched(c.L, c.p, id, o) /\ lbps' = o.L /\ phys' = o.p
  BY DEF AmendEffect
<1>2. Clean(c.L, c.p, Live) /\ Empty(c.p, Targets \ Group)
  BY <1>1, TouchedClean
<1>3. CASE lbps' = c.L /\ phys' = c.p
  BY <1>2, <1>3
<1>4. CASE /\ id \in DOMAIN c.L
           /\ \E o : Touched(c.L, c.p, id, o) /\ lbps' = o.L /\ phys' = o.p
  <2>1. PICK o : Touched(c.L, c.p, id, o) /\ lbps' = o.L /\ phys' = o.p
    BY <1>4
  <2>2. Clean(o.L, o.p, Live) /\ Empty(o.p, Targets \ Group)
    BY <1>2, <1>4, <2>1, TouchedClean
  <2> QED
    BY <2>1, <2>2
<1> QED
  BY <1>1, <1>3, <1>4

LEMMA ClearClean ==
  ASSUME Typed, NEW id \in DOMAIN lbps, ClearEffect(id),
         Clean(lbps, phys, Live), Empty(phys, Targets \ Group)
  PROVE  Clean(lbps', phys', Live) /\ Empty(phys', Targets \ Group)
<1>1. PICK o : /\ Touched(lbps, phys, id, o) /\ phys' = o.p
               /\ lbps' = o.L \/ lbps' = Drop(o.L, {id})
  BY DEF ClearEffect
<1>2. Clean(o.L, o.p, Live) /\ Empty(o.p, Targets \ Group)
  BY <1>1, TouchedClean
<1>3. Clean(Drop(o.L, {id}), o.p, Live)
  BY <1>2, CleanSubmap
<1> QED
  BY <1>1, <1>2, <1>3

(* A new breakpoint.                                                       *)
LEMMA CreateClean ==
  ASSUME NEW id, NEW l, CreateEffect(id, l), Absent(phys, Targets, id), id \notin DOMAIN lbps,
         Clean(lbps, phys, Live), Empty(phys, Targets \ Group)
  PROVE  Clean(lbps', phys', Live) /\ Empty(phys', Targets \ Group)
<1>1. PICK M :
        /\ Added(lbps, M, id)
        /\ \/ lbps' = M /\ phys' = phys /\ ~M[id].enabled
           \/ \E o \in Enabled(M, phys, id) : phys' = o.p /\ (lbps' = M \/ lbps' = Drop(M, {id}))
  BY DEF CreateEffect
<1>2. /\ DOMAIN M = DOMAIN lbps \cup {id} /\ M[id] \in LogicalBreakpoint
      /\ \A j \in DOMAIN lbps : j # id => M[j] = lbps[j]
  BY <1>1 DEF Added
<1>3. Revised(lbps, M, id, M[id]) /\ Revised(lbps, Drop(M, {id}), id, M[id])
  <2>1. Revised(lbps, M, id, M[id])
    BY <1>2 DEF Revised
  <2> QED
    BY <2>1, DropRevised
<1>4. Changed(phys, phys', id, M[id])
  <2>1. CASE phys' = phys
    BY <2>1, SameChanges
  <2>2. CASE \E o \in Enabled(M, phys, id) : phys' = o.p
    <3>1. PICK o \in Enabled(M, phys, id) : phys' = o.p
      BY <2>2
    <3>2. o.L = M /\ Changed(phys, o.p, id, M[id])
      BY <1>2, EnabledOutcome
    <3> QED
      BY <3>1, <3>2
  <2> QED
    BY <1>1, <2>1, <2>2
<1>5. Revised(lbps, lbps', id, M[id])
  BY <1>1, <1>3
<1>6. Live \in SUBSET Targets /\ Absent(phys, Live, id)
  BY DEF Live, Absent
<1> QED
  BY <1>4, <1>5, <1>6, FreshClean, ChangedEmpty

LEMMA RestoreClean ==
  ASSUME NEW id \in DOMAIN lbps, RestoreEffect(id), Absent(phys, Targets, id),
         Clean(lbps, phys, Live), Empty(phys, Targets \ Group)
  PROVE  /\ Clean(lbps', phys', Live) /\ Empty(phys', Targets \ Group)
         /\ \E b : Changed(phys, phys', id, b)
<1>1. PICK M, o : /\ Flagged(lbps, M, id) /\ o \in enableBreakpoint(phys, id, M[id])
                  /\ phys' = o.p /\ (lbps' = M \/ lbps' = Drop(M, {id}))
  BY DEF RestoreEffect
<1>2. /\ DOMAIN M = DOMAIN lbps /\ M[id] \in LogicalBreakpoint
      /\ \A j \in DOMAIN lbps : j # id => M[j] = lbps[j]
  BY <1>1 DEF Flagged
<1>3. Revised(lbps, M, id, M[id]) /\ Revised(lbps, Drop(M, {id}), id, M[id])
  <2>1. Revised(lbps, M, id, M[id])
    BY <1>2 DEF Revised
  <2> QED
    BY <2>1, DropRevised
<1>4. Changed(phys, phys', id, M[id])
  BY <1>1, <1>2, EnableChanges
<1>5. Revised(lbps, lbps', id, M[id])
  BY <1>1, <1>3
<1>6. Live \in SUBSET Targets /\ Absent(phys, Live, id)
  BY DEF Live, Absent
<1> QED
  BY <1>4, <1>5, <1>6, FreshClean, ChangedEmpty

(***************************************************************************)
(* The invariant.  IDs in use have been given out, a process has no        *)
(* locations before it is added, one process is added at a time, and       *)
(* Restart enables breakpoints that have no location.                      *)
(***************************************************************************)
Numbered ==
  /\ \A id \in DOMAIN lbps : id \in 1 .. counter
  /\ \A t \in Targets : \A a \in DOMAIN phys[t] : phys[t][a] \in 1 .. counter

Stages ==
  /\ \A t \in Targets : st[t] = "none" => DOMAIN phys[t] = {}
  /\ \A t \in Targets : st[t] = "adding" => phase = "adding" /\ t = at
  /\ phase = "adding" => st[at] = "adding"
  /\ phase = "plugin" => st[at] = "valid"

Awaited == phase = "restarting" => \A id \in todo : Absent(phys, Targets, id)

NoStale == Typed /\ Numbered /\ Stages /\ Awaited /\ Clean(lbps, phys, Live)

LEMMA OutsideEmpty ==
  ASSUME Typed, Stages, phase # "adding"
  PROVE  Empty(phys, Targets \ Group)
<1> SUFFICES ASSUME NEW t \in Targets \ Group PROVE DOMAIN phys[t] = {}
  BY DEF Empty
<1>1. st[t] \in {"none", "adding", "valid", "exited"}
  BY DEF Typed, Control
<1>2. st[t] # "valid" /\ st[t] # "exited" /\ st[t] # "adding"
  BY DEF Group, Stages
<1> QED
  BY <1>1, <1>2 DEF Stages

(* A step that neither adds nor removes a process.                         *)
LEMMA StagesKept ==
  ASSUME Typed, Stages, st' = st, Empty(phys', Targets \ Group),
         phase \notin {"adding", "plugin"}, phase' \notin {"adding", "plugin"}
  PROVE  Stages'
<1>1. ASSUME NEW t \in Targets, st[t] = "none" PROVE DOMAIN phys'[t] = {}
  <2>1. t \notin Group
    BY <1>1 DEF Group
  <2> QED
    BY <2>1 DEF Empty
<1>2. \A t \in Targets : st[t] # "adding"
  BY DEF Stages
<1> QED
  BY <1>1, <1>2 DEF Stages

LEMMA RangeGrows == ASSUME NEW n \in Nat PROVE n + 1 \notin 1 .. n /\ n + 1 \in 1 .. (n + 1)
                           /\ \A x \in 1 .. n : x \in 1 .. (n + 1)
BY SMTT(30)

LEMMA TouchedKnown ==
  ASSUME NEW L, NEW p, NEW id \in DOMAIN L, NEW o, Touched(L, p, id, o), MapTyped(L), Tables(p),
         NEW K, \A j \in DOMAIN L : j \in K,
         \A t \in Targets : \A a \in DOMAIN p[t] : p[t][a] \in K
  PROVE  /\ \A j \in DOMAIN o.L : j \in K
         /\ \A t \in Targets : \A a \in DOMAIN o.p[t] : o.p[t][a] \in K
<1>1. PICK b : Changed(p, o.p, id, b)
  BY TouchedChanges
<1>2. DOMAIN o.L \subseteq DOMAIN L
  BY TouchedTables
<1>3. \A t \in Targets : \A a \in DOMAIN o.p[t] : o.p[t][a] \in K
  BY <1>1, ChangedKnown
<1> QED
  BY <1>2, <1>3

LEMMA AmendKnown ==
  ASSUME Typed, Numbered, NEW id \in DOMAIN lbps, AmendEffect(id), counter' = counter
  PROVE  Numbered'
<1>1. PICK c : /\ Touched(lbps, phys, id, c)
               /\ \/ lbps' = c.L /\ phys' = c.p
                  \/ /\ id \in DOMAIN c.L
                     /\ \E o : Touched(c.L, c.p, id, o) /\ lbps' = o.L /\ phys' = o.p
  BY DEF AmendEffect
<1> DEFINE K == 1 .. counter
<1>2. /\ \A j \in DOMAIN lbps : j \in K
      /\ \A t \in Targets : \A a \in DOMAIN phys[t] : phys[t][a] \in K
  BY DEF Numbered
<1>3. MapTyped(lbps) /\ Tables(phys)
  BY DEF Typed
<1> HIDE DEF K
<1>4. /\ \A j \in DOMAIN c.L : j \in K
      /\ \A t \in Targets : \A a \in DOMAIN c.p[t] : c.p[t][a] \in K
  BY <1>1, <1>2, <1>3, TouchedKnown
<1>5. MapTyped(c.L) /\ Tables(c.p)
  BY <1>1, <1>3, TouchedTables
<1>6. /\ \A j \in DOMAIN lbps' : j \in K
      /\ \A t \in Targets : \A a \in DOMAIN phys'[t] : phys'[t][a] \in K
  <2>1. CASE lbps' = c.L /\ phys' = c.p
    BY <1>4, <2>1
  <2>2. CASE id \in DOMAIN c.L /\ \E o : Touched(c.L, c.p, id, o) /\ lbps' = o.L /\ phys' = o.p
    <3>1. PICK o : Touched(c.L, c.p, id, o) /\ lbps' = o.L /\ phys' = o.p
      BY <2>2
    <3>2. /\ \A j \in DOMAIN o.L : j \in K
          /\ \A t \in Targets : \A a \in DOMAIN o.p[t] : o.p[t][a] \in K
      BY <1>4, <1>5, <2>2, <3>1, TouchedKnown, ZenonT(60)
    <3> QED
      BY <3>1, <3>2
  <2> QED
    BY <1>1, <2>1, <2>2
<1> QED
  BY <1>6 DEF Numbered, K

LEMMA ClearKnown ==
  ASSUME Typed, Numbered, NEW id \in DOMAIN lbps, ClearEffect(id), counter' = counter
  PROVE  Numbered'
<1>1. PICK o : /\ Touched(lbps, phys, id, o) /\ phys' = o.p
               /\ lbps' = o.L \/ lbps' = Drop(o.L, {id})
  BY DEF ClearEffect
<1> DEFINE K == 1 .. counter
<1>2. /\ \A j \in DOMAIN lbps : j \in K
      /\ \A t \in Targets : \A a \in DOMAIN phys[t] : phys[t][a] \in K
  BY DEF Numbered
<1>3. MapTyped(lbps) /\ Tables(phys)
  BY DEF Typed
<1> HIDE DEF K
<1>4. /\ \A j \in DOMAIN o.L : j \in K
      /\ \A t \in Targets : \A a \in DOMAIN o.p[t] : o.p[t][a] \in K
  BY <1>1, <1>2, <1>3, TouchedKnown
<1>5. DOMAIN Drop(o.L, {id}) \subseteq DOMAIN o.L
  BY DEF Drop
<1> QED
  BY <1>1, <1>4, <1>5 DEF Numbered, K

(* A breakpoint with the next ID: no location has it.                      *)
LEMMA CreateKnown ==
  ASSUME Typed, Numbered, NEW id \in IDs, NEW l, CreateEffect(id, l), counter' = id, id = counter + 1
  PROVE  Numbered' /\ Absent(phys, Targets, id) /\ id \notin DOMAIN lbps
<1>1. counter \in Nat
  BY SMTT(30) DEF Typed, Control
<1>2. /\ counter + 1 \notin 1 .. counter /\ counter + 1 \in 1 .. (counter + 1)
      /\ \A x \in 1 .. counter : x \in 1 .. (counter + 1)
  BY <1>1, RangeGrows
<1>3. Absent(phys, Targets, id) /\ id \notin DOMAIN lbps
  BY <1>2 DEF Absent, Numbered
<1>4. PICK M :
        /\ Added(lbps, M, id)
        /\ \/ phys' = phys
           \/ \E o \in Enabled(M, phys, id) : phys' = o.p
  BY DEF CreateEffect
<1>5. M[id] \in LogicalBreakpoint
  BY <1>4 DEF Added
<1>6. Changed(phys, phys', id, M[id])
  <2>1. CASE phys' = phys
    BY <2>1, SameChanges
  <2>2. CASE \E o \in Enabled(M, phys, id) : phys' = o.p
    <3>1. PICK o \in Enabled(M, phys, id) : phys' = o.p
      BY <2>2
    <3>2. o.L = M /\ Changed(phys, o.p, id, M[id])
      BY <1>5, EnabledOutcome
    <3> QED
      BY <3>1, <3>2
  <2> QED
    BY <1>4, <2>1, <2>2
<1> DEFINE K == 1 .. (counter + 1)
<1>7. id \in K /\ \A t \in Targets : \A a \in DOMAIN phys[t] : phys[t][a] \in K
  BY <1>2 DEF Numbered
<1>8. \A j \in DOMAIN lbps' : j \in K
  <2>1. DOMAIN lbps' \subseteq DOMAIN lbps \cup {id}
    BY CreateTyped
  <2> QED
    BY <1>2, <2>1 DEF Numbered
<1>9. counter' = counter + 1
  OBVIOUS
<1> HIDE DEF K
<1>10. \A t \in Targets : \A a \in DOMAIN phys'[t] : phys'[t][a] \in K
  BY <1>6, <1>7, ChangedKnown
<1>11. Numbered'
  BY <1>8, <1>9, <1>10 DEF Numbered, K
<1> QED
  BY <1>3, <1>11

(* A watchpoint, with the next ID as well, is enabled.                     *)
LEMMA WatchClean ==
  ASSUME NoStale, NEW a \in WatchAddrs, NEW ok, CreateWatchpoint(a, ok)
  PROVE  /\ Numbered' /\ Clean(lbps', phys', Live)
         /\ Empty(phys, Targets \ Group) => Empty(phys', Targets \ Group)
<1> DEFINE n == counter + 1
           new == [set |-> NoSet, enabled |-> TRUE, condSatisfiable |-> TRUE,
                   hitCond |-> 0, cond |-> 0, condUsesHitCounts |-> FALSE, TotalHitCount |-> 0]
<1>1. /\ counter' = n /\ 1 \in Targets /\ counter \in Nat /\ st[1] = "valid"
      /\ Numbered /\ Clean(lbps, phys, Live) /\ DOMAIN phys = Targets
  BY LogicalAssumption, SMTT(30) DEF CreateWatchpoint, NoStale, Typed, Control, Targets, Tables
<1>2. /\ n \notin 1 .. counter /\ n \in 1 .. n /\ \A x \in 1 .. counter : x \in 1 .. n
  BY <1>1, RangeGrows
<1>3. n \notin DOMAIN lbps
  BY <1>1, <1>2 DEF Numbered
<1>4. \/ UNCHANGED <<lbps, phys>>
      \/ /\ phys' = [phys EXCEPT ![1] = Put(phys[1], a, n)]
         /\ lbps' = Put(lbps, n, new)
  BY <1>1, <1>3 DEF CreateWatchpoint
<1>5. Good(new)
  BY DEF Good
<1> HIDE DEF new
<1>6. CASE UNCHANGED <<lbps, phys>>
  BY <1>1, <1>2, <1>6 DEF Numbered
<1>7. CASE /\ phys' = [phys EXCEPT ![1] = Put(phys[1], a, n)]
           /\ lbps' = Put(lbps, n, new)
  <2> HIDE DEF n
  <2>1. /\ DOMAIN lbps' = DOMAIN lbps \cup {n} /\ lbps'[n] = new
        /\ \A j \in DOMAIN lbps : j # n => lbps'[j] = lbps[j]
    BY <1>7 DEF Put
  <2>2. /\ DOMAIN phys'[1] = DOMAIN phys[1] \cup {a} /\ phys'[1][a] = n
        /\ \A y \in DOMAIN phys[1] : y # a => phys'[1][y] = phys[1][y]
        /\ \A t \in Targets : t # 1 => phys'[t] = phys[t]
    BY <1>1, <1>7 DEF Put
  <2>3. ASSUME NEW t \in Targets, NEW y \in DOMAIN phys'[t]
        PROVE  phys'[t][y] = n \/ (y \in DOMAIN phys[t] /\ phys'[t][y] = phys[t][y])
    BY <2>2, <2>3
  <2>4. Numbered'
    BY <1>1, <1>2, <2>1, <2>3 DEF Numbered
  <2>5. Clean(lbps', phys', Live)
    <3> SUFFICES ASSUME NEW t \in Live, NEW y \in DOMAIN phys'[t], phys'[t][y] \in DOMAIN lbps'
                 PROVE  Good(lbps'[phys'[t][y]])
      BY DEF Clean
    <3>1. t \in Targets
      BY DEF Live
    <3>2. CASE phys'[t][y] = n
      BY <1>5, <2>1, <3>2
    <3>3. CASE phys'[t][y] # n
      <4>1. PICK j \in DOMAIN lbps :
              j # n /\ y \in DOMAIN phys[t] /\ phys'[t][y] = j /\ phys[t][y] = j
        BY <2>1, <2>3, <3>1, <3>3
      <4>2. Good(lbps[j])
        BY <1>1, <4>1 DEF Clean
      <4> QED
        BY <2>1, <4>1, <4>2
    <3> QED
      BY <3>2, <3>3
  <2>6. ASSUME Empty(phys, Targets \ Group) PROVE Empty(phys', Targets \ Group)
    <3>1. 1 \in Group
      BY <1>1 DEF Group
    <3> QED
      BY <2>2, <2>6, <3>1 DEF Empty
  <2> QED
    BY <2>4, <2>5, <2>6
<1> QED
  BY <1>4, <1>6, <1>7

(* A process is added, or has opened a plugin.                             *)
LEMMA MaterializeClean ==
  ASSUME NoStale, NEW id \in DOMAIN lbps, EnableOne(id), UNCHANGED <<lbps, counter, st, phase, at>>,
         phase \in {"adding", "plugin"}
  PROVE  Numbered' /\ Stages' /\ Clean(lbps', phys', Live)
<1>1. /\ \A u \in Targets : u # at => phys'[u] = phys[u]
      /\ phys'[at] = phys[at] \/ Extends(phys[at], phys'[at], at, id, lbps[id])
      /\ at \in Targets /\ Typed /\ Numbered /\ Stages /\ Clean(lbps, phys, Live)
  BY MaterializeTyped DEF NoStale, Typed, Control
<1>2. ASSUME NEW t \in Targets, NEW y \in DOMAIN phys'[t]
      PROVE  \/ y \in DOMAIN phys[t] /\ phys'[t][y] = phys[t][y]
             \/ phys'[t][y] = id /\ Good(lbps[id])
  BY <1>1, <1>2 DEF Extends
<1>3. Numbered'
  BY <1>1, <1>2 DEF Numbered
<1>4. Clean(lbps', phys', Live)
  <2> SUFFICES ASSUME NEW t \in Live, NEW y \in DOMAIN phys'[t], phys'[t][y] \in DOMAIN lbps
               PROVE  Good(lbps[phys'[t][y]])
    BY DEF Clean
  <2>1. t \in Targets
    BY DEF Live
  <2> QED
    BY <1>1, <1>2, <2>1 DEF Clean
<1>5. st[at] # "none"
  <2>1. st[at] = "adding" \/ st[at] = "valid"
    BY <1>1 DEF Stages
  <2> QED
    BY <2>1
<1>6. Stages'
  BY <1>1, <1>5 DEF Stages
<1> QED
  BY <1>3, <1>4, <1>6

(* Restart enables a breakpoint.                                           *)
LEMMA RestoreKnown ==
  ASSUME NoStale, phase = "restarting", NEW id \in DOMAIN lbps, id \in todo, RestoreEffect(id),
         todo' = todo \ {id}, UNCHANGED <<counter, st, phase, at>>
  PROVE  Numbered' /\ Stages' /\ Awaited' /\ Clean(lbps', phys', Live)
<1>1. /\ Typed /\ Numbered /\ Stages /\ Clean(lbps, phys, Live)
      /\ \A j \in todo : Absent(phys, Targets, j)
  BY DEF NoStale, Awaited
<1>2. phase \notin {"adding", "plugin"}
  OBVIOUS
<1>3. Empty(phys, Targets \ Group)
  BY <1>1, <1>2, OutsideEmpty
<1>4. /\ Clean(lbps', phys', Live) /\ Empty(phys', Targets \ Group)
      /\ \E b : Changed(phys, phys', id, b)
  BY <1>1, <1>3, RestoreClean
<1>5. PICK b : Changed(phys, phys', id, b)
  BY <1>4
<1>6. DOMAIN lbps' \subseteq DOMAIN lbps
  BY <1>1, RestoreTyped
<1> DEFINE K == 1 .. counter
<1>7. id \in K /\ \A t \in Targets : \A a \in DOMAIN phys[t] : phys[t][a] \in K
  BY <1>1 DEF Numbered
<1> HIDE DEF K
<1>8. \A t \in Targets : \A a \in DOMAIN phys'[t] : phys'[t][a] \in K
  BY <1>5, <1>7, ChangedKnown
<1>9. Numbered'
  BY <1>1, <1>6, <1>8 DEF Numbered, K
<1>10. Stages'
  BY <1>1, <1>2, <1>4, StagesKept
<1>11. ASSUME NEW j \in todo' PROVE Absent(phys', Targets, j)
  <2>1. j # id /\ Absent(phys, Targets, j)
    BY <1>1
  <2> SUFFICES ASSUME NEW t \in Targets, NEW a \in DOMAIN phys'[t] PROVE phys'[t][a] # j
    BY DEF Absent
  <2>2. (a \in DOMAIN phys[t] /\ phys'[t][a] = phys[t][a]) \/ phys'[t][a] = id
    BY <1>5 DEF Changed
  <2> QED
    BY <2>1, <2>2 DEF Absent
<1> QED
  BY <1>4, <1>9, <1>10, <1>11 DEF Awaited

LEMMA InitStale == Init => NoStale
<1> SUFFICES ASSUME Init PROVE NoStale
  OBVIOUS
<1>1. Typed
  BY InitTyped
<1>2. /\ DOMAIN lbps = {} /\ \A t \in Targets : DOMAIN phys[t] = {}
      /\ \A t \in Targets : st[t] # "adding"
  BY DEF Init, NoLocations
<1>3. phase = "stopped"
  BY DEF Init
<1>4. Numbered /\ Clean(lbps, phys, Live)
  BY <1>2 DEF Numbered, Clean, Live
<1>5. Stages /\ Awaited
  BY <1>2, <1>3 DEF Stages, Awaited
<1> QED
  BY <1>1, <1>4, <1>5 DEF NoStale

LEMMA NextStale ==
  ASSUME ReqIDs \subseteq {0}
  PROVE  NoStale /\ [Next]_vars => NoStale'
<1> SUFFICES ASSUME NoStale, [Next]_vars
             PROVE  Numbered' /\ Stages' /\ Awaited' /\ Clean(lbps', phys', Live')
  BY NextTyped DEF NoStale
<1>a. /\ Typed /\ Numbered /\ Stages /\ Awaited /\ Clean(lbps, phys, Live) /\ TypeOK
      /\ MapTyped(lbps) /\ Tables(phys)
  BY TypedIsTypeOK DEF NoStale, Typed
<1>b. ASSUME phase # "adding" PROVE Empty(phys, Targets \ Group)
  BY <1>a, <1>b, OutsideEmpty
<1>c. ASSUME phase' # "restarting" PROVE Awaited'
  BY <1>c DEF Awaited
<1>d. ASSUME st' = st PROVE Live' = Live
  BY <1>d DEF Live
<1>e. ASSUME phase = "stopped", Idle, Numbered', Empty(phys', Targets \ Group),
             Clean(lbps', phys', Live)
      PROVE  Numbered' /\ Stages' /\ Awaited' /\ Clean(lbps', phys', Live')
  <2>1. phase' = "stopped" /\ st' = st
    BY <1>e DEF Idle
  <2>2. phase \notin {"adding", "plugin"} /\ phase' \notin {"adding", "plugin"} /\ phase' # "restarting"
    BY <1>e, <2>1
  <2>3. Stages'
    BY <1>a, <1>e, <2>1, <2>2, StagesKept
  <2> QED
    BY <1>c, <1>d, <1>e, <2>1, <2>2, <2>3
<1>g. ASSUME phase = "stopped" PROVE Empty(phys, Targets \ Group)
  <2>1. phase # "adding"
    BY <1>g
  <2> QED
    BY <1>b, <2>1
<1>1. ASSUME NEW req \in ReqIDs, NEW l \in Locs, NEW hc \in HitConds, NEW dep \in Deps,
             NEW bad \in ParseErrors \cup {"nil"}, NEW s \in Suspend,
             CreateBreakpoint(req, l, hc, dep, bad, s)
      PROVE  Numbered' /\ Stages' /\ Awaited' /\ Clean(lbps', phys', Live')
  <2>1. PICK id \in IDs : counter' = id /\ (req = 0 => id = counter + 1) /\ CreateEffect(id, l)
    BY <1>a, <1>1, CreateEffects, ZenonT(30)
  <2>2. req = 0
    BY <1>1
  <2>3. Numbered' /\ Absent(phys, Targets, id) /\ id \notin DOMAIN lbps
    BY <1>a, <2>1, <2>2, CreateKnown
  <2>4. phase = "stopped" /\ Idle
    BY <1>1 DEF CreateBreakpoint
  <2>5. Clean(lbps', phys', Live) /\ Empty(phys', Targets \ Group)
    BY <1>a, <1>g, <2>1, <2>3, <2>4, CreateClean
  <2> QED
    BY <1>e, <2>3, <2>4, <2>5
<1>2. ASSUME NEW a \in WatchAddrs, NEW ok \in BOOLEAN, CreateWatchpoint(a, ok)
      PROVE  Numbered' /\ Stages' /\ Awaited' /\ Clean(lbps', phys', Live')
  <2>1. phase = "stopped" /\ Idle
    BY <1>2 DEF CreateWatchpoint
  <2>2. Numbered' /\ Clean(lbps', phys', Live) /\ Empty(phys', Targets \ Group)
    BY <1>2, <1>g, <2>1, WatchClean
  <2> QED
    BY <1>e, <2>1, <2>2
<1>3. ASSUME NEW id \in IDs, NEW disable \in BOOLEAN, NEW hc \in HitConds, NEW dep \in Deps,
             NEW bad \in ParseErrors \cup {"nil"}, AmendBreakpoint(id, disable, hc, dep, bad)
      PROVE  Numbered' /\ Stages' /\ Awaited' /\ Clean(lbps', phys', Live')
  <2>1. id \in DOMAIN lbps /\ AmendEffect(id)
    BY <1>a, <1>3, AmendEffects
  <2>2. counter' = counter /\ phase = "stopped" /\ Idle
    BY <1>3 DEF AmendBreakpoint
  <2>3. Clean(lbps', phys', Live) /\ Empty(phys', Targets \ Group)
    BY <1>a, <1>g, <2>1, <2>2, AmendClean
  <2>4. Numbered'
    BY <1>a, <2>1, <2>2, AmendKnown
  <2> QED
    BY <1>e, <2>2, <2>3, <2>4
<1>4. ASSUME NEW id \in IDs, ClearBreakpoint(id)
      PROVE  Numbered' /\ Stages' /\ Awaited' /\ Clean(lbps', phys', Live')
  <2>1. id \in DOMAIN lbps /\ ClearEffect(id)
    BY <1>a, <1>4, ClearEffects
  <2>2. counter' = counter /\ phase = "stopped" /\ Idle
    BY <1>4 DEF ClearBreakpoint
  <2>3. Clean(lbps', phys', Live) /\ Empty(phys', Targets \ Group)
    BY <1>a, <1>g, <2>1, <2>2, ClearClean
  <2>4. Numbered'
    BY <1>a, <2>1, <2>2, ClearKnown
  <2> QED
    BY <1>e, <2>2, <2>3, <2>4
<1>5. ASSUME NEW id \in IDs, ManageOne(id)
      PROVE  Numbered' /\ Stages' /\ Awaited' /\ Clean(lbps', phys', Live')
  <2>1. id \in DOMAIN lbps /\ lbps[id] \in LogicalBreakpoint /\ counter' = counter /\ st' = st
    BY <1>a, <1>5 DEF ManageOne, MapTyped
  <2>2. PICK o \in manageUnsatisfiable(id) : lbps' = o.L /\ phys' = o.p
    BY <1>5 DEF ManageOne, Apply
  <2>3. /\ phase \notin {"adding", "plugin"} /\ phase' \notin {"adding", "plugin"}
        /\ phase # "adding" /\ phase' # "restarting"
    BY <1>5 DEF ManageOne
  <2>4. Touched(lbps, phys, id, o)
    BY <2>1, ManageTouches
  <2>5. Clean(lbps', phys', Live) /\ Empty(phys', Targets \ Group)
    BY <1>a, <1>b, <2>1, <2>2, <2>3, <2>4, TouchedClean
  <2>6. Numbered'
    <3> DEFINE K == 1 .. counter
    <3>1. /\ \A j \in DOMAIN lbps : j \in K
          /\ \A t \in Targets : \A a \in DOMAIN phys[t] : phys[t][a] \in K
      BY <1>a DEF Numbered
    <3> HIDE DEF K
    <3>2. /\ \A j \in DOMAIN o.L : j \in K
          /\ \A t \in Targets : \A a \in DOMAIN o.p[t] : o.p[t][a] \in K
      BY <1>a, <2>1, <2>4, <3>1, TouchedKnown
    <3> QED
      BY <2>1, <2>2, <3>2 DEF Numbered, K
  <2>7. Stages'
    BY <1>a, <2>1, <2>3, <2>5, StagesKept
  <2> QED
    BY <1>c, <1>d, <2>1, <2>3, <2>5, <2>6, <2>7
<1>6. ASSUME NEW id \in IDs, Materialize(id)
      PROVE  Numbered' /\ Stages' /\ Awaited' /\ Clean(lbps', phys', Live')
  <2>1. /\ id \in todo /\ phase \in {"adding", "plugin"} /\ EnableOne(id)
        /\ UNCHANGED <<lbps, counter, st, phase, at>>
    BY <1>6 DEF Materialize
  <2>2. phase \in {"adding", "plugin", "restarting"} /\ phase' # "restarting"
    BY <2>1
  <2>3. id \in DOMAIN lbps
    BY <1>a, <2>1, <2>2 DEF Typed, Pending
  <2>4. Numbered' /\ Stages' /\ Clean(lbps', phys', Live)
    BY <2>1, <2>3, MaterializeClean
  <2> QED
    BY <1>c, <1>d, <2>1, <2>2, <2>4
<1>7. ASSUME NEW id \in IDs, RestartOne(id)
      PROVE  Numbered' /\ Stages' /\ Awaited' /\ Clean(lbps', phys', Live')
  <2>1. /\ id \in todo /\ phase = "restarting" /\ Restore(id)
        /\ todo' = todo \ {id} /\ UNCHANGED <<counter, st, phase, at>>
    BY <1>7 DEF RestartOne
  <2>2. phase \in {"adding", "plugin", "restarting"}
    BY <2>1
  <2>3. id \in DOMAIN lbps /\ lbps[id] \in LogicalBreakpoint
    BY <1>a, <2>1, <2>2 DEF Typed, Pending, MapTyped
  <2>4. RestoreEffect(id)
    BY <2>1, <2>3, RestoreEffects
  <2>5. Numbered' /\ Stages' /\ Awaited' /\ Clean(lbps', phys', Live)
    BY <2>1, <2>3, <2>4, RestoreKnown
  <2> QED
    BY <1>d, <2>1, <2>5
<1>8. CASE Continue \/ ManageDone \/ Stop \/ RestartDone \/ \E t \in Targets : PluginOpen(t)
  <2>1. UNCHANGED <<lbps, phys, counter, st>> /\ phase' # "restarting" /\ phase' # "adding"
    BY <1>8 DEF Continue, ManageDone, Stop, RestartDone, PluginOpen
  <2>2. phase # "adding"
    BY <1>8 DEF Continue, ManageDone, Stop, RestartDone, PluginOpen
  <2>3. phase' = "plugin" => st[at'] = "valid"
    BY <1>8 DEF Continue, ManageDone, Stop, RestartDone, PluginOpen, Valid
  <2>4. Stages'
    BY <1>a, <2>1, <2>2, <2>3 DEF Stages
  <2>5. Numbered'
    BY <1>a, <2>1 DEF Numbered
  <2>6. Clean(lbps', phys', Live')
    BY <1>a, <1>d, <2>1
  <2> QED
    BY <1>c, <2>1, <2>4, <2>5, <2>6
<1>9. CASE Spawn
  <2>1. PICK t \in Targets : st[t] = "none" /\ st' = [st EXCEPT ![t] = "adding"] /\ at' = t
    BY <1>9 DEF Spawn
  <2>2. UNCHANGED <<lbps, phys, counter>> /\ phase' = "adding" /\ phase # "adding"
    BY <1>9 DEF Spawn
  <2>3. st'[t] = "adding" /\ \A u \in Targets : u # t => st'[u] = st[u]
    BY <1>a, <2>1 DEF Typed, Control
  <2>4. Live' = Live
    BY <2>1, <2>3 DEF Live
  <2>5. Stages'
    <3>1. \A u \in Targets : st[u] # "adding"
      BY <1>a, <2>2 DEF Stages
    <3>2. \A u \in Targets : st'[u] = "none" => st[u] = "none"
      BY <2>1, <2>3
    <3>3. phase' # "plugin"
      BY <2>2
    <3> QED
      BY <1>a, <2>1, <2>2, <2>3, <3>1, <3>2, <3>3 DEF Stages
  <2>6. Numbered'
    BY <1>a, <2>2 DEF Numbered
  <2>7. Awaited'
    BY <2>2 DEF Awaited
  <2> QED
    BY <1>a, <2>2, <2>4, <2>5, <2>6, <2>7
<1>10. CASE MaterializeDone
  <2>1. /\ st' = [st EXCEPT ![at] = "valid"] /\ phase' = "running" /\ phase \in {"adding", "plugin"}
        /\ UNCHANGED <<lbps, phys, counter, at>>
    BY <1>10 DEF MaterializeDone
  <2>2. at \in Targets /\ st'[at] = "valid" /\ \A u \in Targets : u # at => st'[u] = st[u]
    BY <1>a, <2>1 DEF Typed, Control
  <2>3. st[at] # "exited"
    BY <1>a, <2>1 DEF Stages
  <2>4. Live' = Live
    BY <2>2, <2>3 DEF Live
  <2>5. Stages'
    <3>1. \A u \in Targets : st'[u] # "adding"
      BY <1>a, <2>2 DEF Stages
    <3>2. \A u \in Targets : st'[u] = "none" => st[u] = "none"
      BY <2>2
    <3>3. phase' # "plugin" /\ phase' # "adding"
      BY <2>1
    <3> QED
      BY <1>a, <2>1, <3>1, <3>2, <3>3 DEF Stages
  <2>6. Numbered'
    BY <1>a, <2>1 DEF Numbered
  <2>7. Awaited'
    BY <2>1 DEF Awaited
  <2> QED
    BY <1>a, <2>1, <2>4, <2>5, <2>6, <2>7
<1>11. CASE Restart
  <2>1. DOMAIN lbps' = DOMAIN lbps /\ \A t \in Targets : DOMAIN phys'[t] = {}
    BY <1>a, <1>11, RestartTyped
  <2>2. /\ phase' = "restarting" /\ UNCHANGED counter
        /\ st' = [t \in Targets |-> IF t = 1 THEN "valid" ELSE "none"]
    BY <1>11 DEF Restart
  <2>3. Numbered' /\ Awaited'
    BY <1>a, <2>1, <2>2 DEF Numbered, Awaited, Absent
  <2>4. Clean(lbps', phys', Live')
    BY <2>1 DEF Clean, Live
  <2>5. phase' # "plugin" /\ phase' # "adding" /\ \A t \in Targets : st'[t] # "adding"
    BY <2>2
  <2>6. Stages'
    BY <2>1, <2>5 DEF Stages
  <2> QED
    BY <2>3, <2>4, <2>6
<1>12. ASSUME NEW t \in Targets, Exit(t)
       PROVE  Numbered' /\ Stages' /\ Awaited' /\ Clean(lbps', phys', Live')
  <2>1. /\ st' = [st EXCEPT ![t] = "exited"] /\ phase' = "stopped" /\ phase = "running"
        /\ UNCHANGED <<lbps, phys, counter, at>>
    BY <1>12 DEF Exit
  <2>2. st'[t] = "exited" /\ \A u \in Targets : u # t => st'[u] = st[u]
    BY <1>a, <2>1 DEF Typed, Control
  <2>3. Live' \subseteq Live
    BY <2>2 DEF Live
  <2>4. Stages'
    <3>1. \A u \in Targets : st'[u] # "adding"
      BY <1>a, <2>1, <2>2 DEF Stages
    <3>2. \A u \in Targets : st'[u] = "none" => st[u] = "none"
      BY <2>2
    <3>3. phase' # "plugin" /\ phase' # "adding"
      BY <2>1
    <3> QED
      BY <1>a, <2>1, <3>1, <3>2, <3>3 DEF Stages
  <2>5. Numbered'
    BY <1>a, <2>1 DEF Numbered
  <2>6. Awaited'
    BY <2>1 DEF Awaited
  <2>7. Clean(lbps', phys', Live')
    BY <1>a, <2>1, <2>3 DEF Clean
  <2> QED
    BY <2>4, <2>5, <2>6, <2>7
<1>13. ASSUME NEW t \in Targets, NEW a, Hit(t, a)
       PROVE  Numbered' /\ Stages' /\ Awaited' /\ Clean(lbps', phys', Live')
  <2>1. PICK id \in DOMAIN lbps :
          /\ DOMAIN lbps' = DOMAIN lbps /\ \A j \in DOMAIN lbps : j # id => lbps'[j] = lbps[j]
          /\ lbps'[id].enabled = lbps[id].enabled
          /\ lbps'[id].condSatisfiable = lbps[id].condSatisfiable
    BY <1>a, <1>13, HitTyped
  <2>2. UNCHANGED <<phys, counter, st, phase, todo, at>>
    BY <1>13 DEF Hit
  <2>3. \A j \in DOMAIN lbps : Good(lbps[j]) => Good(lbps'[j])
    BY <2>1 DEF Good
  <2>4. Clean(lbps', phys', Live')
    BY <1>a, <1>d, <2>1, <2>2, <2>3 DEF Clean
  <2>5. Numbered' /\ Stages' /\ Awaited'
    BY <1>a, <2>1, <2>2 DEF Numbered, Stages, Awaited
  <2> QED
    BY <2>4, <2>5
<1>14. CASE UNCHANGED vars
  BY <1>a, <1>14 DEF vars, Numbered, Stages, Awaited, Live
<1> QED
  BY <1>1, <1>2, <1>3, <1>4, <1>5, <1>6, <1>7, <1>8, <1>9, <1>10, <1>11, <1>12, <1>13, <1>14,
     ZenonT(60) DEF Next

(* For clients that let the debugger number their breakpoints, no process  *)
(* holds a location of a breakpoint that is disabled or known to be        *)
(* unsatisfiable: enableBreakpoint, disableBreakpoint, addTarget,          *)
(* pluginOpenCallback and Restart leave none, whatever write or erase      *)
(* fails.  (A client that chooses IDs can move breakpointIDCounter back,   *)
(* and a watchpoint then takes the ID of a breakpoint that exists.)        *)
THEOREM NoneLeftBehind ==
  ASSUME ReqIDs \subseteq {0}
  PROVE  Spec => []DisabledHasNoLocation
<1>1. Init => NoStale
  BY InitStale
<1>2. NoStale /\ [Next]_vars => NoStale'
  BY NextStale
<1>3. NoStale => DisabledHasNoLocation
  <2>1. Valid \subseteq Live
    BY DEF Valid, Live
  <2> QED
    BY <2>1 DEF NoStale, Clean, Good, DisabledHasNoLocation
<1> QED
  BY <1>1, <1>2, <1>3, PTL DEF Spec

(***************************************************************************)
(* Locations without an owner.  Two places have the same addresses in a    *)
(* process or none in common, a place with several addresses is written    *)
(* as a whole and is not both in the program and in the plugin, and traps  *)
(* can be erased.                                                          *)
(***************************************************************************)
Spot(l, t) == {LocAddrs[l][t][i] : i \in 1 .. Len(LocAddrs[l][t])}

WholePlaces ==
  /\ EraseFaults = {}
  /\ \A t \in Targets, l, m \in Locs : \A a \in Spot(l, t) : a \in Spot(m, t) => Spot(l, t) = Spot(m, t)
  /\ \A t \in Targets, l \in Locs :
       /\ Len(LocAddrs[l][t]) > 1 => Spot(l, t) \cap WriteFaults = {}
       /\ ProgramAddrs[l][t] \in {<<>>, LocAddrs[l][t]}

(* In table q of target t every place belongs to one breakpoint or none.   *)
WholeAt(q, t) ==
  \A l \in Locs : \A a, c \in Spot(l, t) : a \in DOMAIN q => c \in DOMAIN q /\ q[c] = q[a]

Settled(p) == \A t \in Live : WholeAt(p[t], t)

Held(L, p) == \A t \in Live : \A a \in DOMAIN p[t] : p[t][a] \in DOMAIN L

LEMMA SpotResolved ==
  ASSUME WholePlaces, NEW l \in Locs, NEW t \in Targets, Len(Resolve(l, t)) # 0
  PROVE  Resolve(l, t) = LocAddrs[l][t]
<1>1. Len(<<>>) = 0
  OBVIOUS
<1> QED
  BY <1>1 DEF Resolve, WholePlaces

(* All addresses of a place are written.                                   *)
LEMMA WrittenWhole ==
  ASSUME WholePlaces, NEW q, NEW t \in Targets, NEW l \in Locs, NEW id, WholeAt(q, t)
  PROVE  WholeAt(Written(q, LocAddrs[l][t], Len(LocAddrs[l][t]), id), t)
<1> DEFINE r == Written(q, LocAddrs[l][t], Len(LocAddrs[l][t]), id)
<1>1. /\ DOMAIN r = DOMAIN q \cup Spot(l, t)
      /\ \A a \in DOMAIN q : r[a] = q[a]
      /\ \A a \in Spot(l, t) : a \notin DOMAIN q => r[a] = id
  BY DEF Written, Spot
<1> HIDE DEF r
<1> SUFFICES ASSUME NEW m \in Locs, NEW a \in Spot(m, t), NEW c \in Spot(m, t), a \in DOMAIN r
             PROVE  c \in DOMAIN r /\ r[c] = r[a]
  BY DEF WholeAt, r
<1>2. CASE a \in DOMAIN q
  <2>1. c \in DOMAIN q /\ q[c] = q[a]
    BY <1>2 DEF WholeAt
  <2> QED
    BY <1>1, <1>2, <2>1
<1>3. CASE a \notin DOMAIN q
  <2>1. a \in Spot(l, t) /\ c \in Spot(l, t)
    BY <1>1, <1>3 DEF WholePlaces
  <2>2. c \notin DOMAIN q
    BY <1>3 DEF WholeAt
  <2> QED
    BY <1>1, <1>3, <2>1, <2>2
<1> QED
  BY <1>2, <1>3

(* enableBreakpointOnTarget writes a place as a whole, and when it returns *)
(* an error it has written nothing.                                        *)
LEMMA OnTargetWhole ==
  ASSUME WholePlaces, NEW q, NEW t \in Targets, NEW id, NEW b \in LogicalBreakpoint,
         NEW o \in enableBreakpointOnTarget(q, t, id, b), WholeAt(q, t)
  PROVE  /\ WholeAt(o.q, t)
         /\ o.err # "nil" => \A a \in DOMAIN o.q : a \in DOMAIN q /\ o.q[a] = q[a]
<1> DEFINE as == Resolve(b.set, t)
<1>a. OnTargetCases(q, t, id, b, o)
  BY OnTarget
<1>1. \/ o.q = q
      \/ /\ b.set \in Locs
         /\ \E k \in 1 .. Len(as) : as[k] \in WriteFaults /\ o.q = Written(q, as, k - 1, id)
      \/ /\ b.set \in Locs /\ Len(as) # 0 /\ o.q = Written(q, as, Len(as), id)
         /\ o.err = IF as[Len(as)] \in DOMAIN q THEN "exists" ELSE "nil"
  BY <1>a DEF OnTargetCases
<1>2. CASE o.q = q
  BY <1>2
<1>3. CASE /\ b.set \in Locs
           /\ \E k \in 1 .. Len(as) : as[k] \in WriteFaults /\ o.q = Written(q, as, k - 1, id)
  <2>1. PICK k \in 1 .. Len(as) : as[k] \in WriteFaults /\ o.q = Written(q, as, k - 1, id)
    BY <1>3
  <2>2. Len(as) \in Nat
    BY <1>3, ResolveSeq
  <2>3. Len(as) # 0
    BY <2>1, <2>2, SMTT(30)
  <2>4. as = LocAddrs[b.set][t]
    BY <1>3, <2>3, SpotResolved
  <2>5. as[k] \in Spot(b.set, t)
    BY <2>1, <2>4 DEF Spot
  <2>6. ~(Len(as) > 1)
    BY <1>3, <2>1, <2>4, <2>5 DEF WholePlaces
  <2>7. k - 1 = 0
    BY <2>1, <2>2, <2>6, SMTT(30)
  <2>8. o.q = Written(q, as, 0, id)
    BY <2>1, <2>7
  <2> HIDE DEF as
  <2>9. DOMAIN o.q = DOMAIN q /\ \A a \in DOMAIN q : o.q[a] = q[a]
    <3>1. 1 .. 0 = {}
      BY SMTT(30)
    <3>2. {as[i] : i \in 1 .. 0} = {}
      BY <3>1
    <3>3. DOMAIN q \cup {} = DOMAIN q
      OBVIOUS
    <3>4. o.q = [a \in DOMAIN q |-> IF a \in DOMAIN q THEN q[a] ELSE id]
      BY <2>8, <3>2, <3>3 DEF Written
    <3> QED
      BY <3>4
  <2> QED
    BY <2>9 DEF WholeAt
<1>4. CASE /\ b.set \in Locs /\ Len(as) # 0 /\ o.q = Written(q, as, Len(as), id)
           /\ o.err = IF as[Len(as)] \in DOMAIN q THEN "exists" ELSE "nil"
  <2>1. as = LocAddrs[b.set][t]
    BY <1>4, SpotResolved
  <2>2. WholeAt(o.q, t)
    BY <1>4, <2>1, WrittenWhole
  <2>3. ASSUME o.err # "nil", NEW a \in DOMAIN o.q
        PROVE  a \in DOMAIN q /\ o.q[a] = q[a]
    <3>1. as[Len(as)] \in DOMAIN q
      BY <1>4, <2>3
    <3>2. Len(as) \in 1 .. Len(as)
      BY <1>4, ResolveSeq, SMTT(30)
    <3>3. as[Len(as)] \in Spot(b.set, t)
      BY <2>1, <3>2 DEF Spot
    <3>4. \A c \in Spot(b.set, t) : c \in DOMAIN q
      BY <1>4, <3>1, <3>3, ZenonT(60) DEF WholeAt
    <3>5. /\ DOMAIN o.q = DOMAIN q \cup Spot(b.set, t)
          /\ \A c \in DOMAIN q : o.q[c] = q[c]
      BY <1>4, <2>1 DEF Written, Spot
    <3> QED
      BY <2>3, <3>4, <3>5
  <2> QED
    BY <2>2, <2>3
<1> QED
  BY <1>1, <1>2, <1>3, <1>4

(* All locations of id are removed.                                        *)
LEMMA ShrunkWhole ==
  ASSUME NEW p, NEW q, NEW id, Shrunk(p, q, id), Cleared(q, id), Empty(q, Targets \ Group), Settled(p)
  PROVE  Settled(q) /\ Absent(q, Live, id)
<1>1. ASSUME NEW t \in Live, NEW a \in DOMAIN q[t] PROVE q[t][a] # id
  <2>1. t \in Valid
    BY <1>1, LiveValid
  <2> QED
    BY <1>1, <2>1 DEF Cleared, Located
<1>2. ASSUME NEW t \in Live, NEW l \in Locs, NEW a \in Spot(l, t), NEW c \in Spot(l, t), a \in DOMAIN q[t]
      PROVE  c \in DOMAIN q[t] /\ q[t][c] = q[t][a]
  <2>0. t \in Targets
    BY DEF Live
  <2>1. a \in DOMAIN p[t] /\ q[t][a] = p[t][a] /\ p[t][a] # id
    BY <1>1, <1>2, <2>0 DEF Shrunk
  <2>2. c \in DOMAIN p[t] /\ p[t][c] = p[t][a]
    BY <2>1 DEF Settled, WholeAt
  <2>3. c \in DOMAIN q[t]
    BY <2>0, <2>1, <2>2 DEF Shrunk
  <2> QED
    BY <2>0, <2>1, <2>2, <2>3 DEF Shrunk
<1> QED
  BY <1>1, <1>2 DEF Settled, WholeAt, Absent

(* enableBreakpoint on the group.                                          *)
LEMMA EnableWhole ==
  ASSUME WholePlaces, NEW p, NEW id, NEW b \in LogicalBreakpoint, NEW o \in enableBreakpoint(p, id, b),
         Settled(p), Absent(p, Live, id), Empty(p, Targets \ Group)
  PROVE  Settled(o.p) /\ (o.err # "nil" => Absent(o.p, Live, id))
<1>e. PICK r, V : EndsIn(p, id, b, r, V, o)
  BY EnableCases
<1>1. /\ Ran(p, id, b, r, V)
      /\ \/ o.p = Left(p, r, V) /\ \A t \in V : r[t].err # "nil"
         \/ o.p = Left(p, r, V) /\ \A t \in V : r[t].err = "fail"
         \/ o.p \in rollback(Left(p, r, V), id)
         \/ o.p = Left(p, r, V) /\ o.err = "nil"
  BY <1>e DEF EndsIn
<1> DEFINE q == Left(p, r, V)
<1>2. \A t \in Targets : q[t] = IF t \in V THEN r[t].q ELSE p[t]
  BY DEF Left
<1>3. \A t \in V : t \in Targets /\ r[t] \in enableBreakpointOnTarget(p[t], t, id, b)
  BY <1>1 DEF Ran, Group
<1>4. Live \subseteq Targets
  BY DEF Live
<1>5. \A t \in V : t \in Live =>
         /\ WholeAt(r[t].q, t)
         /\ r[t].err # "nil" => \A a \in DOMAIN r[t].q : a \in DOMAIN p[t] /\ r[t].q[a] = p[t][a]
  <2> SUFFICES ASSUME NEW t \in V, t \in Live
               PROVE  /\ WholeAt(r[t].q, t)
                      /\ r[t].err # "nil" =>
                           \A a \in DOMAIN r[t].q : a \in DOMAIN p[t] /\ r[t].q[a] = p[t][a]
    OBVIOUS
  <2>1. WholeAt(p[t], t) /\ t \in Targets /\ r[t] \in enableBreakpointOnTarget(p[t], t, id, b)
    BY <1>3 DEF Settled
  <2> QED
    BY <2>1, OnTargetWhole, SMTT(30)
<1>c. Changed(p, q, id, b) /\ Changed(p, o.p, id, b)
  BY <1>1, LeftChanges, EnableChanges
<1> HIDE DEF q
<1>6. Settled(q)
  <2> SUFFICES ASSUME NEW t \in Live PROVE WholeAt(q[t], t)
    BY DEF Settled
  <2>1. CASE t \in V
    BY <1>2, <1>4, <1>5, <2>1
  <2>2. CASE t \notin V
    BY <1>2, <1>4, <2>2 DEF Settled
  <2> QED
    BY <2>1, <2>2
<1>7. ASSUME \A t \in V : r[t].err # "nil" PROVE Absent(q, Live, id)
  <2> SUFFICES ASSUME NEW t \in Live, NEW a \in DOMAIN q[t] PROVE q[t][a] # id
    BY DEF Absent
  <2>1. a \in DOMAIN p[t] /\ q[t][a] = p[t][a]
    <3>1. CASE t \in V
      <4>1. q[t] = r[t].q
        BY <1>2, <1>4, <3>1
      <4> QED
        BY <1>5, <1>7, <3>1, <4>1
    <3>2. CASE t \notin V
      BY <1>2, <1>4, <3>2
    <3> QED
      BY <3>1, <3>2
  <2> QED
    BY <2>1 DEF Absent
<1>8. CASE o.p = q /\ \A t \in V : r[t].err # "nil"
  BY <1>6, <1>7, <1>8
<1>9. CASE o.p = q /\ \A t \in V : r[t].err = "fail"
  <2>1. \A t \in V : r[t].err # "nil"
    BY <1>9
  <2> QED
    BY <1>6, <1>7, <1>9, <2>1
<1>10. CASE o.p \in rollback(q, id)
  <2>1. Shrunk(q, o.p, id) /\ Cleared(o.p, id)
    BY <1>10, RollbackShrinks DEF WholePlaces
  <2>2. Empty(o.p, Targets \ Group)
    BY <1>c, ChangedEmpty
  <2> QED
    BY <1>6, <2>1, <2>2, ShrunkWhole
<1>11. CASE o.p = q /\ o.err = "nil"
  BY <1>6, <1>11
<1> QED
  BY <1>1, <1>8, <1>9, <1>10, <1>11 DEF q

LEMMA EnabledWhole ==
  ASSUME WholePlaces, NEW L, NEW p, NEW id, L[id] \in LogicalBreakpoint, NEW o \in Enabled(L, p, id),
         Settled(p), Absent(p, Live, id), Empty(p, Targets \ Group)
  PROVE  Settled(o.p) /\ (o.err # "nil" => Absent(o.p, Live, id))
<1>1. PICK e \in enableBreakpoint(p, id, L[id]) : o = Outcome(L, e.p, e.err)
  BY DEF Enabled
<1>2. o.p = e.p /\ o.err = e.err
  BY <1>1 DEF Outcome
<1>3. Settled(e.p) /\ (e.err # "nil" => Absent(e.p, Live, id))
  BY EnableWhole
<1> QED
  BY <1>2, <1>3

LEMMA ChangedHeld ==
  ASSUME NEW L, NEW M, NEW p, NEW q, NEW id, NEW b, Changed(p, q, id, b), Held(L, p),
         id \in DOMAIN M, DOMAIN L \subseteq DOMAIN M
  PROVE  Held(M, q)
<1> SUFFICES ASSUME NEW t \in Live, NEW a \in DOMAIN q[t] PROVE q[t][a] \in DOMAIN M
  BY DEF Held
<1>1. t \in Targets
  BY DEF Live
<1>2. (a \in DOMAIN p[t] /\ q[t][a] = p[t][a]) \/ q[t][a] = id
  BY <1>1 DEF Changed
<1> QED
  BY <1>2 DEF Held

LEMMA DropHeld ==
  ASSUME NEW L, NEW q, NEW id, Held(L, q), Absent(q, Live, id)
  PROVE  Held(Drop(L, {id}), q)
<1>1. DOMAIN Drop(L, {id}) = DOMAIN L \ {id}
  BY DEF Drop
<1> QED
  BY <1>1 DEF Held, Absent

(* An operation on one breakpoint.                                         *)
LEMMA TouchedHeld ==
  ASSUME WholePlaces, NEW L, NEW p, NEW id \in DOMAIN L, NEW o, Touched(L, p, id, o),
         Clean(L, p, Live), Empty(p, Targets \ Group), Settled(p), Held(L, p)
  PROVE  Settled(o.p) /\ Held(o.L, o.p)
<1>1. PICK M :
        /\ Flagged(L, M, id)
        /\ \/ o.L = M /\ o.p = p
           \/ ~Good(L[id]) /\ \E e \in Enabled(M, p, id) : o.L = e.L /\ o.p = e.p
           \/ \E e \in Disabled(M, p, id) : o.L = e.L /\ o.p = e.p
  BY DEF Touched
<1>2. DOMAIN M = DOMAIN L /\ M[id] \in LogicalBreakpoint /\ id \in DOMAIN M /\ DOMAIN L \subseteq DOMAIN M
  BY <1>1 DEF Flagged
<1>3. CASE o.L = M /\ o.p = p
  BY <1>2, <1>3 DEF Held
<1>4. CASE ~Good(L[id]) /\ \E e \in Enabled(M, p, id) : o.L = e.L /\ o.p = e.p
  <2>1. PICK e \in Enabled(M, p, id) : o.L = e.L /\ o.p = e.p
    BY <1>4
  <2>2. e.L = M /\ Changed(p, e.p, id, M[id])
    BY <1>2, EnabledOutcome
  <2>3. Absent(p, Live, id)
    BY <1>4 DEF Absent, Clean
  <2>4. Settled(e.p) /\ (e.err # "nil" => Absent(e.p, Live, id))
    BY <1>2, <2>3, EnabledWhole
  <2>5. Held(M, e.p)
    BY <1>2, <2>2, ChangedHeld
  <2> QED
    BY <2>1, <2>2, <2>4, <2>5
<1>5. CASE \E e \in Disabled(M, p, id) : o.L = e.L /\ o.p = e.p
  <2>1. PICK e \in Disabled(M, p, id) : o.L = e.L /\ o.p = e.p
    BY <1>5
  <2>2. e.p = Without(p, id) /\ (e.L = M \/ e.L = Drop(M, {id}))
    BY DisabledOutcome
  <2>3. PICK q : q = Without(p, id) /\ Shrunk(p, q, id) /\ Cleared(q, id) /\ Changed(p, q, id, M[id])
    BY WithoutShrinks, WithoutChanges
  <2>4. Empty(q, Targets \ Group)
    BY <2>3, ChangedEmpty
  <2>5. Settled(q) /\ Absent(q, Live, id)
    BY <2>3, <2>4, ShrunkWhole
  <2>6. Held(M, q)
    BY <1>2, <2>3, ChangedHeld
  <2>7. Held(Drop(M, {id}), q)
    BY <2>5, <2>6, DropHeld
  <2> QED
    BY <2>1, <2>2, <2>3, <2>5, <2>6, <2>7
<1> QED
  BY <1>1, <1>3, <1>4, <1>5

LEMMA AmendHeld ==
  ASSUME WholePlaces, NEW id \in DOMAIN lbps, AmendEffect(id), Clean(lbps, phys, Live),
         Empty(phys, Targets \ Group), Settled(phys), Held(lbps, phys)
  PROVE  Settled(phys') /\ Held(lbps', phys')
<1>1. PICK c : /\ Touched(lbps, phys, id, c)
               /\ \/ lbps' = c.L /\ phys' = c.p
                  \/ /\ id \in DOMAIN c.L
                     /\ \E o : Touched(c.L, c.p, id, o) /\ lbps' = o.L /\ phys' = o.p
  BY DEF AmendEffect
<1>2. Clean(c.L, c.p, Live) /\ Empty(c.p, Targets \ Group)
  BY <1>1, TouchedClean
<1>3. Settled(c.p) /\ Held(c.L, c.p)
  BY <1>1, TouchedHeld
<1>4. CASE lbps' = c.L /\ phys' = c.p
  BY <1>3, <1>4
<1>5. CASE /\ id \in DOMAIN c.L
           /\ \E o : Touched(c.L, c.p, id, o) /\ lbps' = o.L /\ phys' = o.p
  <2>1. PICK o : Touched(c.L, c.p, id, o) /\ lbps' = o.L /\ phys' = o.p
    BY <1>5
  <2>2. Settled(o.p) /\ Held(o.L, o.p)
    BY <1>2, <1>3, <1>5, <2>1, TouchedHeld
  <2> QED
    BY <2>1, <2>2
<1> QED
  BY <1>1, <1>4, <1>5

(* SetBreakpointEnabled(FALSE) leaves the breakpoint disabled.             *)
LEMMA SwitchedOff ==
  ASSUME NEW L, NEW p, NEW id \in DOMAIN L, L[id] \in LogicalBreakpoint,
         NEW o \in SetBreakpointEnabled(L, p, id, FALSE), id \in DOMAIN o.L
  PROVE  ~Good(o.L[id])
<1>0. L[id].enabled \in BOOLEAN
  BY DEF LogicalBreakpoint
<1>1. CASE L[id].enabled
  <2> DEFINE M == [L EXCEPT ![id].enabled = FALSE]
  <2>1. o \in Disabled(M, p, id)
    BY <1>1 DEF SetBreakpointEnabled
  <2>2. M = [L EXCEPT ![id] = [L[id] EXCEPT !.enabled = FALSE]]
    OBVIOUS
  <2>3. PICK c : c = [L[id] EXCEPT !.enabled = FALSE]
    OBVIOUS
  <2>4. c.enabled = FALSE
    BY <2>3, UpdateEnabled
  <2>5. M[id] = c
    BY <2>2, <2>3, UpdateMap
  <2> HIDE DEF M
  <2>6. o.L = M \/ o.L = Drop(M, {id})
    BY <2>1, DisabledOutcome
  <2>7. id \notin DOMAIN Drop(M, {id})
    BY DEF Drop
  <2> QED
    BY <2>4, <2>5, <2>6, <2>7 DEF Good
<1>2. CASE ~L[id].enabled
  <2>1. o = Outcome(L, p, "nil")
    BY <1>2 DEF SetBreakpointEnabled
  <2>2. o.L = L
    BY <2>1 DEF Outcome
  <2> QED
    BY <1>2, <2>2 DEF Good
<1> QED
  BY <1>0, <1>1, <1>2

LEMMA ClearHeld ==
  ASSUME WholePlaces, NEW id \in IDs, ClearBreakpoint(id), TypeOK, Clean(lbps, phys, Live),
         Empty(phys, Targets \ Group), Settled(phys), Held(lbps, phys)
  PROVE  Settled(phys') /\ Held(lbps', phys')
<1>1. id \in DOMAIN lbps /\ lbps[id] \in LogicalBreakpoint
  BY DEF ClearBreakpoint, TypeOK
<1>2. PICK o \in SetBreakpointEnabled(lbps, phys, id, FALSE) :
        phys' = o.p /\ (lbps' = o.L \/ lbps' = Drop(o.L, {id}))
  BY DEF ClearBreakpoint, Apply
<1>3. Touched(lbps, phys, id, o)
  BY <1>1, SetEnabledTouches
<1>4. Clean(o.L, o.p, Live)
  BY <1>1, <1>3, TouchedClean
<1>5. Settled(o.p) /\ Held(o.L, o.p)
  BY <1>1, <1>3, TouchedHeld
<1>6. id \in DOMAIN o.L => ~Good(o.L[id])
  BY <1>1, SwitchedOff
<1>7. Absent(o.p, Live, id)
  BY <1>4, <1>5, <1>6 DEF Absent, Clean, Held
<1>8. Held(Drop(o.L, {id}), o.p)
  BY <1>5, <1>7, DropHeld
<1> QED
  BY <1>2, <1>5, <1>8

LEMMA CreateHeld ==
  ASSUME WholePlaces, NEW id, NEW l, CreateEffect(id, l), Absent(phys, Targets, id),
         Empty(phys, Targets \ Group), Settled(phys), Held(lbps, phys)
  PROVE  Settled(phys') /\ Held(lbps', phys')
<1>1. PICK M :
        /\ Added(lbps, M, id)
        /\ \/ lbps' = M /\ phys' = phys
           \/ \E o \in Enabled(M, phys, id) :
                phys' = o.p /\ (lbps' = M \/ (o.err # "nil" /\ lbps' = Drop(M, {id})))
  BY DEF CreateEffect
<1>2. DOMAIN M = DOMAIN lbps \cup {id} /\ M[id] \in LogicalBreakpoint
  BY <1>1 DEF Added
<1>3. id \in DOMAIN M /\ DOMAIN lbps \subseteq DOMAIN M
  BY <1>2
<1>4. CASE lbps' = M /\ phys' = phys
  BY <1>3, <1>4 DEF Held
<1>5. CASE \E o \in Enabled(M, phys, id) :
             phys' = o.p /\ (lbps' = M \/ (o.err # "nil" /\ lbps' = Drop(M, {id})))
  <2>1. PICK o \in Enabled(M, phys, id) :
          phys' = o.p /\ (lbps' = M \/ (o.err # "nil" /\ lbps' = Drop(M, {id})))
    BY <1>5
  <2>2. Changed(phys, o.p, id, M[id])
    BY <1>2, EnabledOutcome
  <2>3. Absent(phys, Live, id)
    BY DEF Live, Absent
  <2>4. Settled(o.p) /\ (o.err # "nil" => Absent(o.p, Live, id))
    BY <1>2, <2>3, EnabledWhole
  <2>5. Held(M, o.p)
    BY <1>3, <2>2, ChangedHeld
  <2>6. o.err # "nil" => Held(Drop(M, {id}), o.p)
    BY <2>4, <2>5, DropHeld
  <2> QED
    BY <2>1, <2>4, <2>5, <2>6
<1> QED
  BY <1>1, <1>4, <1>5

LEMMA RestoreHeld ==
  ASSUME WholePlaces, NEW id \in DOMAIN lbps, RestoreEffect(id), Absent(phys, Targets, id),
         Empty(phys, Targets \ Group), Settled(phys), Held(lbps, phys)
  PROVE  Settled(phys') /\ Held(lbps', phys')
<1>1. PICK M, o :
        /\ Flagged(lbps, M, id) /\ o \in enableBreakpoint(phys, id, M[id])
        /\ phys' = o.p /\ (lbps' = M \/ (o.err # "nil" /\ lbps' = Drop(M, {id})))
  BY DEF RestoreEffect
<1>2. DOMAIN M = DOMAIN lbps /\ M[id] \in LogicalBreakpoint
  BY <1>1 DEF Flagged
<1>3. id \in DOMAIN M /\ DOMAIN lbps \subseteq DOMAIN M
  BY <1>2
<1>4. Changed(phys, o.p, id, M[id])
  BY <1>1, <1>2, EnableChanges
<1>5. Absent(phys, Live, id)
  BY DEF Live, Absent
<1>6. Settled(o.p) /\ (o.err # "nil" => Absent(o.p, Live, id))
  BY <1>1, <1>2, <1>5, EnableWhole
<1>7. Held(M, o.p)
  BY <1>3, <1>4, ChangedHeld
<1>8. o.err # "nil" => Held(Drop(M, {id}), o.p)
  BY <1>6, <1>7, DropHeld
<1> QED
  BY <1>1, <1>6, <1>7, <1>8

LEMMA SpotAddrs ==
  ASSUME NEW l \in Locs, NEW t \in Targets
  PROVE  Spot(l, t) \subseteq Addrs
<1>1. LocAddrs[l][t] \in Seq(Addrs)
  BY LogicalAssumption
<1> QED
  BY <1>1, SMTT(30) DEF Spot

LEMMA WatchHeld ==
  ASSUME NoStale, Settled(phys), Held(lbps, phys), NEW a \in WatchAddrs, NEW ok, CreateWatchpoint(a, ok)
  PROVE  Settled(phys') /\ Held(lbps', phys')
<1> DEFINE n == counter'
<1>1. 1 \in Targets /\ DOMAIN phys = Targets
  BY LogicalAssumption, SMTT(30) DEF NoStale, Typed, Targets, Tables
<1>2. \/ UNCHANGED <<lbps, phys>>
      \/ /\ phys' = [phys EXCEPT ![1] = Put(phys[1], a, n)] /\ a \notin DOMAIN phys[1]
         /\ \/ n \in DOMAIN lbps /\ lbps' = lbps
            \/ \E new : lbps' = Put(lbps, n, new)
  BY DEF CreateWatchpoint
<1>3. CASE UNCHANGED <<lbps, phys>>
  BY <1>3 DEF Settled, Held
<1>4. CASE /\ phys' = [phys EXCEPT ![1] = Put(phys[1], a, n)] /\ a \notin DOMAIN phys[1]
           /\ \/ n \in DOMAIN lbps /\ lbps' = lbps
              \/ \E new : lbps' = Put(lbps, n, new)
  <2>1. n \in DOMAIN lbps' /\ DOMAIN lbps \subseteq DOMAIN lbps'
    BY <1>4 DEF Put
  <2>2. /\ DOMAIN phys'[1] = DOMAIN phys[1] \cup {a} /\ phys'[1][a] = n
        /\ \A y \in DOMAIN phys[1] : phys'[1][y] = phys[1][y]
        /\ \A t \in Targets : t # 1 => phys'[t] = phys[t]
    BY <1>1, <1>4 DEF Put
  <2> HIDE DEF n
  <2>3. Live \subseteq Targets
    BY DEF Live
  <2>4. Held(lbps', phys')
    BY <2>1, <2>2, <2>3, ZenonT(60) DEF Held
  <2>5. a \notin Addrs
    BY LogicalAssumption
  <2>6. Settled(phys')
    <3> SUFFICES ASSUME NEW t \in Live, NEW l \in Locs, NEW x \in Spot(l, t), NEW c \in Spot(l, t),
                        x \in DOMAIN phys'[t]
                 PROVE  c \in DOMAIN phys'[t] /\ phys'[t][c] = phys'[t][x]
      BY DEF Settled, WholeAt
    <3>1. t \in Targets /\ x # a
      BY <2>3, <2>5, SpotAddrs
    <3>2. x \in DOMAIN phys[t]
      BY <2>2, <3>1
    <3>w. WholeAt(phys[t], t)
      BY DEF Settled
    <3>3. c \in DOMAIN phys[t] /\ phys[t][c] = phys[t][x]
      BY <3>w, <3>2 DEF WholeAt
    <3> QED
      BY <2>2, <3>1, <3>2, <3>3
  <2> QED
    BY <2>4, <2>6
<1> QED
  BY <1>2, <1>3, <1>4

LEMMA MaterializeHeld ==
  ASSUME WholePlaces, NoStale, Settled(phys), Held(lbps, phys), NEW id \in DOMAIN lbps, EnableOne(id),
         lbps' = lbps
  PROVE  Settled(phys') /\ Held(lbps', phys')
<1>1. at \in Targets /\ lbps[id] \in LogicalBreakpoint /\ DOMAIN phys = Targets /\ Live \subseteq Targets
  BY DEF NoStale, Typed, MapTyped, Control, Tables, Live
<1>2. CASE phys' = phys
  BY <1>2
<1>3. CASE \E o \in enableBreakpointOnTarget(phys[at], at, id, lbps[id]) :
             phys' = [phys EXCEPT ![at] = o.q]
  <2>1. PICK o \in enableBreakpointOnTarget(phys[at], at, id, lbps[id]) :
          phys' = [phys EXCEPT ![at] = o.q]
    BY <1>3
  <2>2. phys'[at] = o.q /\ \A t \in Targets : t # at => phys'[t] = phys[t]
    BY <1>1, <2>1
  <2>3. Extends(phys[at], o.q, at, id, lbps[id])
    BY <1>1, OnTargetExtends
  <2>4. Held(lbps', phys')
    <3> SUFFICES ASSUME NEW t \in Live, NEW a \in DOMAIN phys'[t] PROVE phys'[t][a] \in DOMAIN lbps
      BY DEF Held
    <3>1. CASE t = at
      BY <2>2, <2>3, <3>1 DEF Extends, Held
    <3>2. CASE t # at
      BY <1>1, <2>2, <3>2 DEF Held
    <3> QED
      BY <3>1, <3>2
  <2>5. Settled(phys')
    <3> SUFFICES ASSUME NEW t \in Live PROVE WholeAt(phys'[t], t)
      BY DEF Settled
    <3>1. CASE t = at
      <4>1. WholeAt(phys[at], at)
        BY <3>1 DEF Settled
      <4>2. WholeAt(o.q, at)
        BY <1>1, <4>1, OnTargetWhole
      <4> QED
        BY <2>2, <3>1, <4>2
    <3>2. CASE t # at
      BY <1>1, <2>2, <3>2 DEF Settled
    <3> QED
      BY <3>1, <3>2
  <2> QED
    BY <2>4, <2>5
<1> QED
  BY <1>2, <1>3 DEF EnableOne

LEMMA NextHeld ==
  ASSUME ReqIDs \subseteq {0}, WholePlaces
  PROVE  NoStale /\ Settled(phys) /\ Held(lbps, phys) /\ [Next]_vars => (Settled(phys) /\ Held(lbps, phys))'
<1> SUFFICES ASSUME NoStale, Settled(phys), Held(lbps, phys), [Next]_vars
             PROVE  (Settled(phys) /\ Held(lbps, phys))'
  OBVIOUS
<1>a. /\ Typed /\ Numbered /\ Stages /\ Awaited /\ Clean(lbps, phys, Live) /\ TypeOK
      /\ MapTyped(lbps) /\ Tables(phys)
  BY TypedIsTypeOK DEF NoStale, Typed
<1>b. ASSUME phase # "adding" PROVE Empty(phys, Targets \ Group)
  BY <1>a, <1>b, OutsideEmpty
<1>d. ASSUME Live' \subseteq Live, Settled(phys'), Held(lbps', phys')
      PROVE  (Settled(phys) /\ Held(lbps, phys))'
  <2>1. \A t \in Live' : WholeAt(phys'[t], t)
    BY <1>d DEF Settled
  <2>2. \A t \in Live' : \A a \in DOMAIN phys'[t] : phys'[t][a] \in DOMAIN lbps'
    BY <1>d DEF Held
  <2>3. Settled(phys)'
    BY <2>1 DEF Settled, WholeAt, Spot
  <2>4. Held(lbps, phys)'
    BY <2>2 DEF Held
  <2> QED
    BY <2>3, <2>4
<1>e. ASSUME st' = st PROVE Live' \subseteq Live
  BY <1>e DEF Live
<1>g. ASSUME phase = "stopped" PROVE Empty(phys, Targets \ Group)
  <2>1. phase # "adding"
    BY <1>g
  <2> QED
    BY <1>b, <2>1
<1>1. ASSUME NEW req \in ReqIDs, NEW l \in Locs, NEW hc \in HitConds, NEW dep \in Deps,
             NEW bad \in ParseErrors \cup {"nil"}, NEW s \in Suspend,
             CreateBreakpoint(req, l, hc, dep, bad, s)
      PROVE  (Settled(phys) /\ Held(lbps, phys))'
  <2>1. PICK id \in IDs : counter' = id /\ (req = 0 => id = counter + 1) /\ CreateEffect(id, l)
    BY <1>a, <1>1, CreateEffects, ZenonT(30)
  <2>2. req = 0
    BY <1>1
  <2>3. Absent(phys, Targets, id)
    BY <1>a, <2>1, <2>2, CreateKnown
  <2>4. phase = "stopped" /\ st' = st
    BY <1>1 DEF CreateBreakpoint, Idle
  <2>5. Settled(phys') /\ Held(lbps', phys')
    BY <1>g, <2>1, <2>3, <2>4, CreateHeld
  <2> QED
    BY <1>d, <1>e, <2>4, <2>5
<1>2. ASSUME NEW a \in WatchAddrs, NEW ok \in BOOLEAN, CreateWatchpoint(a, ok)
      PROVE  (Settled(phys) /\ Held(lbps, phys))'
  <2>1. st' = st
    BY <1>2 DEF CreateWatchpoint, Idle
  <2>2. Settled(phys') /\ Held(lbps', phys')
    BY <1>2, WatchHeld
  <2> QED
    BY <1>d, <1>e, <2>1, <2>2
<1>3. ASSUME NEW id \in IDs, NEW disable \in BOOLEAN, NEW hc \in HitConds, NEW dep \in Deps,
             NEW bad \in ParseErrors \cup {"nil"}, AmendBreakpoint(id, disable, hc, dep, bad)
      PROVE  (Settled(phys) /\ Held(lbps, phys))'
  <2>1. id \in DOMAIN lbps /\ AmendEffect(id)
    BY <1>a, <1>3, AmendEffects
  <2>2. phase = "stopped" /\ st' = st
    BY <1>3 DEF AmendBreakpoint, Idle
  <2>3. Settled(phys') /\ Held(lbps', phys')
    BY <1>a, <1>g, <2>1, <2>2, AmendHeld
  <2> QED
    BY <1>d, <1>e, <2>2, <2>3
<1>4. ASSUME NEW id \in IDs, ClearBreakpoint(id) PROVE (Settled(phys) /\ Held(lbps, phys))'
  <2>1. phase = "stopped" /\ st' = st
    BY <1>4 DEF ClearBreakpoint, Idle
  <2>2. Settled(phys') /\ Held(lbps', phys')
    BY <1>a, <1>4, <1>g, <2>1, ClearHeld
  <2> QED
    BY <1>d, <1>e, <2>1, <2>2
<1>5. ASSUME NEW id \in IDs, ManageOne(id) PROVE (Settled(phys) /\ Held(lbps, phys))'
  <2>1. id \in DOMAIN lbps /\ lbps[id] \in LogicalBreakpoint /\ st' = st
    BY <1>a, <1>5 DEF ManageOne, MapTyped
  <2>2. PICK o \in manageUnsatisfiable(id) : lbps' = o.L /\ phys' = o.p
    BY <1>5 DEF ManageOne, Apply
  <2>3. phase # "adding"
    BY <1>5 DEF ManageOne
  <2>4. Touched(lbps, phys, id, o)
    BY <2>1, ManageTouches
  <2>5. Settled(o.p) /\ Held(o.L, o.p)
    BY <1>a, <1>b, <2>1, <2>3, <2>4, TouchedHeld
  <2> QED
    BY <1>d, <1>e, <2>1, <2>2, <2>5
<1>6. ASSUME NEW id \in IDs, Materialize(id) PROVE (Settled(phys) /\ Held(lbps, phys))'
  <2>1. /\ id \in todo /\ phase \in {"adding", "plugin", "restarting"} /\ EnableOne(id)
        /\ lbps' = lbps /\ st' = st
    BY <1>6 DEF Materialize
  <2>2. id \in DOMAIN lbps
    BY <1>a, <2>1 DEF Typed, Pending
  <2>3. Settled(phys') /\ Held(lbps', phys')
    BY <2>1, <2>2, MaterializeHeld
  <2> QED
    BY <1>d, <1>e, <2>1, <2>3
<1>7. ASSUME NEW id \in IDs, RestartOne(id) PROVE (Settled(phys) /\ Held(lbps, phys))'
  <2>1. /\ id \in todo /\ phase = "restarting" /\ Restore(id) /\ st' = st
    BY <1>7 DEF RestartOne
  <2>2. phase \in {"adding", "plugin", "restarting"} /\ phase # "adding"
    BY <2>1
  <2>3. id \in DOMAIN lbps /\ lbps[id] \in LogicalBreakpoint
    BY <1>a, <2>1, <2>2 DEF Typed, Pending, MapTyped
  <2>4. RestoreEffect(id)
    BY <2>1, <2>3, RestoreEffects
  <2>5. Absent(phys, Targets, id)
    BY <1>a, <2>1 DEF Awaited
  <2>6. Settled(phys') /\ Held(lbps', phys')
    BY <1>b, <2>2, <2>3, <2>4, <2>5, RestoreHeld
  <2> QED
    BY <1>d, <1>e, <2>1, <2>6
<1>8. ASSUME UNCHANGED <<lbps, phys>>, Live' \subseteq Live PROVE (Settled(phys) /\ Held(lbps, phys))'
  <2>1. Settled(phys') /\ Held(lbps', phys')
    BY <1>8
  <2> QED
    BY <1>8, <1>d, <2>1
<1>9. CASE Continue \/ ManageDone \/ Stop \/ RestartDone \/ \E t \in Targets : PluginOpen(t)
  <2>1. UNCHANGED <<lbps, phys>> /\ st' = st
    BY <1>9 DEF Continue, ManageDone, Stop, RestartDone, PluginOpen
  <2> QED
    BY <1>8, <1>e, <2>1
<1>10. CASE Spawn
  <2>1. PICK t \in Targets : st[t] = "none" /\ st' = [st EXCEPT ![t] = "adding"]
    BY <1>10 DEF Spawn
  <2>2. UNCHANGED <<lbps, phys>>
    BY <1>10 DEF Spawn
  <2>3. Live' \subseteq Live
    BY <1>a, <2>1 DEF Live, Typed, Control
  <2> QED
    BY <1>8, <2>2, <2>3
<1>11. CASE MaterializeDone
  <2>1. /\ st' = [st EXCEPT ![at] = "valid"] /\ phase \in {"adding", "plugin"}
        /\ UNCHANGED <<lbps, phys>>
    BY <1>11 DEF MaterializeDone
  <2>2. st[at] # "exited"
    BY <1>a, <2>1 DEF Stages
  <2>3. Live' \subseteq Live
    BY <1>a, <2>1, <2>2 DEF Live, Typed, Control
  <2> QED
    BY <1>8, <2>1, <2>3
<1>12. CASE Restart
  <2>1. \A t \in Targets : DOMAIN phys'[t] = {}
    BY <1>a, <1>12, RestartTyped
  <2>2. \A t \in Live' : DOMAIN phys'[t] = {}
    BY <2>1 DEF Live
  <2>3. Held(lbps, phys)'
    BY <2>2 DEF Held
  <2>4. \A t \in Live' : WholeAt(phys'[t], t)
    BY <2>2 DEF WholeAt
  <2>5. Settled(phys)'
    BY <2>4 DEF Settled, WholeAt, Spot
  <2> QED
    BY <2>3, <2>5
<1>13. ASSUME NEW t \in Targets, Exit(t) PROVE (Settled(phys) /\ Held(lbps, phys))'
  <2>1. st' = [st EXCEPT ![t] = "exited"] /\ UNCHANGED <<lbps, phys>>
    BY <1>13 DEF Exit
  <2>2. Live' \subseteq Live
    BY <1>a, <2>1 DEF Live, Typed, Control
  <2> QED
    BY <1>8, <2>1, <2>2
<1>14. ASSUME NEW t \in Targets, NEW a, Hit(t, a) PROVE (Settled(phys) /\ Held(lbps, phys))'
  <2>1. DOMAIN lbps' = DOMAIN lbps
    BY <1>a, <1>14, HitTyped
  <2>2. phys' = phys /\ st' = st
    BY <1>14 DEF Hit
  <2>3. Settled(phys') /\ Held(lbps', phys')
    BY <2>1, <2>2 DEF Held
  <2> QED
    BY <1>d, <1>e, <2>2, <2>3
<1>15. CASE UNCHANGED vars
  <2>1. UNCHANGED <<lbps, phys>> /\ st' = st
    BY <1>15 DEF vars
  <2> QED
    BY <1>8, <1>e, <2>1
<1> QED
  BY <1>1, <1>2, <1>3, <1>4, <1>5, <1>6, <1>7, <1>9, <1>10, <1>11, <1>12, <1>13, <1>14, <1>15,
     ZenonT(60) DEF Next

(* Every location belongs to a breakpoint of the map, so that it can be    *)
(* listed and cleared: what enableBreakpoint does not roll back it has not *)
(* written.  For clients that let the debugger number their breakpoints,   *)
(* when places do not overlap, a place with several addresses can be       *)
(* written and traps can be erased; any other write may fail, in any of    *)
(* the processes, and processes may exit.                                  *)
THEOREM NoOrphans ==
  ASSUME ReqIDs \subseteq {0}, WholePlaces
  PROVE  Spec => []OwnedByLogical
<1> DEFINE Inv == NoStale /\ Settled(phys) /\ Held(lbps, phys)
<1>1. Init => Inv
  <2> SUFFICES ASSUME Init PROVE Settled(phys) /\ Held(lbps, phys)
    BY InitStale
  <2>1. \A t \in Targets : DOMAIN phys[t] = {}
    BY DEF Init, NoLocations
  <2> QED
    BY <2>1 DEF Settled, Held, WholeAt, Live
<1>2. Inv /\ [Next]_vars => Inv'
  BY NextStale, NextHeld
<1>3. Inv => OwnedByLogical
  <2>1. Valid \subseteq Live
    BY DEF Valid, Live
  <2> QED
    BY <2>1 DEF Held, OwnedByLogical
<1> QED
  BY <1>1, <1>2, <1>3, PTL DEF Spec

(***************************************************************************)
(* Breakpoints that are written everywhere.  Nothing fails, no process     *)
(* exits, no two places share an address, and none is both in the program  *)
(* and in the plugin.                                                      *)
(***************************************************************************)
Undisturbed ==
  /\ ReqIDs \subseteq {0} /\ WriteFaults = {} /\ EraseFaults = {} /\ ~MayExit
  /\ \A t \in Targets, l, m \in Locs : \A a \in Spot(l, t) : a \in Spot(m, t) => l = m
  /\ \A t \in Targets, l \in Locs : ProgramAddrs[l][t] \in {<<>>, LocAddrs[l][t]}

(* The addresses of place l in target t when the targets S have loaded the *)
(* plugin.                                                                 *)
Found(l, t, S) == IF t \in S \/ ProgramAddrs[l][t] = LocAddrs[l][t] THEN Spot(l, t) ELSE {}

NoneExited == \A t \in Targets : st[t] # "exited"

Everywhere(L, p) == \A t \in Targets : \A a \in DOMAIN p[t] : p[t][a] \in DOMAIN L

DistinctIn(L) == \A i, j \in DOMAIN L : L[i].set = L[j].set => i = j \/ L[i].set = NoSet

(* A location of b is at its place, one without a place is a watchpoint.   *)
AtPlace(b, t, a) == (a \in Addrs => b.set \in Locs) /\ (b.set \in Locs => a \in Spot(b.set, t))

Placed(L, p) ==
  \A t \in Targets : \A a \in DOMAIN p[t] : p[t][a] \in DOMAIN L => AtPlace(L[p[t][a]], t, a)

ArmedAt(L, p, S, id, t) ==
  Good(L[id]) /\ L[id].set \in Locs =>
    \A a \in Found(L[id].set, t, S) : a \in DOMAIN p[t] /\ p[t][a] = id

LEMMA UndisturbedWhole == Undisturbed => WholePlaces
BY DEF Undisturbed, WholePlaces

LEMMA FoundResolved ==
  ASSUME Undisturbed, NEW l \in Locs, NEW t \in Targets
  PROVE  Resolved(l, t) = Found(l, t, loaded) /\ Resolved(l, t) \subseteq Spot(l, t)
<1>1. CASE ~(t \in loaded \/ ProgramAddrs[l][t] = LocAddrs[l][t])
  <2>1. Resolve(l, t) = <<>>
    BY <1>1 DEF Resolve, Undisturbed
  <2>2. Len(<<>>) = 0 /\ 1 .. 0 = {}
    BY SMTT(30)
  <2>3. Resolved(l, t) = {}
    BY <2>1, <2>2 DEF Resolved
  <2> QED
    BY <1>1, <2>3 DEF Found
<1>2. CASE t \in loaded \/ ProgramAddrs[l][t] = LocAddrs[l][t]
  <2>1. Resolve(l, t) = LocAddrs[l][t]
    BY <1>2 DEF Resolve
  <2> QED
    BY <1>2, <2>1 DEF Resolved, Spot, Found
<1> QED
  BY <1>1, <1>2

(* On one target, where the place is free or already the breakpoint's.     *)
FreeAt(q, l, t, id) == \A a \in Spot(l, t) : a \in DOMAIN q => q[a] = id

Has(q, l, t, id) == \A a \in Found(l, t, loaded) : a \in DOMAIN q /\ q[a] = id

LEMMA OnTargetArms ==
  ASSUME Undisturbed, NEW q, NEW t \in Targets, st[t] # "exited", NEW id, NEW b \in LogicalBreakpoint,
         Good(b), b.set \in Locs, NEW o \in enableBreakpointOnTarget(q, t, id, b),
         FreeAt(q, b.set, t, id)
  PROVE  o.err # "fail" /\ Has(o.q, b.set, t, id)
<1> DEFINE as == Resolve(b.set, t)
           e1 == IF MayBeNowhere(b.set) THEN "nil" ELSE "notfound"
           e2 == IF as[Len(as)] \in DOMAIN q THEN "exists" ELSE "nil"
<1>1. NoSet \notin Locs /\ e1 # "fail" /\ e2 # "fail" /\ \A k \in 1 .. Len(as) : as[k] \notin WriteFaults
  BY LogicalAssumption DEF Undisturbed
<1>a. OnTargetCases(q, t, id, b, o)
  BY OnTarget
<1>2. \/ Len(as) = 0 /\ o.q = q /\ o.err = e1
      \/ Len(as) # 0 /\ o.q = Written(q, as, Len(as), id) /\ o.err = e2
  BY <1>1, <1>a DEF OnTargetCases
<1>3. Resolved(b.set, t) = Found(b.set, t, loaded) /\ Resolved(b.set, t) \subseteq Spot(b.set, t)
  BY FoundResolved
<1> HIDE DEF e1, e2
<1>4. CASE Len(as) = 0 /\ o.q = q /\ o.err = e1
  <2>1. 1 .. 0 = {}
    BY SMTT(30)
  <2>2. Resolved(b.set, t) = {}
    BY <1>4, <2>1 DEF Resolved
  <2> QED
    BY <1>1, <1>3, <1>4, <2>2 DEF Has
<1>5. CASE Len(as) # 0 /\ o.q = Written(q, as, Len(as), id) /\ o.err = e2
  <2>1. /\ DOMAIN o.q = DOMAIN q \cup Resolved(b.set, t)
        /\ \A a \in DOMAIN o.q : o.q[a] = IF a \in DOMAIN q THEN q[a] ELSE id
    BY <1>5 DEF Written, Resolved
  <2> QED
    BY <1>1, <1>3, <1>5, <2>1 DEF Has, FreeAt
<1> QED
  BY <1>2, <1>4, <1>5

(* On the group.                                                           *)
LEMMA EnableArms ==
  ASSUME Undisturbed, NoneExited, NEW p, NEW id, NEW b \in LogicalBreakpoint, Good(b), b.set \in Locs,
         NEW o \in enableBreakpoint(p, id, b), \A t \in Targets : FreeAt(p[t], b.set, t, id)
  PROVE  \A t \in Valid : Has(o.p[t], b.set, t, id)
<1>a. PICK r, V : EndsIn(p, id, b, r, V, o)
  BY EnableCases
<1>1. /\ Ran(p, id, b, r, V)
      /\ o.p = Left(p, r, V) \/ \E t \in V : r[t].err = "fail"
  BY <1>a DEF EndsIn
<1>2. \A t \in Group : t \in Targets /\ r[t] \in enableBreakpointOnTarget(p[t], t, id, b)
  BY <1>1 DEF Ran, Group
<1>3. \A t \in Group : r[t].err # "fail" /\ Has(r[t].q, b.set, t, id)
  <2> SUFFICES ASSUME NEW t \in Group PROVE r[t].err # "fail" /\ Has(r[t].q, b.set, t, id)
    OBVIOUS
  <2>1. /\ t \in Targets /\ r[t] \in enableBreakpointOnTarget(p[t], t, id, b) /\ st[t] # "exited"
        /\ FreeAt(p[t], b.set, t, id)
    BY <1>2 DEF NoneExited
  <2> QED
    BY <2>1, OnTargetArms
<1>4. V \subseteq Group /\ \A t \in Group : t \in V
  BY <1>1, <1>3 DEF Ran
<1>5. o.p = Left(p, r, V)
  BY <1>1, <1>3, <1>4
<1>6. \A t \in Valid : t \in Group /\ t \in Targets
  BY DEF Valid, Group
<1>7. \A t \in Valid : o.p[t] = r[t].q
  BY <1>4, <1>5, <1>6 DEF Left
<1> QED
  BY <1>3, <1>6, <1>7

(* A place that no other breakpoint has is free.                           *)
Alone(L, l, id) == \A j \in DOMAIN L : L[j].set = l => j = id

Free(p, l, id) == \A t \in Targets : FreeAt(p[t], l, t, id)

LEMMA PlaceFree ==
  ASSUME Undisturbed, NEW L, NEW p, Placed(L, p), Everywhere(L, p), NEW id, NEW l \in Locs,
         Alone(L, l, id)
  PROVE  Free(p, l, id)
<1> SUFFICES ASSUME NEW t \in Targets, NEW a \in Spot(l, t), a \in DOMAIN p[t]
             PROVE  p[t][a] = id
  BY DEF Free, FreeAt
<1>1. PICK j \in DOMAIN L : p[t][a] = j /\ AtPlace(L[j], t, a)
  BY DEF Placed, Everywhere
<1>2. a \in Addrs
  BY SpotAddrs
<1>3. L[j].set \in Locs /\ a \in Spot(L[j].set, t)
  BY <1>1, <1>2 DEF AtPlace
<1>4. L[j].set = l
  BY <1>3 DEF Undisturbed
<1> QED
  BY <1>1, <1>4 DEF Alone

(* What an operation on the breakpoint id does to the map and the          *)
(* locations: M has its new flags.                                         *)
Moved(L, p, id, M, N, q) ==
  /\ M[id] \in LogicalBreakpoint
  /\ Changed(p, q, id, M[id])
  /\ \A j \in DOMAIN N : j # id => j \in DOMAIN L /\ N[j] = L[j]
  /\ id \in DOMAIN N => N[id] = M[id]
  /\ (id \in DOMAIN L /\ M[id].set = L[id].set) \/ Absent(p, Targets, id)

LEMMA MovedPlaced ==
  ASSUME Undisturbed, NEW L, NEW p, NEW id, NEW M, NEW N, NEW q, Moved(L, p, id, M, N, q), Placed(L, p)
  PROVE  Placed(N, q)
<1> SUFFICES ASSUME NEW t \in Targets, NEW a \in DOMAIN q[t], q[t][a] \in DOMAIN N
             PROVE  AtPlace(N[q[t][a]], t, a)
  BY DEF Placed
<1>1. \/ a \in DOMAIN p[t] /\ q[t][a] = p[t][a]
      \/ /\ q[t][a] = id /\ M[id].set \in Locs /\ a \in Resolved(M[id].set, t)
  BY DEF Moved, Changed
<1>2. CASE q[t][a] = id /\ M[id].set \in Locs /\ a \in Resolved(M[id].set, t)
  <2>1. a \in Spot(M[id].set, t) /\ N[id] = M[id]
    BY <1>2, FoundResolved DEF Moved
  <2> QED
    BY <1>2, <2>1 DEF AtPlace
<1>3. CASE a \in DOMAIN p[t] /\ q[t][a] = p[t][a]
  <2>1. CASE q[t][a] = id
    <3>1. id \in DOMAIN L /\ M[id].set = L[id].set /\ N[id] = M[id]
      BY <1>3, <2>1 DEF Moved, Absent
    <3>2. AtPlace(L[id], t, a)
      BY <1>3, <2>1, <3>1 DEF Placed
    <3> QED
      BY <2>1, <3>1, <3>2 DEF AtPlace
  <2>2. CASE q[t][a] # id
    <3>1. PICK j \in DOMAIN L : j = q[t][a] /\ N[j] = L[j] /\ p[t][a] = j
      BY <1>3, <2>2 DEF Moved
    <3>2. AtPlace(L[j], t, a)
      BY <1>3, <3>1 DEF Placed
    <3> QED
      BY <3>1, <3>2
  <2> QED
    BY <2>1, <2>2
<1> QED
  BY <1>1, <1>2, <1>3

(* The other breakpoints stay armed.                                       *)
LEMMA MovedArmed ==
  ASSUME NEW L, NEW p, NEW id, NEW M, NEW N, NEW q, Moved(L, p, id, M, N, q),
         NEW S, NEW t \in Targets, NEW j \in DOMAIN N, j # id, ArmedAt(L, p, S, j, t)
  PROVE  ArmedAt(N, q, S, j, t)
<1>1. N[j] = L[j]
  BY DEF Moved
<1> SUFFICES ASSUME Good(L[j]), L[j].set \in Locs, NEW a \in Found(L[j].set, t, S)
             PROVE  a \in DOMAIN q[t] /\ q[t][a] = j
  BY <1>1 DEF ArmedAt
<1>2. a \in DOMAIN p[t] /\ p[t][a] = j
  BY DEF ArmedAt
<1> QED
  BY <1>2 DEF Moved, Changed

AllArmed(L, p) == \A j \in DOMAIN L, t \in Valid : ArmedAt(L, p, loaded, j, t)

(* An enabled breakpoint whose place no other breakpoint has.              *)
LEMMA FreePlaceArms ==
  ASSUME Undisturbed, NoneExited, NEW L, NEW p, Placed(L, p), Everywhere(L, p), NEW id,
         NEW b \in LogicalBreakpoint, NEW o \in enableBreakpoint(p, id, b),
         b.set \in Locs => \A j \in DOMAIN L : L[j].set = b.set => j = id,
         NEW N, N[id] = b, NEW t \in Valid
  PROVE  ArmedAt(N, o.p, loaded, id, t)
<1> SUFFICES ASSUME Good(b), b.set \in Locs PROVE Has(o.p[t], b.set, t, id)
  BY DEF ArmedAt, Has
<1>1. \A u \in Targets : FreeAt(p[u], b.set, u, id)
  <2>1. PICK l \in Locs : l = b.set
    OBVIOUS
  <2>2. Alone(L, l, id)
    BY <2>1 DEF Alone
  <2>3. Free(p, l, id)
    BY <2>2, PlaceFree
  <2> QED
    BY <2>1, <2>3 DEF Free
<1> QED
  BY <1>1, EnableArms

LEMMA TouchedMoves ==
  ASSUME NEW L, NEW p, NEW id \in DOMAIN L, NEW M, NEW N, NEW q, Flagged(L, M, id),
         N = M \/ N = Drop(M, {id}), Changed(p, q, id, M[id])
  PROVE  Moved(L, p, id, M, N, q)
<1>1. /\ DOMAIN M = DOMAIN L /\ M[id] \in LogicalBreakpoint /\ M[id].set = L[id].set
      /\ \A j \in DOMAIN L : j # id => M[j] = L[j]
  BY DEF Flagged
<1>2. \A j \in DOMAIN Drop(M, {id}) : j # id /\ j \in DOMAIN M /\ Drop(M, {id})[j] = M[j]
  BY DEF Drop
<1>3. \A j \in DOMAIN N : j \in DOMAIN M /\ N[j] = M[j]
  BY <1>2
<1> QED
  BY <1>1, <1>3 DEF Moved

LEMMA MovedDistinct ==
  ASSUME NEW L, NEW p, NEW id \in DOMAIN L, NEW M, NEW N, NEW q, Moved(L, p, id, M, N, q),
         M[id].set = L[id].set, DistinctIn(L)
  PROVE  DistinctIn(N)
<1>1. \A j \in DOMAIN N : j \in DOMAIN L /\ N[j].set = L[j].set
  BY DEF Moved
<1> QED
  BY <1>1 DEF DistinctIn

(* An operation on one breakpoint leaves all of them armed.                *)
LEMMA TouchedArms ==
  ASSUME Undisturbed, NoneExited, NEW L, NEW p, NEW id \in DOMAIN L, NEW o, Touched(L, p, id, o),
         Everywhere(L, p), Placed(L, p), DistinctIn(L), AllArmed(L, p)
  PROVE  Placed(o.L, o.p) /\ DistinctIn(o.L) /\ AllArmed(o.L, o.p)
<1>1. PICK M :
        /\ Flagged(L, M, id)
        /\ \/ /\ o.L = M /\ o.p = p
              /\ M[id].enabled = L[id].enabled /\ M[id].condSatisfiable = L[id].condSatisfiable
           \/ ~Good(L[id]) /\ M[id].enabled /\ \E e \in Enabled(M, p, id) : o.L = e.L /\ o.p = e.p
           \/ ~Good(M[id]) /\ \E e \in Disabled(M, p, id) : o.L = e.L /\ o.p = e.p
  BY DEF Touched
<1>2. /\ DOMAIN M = DOMAIN L /\ M[id] \in LogicalBreakpoint /\ M[id].set = L[id].set
      /\ \A j \in DOMAIN L : j # id => M[j] = L[j]
  BY <1>1 DEF Flagged
<1>3. Valid \subseteq Targets
  BY DEF Valid
<1>4. ASSUME Moved(L, p, id, M, o.L, o.p),
             id \in DOMAIN o.L => \A t \in Valid : ArmedAt(o.L, o.p, loaded, id, t)
      PROVE  Placed(o.L, o.p) /\ DistinctIn(o.L) /\ AllArmed(o.L, o.p)
  <2>1. Placed(o.L, o.p)
    BY <1>4, MovedPlaced
  <2>2. DistinctIn(o.L)
    BY <1>2, <1>4, MovedDistinct
  <2>3. ASSUME NEW j \in DOMAIN o.L, NEW t \in Valid, j # id PROVE ArmedAt(o.L, o.p, loaded, j, t)
    <3>1. j \in DOMAIN L /\ t \in Targets
      BY <1>3, <1>4, <2>3 DEF Moved
    <3>2. ArmedAt(L, p, loaded, j, t)
      BY <3>1 DEF AllArmed
    <3> QED
      BY <1>4, <2>3, <3>1, <3>2, MovedArmed
  <2>4. AllArmed(o.L, o.p)
    BY <1>4, <2>3 DEF AllArmed
  <2> QED
    BY <2>1, <2>2, <2>4
<1>5. CASE /\ o.L = M /\ o.p = p
           /\ M[id].enabled = L[id].enabled /\ M[id].condSatisfiable = L[id].condSatisfiable
  <2>1. Changed(p, o.p, id, M[id])
    BY <1>5, SameChanges
  <2>2. Moved(L, p, id, M, o.L, o.p)
    BY <1>1, <1>5, <2>1, TouchedMoves
  <2>3. \A t \in Valid : ArmedAt(o.L, o.p, loaded, id, t)
    <3> SUFFICES ASSUME NEW t \in Valid PROVE ArmedAt(M, p, loaded, id, t)
      BY <1>5
    <3>1. ArmedAt(L, p, loaded, id, t)
      BY DEF AllArmed
    <3>2. Good(M[id]) = Good(L[id])
      BY <1>5 DEF Good
    <3> QED
      BY <1>2, <3>1, <3>2 DEF ArmedAt
  <2> QED
    BY <1>4, <2>2, <2>3
<1>6. CASE \E e \in Enabled(M, p, id) : o.L = e.L /\ o.p = e.p
  <2>1. PICK e \in enableBreakpoint(p, id, M[id]) : o.L = M /\ o.p = e.p
    BY <1>6, SMTT(30) DEF Enabled, Outcome
  <2>2. Changed(p, o.p, id, M[id])
    BY <1>2, <2>1, EnableChanges
  <2>3. Moved(L, p, id, M, o.L, o.p)
    BY <1>1, <2>1, <2>2, TouchedMoves
  <2>4. NoSet \notin Locs
    BY LogicalAssumption
  <2>5. M[id].set \in Locs => \A j \in DOMAIN L : L[j].set = M[id].set => j = id
    BY <1>2, <2>4 DEF DistinctIn
  <2>6. \A t \in Valid : ArmedAt(M, e.p, loaded, id, t)
    BY <1>2, <2>5, FreePlaceArms
  <2> QED
    BY <1>4, <2>1, <2>3, <2>6
<1>7. CASE ~Good(M[id]) /\ \E e \in Disabled(M, p, id) : o.L = e.L /\ o.p = e.p
  <2>1. PICK e \in Disabled(M, p, id) : o.L = e.L /\ o.p = e.p
    BY <1>7
  <2>2. e.p = Without(p, id) /\ (e.L = M \/ e.L = Drop(M, {id}))
    BY DisabledOutcome
  <2>3. Changed(p, o.p, id, M[id])
    BY <2>1, <2>2, WithoutChanges
  <2>4. Moved(L, p, id, M, o.L, o.p)
    BY <1>1, <2>1, <2>2, <2>3, TouchedMoves
  <2>5. id \in DOMAIN o.L => \A t \in Valid : ArmedAt(o.L, o.p, loaded, id, t)
    BY <1>7, <2>4 DEF ArmedAt, Moved
  <2> QED
    BY <1>4, <2>4, <2>5
<1> QED
  BY <1>1, <1>5, <1>6, <1>7

LEMMA HeldEverywhere ==
  ASSUME NoneExited, NEW L, NEW p, Held(L, p) PROVE Everywhere(L, p)
BY DEF NoneExited, Held, Everywhere, Live

LEMMA AmendArms ==
  ASSUME Undisturbed, NoneExited, NEW id \in DOMAIN lbps, AmendEffect(id), Clean(lbps, phys, Live),
         Empty(phys, Targets \ Group), Settled(phys), Held(lbps, phys),
         Placed(lbps, phys), DistinctIn(lbps), AllArmed(lbps, phys)
  PROVE  Placed(lbps', phys') /\ AllArmed(lbps', phys')
<1>1. PICK c : /\ Touched(lbps, phys, id, c)
               /\ \/ lbps' = c.L /\ phys' = c.p
                  \/ /\ id \in DOMAIN c.L
                     /\ \E o : Touched(c.L, c.p, id, o) /\ lbps' = o.L /\ phys' = o.p
  BY DEF AmendEffect
<1>2. WholePlaces /\ Everywhere(lbps, phys)
  BY UndisturbedWhole, HeldEverywhere
<1>3. Held(c.L, c.p)
  BY <1>1, <1>2, TouchedHeld
<1>4. Placed(c.L, c.p) /\ DistinctIn(c.L) /\ AllArmed(c.L, c.p) /\ Everywhere(c.L, c.p)
  BY <1>1, <1>2, <1>3, TouchedArms, HeldEverywhere
<1>5. CASE lbps' = c.L /\ phys' = c.p
  BY <1>4, <1>5
<1>6. CASE /\ id \in DOMAIN c.L
           /\ \E o : Touched(c.L, c.p, id, o) /\ lbps' = o.L /\ phys' = o.p
  <2>1. PICK o : Touched(c.L, c.p, id, o) /\ lbps' = o.L /\ phys' = o.p
    BY <1>6
  <2>2. Placed(o.L, o.p) /\ AllArmed(o.L, o.p)
    BY <1>4, <1>6, <2>1, TouchedArms
  <2> QED
    BY <2>1, <2>2
<1> QED
  BY <1>1, <1>5, <1>6

LEMMA ClearArms ==
  ASSUME Undisturbed, NoneExited, NEW id \in DOMAIN lbps, ClearEffect(id), Everywhere(lbps, phys),
         Placed(lbps, phys), DistinctIn(lbps), AllArmed(lbps, phys)
  PROVE  Placed(lbps', phys') /\ AllArmed(lbps', phys')
<1>1. PICK o : /\ Touched(lbps, phys, id, o) /\ phys' = o.p
               /\ lbps' = o.L \/ lbps' = Drop(o.L, {id})
  BY DEF ClearEffect
<1>2. Placed(o.L, o.p) /\ AllArmed(o.L, o.p)
  BY <1>1, TouchedArms
<1>3. \A j \in DOMAIN Drop(o.L, {id}) : j \in DOMAIN o.L /\ Drop(o.L, {id})[j] = o.L[j]
  BY DEF Drop
<1>4. \A j \in DOMAIN lbps' : j \in DOMAIN o.L /\ lbps'[j] = o.L[j]
  BY <1>1, <1>3
<1>5. Placed(lbps', phys')
  <2> SUFFICES ASSUME NEW t \in Targets, NEW a \in DOMAIN o.p[t], o.p[t][a] \in DOMAIN lbps'
               PROVE  AtPlace(lbps'[o.p[t][a]], t, a)
    BY <1>1 DEF Placed
  <2>1. o.p[t][a] \in DOMAIN o.L /\ lbps'[o.p[t][a]] = o.L[o.p[t][a]]
    BY <1>4
  <2> QED
    BY <1>2, <2>1 DEF Placed
<1>6. AllArmed(lbps', phys')
  <2> SUFFICES ASSUME NEW j \in DOMAIN lbps', NEW t \in Valid PROVE ArmedAt(lbps', o.p, loaded, j, t)
    BY <1>1 DEF AllArmed
  <2>1. j \in DOMAIN o.L /\ lbps'[j] = o.L[j]
    BY <1>4
  <2>2. ArmedAt(o.L, o.p, loaded, j, t)
    BY <1>2, <2>1 DEF AllArmed
  <2> QED
    BY <2>1, <2>2 DEF ArmedAt
<1> QED
  BY <1>5, <1>6

(* A new breakpoint is armed when it is kept, and then its place is its    *)
(* own.                                                                    *)
LEMMA CreateArms ==
  ASSUME Undisturbed, NoneExited, NEW id, NEW l \in Locs, CreateEffect(id, l),
         Absent(phys, Targets, id), id \notin DOMAIN lbps, Everywhere(lbps, phys),
         Placed(lbps, phys), DistinctIn(lbps'), AllArmed(lbps, phys)
  PROVE  Placed(lbps', phys') /\ AllArmed(lbps', phys')
<1>1. PICK M :
        /\ Added(lbps, M, id)
        /\ \/ lbps' = M /\ phys' = phys /\ ~M[id].enabled
           \/ \E o \in Enabled(M, phys, id) : phys' = o.p /\ (lbps' = M \/ lbps' = Drop(M, {id}))
  BY DEF CreateEffect
<1>2. /\ DOMAIN M = DOMAIN lbps \cup {id} /\ M[id] \in LogicalBreakpoint
      /\ \A j \in DOMAIN lbps : j # id => M[j] = lbps[j]
  BY <1>1 DEF Added
<1>3. \A j \in DOMAIN Drop(M, {id}) : j # id /\ j \in DOMAIN M /\ Drop(M, {id})[j] = M[j]
  BY DEF Drop
<1>4. \A j \in DOMAIN lbps' : j \in DOMAIN M /\ lbps'[j] = M[j] /\ (j = id => lbps' = M)
  BY <1>1, <1>3
<1>5. Valid \subseteq Targets
  BY DEF Valid
<1>6. ASSUME Changed(phys, phys', id, M[id]),
             lbps' = M => \A t \in Valid : ArmedAt(lbps', phys', loaded, id, t)
      PROVE  Placed(lbps', phys') /\ AllArmed(lbps', phys')
  <2>1. Moved(lbps, phys, id, M, lbps', phys')
    BY <1>2, <1>4, <1>6 DEF Moved
  <2>2. Placed(lbps', phys')
    BY <2>1, MovedPlaced
  <2>3. ASSUME NEW j \in DOMAIN lbps', NEW t \in Valid, j # id PROVE ArmedAt(lbps', phys', loaded, j, t)
    <3>1. j \in DOMAIN lbps /\ t \in Targets
      BY <1>5, <2>1, <2>3 DEF Moved
    <3>2. ArmedAt(lbps, phys, loaded, j, t)
      BY <3>1 DEF AllArmed
    <3> QED
      BY <2>1, <2>3, <3>1, <3>2, MovedArmed
  <2>4. AllArmed(lbps', phys')
    BY <1>4, <1>6, <2>3 DEF AllArmed
  <2> QED
    BY <2>2, <2>4
<1>7. CASE lbps' = M /\ phys' = phys /\ ~M[id].enabled
  <2>1. Changed(phys, phys', id, M[id])
    BY <1>7, SameChanges
  <2>2. \A t \in Valid : ArmedAt(lbps', phys', loaded, id, t)
    BY <1>7 DEF ArmedAt, Good
  <2> QED
    BY <1>6, <2>1, <2>2
<1>8. CASE \E o \in Enabled(M, phys, id) : phys' = o.p /\ (lbps' = M \/ lbps' = Drop(M, {id}))
  <2>1. PICK e \in enableBreakpoint(phys, id, M[id]) : phys' = e.p
    BY <1>8, SMTT(30) DEF Enabled, Outcome
  <2>2. Changed(phys, phys', id, M[id])
    BY <1>2, <2>1, EnableChanges
  <2>3. NoSet \notin Locs
    BY LogicalAssumption
  <2>4. ASSUME lbps' = M PROVE \A t \in Valid : ArmedAt(lbps', phys', loaded, id, t)
    <3>1. M[id].set \in Locs => \A j \in DOMAIN lbps : lbps[j].set = M[id].set => j = id
      BY <1>2, <2>3, <2>4 DEF DistinctIn
    <3>2. \A t \in Valid : ArmedAt(M, e.p, loaded, id, t)
      BY <1>2, <3>1, FreePlaceArms
    <3> QED
      BY <2>1, <2>4, <3>2
  <2> QED
    BY <1>6, <2>2, <2>4
<1> QED
  BY <1>1, <1>7, <1>8

(* One iteration of the loop of Restart.                                   *)
LEMMA RestoreArms ==
  ASSUME Undisturbed, NoneExited, NEW id \in DOMAIN lbps, RestoreEffect(id),
         Everywhere(lbps, phys), Placed(lbps, phys), DistinctIn(lbps)
  PROVE  /\ Placed(lbps', phys')
         /\ \A j \in DOMAIN lbps', t \in Valid :
              /\ j \in DOMAIN lbps
              /\ j = id \/ ArmedAt(lbps, phys, loaded, j, t) => ArmedAt(lbps', phys', loaded, j, t)
<1>1. PICK M, o : /\ Flagged(lbps, M, id) /\ o \in enableBreakpoint(phys, id, M[id])
                  /\ phys' = o.p /\ (lbps' = M \/ lbps' = Drop(M, {id}))
  BY DEF RestoreEffect
<1>2. DOMAIN M = DOMAIN lbps /\ M[id] \in LogicalBreakpoint /\ M[id].set = lbps[id].set
  BY <1>1 DEF Flagged
<1>3. Changed(phys, phys', id, M[id])
  BY <1>1, <1>2, EnableChanges
<1>4. Moved(lbps, phys, id, M, lbps', phys')
  BY <1>1, <1>3, TouchedMoves
<1>5. Placed(lbps', phys')
  BY <1>4, MovedPlaced
<1>6. NoSet \notin Locs
  BY LogicalAssumption
<1>7. M[id].set \in Locs => \A j \in DOMAIN lbps : lbps[j].set = M[id].set => j = id
  BY <1>2, <1>6 DEF DistinctIn
<1>8. \A t \in Valid : ArmedAt(M, o.p, loaded, id, t)
  BY <1>1, <1>2, <1>7, FreePlaceArms
<1>9. ASSUME NEW j \in DOMAIN lbps', NEW t \in Valid, j = id \/ ArmedAt(lbps, phys, loaded, j, t)
      PROVE  ArmedAt(lbps', phys', loaded, j, t)
  <2>1. CASE j = id
    <3>1. lbps'[id] = M[id]
      BY <1>4, <1>9, <2>1 DEF Moved
    <3> QED
      BY <1>1, <1>8, <2>1, <3>1 DEF ArmedAt
  <2>2. CASE j # id
    <3>1. t \in Targets
      BY DEF Valid
    <3> QED
      BY <1>4, <1>9, <2>2, <3>1, MovedArmed
  <2> QED
    BY <2>1, <2>2
<1>10. \A j \in DOMAIN lbps' : j \in DOMAIN lbps
  BY <1>4 DEF Moved
<1> QED
  BY <1>5, <1>9, <1>10

(* A watchpoint has no place.                                              *)
LEMMA WatchArms ==
  ASSUME NoStale, Placed(lbps, phys), AllArmed(lbps, phys), NEW a \in WatchAddrs, NEW ok,
         CreateWatchpoint(a, ok)
  PROVE  Placed(lbps', phys') /\ AllArmed(lbps', phys')
<1> DEFINE n == counter'
<1>0. DOMAIN phys = Targets /\ counter \in 0 .. MaxID
  BY DEF NoStale, Typed, Tables, Control
<1>1. 1 \in Targets /\ DOMAIN phys = Targets /\ counter \in Nat /\ n = counter + 1
  <2>1. 1 \in Targets
    BY LogicalAssumption, SMTT(30) DEF Targets
  <2>2. n = counter + 1
    BY DEF CreateWatchpoint
  <2>3. counter \in Nat
    BY <1>0, SMTT(30)
  <2> QED
    BY <1>0, <2>1, <2>2, <2>3
<1>2. n \notin 1 .. counter
  BY <1>1, SMTT(30)
<1> HIDE DEF n
<1>3. n \notin DOMAIN lbps /\ Absent(phys, Targets, n)
  BY <1>2 DEF NoStale, Numbered, Absent
<1>4. CASE UNCHANGED <<lbps, phys>>
  BY <1>4
<1>5. CASE /\ phys' = [phys EXCEPT ![1] = Put(phys[1], a, n)] /\ a \notin DOMAIN phys[1]
           /\ \E new : lbps' = Put(lbps, n, new) /\ new.set = NoSet
  <2>1. PICK new : lbps' = Put(lbps, n, new) /\ new.set = NoSet
    BY <1>5
  <2>2. /\ \A j \in DOMAIN lbps' : j = n \/ (j \in DOMAIN lbps /\ lbps'[j] = lbps[j])
        /\ lbps'[n] = new
    BY <1>3, <2>1 DEF Put
  <2>3. /\ DOMAIN phys'[1] = DOMAIN phys[1] \cup {a} /\ phys'[1][a] = n
        /\ \A y \in DOMAIN phys[1] : phys'[1][y] = phys[1][y]
        /\ \A t \in Targets : t # 1 => phys'[t] = phys[t]
    BY <1>1, <1>5 DEF Put
  <2>4. a \notin Addrs /\ NoSet \notin Locs
    BY LogicalAssumption
  <2>5. Placed(lbps', phys')
    <3> SUFFICES ASSUME NEW t \in Targets, NEW c \in DOMAIN phys'[t], phys'[t][c] \in DOMAIN lbps'
                 PROVE  AtPlace(lbps'[phys'[t][c]], t, c)
      BY DEF Placed
    <3>1. CASE t = 1 /\ c = a
      BY <2>1, <2>2, <2>3, <2>4, <3>1 DEF AtPlace
    <3>2. CASE ~(t = 1 /\ c = a)
      <4>1. c \in DOMAIN phys[t] /\ phys'[t][c] = phys[t][c]
        BY <2>3, <3>2, SMTT(30)
      <4>2. phys[t][c] # n
        BY <1>3, <4>1 DEF Absent
      <4>3. PICK j \in DOMAIN lbps : j = phys[t][c] /\ lbps'[j] = lbps[j]
        BY <2>2, <4>1, <4>2
      <4>4. AtPlace(lbps[j], t, c)
        BY <4>1, <4>3 DEF Placed
      <4> QED
        BY <4>1, <4>3, <4>4
    <3> QED
      BY <3>1, <3>2
  <2>6. AllArmed(lbps', phys')
    <3> SUFFICES ASSUME NEW j \in DOMAIN lbps', NEW t \in Valid, lbps'[j].set \in Locs, Good(lbps'[j]),
                        NEW c \in Found(lbps'[j].set, t, loaded)
                 PROVE  c \in DOMAIN phys'[t] /\ phys'[t][c] = j
      BY DEF AllArmed, ArmedAt
    <3>1. j \in DOMAIN lbps /\ lbps'[j] = lbps[j]
      BY <2>1, <2>2, <2>4
    <3>2. c \in DOMAIN phys[t] /\ phys[t][c] = j
      BY <3>1 DEF AllArmed, ArmedAt
    <3>3. t \in Targets
      BY DEF Valid
    <3> QED
      BY <2>3, <3>2, <3>3
  <2> QED
    BY <2>5, <2>6
<1>6. \/ UNCHANGED <<lbps, phys>>
      \/ /\ phys' = [phys EXCEPT ![1] = Put(phys[1], a, n)] /\ a \notin DOMAIN phys[1]
         /\ \E new : lbps' = Put(lbps, n, new) /\ new.set = NoSet
  BY <1>3, SMTT(30) DEF CreateWatchpoint, n
<1> QED
  BY <1>4, <1>5, <1>6

(* One iteration of the loops of addTarget and of pluginOpenCallback.      *)
LEMMA MaterializeArms ==
  ASSUME Undisturbed, NoneExited, NoStale, Settled(phys), Everywhere(lbps, phys),
         Placed(lbps, phys), DistinctIn(lbps), NEW id \in DOMAIN lbps, EnableOne(id)
  PROVE  /\ Placed(lbps, phys') /\ ArmedAt(lbps, phys', loaded, id, at)
         /\ \A j \in DOMAIN lbps, t \in Targets :
              ArmedAt(lbps, phys, loaded, j, t) => ArmedAt(lbps, phys', loaded, j, t)
<1> DEFINE b == lbps[id]
<1>1. at \in Targets /\ b \in LogicalBreakpoint /\ DOMAIN phys = Targets
  BY DEF NoStale, Typed, MapTyped, Control, Tables
<1>2. st[at] # "exited" /\ at \in Live
  BY <1>1 DEF NoneExited, Live
<1>3. \A l \in Locs, t \in Targets : Found(l, t, loaded) \subseteq Spot(l, t)
  BY FoundResolved
<1>4. CASE phys' = phys /\ Located(phys, at, id) # {}
  <2>1. PICK a \in DOMAIN phys[at] : phys[at][a] = id
    BY <1>4 DEF Located
  <2>2. AtPlace(b, at, a)
    BY <1>1, <2>1 DEF Placed
  <2>3. WholeAt(phys[at], at)
    BY <1>2 DEF Settled
  <2>4. ASSUME b.set \in Locs, NEW c \in Found(b.set, at, loaded)
        PROVE  c \in DOMAIN phys[at] /\ phys[at][c] = id
    <3>1. c \in Spot(b.set, at) /\ a \in Spot(b.set, at)
      BY <1>1, <1>3, <2>2, <2>4 DEF AtPlace
    <3>2. c \in DOMAIN phys[at] /\ phys[at][c] = phys[at][a]
      <4>1. PICK l \in Locs : l = b.set
        BY <2>4
      <4> HIDE DEF b
      <4>2. c \in Spot(l, at) /\ a \in Spot(l, at)
        BY <3>1, <4>1
      <4> QED
        BY <2>1, <2>3, <4>2 DEF WholeAt
    <3> QED
      BY <2>1, <3>2
  <2>5. ArmedAt(lbps, phys, loaded, id, at)
    BY <2>4 DEF ArmedAt
  <2> QED
    BY <1>4, <2>5
<1>5. CASE \E o \in enableBreakpointOnTarget(phys[at], at, id, b) : phys' = [phys EXCEPT ![at] = o.q]
  <2>1. PICK o \in enableBreakpointOnTarget(phys[at], at, id, b) : phys' = [phys EXCEPT ![at] = o.q]
    BY <1>5
  <2>2. phys'[at] = o.q /\ \A t \in Targets : t # at => phys'[t] = phys[t]
    BY <1>1, <2>1
  <2>3. Extends(phys[at], o.q, at, id, b)
    BY <1>1, OnTargetExtends
  <2> HIDE DEF b
  <2>4. \A t \in Targets : \A a \in DOMAIN phys[t] : a \in DOMAIN phys'[t] /\ phys'[t][a] = phys[t][a]
    BY <2>2, <2>3 DEF Extends
  <2>5. ASSUME NEW j \in DOMAIN lbps, NEW t \in Targets, ArmedAt(lbps, phys, loaded, j, t)
        PROVE  ArmedAt(lbps, phys', loaded, j, t)
    BY <2>4, <2>5 DEF ArmedAt
  <2>6. Placed(lbps, phys')
    <3> SUFFICES ASSUME NEW t \in Targets, NEW a \in DOMAIN phys'[t], phys'[t][a] \in DOMAIN lbps
                 PROVE  AtPlace(lbps[phys'[t][a]], t, a)
      BY DEF Placed
    <3>1. CASE a \in DOMAIN phys[t]
      BY <2>4, <3>1 DEF Placed
    <3>2. CASE a \notin DOMAIN phys[t]
      <4>1. /\ t = at /\ phys'[t][a] = id /\ b.set \in Locs /\ a \in Resolved(b.set, at)
        BY <2>2, <2>3, <3>2 DEF Extends
      <4>2. a \in Spot(b.set, at)
        BY <1>1, <4>1, FoundResolved
      <4> QED
        BY <4>1, <4>2 DEF AtPlace, b
    <3> QED
      BY <3>1, <3>2
  <2>7. ArmedAt(lbps, phys', loaded, id, at)
    <3> SUFFICES ASSUME Good(b), b.set \in Locs PROVE Has(o.q, b.set, at, id)
      BY <2>2 DEF ArmedAt, Has, b
    <3>1. PICK l \in Locs : l = b.set
      OBVIOUS
    <3>2. NoSet \notin Locs
      BY LogicalAssumption
    <3>3. Alone(lbps, l, id)
      BY <3>1, <3>2 DEF DistinctIn, Alone, b
    <3>4. Free(phys, l, id)
      BY <3>3, PlaceFree
    <3>5. FreeAt(phys[at], b.set, at, id)
      BY <1>1, <3>1, <3>4 DEF Free
    <3> QED
      BY <1>1, <1>2, <3>5, OnTargetArms
  <2> QED
    BY <2>5, <2>6, <2>7
<1> QED
  BY <1>4, <1>5 DEF EnableOne

(* The loop that is running has still to arm the breakpoint id in t.       *)
Waiting(id, t) ==
  id \in todo /\ (phase = "restarting" \/ (phase \in {"adding", "plugin"} /\ t = at))

Exact ==
  /\ NoneExited /\ DistinctIn(lbps) /\ Placed(lbps, phys)
  /\ \A id \in DOMAIN lbps, t \in Targets :
       st[t] \in {"valid", "adding"} => Waiting(id, t) \/ ArmedAt(lbps, phys, loaded, id, t)

LEMMA NextExact ==
  ASSUME Undisturbed
  PROVE  NoStale /\ Settled(phys) /\ Held(lbps, phys) /\ Exact /\ [Next]_vars /\ [DistinctPlaces]_vars
         => Exact'
<1> SUFFICES ASSUME NoStale, Settled(phys), Held(lbps, phys), Exact, [Next]_vars, [DistinctPlaces]_vars
             PROVE  Exact'
  OBVIOUS
<1>a. /\ Typed /\ Numbered /\ Stages /\ Awaited /\ Clean(lbps, phys, Live) /\ TypeOK
      /\ MapTyped(lbps) /\ NoneExited /\ DistinctIn(lbps) /\ Placed(lbps, phys)
      /\ Everywhere(lbps, phys)
  BY TypedIsTypeOK, HeldEverywhere DEF NoStale, Typed, Exact
<1>b. ASSUME phase # "adding" PROVE Empty(phys, Targets \ Group)
  BY <1>a, <1>b, OutsideEmpty
<1>c. DistinctIn(lbps')
  <2>1. CASE DistinctPlaces
    BY <2>1 DEF DistinctPlaces, DistinctIn
  <2>2. CASE UNCHANGED vars
    BY <1>a, <2>2 DEF vars
  <2> QED
    BY <2>1, <2>2
<1>d. ASSUME phase \in {"stopped", "managing", "running"} \/ todo = {},
             NEW id \in DOMAIN lbps, NEW t \in Targets, st[t] \in {"valid", "adding"}
      PROVE  ArmedAt(lbps, phys, loaded, id, t)
  <2>1. ~Waiting(id, t)
    BY <1>d DEF Waiting
  <2> QED
    BY <1>d, <2>1 DEF Exact
<1>e. ASSUME phase \in {"stopped", "managing", "running"} \/ todo = {} PROVE AllArmed(lbps, phys)
  <2> SUFFICES ASSUME NEW id \in DOMAIN lbps, NEW t \in Valid PROVE ArmedAt(lbps, phys, loaded, id, t)
    BY DEF AllArmed
  <2>1. t \in Targets /\ st[t] \in {"valid", "adding"}
    BY DEF Valid
  <2> QED
    BY <1>d, <1>e, <2>1
<1>x. ASSUME NoneExited', Placed(lbps', phys'),
             \A id \in DOMAIN lbps', t \in Targets :
               st'[t] \in {"valid", "adding"} => Waiting(id, t)' \/ ArmedAt(lbps', phys', loaded', id, t)
      PROVE  Exact'
  BY <1>c, <1>x DEF Exact, DistinctIn, Placed, AtPlace, Spot, ArmedAt, Found, Good
<1>f. ASSUME phase # "adding", st' = st, loaded' = loaded, Placed(lbps', phys'), AllArmed(lbps', phys')
      PROVE  Exact'
  <2>1. NoneExited'
    BY <1>a, <1>f DEF NoneExited
  <2>2. ASSUME NEW id \in DOMAIN lbps', NEW t \in Targets, st'[t] \in {"valid", "adding"}
        PROVE  ArmedAt(lbps', phys', loaded', id, t)
    <3>1. t \in Valid
      BY <1>a, <1>f, <2>2 DEF Valid, Stages
    <3> QED
      BY <1>f, <3>1 DEF AllArmed
  <2> QED
    BY <1>f, <1>x, <2>1, <2>2
<1>g. ASSUME phase = "stopped" PROVE phase # "adding" /\ phase \in {"stopped", "managing", "running"}
  BY <1>g
<1>1. ASSUME NEW req \in ReqIDs, NEW l \in Locs, NEW hc \in HitConds, NEW dep \in Deps,
             NEW bad \in ParseErrors \cup {"nil"}, NEW s \in Suspend,
             CreateBreakpoint(req, l, hc, dep, bad, s)
      PROVE  Exact'
  <2>1. PICK id \in IDs : counter' = id /\ (req = 0 => id = counter + 1) /\ CreateEffect(id, l)
    BY <1>a, <1>1, CreateEffects, ZenonT(30)
  <2>2. req = 0
    BY <1>1 DEF Undisturbed
  <2>3. Absent(phys, Targets, id) /\ id \notin DOMAIN lbps
    BY <1>a, <2>1, <2>2, CreateKnown
  <2>4. phase = "stopped" /\ st' = st /\ loaded' = loaded
    BY <1>1 DEF CreateBreakpoint, Idle
  <2>5. AllArmed(lbps, phys)
    BY <1>e, <1>g, <2>4
  <2>6. Placed(lbps', phys') /\ AllArmed(lbps', phys')
    BY <1>a, <1>c, <2>1, <2>3, <2>5, CreateArms
  <2> QED
    BY <1>f, <1>g, <2>4, <2>6
<1>2. ASSUME NEW a \in WatchAddrs, NEW ok \in BOOLEAN, CreateWatchpoint(a, ok) PROVE Exact'
  <2>1. phase = "stopped" /\ st' = st /\ loaded' = loaded
    BY <1>2 DEF CreateWatchpoint, Idle
  <2>2. AllArmed(lbps, phys)
    BY <1>e, <1>g, <2>1
  <2>3. Placed(lbps', phys') /\ AllArmed(lbps', phys')
    BY <1>2, <1>a, <2>2, WatchArms
  <2> QED
    BY <1>f, <1>g, <2>1, <2>3
<1>3. ASSUME NEW id \in IDs, NEW disable \in BOOLEAN, NEW hc \in HitConds, NEW dep \in Deps,
             NEW bad \in ParseErrors \cup {"nil"}, AmendBreakpoint(id, disable, hc, dep, bad)
      PROVE  Exact'
  <2>1. id \in DOMAIN lbps /\ AmendEffect(id)
    BY <1>a, <1>3, AmendEffects
  <2>2. phase = "stopped" /\ st' = st /\ loaded' = loaded
    BY <1>3 DEF AmendBreakpoint, Idle
  <2>3. AllArmed(lbps, phys) /\ Empty(phys, Targets \ Group)
    BY <1>b, <1>e, <1>g, <2>2
  <2>4. Placed(lbps', phys') /\ AllArmed(lbps', phys')
    BY <1>a, <2>1, <2>3, AmendArms
  <2> QED
    BY <1>f, <1>g, <2>2, <2>4
<1>4. ASSUME NEW id \in IDs, ClearBreakpoint(id) PROVE Exact'
  <2>1. phase = "stopped" /\ st' = st /\ loaded' = loaded
    BY <1>4 DEF ClearBreakpoint, Idle
  <2>2. id \in DOMAIN lbps /\ ClearEffect(id)
    BY <1>a, <1>4, ClearEffects
  <2>3. AllArmed(lbps, phys)
    BY <1>e, <1>g, <2>1
  <2>4. Placed(lbps', phys') /\ AllArmed(lbps', phys')
    BY <1>a, <2>2, <2>3, ClearArms
  <2> QED
    BY <1>f, <1>g, <2>1, <2>4
<1>5. ASSUME NEW id \in IDs, ManageOne(id) PROVE Exact'
  <2>1. /\ id \in DOMAIN lbps /\ lbps[id] \in LogicalBreakpoint /\ st' = st /\ loaded' = loaded
        /\ phase = "managing"
    BY <1>a, <1>5 DEF ManageOne, MapTyped
  <2>2. PICK o \in manageUnsatisfiable(id) : lbps' = o.L /\ phys' = o.p
    BY <1>5 DEF ManageOne, Apply
  <2>3. phase # "adding" /\ phase \in {"stopped", "managing", "running"}
    BY <2>1
  <2>4. Touched(lbps, phys, id, o)
    BY <2>1, ManageTouches
  <2>5. Placed(o.L, o.p) /\ AllArmed(o.L, o.p)
    BY <1>a, <1>e, <2>1, <2>3, <2>4, TouchedArms
  <2> QED
    BY <1>f, <2>1, <2>2, <2>3, <2>5
<1>6. ASSUME NEW id \in IDs, Materialize(id) PROVE Exact'
  <2>1. /\ id \in todo /\ phase \in {"adding", "plugin", "restarting"} /\ phase \in {"adding", "plugin"}
        /\ EnableOne(id) /\ todo' = todo \ {id} /\ UNCHANGED <<lbps, st, loaded, phase, at>>
    BY <1>6 DEF Materialize
  <2>2. id \in DOMAIN lbps
    BY <1>a, <2>1 DEF Typed, Pending
  <2>3. /\ Placed(lbps, phys') /\ ArmedAt(lbps, phys', loaded, id, at)
        /\ \A j \in DOMAIN lbps, t \in Targets :
             ArmedAt(lbps, phys, loaded, j, t) => ArmedAt(lbps, phys', loaded, j, t)
    BY <1>a, <2>1, <2>2, MaterializeArms
  <2>4. ASSUME NEW j \in DOMAIN lbps, NEW t \in Targets, st[t] \in {"valid", "adding"}
        PROVE  Waiting(j, t)' \/ ArmedAt(lbps, phys', loaded, j, t)
    <3>1. CASE ArmedAt(lbps, phys, loaded, j, t)
      BY <2>3, <3>1
    <3>2. CASE Waiting(j, t)
      BY <2>1, <2>3, <3>2 DEF Waiting
    <3> QED
      BY <2>4, <3>1, <3>2 DEF Exact
  <2>5. NoneExited'
    BY <1>a, <2>1 DEF NoneExited
  <2> QED
    BY <1>x, <2>1, <2>3, <2>4, <2>5
<1>7. ASSUME NEW id \in IDs, RestartOne(id) PROVE Exact'
  <2>1. /\ id \in todo /\ phase = "restarting" /\ Restore(id) /\ todo' = todo \ {id}
        /\ UNCHANGED <<st, loaded, phase, at>>
    BY <1>7 DEF RestartOne
  <2>2. phase \in {"adding", "plugin", "restarting"} /\ phase # "adding"
    BY <2>1
  <2>3. id \in DOMAIN lbps /\ lbps[id] \in LogicalBreakpoint
    BY <1>a, <2>1, <2>2 DEF Typed, Pending, MapTyped
  <2>4. RestoreEffect(id)
    BY <2>1, <2>3, RestoreEffects
  <2>5. /\ Placed(lbps', phys')
        /\ \A j \in DOMAIN lbps', t \in Valid :
             /\ j \in DOMAIN lbps
             /\ j = id \/ ArmedAt(lbps, phys, loaded, j, t) => ArmedAt(lbps', phys', loaded, j, t)
    BY <1>a, <2>3, <2>4, RestoreArms
  <2>6. ASSUME NEW j \in DOMAIN lbps', NEW t \in Targets, st[t] \in {"valid", "adding"}
        PROVE  Waiting(j, t)' \/ ArmedAt(lbps', phys', loaded, j, t)
    <3>1. t \in Valid
      BY <1>a, <2>2, <2>6 DEF Valid, Stages
    <3>2. CASE j = id \/ ArmedAt(lbps, phys, loaded, j, t)
      BY <2>5, <3>1, <3>2
    <3>3. CASE j # id /\ Waiting(j, t)
      BY <2>1, <3>3 DEF Waiting
    <3> QED
      BY <2>5, <2>6, <3>1, <3>2, <3>3 DEF Exact
  <2>7. NoneExited'
    BY <1>a, <2>1 DEF NoneExited
  <2> QED
    BY <1>x, <2>1, <2>5, <2>6, <2>7
<1>8. CASE Continue \/ ManageDone \/ Stop \/ RestartDone
  <2>1. /\ UNCHANGED <<lbps, phys, st, loaded>> /\ phase # "adding"
        /\ phase \in {"stopped", "managing", "running"} \/ todo = {}
    BY <1>8 DEF Continue, ManageDone, Stop, RestartDone
  <2>2. Placed(lbps', phys') /\ AllArmed(lbps', phys')
    BY <1>a, <1>e, <2>1
  <2> QED
    BY <1>f, <2>1, <2>2
<1>9. ASSUME NEW u \in Targets, PluginOpen(u) PROVE Exact'
  <2>1. /\ UNCHANGED <<lbps, phys, st>> /\ loaded' = loaded \cup {u} /\ at' = u /\ phase' = "plugin"
        /\ todo' = DOMAIN lbps /\ phase \in {"stopped", "managing", "running"}
    BY <1>9 DEF PluginOpen
  <2>2. NoneExited' /\ Placed(lbps', phys')
    BY <1>a, <2>1 DEF NoneExited
  <2>3. ASSUME NEW id \in DOMAIN lbps', NEW t \in Targets, st'[t] \in {"valid", "adding"}
        PROVE  Waiting(id, t)' \/ ArmedAt(lbps', phys', loaded', id, t)
    <3>1. CASE t = u
      BY <2>1, <2>3, <3>1 DEF Waiting
    <3>2. CASE t # u
      <4>1. ArmedAt(lbps, phys, loaded, id, t)
        BY <1>d, <2>1, <2>3
      <4>2. t \in loaded' <=> t \in loaded
        BY <2>1, <3>2
      <4> QED
        BY <2>1, <4>1, <4>2 DEF ArmedAt, Found
    <3> QED
      BY <3>1, <3>2
  <2> QED
    BY <1>x, <2>2, <2>3
<1>10. CASE Spawn
  <2>1. PICK u \in Targets : st[u] = "none" /\ st' = [st EXCEPT ![u] = "adding"] /\ at' = u
    BY <1>10 DEF Spawn
  <2>2. /\ UNCHANGED <<lbps, phys, loaded>> /\ phase' = "adding" /\ todo' = DOMAIN lbps
        /\ phase \in {"stopped", "managing", "running"}
    BY <1>10 DEF Spawn
  <2>3. \A t \in Targets : st'[t] = IF t = u THEN "adding" ELSE st[t]
    BY <1>a, <2>1 DEF Typed, Control
  <2>4. NoneExited' /\ Placed(lbps', phys')
    <3>1. \A t \in Targets : st'[t] # "exited"
      BY <1>a, <2>3 DEF NoneExited
    <3> QED
      BY <1>a, <2>2, <3>1 DEF NoneExited
  <2>5. ASSUME NEW id \in DOMAIN lbps', NEW t \in Targets, st'[t] \in {"valid", "adding"}
        PROVE  Waiting(id, t)' \/ ArmedAt(lbps', phys', loaded', id, t)
    <3>1. CASE t = u
      BY <2>1, <2>2, <2>5, <3>1 DEF Waiting
    <3>2. CASE t # u
      BY <1>d, <2>2, <2>3, <2>5, <3>2
    <3> QED
      BY <3>1, <3>2
  <2> QED
    BY <1>x, <2>4, <2>5
<1>11. CASE MaterializeDone
  <2>1. /\ st' = [st EXCEPT ![at] = "valid"] /\ phase \in {"adding", "plugin"} /\ todo = {}
        /\ UNCHANGED <<lbps, phys, loaded>>
    BY <1>11 DEF MaterializeDone
  <2>2. st[at] \in {"valid", "adding"}
    BY <1>a, <2>1 DEF Stages
  <2>3. \A t \in Targets : st'[t] = IF t = at THEN "valid" ELSE st[t]
    BY <1>a, <2>1 DEF Typed, Control
  <2>4. NoneExited' /\ Placed(lbps', phys')
    <3>1. \A t \in Targets : st'[t] # "exited"
      BY <1>a, <2>3 DEF NoneExited
    <3> QED
      BY <1>a, <2>1, <3>1 DEF NoneExited
  <2>5. ASSUME NEW id \in DOMAIN lbps', NEW t \in Targets, st'[t] \in {"valid", "adding"}
        PROVE  ArmedAt(lbps', phys', loaded', id, t)
    <3>1. st[t] \in {"valid", "adding"}
      BY <2>2, <2>3, <2>5
    <3> QED
      BY <1>d, <2>1, <3>1
  <2> QED
    BY <1>x, <2>4, <2>5
<1>12. CASE Restart
  <2>1. /\ DOMAIN lbps' = DOMAIN lbps /\ \A t \in Targets : DOMAIN phys'[t] = {}
        /\ \A id \in DOMAIN lbps : lbps'[id].enabled = lbps[id].enabled
    BY <1>a, <1>12, RestartTyped
  <2>2. /\ todo' = {id \in DOMAIN lbps : lbps[id].enabled} /\ phase' = "restarting"
        /\ \A t \in Targets : st'[t] # "exited"
    BY <1>12 DEF Restart
  <2>3. NoneExited' /\ Placed(lbps', phys')
    BY <2>1, <2>2 DEF NoneExited, Placed
  <2>4. ASSUME NEW id \in DOMAIN lbps', NEW t \in Targets
        PROVE  Waiting(id, t)' \/ ArmedAt(lbps', phys', loaded', id, t)
    <3>1. CASE lbps[id].enabled
      BY <2>1, <2>2, <2>4, <3>1 DEF Waiting
    <3>2. CASE ~lbps[id].enabled
      BY <2>1, <2>4, <3>2 DEF ArmedAt, Good
    <3> QED
      BY <3>1, <3>2
  <2> QED
    BY <1>x, <2>3, <2>4
<1>13. ASSUME NEW t \in Targets, Exit(t) PROVE Exact'
  BY <1>13 DEF Exit, Undisturbed
<1>14. ASSUME NEW u \in Targets, NEW x, Hit(u, x) PROVE Exact'
  <2>1. /\ DOMAIN lbps' = DOMAIN lbps
        /\ \A j \in DOMAIN lbps :
             /\ lbps'[j].set = lbps[j].set /\ lbps'[j].enabled = lbps[j].enabled
             /\ lbps'[j].condSatisfiable = lbps[j].condSatisfiable
    BY <1>a, <1>14, HitTyped, ZenonT(30)
  <2>2. UNCHANGED <<phys, st, loaded>> /\ phase = "running"
    BY <1>14 DEF Hit
  <2>3. phase # "adding" /\ phase \in {"stopped", "managing", "running"}
    BY <2>2
  <2>4. \A j \in DOMAIN lbps : Good(lbps'[j]) = Good(lbps[j])
    BY <2>1 DEF Good
  <2>5. Placed(lbps', phys')
    BY <1>a, <2>1, <2>2 DEF Placed, AtPlace
  <2>6. AllArmed(lbps', phys')
    <3> SUFFICES ASSUME NEW j \in DOMAIN lbps, NEW t \in Valid PROVE ArmedAt(lbps', phys, loaded, j, t)
      BY <2>1, <2>2 DEF AllArmed
    <3>1. ArmedAt(lbps, phys, loaded, j, t)
      BY <1>e, <2>3 DEF AllArmed
    <3> QED
      BY <2>1, <2>4, <3>1 DEF ArmedAt
  <2> QED
    BY <1>f, <2>2, <2>3, <2>5, <2>6
<1>15. CASE UNCHANGED vars
  <2>1. UNCHANGED <<lbps, phys, st, loaded>> /\ NoneExited' /\ Placed(lbps', phys')
    BY <1>15, <1>a DEF vars, NoneExited
  <2>2. ASSUME NEW id \in DOMAIN lbps', NEW t \in Targets, st'[t] \in {"valid", "adding"}
        PROVE  Waiting(id, t)' \/ ArmedAt(lbps', phys', loaded', id, t)
    <3>1. Waiting(id, t) \/ ArmedAt(lbps, phys, loaded, id, t)
      BY <2>1, <2>2 DEF Exact
    <3>2. CASE Waiting(id, t)
      BY <1>15, <3>2 DEF vars, Waiting
    <3>3. CASE ArmedAt(lbps, phys, loaded, id, t)
      BY <2>1, <3>3
    <3> QED
      BY <3>1, <3>2, <3>3
  <2> QED
    BY <1>x, <2>1, <2>2
<1> QED
  BY <1>1, <1>2, <1>3, <1>4, <1>5, <1>6, <1>7, <1>8, <1>9, <1>10, <1>11, <1>12, <1>13, <1>14, <1>15,
     ZenonT(60) DEF Next

(* Every breakpoint that is enabled and satisfiable is written at every    *)
(* address of its place, in every process, however the processes and       *)
(* plugins came and whatever was amended, cleared or restarted meanwhile.  *)
(* For clients that have one breakpoint at a place and let the debugger    *)
(* number them, when places do not overlap and nothing fails or exits.     *)
THEOREM WrittenEverywhere ==
  ASSUME Undisturbed
  PROVE  Spec /\ [][DistinctPlaces]_vars => []ArmedEverywhere
<1> DEFINE Inv == NoStale /\ Settled(phys) /\ Held(lbps, phys) /\ Exact
<1>0. ReqIDs \subseteq {0} /\ WholePlaces
  BY UndisturbedWhole DEF Undisturbed
<1>1. Init => Inv
  <2> SUFFICES ASSUME Init PROVE Settled(phys) /\ Held(lbps, phys) /\ Exact
    BY InitStale
  <2>1. (\A t \in Targets : DOMAIN phys[t] = {}) /\ DOMAIN lbps = {}
    BY DEF Init, NoLocations
  <2>2. NoneExited
    BY DEF Init, NoneExited
  <2> QED
    BY <2>1, <2>2 DEF Settled, Held, WholeAt, Live, Exact, DistinctIn, Placed
<1>2. Inv /\ [Next]_vars /\ [DistinctPlaces]_vars => Inv'
  <2>1. NoStale /\ [Next]_vars => NoStale'
    BY <1>0, NextStale
  <2>2. NoStale /\ Settled(phys) /\ Held(lbps, phys) /\ [Next]_vars => (Settled(phys) /\ Held(lbps, phys))'
    BY <1>0, NextHeld
  <2> QED
    BY <2>1, <2>2, NextExact
<1>3. Inv => ArmedEverywhere
  <2> SUFFICES ASSUME Inv, phase = "running", NEW id \in DOMAIN lbps, NEW t \in Valid,
                      Good(lbps[id]), lbps[id].set # NoSet,
                      NEW i \in 1 .. Len(Resolve(lbps[id].set, t))
               PROVE  /\ Resolve(lbps[id].set, t)[i] \in DOMAIN phys[t]
                      /\ phys[t][Resolve(lbps[id].set, t)[i]] = id
    BY DEF ArmedEverywhere, Good
  <2>1. lbps[id] \in LogicalBreakpoint
    BY DEF NoStale, Typed, MapTyped
  <2>2. lbps[id].set \in Locs
    BY <2>1 DEF LogicalBreakpoint
  <2>3. t \in Targets /\ st[t] \in {"valid", "adding"}
    BY DEF Valid
  <2>4. ~Waiting(id, t)
    BY DEF Waiting
  <2>5. ArmedAt(lbps, phys, loaded, id, t)
    BY <2>3, <2>4 DEF Exact
  <2>6. Resolve(lbps[id].set, t)[i] \in Found(lbps[id].set, t, loaded)
    BY <2>2, <2>3, FoundResolved DEF Resolved
  <2> QED
    BY <2>2, <2>5, <2>6 DEF ArmedAt
<1> QED
  BY <1>1, <1>2, <1>3, PTL DEF Spec
=============================================================================
