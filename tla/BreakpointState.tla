--------------------------- MODULE BreakpointState ---------------------------
(***************************************************************************)
(* How delve decides whether a thread that stopped at a breakpoint really  *)
(* stops the program: the hit condition of the logical breakpoint, the     *)
(* conditions and callbacks of the breaklets at the address, and the       *)
(* BreakpointState they leave in the thread.                               *)
(*                                                                         *)
(* A breaklet is [kind, cb]; cb names its callback, "none" for nil.  What  *)
(* evaluating a condition finds in the process (the value of the        *)
(* condition, the frames under the deferred call, an error in a callback)  *)
(* is an input: a record [cond, frame, cbErr] for every breaklet.          *)
(***************************************************************************)
EXTENDS Integers, Sequences

SteppingKinds == {"next", "nextdefer", "step", "newproc", "rangebody", "inactivated"}
BreakletKinds == SteppingKinds \cup {"user"}
Callbacks == {"none", "stepInto", "inactivate", "newproc"}
Breaklet == [kind : BreakletKinds, cb : Callbacks]

(* What evaluating breaklet b may find: only a NextDeferBreakpoint looks at  *)
(* the frames, only a breaklet with a callback gets an error from it.  The   *)
(* callback of a go statement may fail early, before it has changed the      *)
(* breakpoint table, or late, when it sets the breakpoint in the goroutine.  *)
Outcomes(b) ==
  {o \in [cond : {"true", "false", "error"}, frame : BOOLEAN,
         cbErr : {"none", "early", "late"}] :
     /\ b.kind # "nextdefer" => o.frame
     /\ b.cb = "none" => o.cbErr = "none"
     /\ o.cbErr = "early" => b.cb = "newproc"}

HitOps == {"==", "!=", "<", "<=", ">", ">=", "%"}
NoHitCond == [op |-> "nil", val |-> 0, perG |-> FALSE]

(* checkHitCond: does the n-th hit satisfy the hit condition?               *)
checkHitCond(hc, n) ==
  CASE hc.op = "nil" -> TRUE
    [] hc.op = "=="  -> n = hc.val
    [] hc.op = "!="  -> n # hc.val
    [] hc.op = "<"   -> n < hc.val
    [] hc.op = "<="  -> n <= hc.val
    [] hc.op = ">"   -> n > hc.val
    [] hc.op = ">="  -> n >= hc.val
    [] hc.op = "%"   -> n % hc.val = 0

(* Defective variant: one hit too few.                                      *)
satisfiableOffByOne(lbp) ==
  \/ lbp.hitCond.perG
  \/ CASE lbp.hitCond.op \in {"==", "<="} -> lbp.hits < lbp.hitCond.val - 1
       [] lbp.hitCond.op = "<" -> lbp.hits < lbp.hitCond.val - 2
       [] OTHER -> TRUE

(* Defective variant: one hit too many.                                     *)
satisfiableLate(lbp) ==
  \/ lbp.hitCond.perG
  \/ lbp.hitCond.op \in {"==", "<=", "<"} => lbp.hits <= lbp.hitCond.val

(* The part of breakpointConditionSatisfiable that looks at the hit         *)
(* condition: may a later hit still satisfy it?                             *)
satisfiable(lbp) ==
  \/ lbp.hitCond.perG
  \/ CASE lbp.hitCond.op \in {"==", "<="} -> lbp.hits < lbp.hitCond.val
       [] lbp.hitCond.op = "<" -> lbp.hits < lbp.hitCond.val - 1
       [] OTHER -> TRUE

(* The state of a thread that is not at a breakpoint.  Clear() does not     *)
(* reset SteppingIntoRangeOverFuncBody.                                     *)
Cleared(st, none) ==
  [st EXCEPT !.at = none, !.Active = FALSE, !.Stepping = FALSE,
             !.SteppingInto = FALSE, !.CondError = FALSE,
             !.userMet = FALSE, !.stepMet = FALSE]

(* The hit count that the hit condition reads, after this hit is counted.   *)
hitCount(lbp, g) == IF lbp.hitCond.perG THEN lbp.hitsG[g] ELSE lbp.hits

(* A hit of the user breaklet by goroutine g is counted before its hit      *)
(* condition is evaluated.                                                  *)
counted(lbp, g) ==
  [lbp EXCEPT !.hits = @ + 1, !.hitsG[g] = @ + 1]

(* The checks checkCond makes before it looks at the callback.              *)
KindActive(kind, o, lbp, g) ==
  CASE kind = "user"        -> checkHitCond(lbp.hitCond, hitCount(lbp, g))
    [] kind = "nextdefer"   -> o.frame
    [] kind = "inactivated" -> FALSE
    [] OTHER                -> TRUE

(* checkCond, for one breaklet.  acc is [st, lbp, ran]: the thread's state, *)
(* the logical breakpoint and the callbacks called so far, but for those    *)
(* that failed early.  Every callback but nil returns false; that of a      *)
(* newproc breaklet has inactivated the stepping breaklets that are still   *)
(* to be evaluated.  userMet and stepMet are history: a user (stepping)     *)
(* breaklet had its conditions met.                                         *)
checkCond(acc, b, o, g) ==
  LET kind == IF "newproc" \in acc.ran /\ b.kind \in SteppingKinds
              THEN "inactivated" ELSE b.kind
      lbp == IF kind = "user" THEN counted(acc.lbp, g) ELSE acc.lbp
      active == KindActive(kind, o, lbp, g)
      Active == IF active THEN b.cb = "none" ELSE acc.st.Active
      stops(kinds) == Active /\ kind \in kinds
  IN IF o.cond = "false"
     THEN acc
     ELSE [lbp |-> lbp,
           ran |-> IF active /\ o.cbErr # "early" THEN acc.ran \cup {b.cb} ELSE acc.ran,
           st |-> [acc.st EXCEPT
             !.Active = Active,
             !.Stepping = @ \/ stops({"next", "nextdefer", "step", "rangebody"}),
             !.SteppingInto = @ \/ stops({"step"}),
             !.RangeBody = @ \/ stops({"rangebody"}),
             !.CondError = @ \/ o.cond = "error"
                             \/ (active /\ b.cb # "none" /\ o.cbErr # "none"),
             !.userMet = @ \/ (kind = "user" /\ active),
             !.stepMet = @ \/ (kind \in SteppingKinds /\ active /\ b.cb = "none")]]

(* checkCondition: the state is reset, then every breaklet is evaluated.    *)
checkCondition(st, breaklets, os, lbp, g) ==
  LET fresh == [st EXCEPT !.Active = FALSE, !.Stepping = FALSE, !.SteppingInto = FALSE,
                          !.RangeBody = FALSE, !.CondError = FALSE,
                          !.userMet = FALSE, !.stepMet = FALSE]
      acc[i \in 0..Len(breaklets)] ==
        IF i = 0 THEN [st |-> fresh, lbp |-> lbp, ran |-> {}]
        ELSE checkCond(acc[i - 1], breaklets[i], os[i], g)
  IN acc[Len(breaklets)]
=============================================================================
