--------------------------- MODULE LogicalBreakpoints ---------------------------
(***************************************************************************)
(* The logical breakpoints of a target group and the physical locations    *)
(* they own (service/debugger/debugger.go, pkg/proc/target_group.go).      *)
(*                                                                         *)
(* A logical breakpoint names a place in the source; on every target it    *)
(* resolves to zero or more addresses.  It is written into the targets     *)
(* while it is enabled and its conditions can still be satisfied, and      *)
(* every operation that touches several targets can fail half way.         *)
(*                                                                         *)
(* phase is what the holder of the debugger's target mutex is doing:       *)
(*   stopped     waiting for a command                                     *)
(*   managing    manageUnsatisfiableBreakpoints, at the head of Continue   *)
(*   running     the targets run                                           *)
(*   adding      addTarget, for a child process that appeared              *)
(*   plugin      pluginOpenCallback                                        *)
(*   restarting  Restart                                                   *)
(* The loops over the map of logical breakpoints (any order) take one step *)
(* per breakpoint; nothing else happens meanwhile.                         *)
(*                                                                         *)
(* Breakpoints here are unnamed.  Internal breaklets, which never keep a   *)
(* user breaklet from being added, are in module Breakpoints.              *)
(***************************************************************************)
EXTENDS Naturals, Sequences, FiniteSets

CONSTANTS
  NumTargets,   \* processes the group may have, in the order they appear
  Addrs,        \* addresses of instructions
  WatchAddrs,   \* addresses of variables
  Locs,         \* places in the source
  ProgramAddrs, \* ProgramAddrs[l][t]: the addresses of l in target t, in order
  LocAddrs,     \* LocAddrs[l][t]: the same once t has opened its plugin
  PidLocs,      \* places given as a list of addresses, not by file or function
  ExprLocs,     \* places given as an expression alone
  ExprOf,       \* the expression that comes with a list of addresses, or NoSet
  ReqIDs,       \* the IDs a client asks for; 0: let the debugger choose
  Suspend,      \* values of the suspended argument of CreateBreakpoint
  HitConds,     \* values v of the hit condition "== v"; 0: none
  Deps,         \* IDs n of the condition "delve.bphitcount[n] >= 1"; 0: none
  ParseErrors,  \* conditions may not parse: subset of {"cond", "hitcond"}
  WriteFaults,  \* addresses where WriteBreakpoint may fail
  EraseFaults,  \* addresses where EraseBreakpoint may fail
  MayExit,      \* targets may exit
  MaxID,        \* bound on breakpointIDCounter
  MaxHits       \* bound on TotalHitCount

Targets == 1 .. NumTargets
IDs == 1 .. MaxID
NoSet == "none"   \* lbp.Set is empty

ASSUME LogicalAssumption ==
  /\ NumTargets \in Nat \ {0} /\ MaxID \in Nat /\ MaxHits \in Nat
  /\ Addrs \cap WatchAddrs = {}
  /\ NoSet \notin Locs /\ PidLocs \cup ExprLocs \subseteq Locs /\ PidLocs \cap ExprLocs = {}
  /\ ExprOf \in [PidLocs -> ExprLocs \cup {NoSet}]
  /\ \A l \in Locs, t \in Targets :
       ProgramAddrs[l][t] \in Seq(Addrs) /\ LocAddrs[l][t] \in Seq(Addrs)
  /\ WriteFaults \cup EraseFaults \subseteq Addrs
  /\ ReqIDs \subseteq IDs \cup {0} /\ Deps \subseteq IDs \cup {0}
  /\ HitConds \subseteq Nat /\ ParseErrors \subseteq {"cond", "hitcond"}
  /\ MayExit \in BOOLEAN

VARIABLES
  lbps,     \* grp.LogicalBreakpoints, shared with every target
  phys,     \* phys[t]: address -> LogicalID of its user breaklet
  counter,  \* breakpointIDCounter
  st,       \* "none", "adding", "valid" or "exited", for every target
  loaded,   \* the targets that have opened the plugin
  phase, todo, at   \* at: the target being added or that opened a plugin

vars == <<lbps, phys, counter, st, loaded, phase, todo, at>>

LogicalBreakpoint ==
  [set : Locs \cup {NoSet}, enabled : BOOLEAN, condSatisfiable : BOOLEAN,
   hitCond : HitConds \cup {0}, cond : Deps \cup {0}, condUsesHitCounts : BOOLEAN,
   TotalHitCount : 0 .. MaxHits]

NoLocations == [a \in {} |-> 0]
Put(f, x, v) == [y \in DOMAIN f \cup {x} |-> IF y = x THEN v ELSE f[y]]
Drop(f, S) == [y \in DOMAIN f \ S |-> f[y]]

Valid == {t \in Targets : st[t] = "valid"}
Group == {t \in Targets : st[t] \in {"valid", "exited"}}   \* grp.targets
Located(p, t, id) == {a \in DOMAIN p[t] : p[t][a] = id}

\* breakpointConditionSatisfiable, for the conditions above.
Satisfiable(L, b) ==
  /\ b.hitCond # 0 => b.TotalHitCount < b.hitCond
  /\ b.condUsesHitCounts /\ b.cond \in DOMAIN L => L[b.cond].TotalHitCount >= 1

-----------------------------------------------------------------------------
(* Enabling and disabling.  Each operator is the set of possible outcomes: *)
(* the locations p (and the map L) it leaves and the error it returns.     *)

Resolve(l, t) == IF t \in loaded THEN LocAddrs[l][t] ELSE ProgramAddrs[l][t]

\* It is not an error that a list has no address of this process, nor that an
\* expression can not be evaluated in it.
MayBeNowhere(l) == l \in PidLocs \cup ExprLocs

enableBreakpointOnTarget(q, t, id, b) ==
  LET as == Resolve(b.set, t)
      n == Len(as)
      upto(k) == [a \in DOMAIN q \cup {as[i] : i \in 1 .. k} |->
                    IF a \in DOMAIN q THEN q[a] ELSE id]
      out(r, e) == [q |-> r, err |-> e]
  IN CASE ~b.enabled \/ ~b.condSatisfiable -> {out(q, "nil")}
       [] b.enabled /\ b.condSatisfiable /\ b.set = NoSet -> {out(q, "fail")}
       [] b.enabled /\ b.condSatisfiable /\ b.set # NoSet ->
            IF n = 0 THEN {out(q, IF MayBeNowhere(b.set) THEN "nil" ELSE "notfound")}
            ELSE IF st[t] = "exited" THEN {out(q, "fail")}
            ELSE {out(upto(k - 1), "fail") :
                    k \in {i \in 1 .. n : as[i] \in WriteFaults \ DOMAIN q}}
                 \cup {out(upto(n), IF as[n] \in DOMAIN q THEN "exists" ELSE "nil")}

\* Defective variant: only the last target looked at is rolled back.
rollbackLast(p, id) ==
  LET last == CHOOSE t \in Valid : \A u \in Valid : u <= t
  IN {[p EXCEPT ![last] = Drop(@, Located(p, last, id))]}

\* The end of enableBreakpoint: the locations of id are removed, up to and
\* including the first one whose trap can not be erased (its user breaklet is
\* gone all the same).
rollback(p, id) ==
  {[t \in Targets |-> IF t \in Valid THEN Drop(p[t], Located(p, t, id)) ELSE p[t]]}
  \cup UNION {{[t \in Targets |->
                  IF t \in Valid /\ t < f THEN Drop(p[t], Located(p, t, id))
                  ELSE IF t = f THEN Drop(p[t], S) ELSE p[t]]
               : S \in {S \in SUBSET Located(p, f, id) : S \cap EraseFaults # {}}}
              : f \in Valid}

\* enableBreakpoint: the targets in order, up to the first failure; what the
\* other errors leave behind is not rolled back.
enableBreakpoint(p, id, b) ==
  LET outs(t) == enableBreakpointOnTarget(p[t], t, id, b)
      all == {r \in [Group -> UNION {outs(t) : t \in Group}] : \A t \in Group : r[t] \in outs(t)}
      visited(r) == {t \in Group : \A u \in Group : u < t => r[u].err # "fail"}
      errs(r) == {r[t].err : t \in visited(r)}
      left(r) == [t \in Targets |-> IF t \in visited(r) THEN r[t].q ELSE p[t]]
      out(q, e) == {[p |-> q, err |-> e]}
      result(r) ==
        LET didSet == "nil" \in errs(r) IN
        CASE ~didSet /\ "notfound" \in errs(r) -> out(left(r), "notfound")
          [] ~didSet /\ "notfound" \notin errs(r) /\ "exists" \in errs(r) -> out(left(r), "exists")
          [] ~didSet /\ errs(r) = {"fail"} /\ Valid = {} -> out(left(r), "exited")
          [] "fail" \in errs(r) /\ (didSet \/ (errs(r) = {"fail"} /\ Valid # {})) ->
               UNION {out(q, "fail") : q \in rollback(left(r), id)}
          [] OTHER -> out(left(r), "nil")
  IN UNION {result(r) : r \in all}

\* disableBreakpoint: every user breaklet goes, whether or not the trap can be
\* erased; with the entry of a watchpoint goes the logical breakpoint.
disableBreakpoint(L, p, id) ==
  LET gone == UNION {Located(p, t, id) : t \in Valid}
  IN [L |-> IF gone \cap WatchAddrs # {} THEN Drop(L, {id}) ELSE L,
      p |-> [t \in Targets |-> IF t \in Valid THEN Drop(p[t], Located(p, t, id)) ELSE p[t]],
      errs |-> {"nil"} \cup (IF gone \cap EraseFaults # {} THEN {"fail"} ELSE {})]

Outcome(L, p, e) == [L |-> L, p |-> p, err |-> e]

Enabled(L, p, id) == {Outcome(L, o.p, o.err) : o \in enableBreakpoint(p, id, L[id])}
Disabled(L, p, id) ==
  LET d == disableBreakpoint(L, p, id) IN {Outcome(d.L, d.p, e) : e \in d.errs}

SetBreakpointEnabled(L, p, id, enabled) ==
  CASE L[id].enabled /\ ~enabled ->
         Disabled([L EXCEPT ![id].enabled = FALSE], p, id)
    [] ~L[id].enabled /\ enabled ->
         Enabled([L EXCEPT ![id].enabled = TRUE,
                           ![id].condSatisfiable = Satisfiable(L, L[id])], p, id)
    [] OTHER -> {Outcome(L, p, "nil")}

\* ChangeBreakpointCondition.  A condition that does not parse is an early
\* return; an error of enabling or disabling is not reported.
ChangeBreakpointCondition(L, p, id, hc, dep, bad) ==
  CASE bad = "cond" -> {Outcome([L EXCEPT ![id].cond = 0], p, "fail")}
    [] bad = "hitcond" -> {Outcome([L EXCEPT ![id].cond = dep, ![id].hitCond = 0], p, "fail")}
    [] bad = "nil" ->
         LET L1 == [L EXCEPT ![id].cond = dep, ![id].hitCond = hc,
                             ![id].condUsesHitCounts = (dep # 0)]
             sat == Satisfiable(L1, L1[id])
             L2 == [L1 EXCEPT ![id].condSatisfiable = sat]
             quiet(S) == {Outcome(o.L, o.p, "nil") : o \in S}
         IN IF ~L[id].enabled \/ L[id].condSatisfiable = sat THEN {Outcome(L1, p, "nil")}
            ELSE IF sat THEN quiet(Enabled(L2, p, id)) ELSE quiet(Disabled(L2, p, id))

-----------------------------------------------------------------------------

Init ==
  /\ lbps = NoLocations
  /\ phys = [t \in Targets |-> NoLocations]
  /\ counter = 0
  /\ st = [t \in Targets |-> IF t = 1 THEN "valid" ELSE "none"]
  /\ loaded = {}
  /\ phase = "stopped" /\ todo = {} /\ at = 1

Apply(o) == lbps' = o.L /\ phys' = o.p
Idle == UNCHANGED <<st, loaded, phase, todo, at>>

\* CreateBreakpoint.  The logical breakpoint enters the map before its condition
\* is parsed, and leaves it again when it can not be enabled.
CreateBreakpoint(req, l, hc, dep, bad, suspended) ==
  /\ phase = "stopped"
  /\ req \notin DOMAIN lbps
  /\ LET id == IF req = 0 THEN counter + 1 ELSE req
         new == [set |-> NoSet, enabled |-> FALSE, condSatisfiable |-> FALSE, hitCond |-> 0,
                 cond |-> 0, condUsesHitCounts |-> FALSE, TotalHitCount |-> 0]
     IN /\ id <= MaxID
        /\ counter' = id
        /\ \E c \in ChangeBreakpointCondition(Put(lbps, id, new), phys, id, hc, dep, bad) :
             \/ c.err # "nil" /\ Apply(c)
             \/ /\ c.err = "nil"
                /\ \E o \in SetBreakpointEnabled([c.L EXCEPT ![id].set = l], c.p, id, TRUE) :
                     IF o.err = "nil" \/ suspended THEN Apply(o)
                     ELSE lbps' = Drop(o.L, {id}) /\ phys' = o.p
  /\ Idle

\* CreateWatchpoint on the selected target (the first one); the ID is used up
\* also when the watchpoint can not be set.
CreateWatchpoint(a, ok) ==
  /\ phase = "stopped" /\ st[1] = "valid"
  /\ counter < MaxID /\ counter' = counter + 1
  /\ IF ok /\ a \notin DOMAIN phys[1]
     THEN /\ phys' = [phys EXCEPT ![1] = Put(@, a, counter')]
          /\ lbps' = IF counter' \in DOMAIN lbps THEN lbps
                     ELSE Put(lbps, counter',
                              [set |-> NoSet, enabled |-> TRUE, condSatisfiable |-> TRUE,
                               hitCond |-> 0, cond |-> 0, condUsesHitCounts |-> FALSE,
                               TotalHitCount |-> 0])
     ELSE UNCHANGED <<lbps, phys>>
  /\ Idle

isWatchpoint(id) == \E t \in Valid : Located(phys, t, id) \cap WatchAddrs # {}

AmendBreakpoint(id, disable, hc, dep, bad) ==
  /\ phase = "stopped"
  /\ id \in DOMAIN lbps
  /\ ~(isWatchpoint(id) /\ disable)
  /\ \E c \in ChangeBreakpointCondition(lbps, phys, id, hc, dep, bad) :
       IF c.err # "nil" \/ id \notin DOMAIN c.L THEN Apply(c)
       ELSE \E o \in SetBreakpointEnabled(c.L, c.p, id, ~disable) : Apply(o)
  /\ UNCHANGED counter /\ Idle

ClearBreakpoint(id) ==
  /\ phase = "stopped"
  /\ id \in DOMAIN lbps
  /\ \E o \in SetBreakpointEnabled(lbps, phys, id, FALSE) :
       IF o.err # "nil" THEN Apply(o) ELSE lbps' = Drop(o.L, {id}) /\ phys' = o.p
  /\ UNCHANGED counter /\ Idle

-----------------------------------------------------------------------------

\* The head of the loop of Continue.
Continue ==
  /\ phase \in {"stopped", "running"} /\ Valid # {}
  /\ phase' = "managing" /\ todo' = DOMAIN lbps
  /\ UNCHANGED <<lbps, phys, counter, st, loaded, at>>

\* Defective variant: the flag is set and the locations stay.
ManageKeepsLocations(id) ==
  LET b == lbps[id] IN
  IF b.enabled /\ b.condSatisfiable /\ ~Satisfiable(lbps, b)
  THEN {Outcome([lbps EXCEPT ![id].condSatisfiable = FALSE], phys, "nil")}
  ELSE {Outcome(lbps, phys, "nil")}

\* One iteration of manageUnsatisfiableBreakpoints.
manageUnsatisfiable(id) ==
  LET b == lbps[id]
      sat == Satisfiable(lbps, b)
      L == [lbps EXCEPT ![id].condSatisfiable = sat]
  IN CASE b.enabled /\ b.condSatisfiable /\ ~sat -> Disabled(L, phys, id)
       [] b.enabled /\ ~b.condSatisfiable /\ b.condUsesHitCounts /\ sat -> Enabled(L, phys, id)
       [] OTHER -> {Outcome(lbps, phys, "nil")}

\* An error of manageUnsatisfiableBreakpoints is an error of Continue.
ManageOne(id) ==
  /\ phase = "managing" /\ id \in todo \cap DOMAIN lbps
  /\ \E o \in manageUnsatisfiable(id) :
       /\ Apply(o)
       /\ IF o.err = "nil" THEN todo' = todo \ {id} /\ UNCHANGED phase
          ELSE todo' = {} /\ phase' = "stopped"
  /\ UNCHANGED <<counter, st, loaded, at>>

ManageDone ==
  /\ phase = "managing" /\ todo = {}
  /\ phase' = "running"
  /\ UNCHANGED <<lbps, phys, counter, st, loaded, todo, at>>

Stop ==
  /\ phase = "running" /\ phase' = "stopped"
  /\ UNCHANGED <<lbps, phys, counter, st, loaded, todo, at>>

\* A thread reaches a location; the conditions are in module BreakpointState.
Hit(t, a) ==
  /\ phase = "running" /\ t \in Valid /\ a \in DOMAIN phys[t]
  /\ LET id == phys[t][a] IN
     /\ id \in DOMAIN lbps /\ lbps[id].TotalHitCount < MaxHits
     /\ lbps' = [lbps EXCEPT ![id].TotalHitCount = @ + 1]
  /\ UNCHANGED <<phys, counter, st, loaded, phase, todo, at>>

Exit(t) ==
  /\ MayExit /\ phase = "running" /\ t \in Valid
  /\ st' = [st EXCEPT ![t] = "exited"]
  /\ phase' = "stopped"
  /\ UNCHANGED <<lbps, phys, counter, loaded, todo, at>>

\* addTarget: a process appears; all breakpoints are set on it before it joins
\* the group, errors ignored.
Spawn ==
  /\ phase = "running"
  /\ \E t \in Targets \ {1} :
       /\ st[t] = "none" /\ st[t - 1] # "none"
       /\ st' = [st EXCEPT ![t] = "adding"]
       /\ at' = t
  /\ phase' = "adding" /\ todo' = DOMAIN lbps
  /\ UNCHANGED <<lbps, phys, counter, loaded>>

\* plugin.Open returns in a target.
PluginOpen(t) ==
  /\ LocAddrs # ProgramAddrs /\ phase = "running" /\ t \in Valid \ loaded
  /\ loaded' = loaded \cup {t} /\ at' = t
  /\ phase' = "plugin" /\ todo' = DOMAIN lbps
  /\ UNCHANGED <<lbps, phys, counter, st>>

\* Defective variant: enabled only where no target has a location yet.
EnableIfUnset(id) ==
  IF \E t \in Targets : Located(phys, t, id) # {} THEN UNCHANGED phys
  ELSE \E o \in enableBreakpointOnTarget(phys[at], at, id, lbps[id]) :
         phys' = [phys EXCEPT ![at] = o.q]

\* One iteration of the loops of addTarget and of pluginOpenCallback, which
\* passes over the breakpoints that have a location on the target.
EnableOne(id) ==
  IF phase = "plugin" /\ Located(phys, at, id) # {} THEN UNCHANGED phys
  ELSE \E o \in enableBreakpointOnTarget(phys[at], at, id, lbps[id]) :
         phys' = [phys EXCEPT ![at] = o.q]

Materialize(id) ==
  /\ phase \in {"adding", "plugin"} /\ id \in todo
  /\ EnableOne(id)
  /\ todo' = todo \ {id}
  /\ UNCHANGED <<lbps, counter, st, loaded, phase, at>>

MaterializeDone ==
  /\ phase \in {"adding", "plugin"} /\ todo = {}
  /\ st' = [st EXCEPT ![at] = "valid"]
  /\ phase' = "running"
  /\ UNCHANGED <<lbps, phys, counter, loaded, todo, at>>

-----------------------------------------------------------------------------

\* Restart up to the loop that enables the breakpoints on the new process: hit
\* counts start again; lists of addresses mean nothing any more, but the expression
\* they came with does.
Restart ==
  /\ phase = "stopped" /\ phase' = "restarting"
  /\ lbps' = [id \in DOMAIN lbps |->
                [lbps[id] EXCEPT !.TotalHitCount = 0,
                                 !.set = IF @ \in PidLocs THEN ExprOf[@] ELSE @]]
  /\ todo' = {id \in DOMAIN lbps : lbps[id].enabled}
  /\ phys' = [t \in Targets |-> NoLocations]
  /\ st' = [t \in Targets |-> IF t = 1 THEN "valid" ELSE "none"]
  /\ loaded' = {} /\ at' = 1
  /\ UNCHANGED counter

\* Defective variant: breakpoints that can not be enabled are kept.
RestoreKeepsAll(id) ==
  LET L == [lbps EXCEPT ![id].condSatisfiable = Satisfiable(lbps, lbps[id])]
  IN \E o \in Enabled(L, phys, id) : Apply(o)

\* One iteration of that loop: a breakpoint that can not be enabled is
\* discarded.
Restore(id) ==
  LET L == [lbps EXCEPT ![id].condSatisfiable = Satisfiable(lbps, lbps[id])]
  IN \E o \in Enabled(L, phys, id) :
       IF o.err = "nil" THEN Apply(o) ELSE lbps' = Drop(L, {id}) /\ phys' = o.p

RestartOne(id) ==
  /\ phase = "restarting" /\ id \in todo
  /\ Restore(id)
  /\ todo' = todo \ {id}
  /\ UNCHANGED <<counter, st, loaded, phase, at>>

RestartDone ==
  /\ phase = "restarting" /\ todo = {}
  /\ phase' = "stopped"
  /\ UNCHANGED <<lbps, phys, counter, st, loaded, todo, at>>

Next ==
  \/ \E req \in ReqIDs, l \in Locs, hc \in HitConds, dep \in Deps, bad \in ParseErrors \cup {"nil"},
        s \in Suspend : CreateBreakpoint(req, l, hc, dep, bad, s)
  \/ \E a \in WatchAddrs, ok \in BOOLEAN : CreateWatchpoint(a, ok)
  \/ \E id \in IDs, disable \in BOOLEAN, hc \in HitConds, dep \in Deps,
        bad \in ParseErrors \cup {"nil"} : AmendBreakpoint(id, disable, hc, dep, bad)
  \/ \E id \in IDs : ClearBreakpoint(id) \/ ManageOne(id) \/ Materialize(id) \/ RestartOne(id)
  \/ Continue \/ ManageDone \/ Stop \/ Spawn \/ MaterializeDone \/ Restart \/ RestartDone
  \/ \E t \in Targets : Exit(t) \/ PluginOpen(t) \/ \E a \in Addrs \cup WatchAddrs : Hit(t, a)

Spec == Init /\ [][Next]_vars

-----------------------------------------------------------------------------

\* Type invariant of the map of logical breakpoints and of the locations.
TypeOK ==
  /\ DOMAIN lbps \subseteq IDs /\ \A id \in DOMAIN lbps : lbps[id] \in LogicalBreakpoint
  /\ \A t \in Targets : /\ DOMAIN phys[t] \subseteq Addrs \cup WatchAddrs
                        /\ \A a \in DOMAIN phys[t] : phys[t][a] \in IDs
  /\ counter \in 0 .. MaxID
  /\ st \in [Targets -> {"none", "adding", "valid", "exited"}]
  /\ loaded \subseteq Targets /\ todo \subseteq IDs /\ at \in Targets

\* The LogicalID of a physical breakpoint is the "ID of the logical breakpoint that
\* owns this physical breakpoint" (pkg/proc/breakpoints.go:86): there is one, so that
\* the location can be listed, disabled and cleared.
OwnedByLogical ==
  \A t \in Valid : \A a \in DOMAIN phys[t] : phys[t][a] \in DOMAIN lbps

\* A breakpoint that is disabled, or whose condition is known to be unsatisfiable,
\* is not written in any process, whatever failed while it was being removed.
DisabledHasNoLocation ==
  \A t \in Valid : \A a \in DOMAIN phys[t] :
    LET id == phys[t][a] IN
    id \in DOMAIN lbps => lbps[id].enabled /\ lbps[id].condSatisfiable

\* A client that never has two breakpoints at one place.
DistinctPlaces ==
  \A i, j \in DOMAIN lbps' : lbps'[i].set = lbps'[j].set => i = j \/ lbps'[i].set = NoSet

\* While the targets run every breakpoint that is enabled and satisfiable is
\* written at every address its place has in every process, also in those that
\* appeared, and the plugins that were loaded, after it was created.  (For clients
\* that never have two breakpoints at one place, without faults and exits, and for
\* places that are not both in the program and in the plugin: pluginOpenCallback
\* passes over a breakpoint that already has a location.)
ArmedEverywhere ==
  phase = "running" =>
    \A id \in DOMAIN lbps : \A t \in Valid :
      lbps[id].enabled /\ lbps[id].condSatisfiable /\ lbps[id].set # NoSet =>
        \A i \in 1 .. Len(Resolve(lbps[id].set, t)) :
          LET a == Resolve(lbps[id].set, t)[i] IN a \in DOMAIN phys[t] /\ phys[t][a] = id

\* After a restart every breakpoint that is enabled and satisfiable has a location:
\* those that could not be set again were discarded and reported.  The exception
\* are the ones given by an expression that has no value in the new process; they
\* stay, as for a process or plugin that is still to come.
RestartDiscardsUnset ==
  [][phase = "restarting" /\ phase' = "stopped" =>
       \A id \in DOMAIN lbps : lbps[id].enabled /\ lbps[id].condSatisfiable =>
         \/ Located(phys, 1, id) # {}
         \/ lbps[id].set \in ExprLocs /\ Resolve(lbps[id].set, 1) = <<>>]_vars

\* "Breakpoints that can not be set will be discarded" (pkg/proc/target_group.go:77),
\* whatever they were given by.
RestartDiscardsAll ==
  [][phase = "restarting" /\ phase' = "stopped" =>
       \A id \in DOMAIN lbps : lbps[id].enabled /\ lbps[id].condSatisfiable =>
         Located(phys, 1, id) # {}]_vars

\* "ID is a unique identifier for the breakpoint." (service/api/types.go:82): while a
\* breakpoint exists its ID is not given to another one.
IDKeepsItsBreakpoint ==
  [][phase' # "restarting" =>
       \A id \in DOMAIN lbps \cap DOMAIN lbps' : lbps'[id].set = lbps[id].set]_vars

\* "condSatisfiable is true when 'cond && hitCond' can potentially be true."
\* (pkg/proc/breakpoints.go:1197): when the targets are resumed it is, for every enabled
\* breakpoint.
SatisfiableIsArmed ==
  [][phase = "managing" /\ phase' = "running" =>
       \A id \in DOMAIN lbps : lbps[id].enabled /\ Satisfiable(lbps, lbps[id]) =>
         lbps[id].condSatisfiable]_vars
=============================================================================
