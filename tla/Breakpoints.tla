------------------------------ MODULE Breakpoints ------------------------------
(***************************************************************************)
(* The physical breakpoints of one target (pkg/proc/breakpoints.go): the   *)
(* table BreakpointMap.M, the logical breakpoints it refers to, and what   *)
(* the backend really wrote in the process: trap instructions in its text, *)
(* addresses in its debug registers.                                       *)
(*                                                                         *)
(* One entry of the table is shared by all the reasons to stop at its      *)
(* address, the breaklets.  The entry and the trap are removed when the    *)
(* last breaklet goes; removing the trap can fail half way through a loop  *)
(* over the table.                                                         *)
(*                                                                         *)
(* A watchpoint here is one of a global variable: the sentinel breaklets   *)
(* that a watchpoint of a stack variable drags along are not modelled.     *)
(***************************************************************************)
EXTENDS Integers, FiniteSets

CONSTANTS
  CodeAddrs,    \* addresses of instructions a breakpoint can be set on
  DataAddrs,    \* addresses of variables a watchpoint can be set on
  Threads,      \* threads of the target
  IDs,          \* IDs of logical breakpoints
  InternalKinds,\* the internal breaklet kinds that are used
  NumHW,        \* number of debug registers of a thread
  EraseFaults   \* addresses whose trap EraseBreakpoint may fail to remove

Addrs == CodeAddrs \cup DataAddrs
Slots == 0 .. NumHW - 1
NoID == 0       \* nil *LogicalBreakpoint, and the LogicalID of internal breaklets
NoSlot == -1    \* the entry is a software breakpoint (WatchType == 0)
NoAddr == "none"
Removed == "removed"

UserBreakpoint == "user"
NextInactivatedBreakpoint == "next-inactivated"
SteppingKinds == {"next", "next-defer", "step", "step-into-new-proc",
                  "step-into-range-body", NextInactivatedBreakpoint}
LastingKinds == {"plugin-open", "shared-lib"}
Kinds == {UserBreakpoint} \cup SteppingKinds \cup LastingKinds

ASSUME AddrAssumption ==
  /\ CodeAddrs \cap DataAddrs = {}
  /\ NoAddr \notin Addrs
  /\ Removed \notin Addrs
ASSUME IDAssumption == IDs \subseteq Nat \ {NoID}
ASSUME KindAssumption == InternalKinds \subseteq SteppingKinds \cup LastingKinds
ASSUME HWAssumption == NumHW \in Nat
\* Clearing a debug register has no failure path on linux/amd64 (a thread that
\* is gone is not an error there), so only the removal of a trap may fail.
ASSUME FaultAssumption == EraseFaults \subseteq CodeAddrs

VARIABLES
  M,        \* BreakpointMap.M: a function from a subset of Addrs to entries
  Logical,  \* the keys of BreakpointMap.Logical
  text,     \* code addresses that hold a trap instruction
  dr,       \* debug registers: slot -> address, or NoAddr when disabled
  cur,      \* thread.Breakpoint().Breakpoint: an address of M, NoAddr, or
            \* Removed when it points to an entry that left the table
  attached  \* FALSE once the target is detached

vars == <<M, Logical, text, dr, cur, attached>>

Breaklet == [kind : Kinds, id : IDs \cup {NoID}]
Breakpoint == [breaklets : SUBSET Breaklet, logical : IDs \cup {NoID},
               slot : Slots \cup {NoSlot}]

-----------------------------------------------------------------------------

User(bs) == {b \in bs : b.kind = UserBreakpoint}
IsUser(bp) == User(bp.breaklets) # {}
IsStepping(bp) == \E b \in bp.breaklets : b.kind \in SteppingKinds
IsWatchpoint(bp) == bp.slot # NoSlot
HasSteppingBreakpoints(m) == \E a \in DOMAIN m : IsStepping(m[a])

\* Defective variant: user breakpoints pile up like internal ones.
canOverlapAlways(bp, kind) == TRUE

canOverlap(bp, kind) == kind = UserBreakpoint => ~IsUser(bp)

NewBreaklet(id, kind) ==
  [kind |-> kind, id |-> IF kind = UserBreakpoint THEN id ELSE NoID]

\* The logical breakpoint of an entry after a breaklet was added to it.
setLogicalBreakpoint(old, id, kind) ==
  IF kind # UserBreakpoint \/ old # NoID THEN old ELSE id

WithBreaklet(bp, id, kind) ==
  [bp EXCEPT !.breaklets = @ \cup {NewBreaklet(id, kind)},
             !.logical = setLogicalBreakpoint(@, id, kind)]

NewBreakpoint(id, kind, slot) ==
  [breaklets |-> {NewBreaklet(id, kind)},
   logical |-> setLogicalBreakpoint(NoID, id, kind),
   slot |-> slot]

AddEntry(m, a, bp) == [x \in DOMAIN m \cup {a} |-> IF x = a THEN bp ELSE m[x]]
DropEntries(m, S) == [x \in DOMAIN m \ S |-> m[x]]

UsedSlots(m) == {m[a].slot : a \in {x \in DOMAIN m : IsWatchpoint(m[x])}}
\* The lowest index no watchpoint of the table uses; it may be beyond the
\* debug registers, which makes WriteBreakpoint fail.
LowestFree(used, i) == i \notin used /\ \A j \in 0 .. i - 1 : j \in used

-----------------------------------------------------------------------------

Init ==
  /\ M = [a \in {} |-> NoAddr]
  /\ Logical = {}
  /\ text = {}
  /\ dr = [i \in Slots |-> NoAddr]
  /\ cur = [t \in Threads |-> NoAddr]
  /\ attached = TRUE

\* SetBreakpoint of a software breakpoint.  A write that fails, and a second
\* user breakpoint at the same address, change nothing.
SetBreakpoint(id, a, kind) ==
  /\ attached
  /\ \/ /\ a \in DOMAIN M
        /\ canOverlap(M[a], kind)
        /\ M' = [M EXCEPT ![a] = WithBreaklet(@, id, kind)]
        /\ UNCHANGED text
     \/ /\ a \notin DOMAIN M
        /\ M' = AddEntry(M, a, NewBreakpoint(id, kind, NoSlot))
        /\ text' = text \cup {a}
  /\ Logical' = IF kind = UserBreakpoint THEN Logical \cup {id} ELSE Logical
  /\ UNCHANGED <<dr, cur, attached>>

\* SetWatchpoint of a variable that is not on a stack.
SetWatchpoint(id, a) ==
  /\ attached
  /\ a \notin DOMAIN M
  /\ \E i \in Slots :
       /\ LowestFree(UsedSlots(M), i)
       /\ dr[i] = NoAddr
       /\ dr' = [dr EXCEPT ![i] = a]
       /\ M' = AddEntry(M, a, NewBreakpoint(id, UserBreakpoint, i))
  /\ Logical' = Logical \cup {id}
  /\ UNCHANGED <<text, cur, attached>>

Strip(bp, kinds) == [bp EXCEPT !.breaklets = {b \in @ : b.kind \notin kinds}]
Emptied(m, kinds) == {a \in DOMAIN m : Strip(m[a], kinds).breaklets = {}}

\* Defective variant: the debug register is not cleared.
finishClearKeepsRegister(m, gone) ==
  /\ M' = DropEntries(m, gone)
  /\ text' = text \ gone
  /\ UNCHANGED dr
  /\ Logical' = Logical \ {m[a].logical : a \in {x \in gone : IsWatchpoint(m[x])}}

\* finishClearBreakpoint on the entries `gone`, which have no breaklet left and
\* whose trap was removed.  The other entries stay in the table m, also the one
\* that lost its last breaklet but whose trap could not be removed.
finishClearBreakpoint(m, gone) ==
  /\ M' = DropEntries(m, gone)
  /\ text' = text \ gone
  /\ dr' = [i \in Slots |-> IF dr[i] \in gone THEN NoAddr ELSE dr[i]]
  /\ Logical' = Logical \ {m[a].logical : a \in {x \in gone : IsWatchpoint(m[x])}}

\* Only the loops that clear internal breakpoints also clear the threads that
\* are stopped at an entry they delete.
Forget(gone, to) == [t \in Threads |-> IF cur[t] \in gone THEN to ELSE cur[t]]

ClearUser(bp) ==
  [Strip(bp, {UserBreakpoint}) EXCEPT
     !.logical = IF IsWatchpoint(bp) \/ ~IsUser(bp) THEN @ ELSE NoID]

\* Defective variant: the entry is deleted although the trap is still there.
ClearBreakpointForgetsTrap(a) ==
  /\ attached
  /\ a \in DOMAIN M
  /\ LET m == [M EXCEPT ![a] = ClearUser(@)]
         gone == {x \in {a} : m[x].breaklets = {}}
     IN \/ finishClearBreakpoint(m, gone) /\ cur' = Forget(gone, Removed)
        \/ /\ a \in EraseFaults
           /\ M' = DropEntries(m, gone)
           /\ UNCHANGED <<Logical, text, dr, cur>>
  /\ UNCHANGED attached

ClearBreakpoint(a) ==
  /\ attached
  /\ a \in DOMAIN M
  /\ LET m == [M EXCEPT ![a] = ClearUser(@)] IN
     \/ /\ LET gone == {x \in {a} : m[x].breaklets = {}} IN
           finishClearBreakpoint(m, gone) /\ cur' = Forget(gone, Removed)
     \/ /\ a \in EraseFaults
        /\ m[a].breaklets = {}
        /\ finishClearBreakpoint(m, {})
        /\ UNCHANGED cur
  /\ UNCHANGED attached

\* Defective variant: threads are not told about the entries that are deleted.
ClearKindsKeepsThreads(kinds, done, failed) ==
  LET m == [a \in DOMAIN M |->
              IF a \in done \cup failed THEN Strip(M[a], kinds) ELSE M[a]]
      gone == {a \in done : m[a].breaklets = {}}
  IN /\ attached
     /\ done \subseteq DOMAIN M
     /\ \/ failed = {} /\ done = DOMAIN M
        \/ /\ \E f \in EraseFaults \cap Emptied(M, kinds) : failed = {f}
           /\ done \cap failed = {}
     /\ finishClearBreakpoint(m, gone)
     /\ cur' = Forget(gone, Removed)
     /\ UNCHANGED attached

\* Defective variant: entries without a breaklet of these kinds are skipped.
ClearKindsSkips(kinds, done, failed) ==
  LET m == [a \in DOMAIN M |->
              IF a \in done \cup failed THEN Strip(M[a], kinds) ELSE M[a]]
      gone == {a \in done : m[a].breaklets = {} /\ M[a].breaklets # {}}
  IN /\ attached
     /\ done \subseteq DOMAIN M
     /\ \/ failed = {} /\ done = DOMAIN M
        \/ /\ \E f \in EraseFaults \cap Emptied(M, kinds) : failed = {f}
           /\ done \cap failed = {}
     /\ finishClearBreakpoint(m, gone)
     /\ cur' = Forget(gone, NoAddr)
     /\ UNCHANGED attached

\* The loop over the table (a Go map: any order) of ClearSteppingBreakpoints
\* and clearInactivatedSteppingBreakpoint.  It ends at the first entry whose
\* trap can not be removed.
ClearKinds(kinds, done, failed) ==
  LET m == [a \in DOMAIN M |->
              IF a \in done \cup failed THEN Strip(M[a], kinds) ELSE M[a]]
      gone == {a \in done : m[a].breaklets = {}}
  IN /\ attached
     /\ done \subseteq DOMAIN M
     /\ \/ failed = {} /\ done = DOMAIN M
        \/ /\ \E f \in EraseFaults \cap Emptied(M, kinds) : failed = {f}
           /\ done \cap failed = {}
     /\ finishClearBreakpoint(m, gone)
     /\ cur' = Forget(gone, NoAddr)
     /\ UNCHANGED attached

ClearSteppingBreakpoints(done, failed) == ClearKinds(SteppingKinds, done, failed)

clearInactivatedSteppingBreakpoint(done, failed) ==
  ClearKinds({NextInactivatedBreakpoint}, done, failed)

\* rangeFrameInactivateNextBreakpoints: the "next" breaklets in the body S of a
\* range-over-func loop are kept, but can not become active any more.
Inactivate(bp) ==
  [bp EXCEPT !.breaklets =
     {IF b.kind = "next" THEN [b EXCEPT !.kind = NextInactivatedBreakpoint] ELSE b :
        b \in @}]

rangeFrameInactivateNextBreakpoints(S) ==
  /\ attached
  /\ NextInactivatedBreakpoint \in InternalKinds
  /\ M' = [a \in DOMAIN M |-> IF a \in S THEN Inactivate(M[a]) ELSE M[a]]
  /\ UNCHANGED <<Logical, text, dr, cur, attached>>

\* ContinueOnce of the backend: every thread forgets its breakpoint, runs, and
\* stops on a trap, on a watched access or on none.
ContinueOnce ==
  /\ attached
  /\ cur' \in [Threads -> {NoAddr} \cup DOMAIN M]
  /\ UNCHANGED <<M, Logical, text, dr, attached>>

\* detachTarget without kill, after which the process runs on its own.  The
\* loop gives up, still attached, on the first trap it can not remove.
detachTarget(done, failed) ==
  LET m == [a \in DOMAIN M |->
              IF a \in done \cup failed THEN ClearUser(M[a]) ELSE M[a]]
      gone == {a \in done : m[a].breaklets = {}}
  IN /\ attached
     /\ done \subseteq DOMAIN M
     /\ \/ failed = {} /\ done = DOMAIN M
        \/ /\ \E f \in EraseFaults \cap Emptied(M, {UserBreakpoint}) : failed = {f}
           /\ done \cap failed = {}
     /\ finishClearBreakpoint(m, gone)
     /\ cur' = Forget(gone, Removed)
     /\ attached' = (failed # {})

\* A logical breakpoint is a set of locations or one watchpoint, never both:
\* CreateWatchpoint takes a new ID, and a breakpoint is created and enabled
\* under the ID of a breakpoint with locations.
WatchIDs == {M[a].logical : a \in DOMAIN M \cap DataAddrs}

Next ==
  \/ \E id \in IDs \ WatchIDs, a \in CodeAddrs : SetBreakpoint(id, a, UserBreakpoint)
  \/ \E a \in CodeAddrs, k \in InternalKinds \ {NextInactivatedBreakpoint} :
       SetBreakpoint(NoID, a, k)
  \/ \E id \in IDs \ Logical, a \in DataAddrs : SetWatchpoint(id, a)
  \/ \E a \in Addrs : ClearBreakpoint(a)
  \/ \E done \in SUBSET DOMAIN M, failed \in SUBSET DOMAIN M :
       \/ ClearSteppingBreakpoints(done, failed)
       \/ clearInactivatedSteppingBreakpoint(done, failed)
       \/ detachTarget(done, failed)
  \/ \E S \in SUBSET CodeAddrs : rangeFrameInactivateNextBreakpoints(S)
  \/ ContinueOnce

Spec == Init /\ [][Next]_vars

-----------------------------------------------------------------------------

\* Type invariant of the table and of the process it describes.
TypeOK ==
  /\ DOMAIN M \subseteq Addrs
  /\ \A a \in DOMAIN M : M[a] \in Breakpoint
  /\ Logical \subseteq IDs
  /\ text \subseteq CodeAddrs
  /\ dr \in [Slots -> DataAddrs \cup {NoAddr}]
  /\ cur \in [Threads -> Addrs \cup {NoAddr, Removed}]
  /\ attached \in BOOLEAN

\* The table tells the truth about the process: an instruction is overwritten
\* by a trap exactly when the table has an entry for it.
TrapsMatchTable == text = DOMAIN M \cap CodeAddrs

\* The table tells the truth about the debug registers: a register watches an
\* address exactly when the table has a watchpoint with that HWBreakIndex there,
\* so no two watchpoints share a register.
RegistersMatchTable ==
  \A i \in Slots, a \in DataAddrs :
    dr[i] = a <=> a \in DOMAIN M /\ M[a].slot = i

\* "There can be at most one UserBreakpoint in this list" (Breakpoint.Breaklets),
\* and the logical breakpoint that breaklet names is the one its entry points to
\* and is in the map of logical breakpoints.
UserBreakletOwned ==
  \A a \in DOMAIN M : \A b \in User(M[a].breaklets) :
    /\ User(M[a].breaklets) = {b}
    /\ M[a].logical = b.id
    /\ b.id \in Logical

\* What makes UserBreakletOwned and RegistersMatchTable inductive: a software
\* entry points to a logical breakpoint only while it has its user breaklet; an
\* entry of a watchpoint consists of the user breaklet; and no other entry is
\* owned by the logical breakpoint of a watchpoint, which goes with its entry.
EntriesConsistent ==
  \A a \in DOMAIN M :
    /\ a \in CodeAddrs => M[a].slot = NoSlot /\ (~IsUser(M[a]) => M[a].logical = NoID)
    /\ a \in DataAddrs =>
         /\ M[a].slot \in Slots
         /\ M[a].breaklets = {[kind |-> UserBreakpoint, id |-> M[a].logical]}
         /\ \A x \in DOMAIN M \ {a} : \A b \in User(M[x].breaklets) : b.id # M[a].logical

\* A thread is stopped at an entry of the table, at none, or at one that is gone.
StoppedAtEntry == \A t \in Threads : cur[t] \in DOMAIN M \cup {NoAddr, Removed}

\* What any step that changes the table may do to a thread, which stays stopped: a
\* thread loses its breakpoint only with the entry, so not when a step is cleared
\* at an address where the user has a breakpoint too; and it keeps an entry that is
\* gone only if nothing but the user's breaklet, or one that an earlier clear
\* could not finish with, held it there.
FollowsTable(t) ==
  /\ M' # M /\ cur'[t] # cur[t] => cur[t] \in DOMAIN M \ DOMAIN M'
  /\ cur'[t] = Removed /\ cur[t] # Removed => ~IsStepping(M[cur[t]])

\* The breakpoints of stopped threads (thread.Breakpoint()) agree with the table
\* across every set, clear, failed clear and detach: no thread is left at the
\* breakpoint of a step that was deleted.
ThreadsFollowTable ==
  /\ []StoppedAtEntry
  /\ [][\A t \in Threads : FollowsTable(t)]_vars

\* A ClearSteppingBreakpoints that meets no error leaves no stepping breaklet, and
\* also removes the entries an earlier call emptied but could not erase.
CompleteClearRetries ==
  [][ClearSteppingBreakpoints(DOMAIN M, {}) =>
       \A a \in DOMAIN M' : M'[a].breaklets # {} /\ ~IsStepping(M'[a])]_vars

\* A process that is detached without being killed is left "running"
\* (Documentation/cli/README.md): no trap of the debugger is left in its text.
DetachedProcessHasNoTrap == ~attached => text = {}
=============================================================================
