--------------------------- MODULE BreakpointsProofs ---------------------------
(***************************************************************************)
(* Proofs, for every set of addresses, threads, IDs and kinds and every    *)
(* number of debug registers, of the invariants and the action properties  *)
(* of module Breakpoints.                                                  *)
(*                                                                         *)
(* Every operation that removes breaklets is an instance of one update,    *)
(* stated once in lemma ClearingPreserves: entries lose breaklets, some of *)
(* those left without any are deleted together with their trap.            *)
(***************************************************************************)
EXTENDS Breakpoints, TLAPS

USE Zenon

Inv ==
  /\ TypeOK
  /\ TrapsMatchTable
  /\ RegistersMatchTable
  /\ UserBreakletOwned
  /\ EntriesConsistent

\* The initial state, with an empty table, satisfies the invariant.
LEMMA InitInv == Init => Inv
BY AddrAssumption DEF Init, Inv, TypeOK, TrapsMatchTable, RegistersMatchTable,
   UserBreakletOwned, EntriesConsistent, Addrs, Slots, NoAddr

\* What an operation that clears breaklets may do to an entry: it keeps the
\* register, keeps the owner with the user breaklet or drops both, and empties
\* the entry of a watchpoint only to delete it.
Cleared(m, gone) ==
  /\ DOMAIN m = DOMAIN M
  /\ gone \subseteq DOMAIN M
  /\ \A a \in DOMAIN M :
       /\ m[a] \in Breakpoint
       /\ m[a].slot = M[a].slot
       /\ \/ User(m[a].breaklets) = User(M[a].breaklets) /\ m[a].logical = M[a].logical
          \/ /\ User(m[a].breaklets) = {}
             /\ a \in CodeAddrs => m[a].logical = NoID
             /\ a \in DataAddrs => m[a].logical = M[a].logical
       /\ a \in DataAddrs => m[a] = M[a] \/ a \in gone

\* finishClearBreakpoint preserves the invariant whenever the entries were
\* cleared as Cleared says.
LEMMA ClearingPreserves ==
  ASSUME Inv, NEW m, NEW gone, Cleared(m, gone), finishClearBreakpoint(m, gone)
  PROVE  /\ DOMAIN M' \subseteq Addrs /\ \A a \in DOMAIN M' : M'[a] \in Breakpoint
         /\ Logical' \subseteq IDs /\ text' \subseteq CodeAddrs
         /\ dr' \in [Slots -> DataAddrs \cup {NoAddr}]
         /\ TrapsMatchTable' /\ RegistersMatchTable'
         /\ UserBreakletOwned' /\ EntriesConsistent'
<1> USE DEF Inv, TypeOK, Cleared, finishClearBreakpoint, DropEntries
<1>1. DOMAIN M' = DOMAIN M \ gone /\ \A a \in DOMAIN M' : M'[a] = m[a]
  OBVIOUS
<1>2. /\ DOMAIN M' \subseteq Addrs /\ \A a \in DOMAIN M' : M'[a] \in Breakpoint
      /\ Logical' \subseteq IDs /\ text' \subseteq CodeAddrs
      /\ dr' \in [Slots -> DataAddrs \cup {NoAddr}]
  BY <1>1
<1>3. TrapsMatchTable'
  BY <1>1 DEF TrapsMatchTable
<1>4. RegistersMatchTable'
  <2> SUFFICES ASSUME NEW i \in Slots, NEW a \in DataAddrs
               PROVE  dr'[i] = a <=> a \in DOMAIN M' /\ M'[a].slot = i
    BY ZenonT(30) DEF RegistersMatchTable
  <2>1. dr[i] = a <=> a \in DOMAIN M /\ M[a].slot = i
    BY DEF RegistersMatchTable
  <2> QED BY <1>1, <2>1, AddrAssumption, ZenonT(60) DEF Addrs
<1>5. EntriesConsistent'
  <2> SUFFICES ASSUME NEW a \in DOMAIN M'
               PROVE  /\ a \in CodeAddrs => M'[a].slot = NoSlot
                                            /\ (~IsUser(M'[a]) => M'[a].logical = NoID)
                      /\ a \in DataAddrs =>
                           /\ M'[a].slot \in Slots
                           /\ M'[a].breaklets = {[kind |-> UserBreakpoint, id |-> M'[a].logical]}
                           /\ \A x \in DOMAIN M' \ {a} : \A b \in User(M'[x].breaklets) :
                                b.id # M'[a].logical
    BY DEF EntriesConsistent
  <2>1. CASE a \in CodeAddrs
    BY <1>1, <2>1, AddrAssumption, ZenonT(60) DEF EntriesConsistent, IsUser
  <2>2. CASE a \in DataAddrs
    <3>1. M'[a] = M[a] /\ a \notin CodeAddrs /\ a \in DOMAIN M
      BY <1>1, <2>2, AddrAssumption
    <3>2. M[a].slot \in Slots /\ M[a].breaklets = {[kind |-> UserBreakpoint, id |-> M[a].logical]}
      BY <2>2, <3>1 DEF EntriesConsistent
    <3>3. ASSUME NEW x \in DOMAIN M' \ {a}, NEW b \in User(M'[x].breaklets)
          PROVE  b.id # M[a].logical
      <4>1. x \in DOMAIN M \ {a} /\ b \in User(M[x].breaklets)
        BY <1>1, <3>3
      <4> QED BY <2>2, <3>1, <4>1, ZenonT(60) DEF EntriesConsistent
    <3> QED BY <3>1, <3>2, <3>3, ZenonT(60)
  <2> QED BY <1>1, <2>1, <2>2 DEF Addrs
<1>6. UserBreakletOwned'
  <2> SUFFICES ASSUME NEW a \in DOMAIN M', NEW b \in User(M'[a].breaklets)
               PROVE  /\ User(M'[a].breaklets) = {b}
                      /\ M'[a].logical = b.id
                      /\ b.id \in Logical'
    BY ZenonT(30) DEF UserBreakletOwned
  <2>1. /\ User(m[a].breaklets) = User(M[a].breaklets) /\ m[a].logical = M[a].logical
        /\ a \in DOMAIN M /\ a \notin gone
    BY <1>1, ZenonT(30)
  <2>2. User(M[a].breaklets) = {b} /\ M[a].logical = b.id /\ b.id \in Logical
    BY <1>1, <2>1, ZenonT(60) DEF UserBreakletOwned
  <2>3. ASSUME NEW x \in gone, IsWatchpoint(m[x]), m[x].logical = b.id
        PROVE  FALSE
    <3>1. x \in DataAddrs /\ x # a /\ m[x].logical = M[x].logical
      BY <2>1, <2>3 DEF EntriesConsistent, IsWatchpoint, Addrs
    <3>2. x \in DOMAIN M /\ a \in DOMAIN M \ {x} /\ b \in User(M[a].breaklets)
      BY <2>1, <2>2, <3>1
    <3>3. b.id # M[x].logical
      BY <3>1, <3>2, ZenonT(60) DEF EntriesConsistent
    <3> QED BY <2>3, <3>1, <3>3
  <2> QED BY <1>1, <2>1, <2>2, <2>3
<1> QED BY <1>2, <1>3, <1>4, <1>5, <1>6

\* Removing internal breaklets keeps the user breaklet, the owner and the
\* register of an entry, and does not touch the entry of a watchpoint.
LEMMA StripEntry ==
  ASSUME Inv, NEW a \in DOMAIN M, NEW kinds, UserBreakpoint \notin kinds
  PROVE  /\ Strip(M[a], kinds) \in Breakpoint
         /\ Strip(M[a], kinds).slot = M[a].slot
         /\ User(Strip(M[a], kinds).breaklets) = User(M[a].breaklets)
         /\ Strip(M[a], kinds).logical = M[a].logical
         /\ a \in DataAddrs => Strip(M[a], kinds) = M[a]
<1>1. M[a] \in Breakpoint
  BY DEF Inv, TypeOK
<1>2. /\ Strip(M[a], kinds) \in Breakpoint
      /\ Strip(M[a], kinds).slot = M[a].slot
      /\ Strip(M[a], kinds).logical = M[a].logical
      /\ Strip(M[a], kinds).breaklets = {b \in M[a].breaklets : b.kind \notin kinds}
  BY <1>1 DEF Strip, Breakpoint
<1>3. User(Strip(M[a], kinds).breaklets) = User(M[a].breaklets)
  BY <1>2 DEF User
<1>4. ASSUME a \in DataAddrs
      PROVE  Strip(M[a], kinds) = M[a]
  <2>1. M[a].breaklets = {[kind |-> UserBreakpoint, id |-> M[a].logical]}
    BY <1>4 DEF Inv, EntriesConsistent
  <2>2. {b \in M[a].breaklets : b.kind \notin kinds} = M[a].breaklets
    BY <2>1, SMTT(30)
  <2> QED BY <1>1, <1>2, <2>2, SMTT(30) DEF Breakpoint
<1> QED BY <1>2, <1>3, <1>4

\* Removing the user breaklet of an entry also drops its owner, except for a
\* watchpoint, whose entry becomes empty.
LEMMA ClearUserEntry ==
  ASSUME Inv, NEW a \in DOMAIN M
  PROVE  /\ ClearUser(M[a]) \in Breakpoint
         /\ ClearUser(M[a]).slot = M[a].slot
         /\ User(ClearUser(M[a]).breaklets) = {}
         /\ a \in CodeAddrs => ClearUser(M[a]).logical = NoID
         /\ a \in DataAddrs => /\ ClearUser(M[a]).logical = M[a].logical
                               /\ ClearUser(M[a]).breaklets = {}
<1>1. M[a] \in Breakpoint
  BY DEF Inv, TypeOK
<1>2. /\ ClearUser(M[a]) \in Breakpoint
      /\ ClearUser(M[a]).slot = M[a].slot
      /\ ClearUser(M[a]).breaklets = {b \in M[a].breaklets : b.kind \notin {UserBreakpoint}}
      /\ ClearUser(M[a]).logical =
           IF IsWatchpoint(M[a]) \/ ~IsUser(M[a]) THEN M[a].logical ELSE NoID
  BY <1>1, ZenonT(30) DEF ClearUser, Strip, Breakpoint
<1>3. User(ClearUser(M[a]).breaklets) = {}
  BY <1>2 DEF User
<1>4. ASSUME a \in CodeAddrs
      PROVE  ClearUser(M[a]).logical = NoID
  BY <1>2, <1>4 DEF Inv, EntriesConsistent, IsWatchpoint
<1>5. ASSUME a \in DataAddrs
      PROVE  ClearUser(M[a]).logical = M[a].logical /\ ClearUser(M[a]).breaklets = {}
  <2>1. /\ M[a].slot \in Slots
        /\ M[a].breaklets = {[kind |-> UserBreakpoint, id |-> M[a].logical]}
    BY <1>5 DEF Inv, EntriesConsistent
  <2>2. M[a].slot # NoSlot
    BY <2>1, HWAssumption, SMTT(30) DEF Slots, NoSlot
  <2> QED BY <1>2, <2>1, <2>2, SMTT(30) DEF IsWatchpoint
<1> QED BY <1>2, <1>3, <1>4, <1>5

\* ClearBreakpoint preserves the invariant, also when the trap can not be removed.
LEMMA ClearBreakpointInv ==
  ASSUME Inv, NEW a \in Addrs, ClearBreakpoint(a)
  PROVE  Inv'
<1> DEFINE m == [M EXCEPT ![a] = ClearUser(@)]
<1>1. PICK gone \in SUBSET {a} :
        /\ a \in DataAddrs /\ m[a].breaklets = {} => gone = {a}
        /\ finishClearBreakpoint(m, gone)
        /\ cur' = Forget(gone, Removed)
        /\ UNCHANGED attached
  <2>1. CASE finishClearBreakpoint(m, {x \in {a} : m[x].breaklets = {}})
             /\ cur' = Forget({x \in {a} : m[x].breaklets = {}}, Removed)
    BY <2>1, ZenonT(30) DEF ClearBreakpoint
  <2>2. CASE a \in EraseFaults /\ m[a].breaklets = {} /\ finishClearBreakpoint(m, {})
             /\ UNCHANGED cur
    <3>1. cur' = Forget({}, Removed)
      BY <2>2 DEF Forget, Inv, TypeOK
    <3> QED BY <2>2, <3>1, AddrAssumption, FaultAssumption DEF ClearBreakpoint
  <2> QED BY <2>1, <2>2, ZenonT(30) DEF ClearBreakpoint
<1>2. a \in DOMAIN M
  BY DEF ClearBreakpoint
<1>3. Cleared(m, gone)
  <2>1. DOMAIN m = DOMAIN M /\ m[a] = ClearUser(M[a])
        /\ \A x \in DOMAIN M : x # a => m[x] = M[x]
    BY <1>2
  <2>2. a \in DataAddrs => a \in gone
    BY <1>1, <1>2, <2>1, ClearUserEntry
  <2>3. \A x \in DOMAIN M : x # a => m[x] \in Breakpoint
    BY <2>1 DEF Inv, TypeOK
  <2> QED BY <1>1, <1>2, <2>1, <2>2, <2>3, ClearUserEntry, ZenonT(60) DEF Cleared
<1>4. cur' \in [Threads -> Addrs \cup {NoAddr, Removed}] /\ attached' \in BOOLEAN
  BY <1>1 DEF Forget, Inv, TypeOK
<1> QED
  <2> HIDE DEF m
  <2> QED BY <1>1, <1>3, <1>4, ClearingPreserves DEF Inv, TypeOK

\* The loops that clear internal breaklets preserve the invariant wherever they end.
LEMMA ClearKindsInv ==
  ASSUME Inv, NEW kinds, UserBreakpoint \notin kinds,
         NEW done, NEW failed, ClearKinds(kinds, done, failed)
  PROVE  Inv'
<1> DEFINE m == [a \in DOMAIN M |->
                   IF a \in done \cup failed THEN Strip(M[a], kinds) ELSE M[a]]
           gone == {a \in done : m[a].breaklets = {}}
<1>1. /\ finishClearBreakpoint(m, gone)
      /\ cur' = Forget(gone, NoAddr)
      /\ UNCHANGED attached
      /\ done \subseteq DOMAIN M
  BY DEF ClearKinds
<1>2. Cleared(m, gone)
  BY <1>1, StripEntry DEF Cleared, Inv, TypeOK
<1>3. cur' \in [Threads -> Addrs \cup {NoAddr, Removed}] /\ attached' \in BOOLEAN
  BY <1>1 DEF Forget, Inv, TypeOK
<1> QED
  <2> HIDE DEF m, gone
  <2> QED BY <1>1, <1>2, <1>3, ClearingPreserves DEF Inv, TypeOK

\* detachTarget preserves the invariant, whether it completes or gives up.
LEMMA DetachInv ==
  ASSUME Inv, NEW done, NEW failed, detachTarget(done, failed)
  PROVE  Inv'
<1> DEFINE m == [a \in DOMAIN M |->
                   IF a \in done \cup failed THEN ClearUser(M[a]) ELSE M[a]]
           gone == {a \in done : m[a].breaklets = {}}
<1>1. /\ finishClearBreakpoint(m, gone)
      /\ cur' = Forget(gone, Removed)
      /\ attached' \in BOOLEAN
      /\ done \subseteq DOMAIN M
      /\ failed \subseteq EraseFaults
  BY DEF detachTarget
<1>2. Cleared(m, gone)
  <2> SUFFICES ASSUME NEW a \in DOMAIN M
               PROVE  /\ m[a] \in Breakpoint
                      /\ m[a].slot = M[a].slot
                      /\ \/ /\ User(m[a].breaklets) = User(M[a].breaklets)
                            /\ m[a].logical = M[a].logical
                         \/ /\ User(m[a].breaklets) = {}
                            /\ a \in CodeAddrs => m[a].logical = NoID
                            /\ a \in DataAddrs => m[a].logical = M[a].logical
                      /\ a \in DataAddrs => m[a] = M[a] \/ a \in gone
    BY <1>1 DEF Cleared
  <2>1. CASE a \in done \cup failed
    BY <1>1, <2>1, ClearUserEntry, AddrAssumption, FaultAssumption
  <2>2. CASE a \notin done \cup failed
    BY <2>2 DEF Inv, TypeOK
  <2> QED BY <2>1, <2>2, ZenonT(60)
<1>3. cur' \in [Threads -> Addrs \cup {NoAddr, Removed}]
  BY <1>1 DEF Forget, Inv, TypeOK
<1> QED
  <2> HIDE DEF m, gone
  <2> QED BY <1>1, <1>2, <1>3, ClearingPreserves DEF Inv, TypeOK

\* SetBreakpoint preserves the invariant, both on a new address and on an address
\* where other breaklets are.
LEMMA SetBreakpointInv ==
  ASSUME Inv, NEW a \in CodeAddrs, NEW kind \in Kinds, NEW id \in IDs \cup {NoID},
         kind = UserBreakpoint => id \in IDs \ WatchIDs,
         SetBreakpoint(id, a, kind)
  PROVE  Inv'
<1> USE DEF Inv
<1>a. a \notin DataAddrs /\ a \in Addrs
  BY AddrAssumption DEF Addrs
<1>b. NewBreaklet(id, kind) \in Breaklet
  BY DEF NewBreaklet, Breaklet
<1>1. /\ DOMAIN M' = DOMAIN M \cup {a}
      /\ \A x \in DOMAIN M : x # a => M'[x] = M[x]
      /\ text' = text \cup {a}
      /\ dr' = dr /\ cur' = cur /\ attached' = attached
      /\ Logical' = IF kind = UserBreakpoint THEN Logical \cup {id} ELSE Logical
  BY DEF SetBreakpoint, AddEntry, TrapsMatchTable
<1>2. /\ M'[a] \in Breakpoint
      /\ M'[a].slot = NoSlot
      /\ kind # UserBreakpoint /\ a \in DOMAIN M =>
           User(M'[a].breaklets) = User(M[a].breaklets) /\ M'[a].logical = M[a].logical
      /\ kind # UserBreakpoint /\ a \notin DOMAIN M =>
           User(M'[a].breaklets) = {} /\ M'[a].logical = NoID
      /\ kind = UserBreakpoint =>
           User(M'[a].breaklets) = {NewBreaklet(id, kind)} /\ M'[a].logical = id
  <2>1. CASE a \in DOMAIN M
    <3>1. M[a] \in Breakpoint /\ M[a].slot = NoSlot /\ (~IsUser(M[a]) => M[a].logical = NoID)
      BY <2>1 DEF TypeOK, EntriesConsistent
    <3>2. M'[a] = WithBreaklet(M[a], id, kind) /\ canOverlap(M[a], kind)
      BY <2>1 DEF SetBreakpoint
    <3>3. /\ M'[a] \in Breakpoint /\ M'[a].slot = NoSlot
          /\ M'[a].breaklets = M[a].breaklets \cup {NewBreaklet(id, kind)}
          /\ M'[a].logical = IF kind # UserBreakpoint \/ M[a].logical # NoID
                             THEN M[a].logical ELSE id
      <4> DEFINE bs == M[a].breaklets \cup {NewBreaklet(id, kind)}
                 lg == IF kind # UserBreakpoint \/ M[a].logical # NoID
                       THEN M[a].logical ELSE id
      <4>1. M'[a] = [M[a] EXCEPT !.breaklets = bs, !.logical = lg]
        BY <3>2 DEF WithBreaklet, setLogicalBreakpoint
      <4>2. bs \in SUBSET Breaklet /\ lg \in IDs \cup {NoID}
        BY <1>b, <3>1 DEF Breakpoint
      <4> HIDE DEF bs, lg
      <4>3. /\ M'[a] \in Breakpoint /\ M'[a].slot = NoSlot
            /\ M'[a].breaklets = bs /\ M'[a].logical = lg
        BY <3>1, <4>1, <4>2, ZenonT(30) DEF Breakpoint
      <4> QED BY <4>3 DEF bs, lg
    <3> QED BY <2>1, <3>1, <3>2, <3>3, SMTT(30) DEF User, IsUser, canOverlap, NewBreaklet
  <2>2. CASE a \notin DOMAIN M
    <3>1. M'[a] = NewBreakpoint(id, kind, NoSlot)
      BY <2>2 DEF SetBreakpoint, AddEntry
    <3> QED
      BY <1>b, <2>2, <3>1, SMTT(30)
      DEF NewBreakpoint, NewBreaklet, Breakpoint, setLogicalBreakpoint, User, NoID
  <2> QED BY <2>1, <2>2
<1>3. TypeOK'
  BY <1>1, <1>2, <1>a DEF TypeOK
<1>4. TrapsMatchTable'
  BY <1>1 DEF TrapsMatchTable
<1>5. RegistersMatchTable'
  BY <1>1, <1>a, SMTT(30) DEF RegistersMatchTable
<1>6. UserBreakletOwned'
  <2> SUFFICES ASSUME NEW x \in DOMAIN M', NEW b \in User(M'[x].breaklets)
               PROVE  User(M'[x].breaklets) = {b} /\ M'[x].logical = b.id /\ b.id \in Logical'
    BY DEF UserBreakletOwned
  <2>1. CASE x # a
    BY <1>1, <2>1 DEF UserBreakletOwned
  <2>2. CASE x = a
    BY <1>1, <1>2, <2>2, SMTT(30) DEF UserBreakletOwned, NewBreaklet
  <2> QED BY <2>1, <2>2
<1>7. EntriesConsistent'
  <2> SUFFICES ASSUME NEW x \in DOMAIN M'
               PROVE  /\ x \in CodeAddrs => M'[x].slot = NoSlot
                                            /\ (~IsUser(M'[x]) => M'[x].logical = NoID)
                      /\ x \in DataAddrs =>
                           /\ M'[x].slot \in Slots
                           /\ M'[x].breaklets = {[kind |-> UserBreakpoint, id |-> M'[x].logical]}
                           /\ \A y \in DOMAIN M' \ {x} : \A b \in User(M'[y].breaklets) :
                                b.id # M'[x].logical
    BY DEF EntriesConsistent
  <2>1. CASE x = a
    BY <1>1, <1>2, <1>a, <2>1, ZenonT(60) DEF EntriesConsistent, IsUser
  <2>2. CASE x # a /\ x \in CodeAddrs
    BY <1>1, <2>2, AddrAssumption, ZenonT(60) DEF EntriesConsistent
  <2>3. CASE x # a /\ x \in DataAddrs
    <3>1. x \in DOMAIN M /\ M'[x] = M[x] /\ x \notin CodeAddrs
      BY <1>1, <2>3, AddrAssumption
    <3>2. /\ M[x].slot \in Slots
          /\ M[x].breaklets = {[kind |-> UserBreakpoint, id |-> M[x].logical]}
          /\ \A y \in DOMAIN M \ {x} : \A b \in User(M[y].breaklets) : b.id # M[x].logical
      BY <2>3, <3>1 DEF EntriesConsistent
    <3>3. kind = UserBreakpoint => id # M[x].logical
      BY <2>3, <3>1 DEF WatchIDs
    <3>4. ASSUME NEW y \in DOMAIN M' \ {x}, NEW b \in User(M'[y].breaklets)
          PROVE  b.id # M[x].logical
      <4>1. CASE y # a
        BY <1>1, <3>2, <3>4, <4>1
      <4>2. CASE y = a
        BY <1>1, <1>2, <3>2, <3>3, <3>4, <4>2, SMTT(30) DEF NewBreaklet
      <4> QED BY <4>1, <4>2
    <3> QED BY <3>1, <3>2, <3>4
  <2> QED BY <1>1, <1>a, <2>1, <2>2, <2>3, ZenonT(60) DEF TypeOK, Addrs
<1> QED BY <1>3, <1>4, <1>5, <1>6, <1>7

\* SetWatchpoint preserves the invariant: the register it takes is free.
LEMMA SetWatchpointInv ==
  ASSUME Inv, NEW a \in DataAddrs, NEW id \in IDs \ Logical, SetWatchpoint(id, a)
  PROVE  Inv'
<1> USE DEF Inv
<1>a. a \notin CodeAddrs /\ a \in Addrs /\ a # NoAddr /\ id # NoID
  BY AddrAssumption, IDAssumption DEF Addrs
<1>1. PICK i \in Slots :
        /\ dr[i] = NoAddr
        /\ dr' = [dr EXCEPT ![i] = a]
        /\ M' = AddEntry(M, a, NewBreakpoint(id, UserBreakpoint, i))
  BY ZenonT(30) DEF SetWatchpoint
<1>2. /\ a \notin DOMAIN M /\ DOMAIN M' = DOMAIN M \cup {a}
      /\ \A x \in DOMAIN M : M'[x] = M[x]
      /\ M'[a] = NewBreakpoint(id, UserBreakpoint, i)
      /\ Logical' = Logical \cup {id}
      /\ text' = text /\ cur' = cur /\ attached' = attached
  BY <1>1 DEF SetWatchpoint, AddEntry
<1>3. /\ M'[a] \in Breakpoint /\ M'[a].slot = i /\ M'[a].logical = id
      /\ M'[a].breaklets = {[kind |-> UserBreakpoint, id |-> id]}
      /\ User(M'[a].breaklets) = M'[a].breaklets
  BY <1>2, <1>a, SMTT(30) DEF NewBreakpoint, NewBreaklet, Breakpoint, Breaklet, setLogicalBreakpoint,
     User, Kinds
<1>4. TypeOK'
  BY <1>1, <1>2, <1>3, <1>a DEF TypeOK
<1>5. TrapsMatchTable'
  BY <1>2, <1>a DEF TrapsMatchTable
<1>6. RegistersMatchTable'
  <2> SUFFICES ASSUME NEW j \in Slots, NEW x \in DataAddrs
               PROVE  dr'[j] = x <=> x \in DOMAIN M' /\ M'[x].slot = j
    BY DEF RegistersMatchTable
  <2>1. dr[j] = x <=> x \in DOMAIN M /\ M[x].slot = j
    BY DEF RegistersMatchTable
  <2>2. x # NoAddr
    BY AddrAssumption DEF Addrs
  <2>3. dr'[j] = IF j = i THEN a ELSE dr[j]
    BY <1>1 DEF TypeOK
  <2>4. CASE x = a
    BY <1>2, <1>3, <2>1, <2>3, <2>4
  <2>5. CASE x # a
    BY <1>1, <1>2, <2>1, <2>2, <2>3, <2>5
  <2> QED BY <2>4, <2>5
<1>7. UserBreakletOwned'
  <2> SUFFICES ASSUME NEW x \in DOMAIN M', NEW b \in User(M'[x].breaklets)
               PROVE  User(M'[x].breaklets) = {b} /\ M'[x].logical = b.id /\ b.id \in Logical'
    BY DEF UserBreakletOwned
  <2>1. CASE x # a
    BY <1>2, <2>1 DEF UserBreakletOwned
  <2>2. CASE x = a
    <3>1. b = [kind |-> UserBreakpoint, id |-> id]
      BY <1>3, <2>2
    <3> QED BY <1>2, <1>3, <2>2, <3>1, ZenonT(30)
  <2> QED BY <2>1, <2>2
<1>8. EntriesConsistent'
  <2>1. \A x \in DOMAIN M, b \in Breaklet : b \in User(M[x].breaklets) => b.id # id
    BY DEF UserBreakletOwned
  <2>2. \A x \in DOMAIN M : User(M[x].breaklets) \subseteq Breaklet
    BY DEF User, TypeOK, Breakpoint
  <2> SUFFICES ASSUME NEW x \in DOMAIN M'
               PROVE  /\ x \in CodeAddrs => M'[x].slot = NoSlot
                                            /\ (~IsUser(M'[x]) => M'[x].logical = NoID)
                      /\ x \in DataAddrs =>
                           /\ M'[x].slot \in Slots
                           /\ M'[x].breaklets = {[kind |-> UserBreakpoint, id |-> M'[x].logical]}
                           /\ \A y \in DOMAIN M' \ {x} : \A b \in User(M'[y].breaklets) :
                                b.id # M'[x].logical
    BY DEF EntriesConsistent
  <2>3. CASE x = a
    BY <1>2, <1>3, <1>a, <2>1, <2>2, <2>3
  <2>4. CASE x # a /\ x \in CodeAddrs
    BY <1>2, <2>4, AddrAssumption, ZenonT(60) DEF EntriesConsistent
  <2>5. CASE x # a /\ x \in DataAddrs
    <3>1. x \in DOMAIN M /\ M'[x] = M[x] /\ x \notin CodeAddrs
      BY <1>2, <2>5, AddrAssumption
    <3>2. /\ M[x].slot \in Slots
          /\ M[x].breaklets = {[kind |-> UserBreakpoint, id |-> M[x].logical]}
          /\ \A y \in DOMAIN M \ {x} : \A b \in User(M[y].breaklets) : b.id # M[x].logical
      BY <2>5, <3>1 DEF EntriesConsistent
    <3>3. M[x].logical # id
      <4>1. [kind |-> UserBreakpoint, id |-> M[x].logical] \in User(M[x].breaklets)
        BY <3>2 DEF User
      <4> QED BY <3>1, <4>1 DEF UserBreakletOwned
    <3>4. ASSUME NEW y \in DOMAIN M' \ {x}, NEW b \in User(M'[y].breaklets)
          PROVE  b.id # M[x].logical
      <4>1. CASE y # a
        BY <1>2, <3>2, <3>4, <4>1
      <4>2. CASE y = a
        <5>1. b = [kind |-> UserBreakpoint, id |-> id]
          BY <1>3, <3>4, <4>2
        <5> QED BY <3>3, <5>1
      <4> QED BY <4>1, <4>2
    <3> QED BY <3>1, <3>2, <3>4, ZenonT(60)
  <2> QED BY <1>2, <2>3, <2>4, <2>5 DEF TypeOK, Addrs
<1> QED BY <1>4, <1>5, <1>6, <1>7, <1>8

\* Inactivating "next" breaklets preserves the invariant.
LEMMA InactivateInv ==
  ASSUME Inv, NEW S \in SUBSET CodeAddrs, rangeFrameInactivateNextBreakpoints(S)
  PROVE  Inv'
<1> USE DEF Inv
<1>1. /\ DOMAIN M' = DOMAIN M
      /\ \A a \in DOMAIN M : M'[a] = IF a \in S THEN Inactivate(M[a]) ELSE M[a]
      /\ UNCHANGED <<Logical, text, dr, cur, attached>>
  BY DEF rangeFrameInactivateNextBreakpoints
<1>2. ASSUME NEW a \in DOMAIN M
      PROVE  /\ M'[a] \in Breakpoint
             /\ M'[a].slot = M[a].slot /\ M'[a].logical = M[a].logical
             /\ User(M'[a].breaklets) = User(M[a].breaklets)
             /\ a \in DataAddrs => M'[a] = M[a]
  <2>1. M[a] \in Breakpoint
    BY DEF TypeOK
  <2>2. CASE a \in S
    <3> DEFINE off(b) == IF b.kind = "next"
                         THEN [b EXCEPT !.kind = NextInactivatedBreakpoint] ELSE b
               bs == {off(b) : b \in M[a].breaklets}
    <3>1. M'[a] = [M[a] EXCEPT !.breaklets = bs]
      BY <1>1, <2>2 DEF Inactivate
    <3>2. ASSUME NEW b \in M[a].breaklets
          PROVE  /\ off(b) \in Breaklet
                 /\ b.kind = UserBreakpoint => off(b) = b
                 /\ off(b).kind = UserBreakpoint => off(b) = b
      <4>1. b \in Breaklet
        BY <2>1 DEF Breakpoint
      <4> QED
        BY <4>1, ZenonT(60)
        DEF Breaklet, Kinds, SteppingKinds, NextInactivatedBreakpoint, UserBreakpoint
    <3>3. bs \in SUBSET Breaklet /\ User(bs) = User(M[a].breaklets)
      BY <3>2, ZenonT(30) DEF User
    <3> HIDE DEF bs
    <3>4. a \notin DataAddrs
      BY <2>2, AddrAssumption
    <3> QED BY <2>1, <3>1, <3>3, <3>4 DEF Breakpoint
  <2>3. CASE a \notin S
    BY <1>1, <2>1, <2>3
  <2> QED BY <2>2, <2>3
<1>3. TypeOK' /\ TrapsMatchTable' /\ RegistersMatchTable'
  BY <1>1, <1>2, SMTT(30) DEF TypeOK, TrapsMatchTable, RegistersMatchTable
<1>4. UserBreakletOwned'
  BY <1>1, <1>2 DEF UserBreakletOwned
<1>5. EntriesConsistent'
  BY <1>1, <1>2, SMTT(30) DEF EntriesConsistent, IsUser
<1> QED BY <1>3, <1>4, <1>5

\* Every step of the breakpoint table preserves the invariant.
LEMMA NextInv == Inv /\ [Next]_vars => Inv'
<1> SUFFICES ASSUME Inv, [Next]_vars PROVE Inv'
  OBVIOUS
<1>1. CASE \E id \in IDs \ WatchIDs, a \in CodeAddrs : SetBreakpoint(id, a, UserBreakpoint)
  BY <1>1, SetBreakpointInv DEF Kinds
<1>2. CASE \E a \in CodeAddrs, k \in InternalKinds \ {NextInactivatedBreakpoint} :
             SetBreakpoint(NoID, a, k)
  <2>1. PICK a \in CodeAddrs, k \in InternalKinds : SetBreakpoint(NoID, a, k)
    BY <1>2
  <2>2. k \in Kinds /\ k # UserBreakpoint
    BY KindAssumption
    DEF Kinds, SteppingKinds, LastingKinds, UserBreakpoint, NextInactivatedBreakpoint
  <2> QED BY <2>1, <2>2, SetBreakpointInv
<1>3. CASE \E id \in IDs \ Logical, a \in DataAddrs : SetWatchpoint(id, a)
  BY <1>3, SetWatchpointInv
<1>4. CASE \E a \in Addrs : ClearBreakpoint(a)
  BY <1>4, ClearBreakpointInv
<1>5. CASE \E done \in SUBSET DOMAIN M, failed \in SUBSET DOMAIN M :
             \/ ClearSteppingBreakpoints(done, failed)
             \/ clearInactivatedSteppingBreakpoint(done, failed)
  <2>1. UserBreakpoint \notin SteppingKinds /\ UserBreakpoint \notin {NextInactivatedBreakpoint}
    BY DEF UserBreakpoint, SteppingKinds, NextInactivatedBreakpoint
  <2> QED
    BY <1>5, <2>1, ClearKindsInv
    DEF ClearSteppingBreakpoints, clearInactivatedSteppingBreakpoint
<1>6. CASE \E done \in SUBSET DOMAIN M, failed \in SUBSET DOMAIN M : detachTarget(done, failed)
  BY <1>6, DetachInv
<1>7. CASE \E S \in SUBSET CodeAddrs : rangeFrameInactivateNextBreakpoints(S)
  BY <1>7, InactivateInv, ZenonT(60)
<1>8. CASE ContinueOnce
  <2>1. cur' \in [Threads -> Addrs \cup {NoAddr, Removed}]
    BY <1>8 DEF ContinueOnce, Inv, TypeOK
  <2>2. UNCHANGED <<M, Logical, text, dr, attached>>
    BY <1>8 DEF ContinueOnce
  <2>3. TypeOK'
    BY <2>1, <2>2 DEF Inv, TypeOK
  <2>4. TrapsMatchTable' /\ RegistersMatchTable'
    BY <2>2 DEF Inv, TrapsMatchTable, RegistersMatchTable
  <2>5. UserBreakletOwned' /\ EntriesConsistent'
    BY <2>2, SMTT(30) DEF Inv, UserBreakletOwned, EntriesConsistent
  <2> QED
    BY <2>3, <2>4, <2>5 DEF Inv
<1>9. CASE UNCHANGED vars
  <2>1. TypeOK'
    BY <1>9 DEF vars, Inv, TypeOK
  <2>2. TrapsMatchTable' /\ RegistersMatchTable'
    BY <1>9 DEF vars, Inv, TrapsMatchTable, RegistersMatchTable
  <2>3. UserBreakletOwned' /\ EntriesConsistent'
    BY <1>9, SMTT(30) DEF vars, Inv, UserBreakletOwned, EntriesConsistent
  <2> QED
    BY <2>1, <2>2, <2>3 DEF Inv
<1> QED BY <1>1, <1>2, <1>3, <1>4, <1>5, <1>6, <1>7, <1>8, <1>9 DEF Next

\* Inv is an invariant of the specification.
THEOREM Invariance == Spec => []Inv
BY InitInv, NextInv, PTL DEF Spec

\* The variables keep their types.
THEOREM TypeCorrect == Spec => []TypeOK
BY Invariance, PTL DEF Inv

\* For any number of breakpoints, overlapping breaklets and failing erasures, an
\* instruction holds a trap exactly when the breakpoint table has an entry for it.
THEOREM TrapsMatch == Spec => []TrapsMatchTable
BY Invariance, PTL DEF Inv

\* For any number of debug registers, a register watches an address exactly when
\* the table has a watchpoint with that index there.
THEOREM RegistersMatch == Spec => []RegistersMatchTable
BY Invariance, PTL DEF Inv

\* An entry has at most one user breaklet, and that one names the logical
\* breakpoint the entry points to, which is known.
THEOREM UserOwned == Spec => []UserBreakletOwned
BY Invariance, PTL DEF Inv

\* A step that deletes the entries `gone` and tells the threads stopped at them.
LEMMA ForgetFollows ==
  ASSUME Inv, StoppedAtEntry, NEW m, NEW gone, NEW to \in {NoAddr, Removed},
         DOMAIN m = DOMAIN M, gone \subseteq DOMAIN M,
         finishClearBreakpoint(m, gone), cur' = Forget(gone, to),
         to = Removed => \A a \in gone : ~IsStepping(M[a])
  PROVE  StoppedAtEntry' /\ \A t \in Threads : FollowsTable(t)
<1>1. DOMAIN M' = DOMAIN M \ gone
  BY DEF finishClearBreakpoint, DropEntries
<1>2. \A t \in Threads : cur'[t] = IF cur[t] \in gone THEN to ELSE cur[t]
  BY DEF Forget
<1>3. NoAddr \notin DOMAIN M /\ Removed \notin DOMAIN M /\ NoAddr # Removed
  BY AddrAssumption DEF Inv, TypeOK, Addrs, NoAddr, Removed
<1>4. StoppedAtEntry'
  BY <1>1, <1>2 DEF StoppedAtEntry
<1>5. \A t \in Threads : FollowsTable(t)
  BY <1>1, <1>2, <1>3 DEF FollowsTable
<1> QED BY <1>4, <1>5

\* A step that leaves the threads and every entry where they are.
LEMMA KeepsFollows ==
  ASSUME StoppedAtEntry, DOMAIN M \subseteq DOMAIN M', cur' = cur
  PROVE  StoppedAtEntry' /\ \A t \in Threads : FollowsTable(t)
BY DEF StoppedAtEntry, FollowsTable

\* Clearing the user's breaklet empties only an entry without other breaklets.
LEMMA UserClearedNotStepping ==
  ASSUME Inv, NEW a \in DOMAIN M, ClearUser(M[a]).breaklets = {}
  PROVE  ~IsStepping(M[a])
<1>1. M[a] \in Breakpoint
  BY DEF Inv, TypeOK
<1>2. \A b \in M[a].breaklets : b.kind = UserBreakpoint
  BY <1>1, SMTT(30) DEF ClearUser, Strip, Breakpoint
<1> QED
  BY <1>2 DEF IsStepping, UserBreakpoint, SteppingKinds, NextInactivatedBreakpoint

\* Every step keeps threads and table together.
LEMMA NextFollows ==
  ASSUME Inv, StoppedAtEntry, [Next]_vars
  PROVE  StoppedAtEntry' /\ (Next => \A t \in Threads : FollowsTable(t))
<1>1. CASE \E id, a, k : SetBreakpoint(id, a, k)
  <2>1. PICK id, a, k : SetBreakpoint(id, a, k)
    BY <1>1
  <2>2. DOMAIN M \subseteq DOMAIN M' /\ cur' = cur
    BY <2>1, SMTT(30) DEF SetBreakpoint, AddEntry
  <2> QED BY <2>2, KeepsFollows
<1>2. CASE \E id, a : SetWatchpoint(id, a)
  <2>1. DOMAIN M \subseteq DOMAIN M' /\ cur' = cur
    BY <1>2, SMTT(30) DEF SetWatchpoint, AddEntry
  <2> QED BY <2>1, KeepsFollows
<1>3. CASE \E S : rangeFrameInactivateNextBreakpoints(S)
  <2>1. DOMAIN M \subseteq DOMAIN M' /\ cur' = cur
    BY <1>3 DEF rangeFrameInactivateNextBreakpoints
  <2> QED BY <2>1, KeepsFollows
<1>4. CASE \E a \in Addrs : ClearBreakpoint(a)
  <2>1. PICK a \in Addrs : ClearBreakpoint(a)
    BY <1>4
  <2> DEFINE m == [M EXCEPT ![a] = ClearUser(@)]
             gone == {x \in {a} : m[x].breaklets = {}}
  <2>2. a \in DOMAIN M /\ DOMAIN m = DOMAIN M
    BY <2>1 DEF ClearBreakpoint
  <2>3. CASE finishClearBreakpoint(m, gone) /\ cur' = Forget(gone, Removed)
    <3>1. \A x \in gone : ~IsStepping(M[x])
      BY <2>2, UserClearedNotStepping
    <3>2. gone \subseteq DOMAIN M
      BY <2>2
    <3> HIDE DEF m, gone
    <3> QED BY <2>2, <2>3, <3>1, <3>2, ForgetFollows
  <2>4. CASE finishClearBreakpoint(m, {}) /\ cur' = cur
    <3>1. DOMAIN M \subseteq DOMAIN M'
      BY <2>2, <2>4 DEF finishClearBreakpoint, DropEntries
    <3> QED BY <2>4, <3>1, KeepsFollows
  <2> QED BY <2>1, <2>3, <2>4 DEF ClearBreakpoint
<1>5. CASE \E kinds, done, failed : ClearKinds(kinds, done, failed)
  <2>1. PICK kinds, done, failed : ClearKinds(kinds, done, failed)
    BY <1>5
  <2> DEFINE m == [a \in DOMAIN M |->
                     IF a \in done \cup failed THEN Strip(M[a], kinds) ELSE M[a]]
             gone == {a \in done : m[a].breaklets = {}}
  <2>2. /\ finishClearBreakpoint(m, gone) /\ cur' = Forget(gone, NoAddr)
        /\ DOMAIN m = DOMAIN M /\ gone \subseteq DOMAIN M
    BY <2>1 DEF ClearKinds
  <2>3. NoAddr # Removed
    BY DEF NoAddr, Removed
  <2> HIDE DEF m, gone
  <2> QED BY <2>2, <2>3, ForgetFollows
<1>6. CASE \E done, failed : detachTarget(done, failed)
  <2>1. PICK done, failed : detachTarget(done, failed)
    BY <1>6
  <2> DEFINE m == [a \in DOMAIN M |->
                     IF a \in done \cup failed THEN ClearUser(M[a]) ELSE M[a]]
             gone == {a \in done : m[a].breaklets = {}}
  <2>2. /\ finishClearBreakpoint(m, gone) /\ cur' = Forget(gone, Removed)
        /\ DOMAIN m = DOMAIN M /\ gone \subseteq DOMAIN M
    BY <2>1 DEF detachTarget
  <2>3. \A a \in gone : ~IsStepping(M[a])
    BY <2>2, UserClearedNotStepping
  <2> HIDE DEF m, gone
  <2> QED BY <2>2, <2>3, ForgetFollows
<1>7. CASE ContinueOnce
  <2>1. M' = M /\ cur' \in [Threads -> {NoAddr} \cup DOMAIN M]
    BY <1>7 DEF ContinueOnce
  <2>2. Removed \notin DOMAIN M /\ NoAddr # Removed
    BY AddrAssumption DEF Inv, TypeOK, NoAddr, Removed
  <2> QED BY <2>1, <2>2 DEF StoppedAtEntry, FollowsTable
<1>8. CASE UNCHANGED vars
  BY <1>8, KeepsFollows DEF vars
<1> QED
  BY <1>1, <1>2, <1>3, <1>4, <1>5, <1>6, <1>7, <1>8
  DEF Next, ClearSteppingBreakpoints, clearInactivatedSteppingBreakpoint

\* For any number of threads, addresses and failing erasures, the breakpoints of
\* stopped threads agree with the table: a thread is at an entry of it or has lost
\* it together with the entry, and none keeps a deleted entry of a step.
THEOREM ThreadsFollow == Spec => ThreadsFollowTable
<1>1. Init => StoppedAtEntry
  BY DEF Init, StoppedAtEntry
<1>2. Inv /\ StoppedAtEntry /\ [Next]_vars => StoppedAtEntry'
  BY NextFollows
<1>3. Inv /\ StoppedAtEntry /\ [Next]_vars => [\A t \in Threads : FollowsTable(t)]_vars
  BY NextFollows
<1> QED BY <1>1, <1>2, <1>3, Invariance, PTL DEF Spec, ThreadsFollowTable

\* A ClearSteppingBreakpoints that meets no error leaves no stepping breaklet and
\* no empty entry, whatever an earlier call that failed has left in the table.
THEOREM ClearRetried == Spec => CompleteClearRetries
<1>1. ASSUME Inv, ClearSteppingBreakpoints(DOMAIN M, {}), NEW a \in DOMAIN M'
      PROVE  M'[a].breaklets # {} /\ ~IsStepping(M'[a])
  <2> DEFINE m == [x \in DOMAIN M |->
                     IF x \in DOMAIN M \cup {} THEN Strip(M[x], SteppingKinds) ELSE M[x]]
             gone == {x \in DOMAIN M : m[x].breaklets = {}}
  <2>1. M' = DropEntries(m, gone)
    BY <1>1 DEF ClearSteppingBreakpoints, ClearKinds, finishClearBreakpoint
  <2>2. a \in DOMAIN M /\ a \notin gone /\ M'[a] = Strip(M[a], SteppingKinds)
    BY <2>1 DEF DropEntries
  <2>3. M[a] \in Breakpoint
    BY <1>1, <2>2 DEF Inv, TypeOK
  <2>4. M'[a].breaklets = {b \in M[a].breaklets : b.kind \notin SteppingKinds}
    BY <2>2, <2>3 DEF Strip, Breakpoint
  <2> QED BY <2>2, <2>4 DEF IsStepping
<1>2. Inv => (ClearSteppingBreakpoints(DOMAIN M, {}) =>
                \A a \in DOMAIN M' : M'[a].breaklets # {} /\ ~IsStepping(M'[a]))
  BY <1>1
<1> QED BY <1>2, Invariance, PTL DEF CompleteClearRetries
=============================================================================
