------------------------------ MODULE EBPFTrace ------------------------------
(***************************************************************************)
(* Tracing functions with eBPF uprobes (dlv trace --ebpf): the program     *)
(* uprobe__dlv_trace that runs in the kernel on the thread that hits a     *)
(* probe, the ring buffer it writes to, the goroutine pollEvents that      *)
(* reassembles the events of one hit, and the calls that attach probes,    *)
(* fetch the results and close the context.                                *)
(*                                                                         *)
(* A function has two probes, at its entry and at its return; a probe is   *)
(* the key of arg_map and the fn_addr of the events it produces.  A hit is *)
(* numbered, and the number stands for the values its parameters had.  A   *)
(* goroutine here has an id of its own, so its hits follow one another; id *)
(* 0, which the g0 of every thread has, is not among them.                 *)
(***************************************************************************)
EXTENDS Integers, Sequences, FiniteSets, Functions

CONSTANTS
  Goroutines,
  Fns,          \* the functions that may be traced
  NIn, NRet,    \* [Fns -> Nat]: how many parameters and results each has
  MaxParams,    \* MAX_PARAMS_PER_EVENT
  RingSize,     \* records that fit in the ring buffer
  ArgMapSize,   \* max_entries of arg_map
  MaxPending,   \* maxPendingEvents
  MaxHits,      \* bound on the hits
  None

ASSUME EBPFAssumption ==
  /\ NIn \in [Fns -> 0..MaxParams] /\ NRet \in [Fns -> 0..MaxParams]
  /\ {MaxParams, RingSize, ArgMapSize, MaxPending} \subseteq Nat \ {0}
  /\ MaxHits \in Nat
  /\ IsFiniteSet(Goroutines) /\ IsFiniteSet(Fns)

Probes == Fns \X {"entry", "ret"}
Keys == Goroutines \X Probes    \* pendingKey

VARIABLES
  (* kernel *)
  argMap,       \* the keys of arg_map
  links,        \* the probes attached, and None for one that failed to
  slot,         \* val of every parameter in the values of arg_map
  prog,         \* the run of uprobe__dlv_trace on each goroutine's thread
  ring,         \* the ring buffer
  hits,         \* ghost: hits so far
  accepted,     \* ghost: hits whose header found room in the ring
  overlap,      \* ghost: hits that ran together with another of the same probe
  (* EBPFContext *)
  nInputParams, paramInfo,
  pending,      \* pendingEvents: the keys and what was collected for them
  parsed,       \* parsedBpfEvents
  reader,       \* pollEvents: check, read, drain, done, failed
  closer,       \* Close: open, cancelled, flushed, closed, panic
  out,          \* ghost: what GetBufferedTracepoints has returned
  early         \* ghost: hits accepted when Close was called

kvars == <<argMap, links, slot, prog, ring, hits, accepted, overlap>>
meta == <<nInputParams, paramInfo>>
cvars == <<pending, parsed, reader, closer, out, early>>
vars == <<kvars, meta, cvars>>

(* The arguments of f in the order setEBPFTracepointOnFunc lists them.     *)
Args(f) == [i \in 1..NIn[f] + NRet[f] |->
              IF i <= NIn[f] THEN <<f, "in", i>> ELSE <<f, "out", i - NIn[f]>>]

n_params(p) ==
  LET n == IF p[2] = "entry" THEN NIn[p[1]] ELSE NRet[p[1]] IN
  IF n > MaxParams THEN MaxParams ELSE n

Idle == [probe |-> None, hit |-> 0, i |-> 0, at |-> "idle"]

(***************************************************************************)
(* uprobe__dlv_trace                                                       *)
(***************************************************************************)
(* Reserve and submit: the record is dropped when the ring is full.        *)
Output(e) == ring' = IF Len(ring) < RingSize THEN Append(ring, e) ELSE ring

Header(g, p, h) == [type |-> "header", g |-> g, probe |-> p, hit |-> h, n |-> n_params(p)]

\* Defective variant: the parameters are written although the header was not.
HitWithoutHeader(g, p) ==
  LET h == hits + 1
      full == Len(ring) >= RingSize IN
  /\ p \in links /\ p \in argMap /\ prog[g] = Idle /\ hits < MaxHits
  /\ hits' = h
  /\ Output(Header(g, p, h))
  /\ accepted' = IF full THEN accepted ELSE accepted \cup {h}
  /\ prog' = [prog EXCEPT ![g] = IF n_params(p) = 0 THEN Idle
                                 ELSE [probe |-> p, hit |-> h, i |-> 1, at |-> "parse"]]
  /\ LET same == {prog[o].hit : o \in {x \in Goroutines : prog[x].probe = p}} IN
     overlap' = IF same = {} THEN overlap ELSE overlap \cup same \cup {h}
  /\ UNCHANGED <<argMap, links, slot, meta, cvars>>

Hit(g, p) ==
  LET h == hits + 1
      full == Len(ring) >= RingSize IN
  /\ p \in links /\ p \in argMap /\ prog[g] = Idle /\ hits < MaxHits
  /\ hits' = h
  /\ Output(Header(g, p, h))
  /\ accepted' = IF full THEN accepted ELSE accepted \cup {h}
  /\ prog' = [prog EXCEPT ![g] = IF full \/ n_params(p) = 0 THEN Idle
                                 ELSE [probe |-> p, hit |-> h, i |-> 1, at |-> "parse"]]
  /\ LET same == {prog[o].hit : o \in {x \in Goroutines : prog[x].probe = p}} IN
     overlap' = IF same = {} THEN overlap ELSE overlap \cup same \cup {h}
  /\ UNCHANGED <<argMap, links, slot, meta, cvars>>

(* parse_param stores the value in the entry of arg_map, which all the     *)
(* threads that hit the probe share.                                       *)
parse_param(g) ==
  /\ prog[g].at = "parse"
  /\ slot' = [slot EXCEPT ![prog[g].probe][prog[g].i] = prog[g].hit]
  /\ prog' = [prog EXCEPT ![g].at = "copy"]
  /\ UNCHANGED <<argMap, links, ring, hits, accepted, overlap, meta, cvars>>

(* WRITE_AND_OUTPUT_PARAM after parse_param; without room only this        *)
(* parameter is dropped.                                                   *)
Param(g, r) == [type |-> "param", g |-> g, probe |-> r.probe, hit |-> r.hit, i |-> r.i,
                val |-> slot[r.probe][r.i]]

WriteParam(g) ==
  LET r == prog[g] IN
  /\ r.at = "copy"
  /\ Output(Param(g, r))
  /\ prog' = [prog EXCEPT ![g] = IF r.i = n_params(r.probe) THEN Idle
                                 ELSE [r EXCEPT !.i = @ + 1, !.at = "parse"]]
  /\ UNCHANGED <<argMap, links, slot, hits, accepted, overlap, meta, cvars>>

(***************************************************************************)
(* SetUProbe                                                               *)
(***************************************************************************)
(* UpdateArgMap: what it records about parameters when it is called for    *)
(* probe p of f with all the arguments of f.                               *)
InputCount(p) ==
  [nInputParams EXCEPT ![p] = IF p[2] = "entry" THEN Len(Args(p[1])) ELSE @]

Metadata(p) ==
  LET base == IF p[2] = "ret" THEN nInputParams[p] ELSE 0 IN
  [paramInfo EXCEPT ![p] = [i \in DOMAIN @ |->
     IF i - base \in DOMAIN Args(p[1]) THEN Args(p[1])[i - base] ELSE @[i]]]

(* The entry's UpdateArgMap, the return's, the return's AttachUprobe and   *)
(* the entry's; done of the four succeed.  The map refuses a new key when  *)
(* it is full, after UpdateArgMap has recorded the parameters; attaching   *)
(* may always fail, and the nil link is kept.                              *)
SetUProbe(f, done) ==
  LET e == <<f, "entry">>
      r == <<f, "ret">>
      room(m, p) == p \in m \/ Cardinality(m) < ArgMapSize IN
  /\ closer = "open" /\ {e, r} \cap links = {} /\ \A g \in Goroutines : prog[g] = Idle
  /\ done >= 1 <=> room(argMap, e)
  /\ done >= 2 <=> done >= 1 /\ room(argMap \cup {e}, r)
  /\ argMap' = argMap \cup (IF done >= 1 THEN {e} ELSE {}) \cup (IF done >= 2 THEN {r} ELSE {})
  /\ links' = links \cup (IF done >= 3 THEN {r} ELSE {}) \cup (IF done = 4 THEN {e} ELSE {})
                   \cup (IF done \in {2, 3} THEN {None} ELSE {})
  /\ nInputParams' = InputCount(e)
  /\ paramInfo' = [Metadata(e) EXCEPT ![r] = IF done >= 1 THEN Metadata(r)[r] ELSE @]
  /\ UNCHANGED <<slot, prog, ring, hits, accepted, overlap, cvars>>

(***************************************************************************)
(* pollEvents                                                              *)
(***************************************************************************)
NoEntry == [hit |-> 0, params |-> <<>>]
Collecting == {k \in Keys : pending[k] # NoEntry}

(* emitParsedEvent: the parameters that arrived; their order is that of    *)
(* their indices.                                                          *)
Arrived(pe) == {pe.params[i] : i \in {j \in DOMAIN pe.params : pe.params[j] # None}}
emitParsedEvent(k, pe) == [key |-> k, hit |-> pe.hit, params |-> Arrived(pe)]

(* The entries of ks emitted in some order of the map.                     *)
Emitted(ks) ==
  {[i \in DOMAIN o |-> emitParsedEvent(o[i], pending[o[i]])] : o \in Bijection(1..Cardinality(ks), ks)}

\* Defective variant: the entry of the same key is overwritten.
handleHeaderEventOverwrites(e) ==
  LET k == <<e.g, e.probe>>
      evicted == IF Cardinality(Collecting \ {k}) >= MaxPending THEN Collecting \ {k} ELSE {}
      entry == [hit |-> e.hit, params |-> [i \in 1..e.n |-> None]]
      done == IF e.n = 0 THEN <<emitParsedEvent(k, entry)>> ELSE <<>> IN
  /\ \E others \in Emitted(evicted) : parsed' = parsed \o others \o done
  /\ pending' = [x \in Keys |-> IF x = k /\ e.n > 0 THEN entry
                                ELSE IF x \in evicted THEN NoEntry
                                ELSE pending[x]]

\* Defective variant: the table is looked at before the key, and a new hit of
\* a key that is being collected is emitted at once.
handleHeaderEventLate(e) ==
  LET k == <<e.g, e.probe>>
      evicted == IF Cardinality(Collecting \ {k}) >= MaxPending THEN Collecting \ {k} ELSE {}
      entry == [hit |-> e.hit, params |-> [i \in 1..e.n |-> None]]
      now == e.n = 0 \/ k \in Collecting IN
  /\ \E others \in Emitted(evicted) :
       parsed' = parsed \o others \o (IF now THEN <<emitParsedEvent(k, entry)>> ELSE <<>>)
  /\ pending' = [x \in Keys |-> IF x = k /\ ~now THEN entry
                                ELSE IF x \in evicted THEN NoEntry
                                ELSE pending[x]]

(* The entry of the same key is emitted as it is; so are all the others    *)
(* when the table is full.                                                 *)
handleHeaderEvent(e) ==
  LET k == <<e.g, e.probe>>
      old == Collecting \cap {k}
      evicted == IF Cardinality(Collecting \ {k}) >= MaxPending THEN Collecting \ {k} ELSE {}
      entry == [hit |-> e.hit, params |-> [i \in 1..e.n |-> None]]
      done == IF e.n = 0 THEN <<emitParsedEvent(k, entry)>> ELSE <<>> IN
  /\ \E first \in Emitted(old), others \in Emitted(evicted) :
       parsed' = parsed \o first \o others \o done
  /\ pending' = [x \in Keys |-> IF x = k /\ e.n > 0 THEN entry
                                ELSE IF x \in old \cup evicted THEN NoEntry
                                ELSE pending[x]]

(* The name and type found for the parameter of a parameter event.         *)
MetaOf(e) ==
  paramInfo[e.probe][e.i + IF e.probe[2] = "ret" THEN nInputParams[e.probe] ELSE 0]

handleParamEvent(e) ==
  LET k == <<e.g, e.probe>>
      pe == [pending[k] EXCEPT !.params[e.i] =
               [hit |-> e.hit, i |-> e.i, val |-> e.val, name |-> MetaOf(e)]]
      complete == \A i \in DOMAIN pe.params : pe.params[i] # None IN
  IF e.i \notin DOMAIN pending[k].params
  THEN UNCHANGED <<pending, parsed>>
  ELSE /\ pending' = [pending EXCEPT ![k] = IF complete THEN NoEntry ELSE pe]
       /\ parsed' = IF complete THEN Append(parsed, emitParsedEvent(k, pe)) ELSE parsed

\* Defective variant: a cancelled reader returns without draining the ring.
CheckContextNoDrain ==
  /\ reader = "check"
  /\ reader' = IF closer = "open" THEN "read" ELSE "done"
  /\ UNCHANGED <<kvars, meta, pending, parsed, closer, out, early>>

CheckContext ==
  /\ reader = "check"
  /\ reader' = IF closer = "open" THEN "read" ELSE "drain"
  /\ UNCHANGED <<kvars, meta, pending, parsed, closer, out, early>>

storeEvent ==
  /\ reader \in {"read", "drain"} /\ ring # <<>>
  /\ LET e == Head(ring) IN
     IF e.type = "header" THEN handleHeaderEvent(e) ELSE handleParamEvent(e)
  /\ ring' = Tail(ring)
  /\ reader' = IF reader = "read" THEN "check" ELSE reader
  /\ UNCHANGED <<argMap, links, slot, prog, hits, accepted, overlap, meta, closer, out, early>>

(* Read reports its deadline only after all records have been read.        *)
ReadDeadline ==
  /\ reader \in {"read", "drain"} /\ ring = <<>>
  /\ reader' = IF reader = "read" THEN "check" ELSE "done"
  /\ UNCHANGED <<kvars, meta, pending, parsed, closer, out, early>>

(* Any other error of Read ends pollEvents, or its drain, with what is     *)
(* left in the ring.                                                       *)
ReadError ==
  /\ reader \in {"read", "drain"}
  /\ reader' = IF reader = "read" /\ closer # "open" THEN "drain" ELSE "failed"
  /\ UNCHANGED <<kvars, meta, pending, parsed, closer, out, early>>

(***************************************************************************)
(* GetBufferedTracepoints and Close                                        *)
(***************************************************************************)
GetBufferedTracepoints ==
  /\ parsed # <<>>
  /\ out' = out \o parsed
  /\ parsed' = <<>>
  /\ UNCHANGED <<kvars, meta, pending, reader, closer, early>>

Cancel ==
  /\ closer = "open"
  /\ closer' = "cancelled"
  /\ early' = accepted
  /\ UNCHANGED <<kvars, meta, pending, parsed, reader, out>>

(* wg.Wait, then everything pending is emitted.                            *)
CloseFlush ==
  /\ closer = "cancelled" /\ reader \in {"done", "failed"}
  /\ closer' = "flushed"
  /\ \E all \in Emitted(Collecting) : parsed' = parsed \o all
  /\ pending' = [k \in Keys |-> NoEntry]
  /\ UNCHANGED <<kvars, meta, reader, out, early>>

(* A nil link, kept by AttachUprobe when it failed, makes Close panic.     *)
CloseLinks ==
  /\ closer = "flushed"
  /\ closer' = IF None \in links THEN "panic" ELSE "closed"
  /\ links' = {}
  /\ UNCHANGED <<argMap, slot, prog, ring, hits, accepted, overlap, meta, pending, parsed, reader,
                 out, early>>

-----------------------------------------------------------------------------

Init ==
  /\ argMap = {} /\ links = {} /\ hits = 0 /\ accepted = {} /\ overlap = {} /\ early = {}
  /\ slot = [p \in Probes |-> [i \in 1..MaxParams |-> 0]]
  /\ prog = [g \in Goroutines |-> Idle]
  /\ ring = <<>> /\ parsed = <<>> /\ out = <<>>
  /\ nInputParams = [p \in Probes |-> 0]
  /\ paramInfo = [p \in Probes |-> [i \in 1..2 * MaxParams |-> None]]
  /\ pending = [k \in Keys |-> NoEntry]
  /\ reader = "check" /\ closer = "open"

Program == \E g \in Goroutines :
  parse_param(g) \/ WriteParam(g) \/ \E p \in Probes : Hit(g, p)
Reader == CheckContext \/ storeEvent \/ ReadDeadline \/ ReadError
Closer == CloseFlush \/ CloseLinks
User == GetBufferedTracepoints \/ Cancel \/ \E f \in Fns, n \in 0..4 : SetUProbe(f, n)

Next == Program \/ Reader \/ Closer \/ User

Spec == Init /\ [][Next]_vars
(* The goroutine of pollEvents and the one in Close go on when they can.   *)
FairSpec == Spec /\ WF_vars(Reader) /\ WF_vars(Closer)

(***************************************************************************)
(* Properties.                                                             *)
(***************************************************************************)
Results == Range(parsed) \cup Range(out)

(* Type invariant of the kernel's and the context's state.                 *)
TypeOK ==
  /\ argMap \subseteq Probes /\ Cardinality(argMap) <= ArgMapSize
  /\ links \subseteq argMap \cup {None}
  /\ Len(ring) <= RingSize
  /\ \A k \in Keys : Len(pending[k].params) <= MaxParams
  /\ Cardinality(Collecting) <= MaxPending
  /\ reader \in {"check", "read", "drain", "done", "failed"}
  /\ closer \in {"open", "cancelled", "flushed", "closed", "panic"}

(* Whatever the ring drops and the table evicts, a result carries only     *)
(* parameters of the hit its header announced: never those of another call *)
(* of the function by the same goroutine.                                  *)
ParamsOfOneHit ==
  /\ \A r \in Results : \A x \in r.params : x.hit = r.hit
  /\ \A k \in Keys : \A x \in Arrived(pending[k]) : x.hit = pending[k].hit

(* Every hit whose header found room is in exactly one place on its way    *)
(* from the ring through pendingEvents and parsedBpfEvents to the caller:  *)
(* none is lost, none reported twice.                                      *)
ReportedOnce ==
  \A h \in accepted :
    Cardinality({i \in DOMAIN ring : ring[i].type = "header" /\ ring[i].hit = h})
    + Cardinality({k \in Keys : pending[k].hit = h})
    + Cardinality({i \in DOMAIN parsed : parsed[i].hit = h})
    + Cardinality({i \in DOMAIN out : out[i].hit = h}) = 1

(* The calls of a function by one goroutine are reported in the order they *)
(* were made, the incomplete ones included.                                *)
ReportedInOrder ==
  LET all == out \o parsed IN
  /\ \A i, j \in DOMAIN all : i < j /\ all[i].key = all[j].key => all[i].hit < all[j].hit
  /\ \A i \in DOMAIN all, k \in Collecting : all[i].key = k => all[i].hit < pending[k].hit

(* The value reported for a parameter is the one it had at that hit, unless *)
(* another thread ran the same probe at the same time.                     *)
ValueOfHit ==
  \A r \in Results : \A x \in r.params : x.hit \notin overlap => x.val = x.hit

(* The parameters of a call are reported under their own names and types.  *)
InputsNamed ==
  \A r \in Results : \A x \in r.params :
    r.key[2][2] = "entry" => x.name = <<r.key[2][1], "in", x.i>>

(* Close ends: pollEvents notices the cancellation although Close never    *)
(* touches the reader it may be blocked in.  And it "drains any events     *)
(* already buffered in the ring buffer before returning" (helpers.go:278): *)
(* every hit accepted before Close was called has then been handed on, if  *)
(* Read has not failed.  This is for a context all of whose probes could   *)
(* be attached (NoPanic), and a program that makes finitely many hits:     *)
(* drainRingBuf goes on as long as there are records.                      *)
CloseReturns ==
  closer = "cancelled" /\ None \notin links ~>
    closer = "closed" /\ (reader = "done" => early \subseteq {r.hit : r \in Results})

(* A probe that could not be attached does not keep Close from closing the *)
(* others: not so, Close panics on its nil link.                           *)
NoPanic == closer # "panic"

(* "Input params occupy indices 0..n-1; return params n..n+m-1"            *)
(* (helpers.go:151): results are reported under their own names and types. *)
ResultsNamed ==
  \A r \in Results : \A x \in r.params :
    r.key[2][2] = "ret" => x.name = <<r.key[2][1], "out", x.i>>
=============================================================================
