------------------------------ MODULE IQRouter ------------------------------
(***************************************************************************)
(* IQRouter of booksim2/src/routers/iq_router.cpp, the input-queued router *)
(* of every network that BookSim builds here, with its input VCs (vc.cpp,  *)
(* buffer.cpp), the credits it keeps for the next hop (BufferState), and   *)
(* the flit and credit channels of its outputs (Channel).                  *)
(*                                                                         *)
(* A cycle is ReadInputs, one or more InternalSteps (internal_speedup) and *)
(* WriteOutputs, as TrafficManager::_Step and Router::Evaluate drive them. *)
(* An internal step evaluates all the pipeline stages on the state after   *)
(* _InputQueuing and then updates them in the order of the code.           *)
(*                                                                         *)
(* An allocator is an arbitrary matching of its requests that is not empty *)
(* when there is a request, which module Allocator shows of all those of   *)
(* allocators/*.cpp.  The allocators take one cycle (vc_alloc_delay =      *)
(* sw_alloc_delay = 1, as in every configuration of the repository).  A    *)
(* speculative router asks for the crossbar while it still waits for an    *)
(* output VC; with piggyback allocation the crossbar brings the output VC. *)
(* The routers before and after this one are the environment: sources that *)
(* respect the credits they hold, and sinks that free their slots at any   *)
(* time.                                                                   *)
(***************************************************************************)
EXTENDS BufferState, Channel
LOCAL INSTANCE SequencesExt
LOCAL INSTANCE FiniteSets

CONSTANTS
  NumInputs,      \* _inputs
  NumOutputs,     \* _outputs
  CrossbarDelay,  \* _crossbar_delay
  FlitLatency,    \* latency of the output channels
  CreditLatency,  \* latency of their credit channels
  Configs,        \* configurations of the router, each with a load:
                  \* per input and VC, the flits its source sends
  Dest            \* the output ports that the routing function gives a packet

Inputs == 0 .. NumInputs - 1
Outputs == 0 .. NumOutputs - 1
InputVCs == Inputs \X VCs

VARIABLES
  cfg,      \* the configuration
  rt,       \* the fields of the router
  phase,    \* where in the cycle: "read" or "run"
  partial,  \* _partial_internal_cycles, in halves
  src,      \* per input and VC, the flits not sent yet
  up,       \* per input and VC, the slots the source counts as used
  flits,    \* the flit channels of the outputs
  credits,  \* their credit channels
  sink,     \* per output and VC, the flits in the next hop's buffer
  expect    \* per output and VC, the flit before, until its packet is complete

vars == <<cfg, rt, phase, partial, src, up, flits, credits, sink, expect>>

None == -1
Stall == <<>>
One == 2  \* 1.0 in halves

-----------------------------------------------------------------------------
(* The router's fields. *)

ExpandedInput(w) == w[1] * cfg.input_speedup + (w[2] % cfg.input_speedup)
ExpandedOutput(w, o) == o * cfg.output_speedup + (w[1] % cfg.output_speedup)
OutputOf(eo) == eo \div cfg.output_speedup

NewRouter(c) ==
  [active |-> FALSE,
   in_queue |-> [i \in Inputs |-> <<>>], proc_credits |-> [o \in Outputs |-> <<>>],
   buf |-> [w \in InputVCs |-> <<>>], state |-> [w \in InputVCs |-> "idle"],
   out |-> [w \in InputVCs |-> Stall],
   next_buf |-> [o \in Outputs |-> NewBufferState(c.policy, c.wait_for_tail_credit)],
   vc_rr |-> [o \in Outputs |-> -1],
   route_vcs |-> <<>>, vc_alloc_vcs |-> <<>>, sw_hold_vcs |-> <<>>, sw_alloc_vcs |-> <<>>,
   hold_vc |-> [e \in 0 .. NumInputs * c.input_speedup - 1 |-> None],
   hold_in |-> [e \in 0 .. NumInputs * c.input_speedup - 1 |-> None],
   hold_out |-> [e \in 0 .. NumOutputs * c.output_speedup - 1 |-> None],
   crossbar |-> <<>>, output_buffer |-> [o \in Outputs |-> <<>>],
   out_queue_credits |-> [i \in Inputs |-> {}], credit_buffer |-> [i \in Inputs |-> <<>>]]

Init ==
  /\ \E c \in Configs : cfg = c.config /\ src = c.load
  /\ rt = NewRouter(cfg)
  /\ phase = "read" /\ partial = 0
  /\ up = [w \in InputVCs |-> 0]
  /\ flits = [o \in Outputs |-> NewChannel(FlitLatency)]
  /\ credits = [o \in Outputs |-> NewChannel(CreditLatency)]
  /\ sink = [x \in Outputs \X VCs |-> <<>>]
  /\ expect = [x \in Outputs \X VCs |-> <<>>]

(* _route_vcs and _crossbar_flits: entries not stamped yet have due -1.  The  *)
(* evaluation stops at the first that has a stamp, the update at the first    *)
(* that is not due now.                                                       *)
StampedFrom(list) ==
  LET s == {k \in DOMAIN list : list[k].due >= 0}
  IN IF s = {} THEN Len(list) ELSE (CHOOSE k \in s : \A j \in s : k <= j) - 1
Stamp(list, delay) ==
  [k \in DOMAIN list |-> IF k <= StampedFrom(list) THEN [list[k] EXCEPT !.due = delay - 1]
                         ELSE list[k]]
DueCount(list) ==
  LET s == {k \in DOMAIN list : list[k].due # 0}
  IN IF s = {} THEN Len(list) ELSE (CHOOSE k \in s : \A j \in s : k <= j) - 1
Due(list) == SubSeq(list, 1, DueCount(list))
NotDue(list) == SubSeq(list, DueCount(list) + 1, Len(list))

-----------------------------------------------------------------------------
(* The stages of a VC.  A routed head asks for an output VC, unless it comes  *)
(* with the crossbar, and, if the router speculates, for the crossbar too.    *)
BeginVCAlloc(r, w) ==
  [r EXCEPT !.state[w] = "vc_alloc", !.out[w] = Stall,
            !.sw_alloc_vcs = IF cfg.speculative THEN Append(@, w) ELSE @,
            !.vc_alloc_vcs = IF cfg.piggyback THEN @ ELSE Append(@, w)]

(* A head at the front of its VC is routed, or goes straight to allocation    *)
(* when its route was computed a hop before.                                  *)
Route(r, w) ==
  IF cfg.routing_delay > 0
  THEN [r EXCEPT !.state[w] = "routing",
                 !.route_vcs = Append(@, [vc |-> w, due |-> -1])]
  ELSE BeginVCAlloc(r, w)

(* Mutant: a flit that arrives at an empty active VC wakes nobody. *)
AddFlitSilent(r, w, f) ==
  LET a == [r EXCEPT !.buf[w] = Append(@, f)]
  IN IF r.state[w] = "idle" THEN Route(a, w) ELSE a

AddFlit(r, w, f) ==
  LET a == [r EXCEPT !.buf[w] = Append(@, f)]
  IN IF r.state[w] = "idle" THEN Route(a, w)
     ELSE IF r.state[w] = "active" /\ r.buf[w] = <<>>
     THEN IF r.hold_vc[ExpandedInput(w)] = w[2]
          THEN [a EXCEPT !.sw_hold_vcs = Append(@, w)]
          ELSE [a EXCEPT !.sw_alloc_vcs = Append(@, w)]
     ELSE a

(* _InputQueuing: the flits that have come in, and the credits whose delay     *)
(* (credit_delay) is over.                                                     *)
Processed(list) == SelectSeq(list, LAMBDA e : e.due <= 0)
InputQueuing(r) ==
  LET add(s, i) == IF s.in_queue[i] = <<>> THEN s
                   ELSE AddFlit(s, <<i, s.in_queue[i][1].vc>>, s.in_queue[i][1])
      q == FoldLeft(add, r, [k \in 1 .. NumInputs |-> k - 1])
      credit(b, e) == FoldLeft(ProcessCredit, b, SetToSeq(e.vcs))
  IN [q EXCEPT !.in_queue = [i \in Inputs |-> <<>>],
               !.next_buf = [o \in Outputs |-> FoldLeft(credit, @[o], Processed(r.proc_credits[o]))],
               !.proc_credits = [o \in Outputs |-> SelectSeq(@[o], LAMBDA e : e.due > 0)]]

RouteUpdate(r) ==
  LET routed(s, e) == BeginVCAlloc(s, e.vc)
  IN FoldLeft(routed, [r EXCEPT !.route_vcs = NotDue(@)], Due(r.route_vcs))

-----------------------------------------------------------------------------
(* Allocation. *)

(* What an allocator may answer: every input gets one of its requests or      *)
(* stalls, no two inputs get the same port, and not all requests stall.       *)
(* port[x] is the port that request x is for.                                 *)
Matchings(reqs, port) ==
  LET ins == {w \in DOMAIN reqs : reqs[w] # {}}
  IN {g \in [ins -> UNION {reqs[w] : w \in ins} \cup {Stall}] :
        /\ \A w \in ins : g[w] \in reqs[w] \cup {Stall}
        /\ \A v, w \in ins : v # w /\ g[v] # Stall /\ g[w] # Stall => port[g[v]] # port[g[w]]
        /\ ins # {} => \E w \in ins : g[w] # Stall}

Entries(list) == {list[k] : k \in DOMAIN list}

RouteSet(r, w) == Dest[Head(r.buf[w]).p]

(* Mutant: whether the output VC is free is not asked. *)
VCRequestsAll(r, w) == RouteSet(r, w) \X VCs

(* The output VCs a waiting head may ask for. *)
VCRequests(r, w) ==
  {x \in RouteSet(r, w) \X VCs :
     /\ IsAvailableFor(r.next_buf[x[1]], x[2])
     /\ ~(cfg.vc_busy_when_full /\ IsFullFor(r.next_buf[x[1]], x[2]))}

VCAllocEvaluate(r) ==
  Matchings([w \in Entries(r.vc_alloc_vcs) |-> VCRequests(r, w)],
            [x \in Outputs \X VCs |-> x])

Tag(w) == w[1] * NumVCs + w[2]

(* n: how many entries were evaluated; entries behind them are new. *)
VCAllocUpdate(r, n, grant) ==
  LET list == SubSeq(r.vc_alloc_vcs, 1, n)
      upd(s, w) ==
        IF w \in DOMAIN grant /\ grant[w] # Stall
        THEN LET o == grant[w][1] v == grant[w][2]
             IN [s EXCEPT !.next_buf[o] = TakeBuffer(@, v, Tag(w)),
                          !.out[w] = grant[w], !.state[w] = "active",
                          !.sw_alloc_vcs = IF cfg.speculative THEN @ ELSE Append(@, w)]
        ELSE [s EXCEPT !.vc_alloc_vcs = Append(@, w)]
  IN FoldLeft(upd, [r EXCEPT !.vc_alloc_vcs = SubSeq(@, n + 1, Len(@))], list)

-----------------------------------------------------------------------------
(* Switch traversal of the flit at the front of w: it leaves its VC, uses a   *)
(* slot of the next hop, enters the crossbar, and its slot's credit is queued.*)
HasCredit(r, w) == ~IsFullFor(r.next_buf[r.out[w][1]], r.out[w][2])
(* Mutant: a buffer that has one slot has no room. *)
OutputRoomLess(r, o) ==
  cfg.output_buffer_size = -1 \/ Len(r.output_buffer[o]) < cfg.output_buffer_size - 1

OutputRoom(r, o) ==
  cfg.output_buffer_size = -1 \/ Len(r.output_buffer[o]) < cfg.output_buffer_size

SendFlit(r, w) ==
  LET f == Head(r.buf[w]) o == r.out[w][1] v == r.out[w][2]
  IN [r EXCEPT !.buf[w] = Tail(@),
               !.next_buf[o] = SendingFlit(@, v, f.tail),
               !.crossbar = Append(@, [f |-> [f EXCEPT !.vc = v],
                                       eo |-> ExpandedOutput(w, o), due |-> -1]),
               !.out_queue_credits[w[1]] = @ \cup {w[2]}]

(* After the flit f left: the VC is idle, waits for more of the packet, or    *)
(* starts with the next packet; more is the state when the packet's next flit *)
(* is there.                                                                  *)
AfterFlit(r, w, f, more) ==
  IF r.buf[w] = <<>> THEN IF f.tail THEN [r EXCEPT !.state[w] = "idle"] ELSE r
  ELSE IF f.tail THEN Route(r, w) ELSE more

CancelHold(r, w) ==
  LET e == ExpandedInput(w)
  IN [r EXCEPT !.hold_vc[e] = None, !.hold_in[e] = None, !.hold_out[r.hold_in[e]] = None]
SetHold(r, w) ==
  LET e == ExpandedInput(w) eo == ExpandedOutput(w, r.out[w][1])
  IN [r EXCEPT !.hold_vc[e] = w[2], !.hold_in[e] = eo, !.hold_out[eo] = e,
               !.sw_hold_vcs = Append(@, w)]

SWHoldSent(r, w) ==
  LET f == Head(r.buf[w])
      sent == SendFlit(r, w)
      s == IF f.tail \/ sent.buf[w] = <<>> THEN CancelHold(sent, w) ELSE sent
  IN AfterFlit(s, w, f, [s EXCEPT !.sw_hold_vcs = Append(@, w)])

(* q: the state the stages were evaluated in. *)
SWHoldUpdate(r, q) ==
  LET upd(s, w) ==
        IF HasCredit(q, w) /\ OutputRoom(s, s.out[w][1]) THEN SWHoldSent(s, w)
        ELSE [CancelHold(s, w) EXCEPT !.sw_alloc_vcs = Append(@, w)]
  IN FoldLeft(upd, [r EXCEPT !.sw_hold_vcs = <<>>], q.sw_hold_vcs)

(* The output VCs that a head can take and use at once. *)
UsableVCs(r, o) ==
  {v \in VCs : IsAvailableFor(r.next_buf[o], v) /\ ~IsFullFor(r.next_buf[o], v)}

(* A head without an output VC asks for each of its ports where                *)
(* spec_check_elig and spec_check_cred find one; the code looks for credit     *)
(* only where it looks for a free VC.  One port that is no good stalls the     *)
(* head, and whatever the others are granted is lost.                          *)
Speculates(r, w) == r.state[w] = "vc_alloc"
MaySpeculate(r, o) ==
  LET eligible == {v \in VCs : IsAvailableFor(r.next_buf[o], v) /\ OutputRoom(r, o)}
  IN /\ cfg.spec_check_elig => eligible # {}
     /\ cfg.spec_check_cred => cfg.spec_check_elig /\ eligible \cap UsableVCs(r, o) # {}
Stalled(r, w) == Speculates(r, w) /\ \E o \in RouteSet(r, w) : ~MaySpeculate(r, o)

(* The requests for the crossbar: an input VC and an output.  Which one stands *)
(* at a crosspoint is up to _sw_rr_offset, here to the matching; a speculative *)
(* one gives way to the others there.                                          *)
SWRequests(r) ==
  {x \in Entries(r.sw_alloc_vcs) \X Outputs :
     /\ IF Speculates(r, x[1]) THEN x[2] \in RouteSet(r, x[1]) /\ MaySpeculate(r, x[2])
        ELSE x[2] = r.out[x[1]][1] /\ HasCredit(r, x[1]) /\ OutputRoom(r, x[2])
     /\ r.hold_in[ExpandedInput(x[1])] = None
     /\ r.hold_out[ExpandedOutput(x[1], x[2])] = None}
GivesWay(r, x, reqs) ==
  Speculates(r, x[1]) /\ \E y \in reqs : /\ ~Speculates(r, y[1]) /\ y[2] = x[2]
                                         /\ ExpandedInput(y[1]) = ExpandedInput(x[1])

(* Speculative requests have an allocator of their own, whose grants count     *)
(* where the other one gives the input nothing and the output is not granted   *)
(* (or, with spec_mask_by_reqs, not requested) otherwise; or they are requests *)
(* of lower priority to the same allocator.                                    *)
SWAllocEvaluate(r) ==
  LET reqs == SWRequests(r)
      spec == {x \in reqs : Speculates(r, x[1])}
      At(set) == [e \in DOMAIN r.hold_in |-> {x \in set : ExpandedInput(x[1]) = e}]
      port == [x \in reqs |-> ExpandedOutput(x[1], x[2])]
      given(g) == {g[e] : e \in DOMAIN g} \ {Stall}
      masked(g, x) ==
        \/ \E y \in given(g) : ExpandedInput(y[1]) = ExpandedInput(x[1])
        \/ \E y \in (IF cfg.spec_mask_by_reqs THEN reqs \ spec ELSE given(g)) :
             port[y] = port[x]
  IN IF cfg.spec_sw_allocator
     THEN {given(g) \cup {x \in given(h) : ~masked(g, x)} :
             g \in Matchings(At(reqs \ spec), port), h \in Matchings(At(spec), port)}
     ELSE {given(g) : g \in Matchings(At({x \in reqs : ~GivesWay(r, x, reqs)}), port)}

(* Mutant: a head that got a full output VC is sent all the same. *)
ConfirmedFull(r, x, vc_grant) ==
  Speculates(r, x[1]) =>
    /\ ~Stalled(r, x[1])
    /\ IF cfg.piggyback THEN UsableVCs(r, x[2]) # {}
       ELSE x[1] \in DOMAIN vc_grant /\ vc_grant[x[1]] # Stall /\ vc_grant[x[1]][1] = x[2]

(* A speculative grant is of use if the head got a VC of that output with room *)
(* in the same step, or can take one along.                                    *)
Confirmed(r, x, vc_grant) ==
  Speculates(r, x[1]) =>
    /\ ~Stalled(r, x[1])
    /\ IF cfg.piggyback THEN UsableVCs(r, x[2]) # {}
       ELSE /\ x[1] \in DOMAIN vc_grant /\ vc_grant[x[1]] # Stall
            /\ vc_grant[x[1]][1] = x[2] /\ ~IsFullFor(r.next_buf[x[2]], vc_grant[x[1]][2])

(* The output VC that comes with the crossbar, in turn. *)
TakeAlong(r, w, o) ==
  LET turn(v) == (v - r.vc_rr[o] + NumVCs) % NumVCs
      next == CHOOSE x \in UsableVCs(r, o) : \A y \in UsableVCs(r, o) : turn(x) <= turn(y)
  IN [r EXCEPT !.state[w] = "active", !.out[w] = <<o, next>>,
               !.next_buf[o] = TakeBuffer(@, next, Tag(w)), !.vc_rr[o] = (next + 1) % NumVCs]

SWAllocSent(r, w) ==
  LET f == Head(r.buf[w])
      s == SendFlit(r, w)
  IN AfterFlit(s, w, f, IF cfg.hold_switch_for_packet THEN SetHold(s, w)
                        ELSE [s EXCEPT !.sw_alloc_vcs = Append(@, w)])

SWAllocUpdate(r, n, grant) ==
  LET upd(s, w) ==
        LET outs == {x[2] : x \in {x \in grant : x[1] = w}}
        IN IF outs = {} THEN [s EXCEPT !.sw_alloc_vcs = Append(@, w)]
           ELSE SWAllocSent(IF s.state[w] = "active" THEN s
                            ELSE TakeAlong(s, w, CHOOSE o \in outs : TRUE), w)
  IN FoldLeft(upd, [r EXCEPT !.sw_alloc_vcs = SubSeq(@, n + 1, Len(@))],
              SubSeq(r.sw_alloc_vcs, 1, n))

(* Mutant: the newest flit is sent first. *)
SwitchUpdateNewest(r) ==
  LET traverse(s, e) == [s EXCEPT !.output_buffer[OutputOf(e.eo)] = <<e.f>> \o @]
  IN FoldLeft(traverse, [r EXCEPT !.crossbar = NotDue(@)], Due(r.crossbar))

SwitchUpdate(r) ==
  LET traverse(s, e) == [s EXCEPT !.output_buffer[OutputOf(e.eo)] = Append(@, e.f)]
  IN FoldLeft(traverse, [r EXCEPT !.crossbar = NotDue(@)], Due(r.crossbar))

(* Mutant: a credit that still waits is overwritten. *)
OutputQueuingOne(r) ==
  [r EXCEPT !.credit_buffer =
              [i \in Inputs |-> IF r.out_queue_credits[i] = {} THEN @[i]
                                ELSE <<r.out_queue_credits[i]>>],
            !.out_queue_credits = [i \in Inputs |-> {}]]

OutputQueuing(r) ==
  [r EXCEPT !.credit_buffer =
              [i \in Inputs |-> IF r.out_queue_credits[i] = {} THEN @[i]
                                ELSE Append(@[i], r.out_queue_credits[i])],
            !.out_queue_credits = [i \in Inputs |-> {}]]

-----------------------------------------------------------------------------
(* _InternalStep of an active router: q is the state that is evaluated.  Each *)
(* list counts as activity as it is when its own stage is done.               *)
Update(q, vc_grant, sw_grant) ==
  LET u0 == [q EXCEPT !.route_vcs = Stamp(@, cfg.routing_delay),
                      !.crossbar = Stamp(@, CrossbarDelay)]
      u1 == RouteUpdate(u0)
      u2 == VCAllocUpdate(u1, Len(q.vc_alloc_vcs), vc_grant)
      u3 == SWHoldUpdate(u2, q)
      u4 == SWAllocUpdate(u3, Len(q.sw_alloc_vcs),
                          {x \in sw_grant : Confirmed(q, x, vc_grant)})
      u5 == SwitchUpdate(u4)
  IN [OutputQueuing(u5) EXCEPT
        !.active = \/ \E o \in Outputs : q.proc_credits[o] # <<>>
                   \/ u1.route_vcs # <<>> \/ u2.vc_alloc_vcs # <<>>
                   \/ u3.sw_hold_vcs # <<>> \/ u4.sw_alloc_vcs # <<>>
                   \/ u5.crossbar # <<>>]

InternalStep ==
  /\ phase = "run" /\ partial >= One
  /\ partial' = partial - One
  /\ IF rt.active
     THEN LET q == InputQueuing(rt)
          IN \E g \in VCAllocEvaluate(q), h \in SWAllocEvaluate(q) : rt' = Update(q, g, h)
     ELSE UNCHANGED rt
  /\ UNCHANGED <<cfg, phase, src, up, flits, credits, sink, expect>>

(* The next hop takes a flit in: VC::AddFlit remembers the packet it is in. *)
Expected(x) ==
  LET arrived == Receive(flits[x[1]])
  IN IF arrived = <<>> \/ arrived[1].vc # x[2] THEN expect[x]
     ELSE IF arrived[1].tail THEN <<>> ELSE arrived

(* inj: which VC every source sends a flit on, if any. *)
ReadInputs(inj) ==
  /\ phase = "read"
  /\ \A i \in Inputs : inj[i] # None =>
       src[<<i, inj[i]>>] # <<>> /\ up[<<i, inj[i]>>] < VcBufSize
  /\ LET sends(w) == inj[w[1]] = w[2]
         got == [o \in Outputs |-> Receive(credits[o])]
     IN /\ rt' = [rt EXCEPT
                    !.in_queue = [i \in Inputs |-> IF inj[i] = None THEN <<>>
                                                   ELSE <<Head(src[<<i, inj[i]>>])>>],
                    !.proc_credits = [o \in Outputs |-> @[o] \o [k \in DOMAIN got[o] |->
                                        [vcs |-> got[o][k], due |-> cfg.credit_delay]]],
                    !.active = @ \/ (\E i \in Inputs : inj[i] # None)
                                 \/ (\E o \in Outputs : got[o] # <<>>)]
        /\ src' = [w \in InputVCs |-> IF sends(w) THEN Tail(src[w]) ELSE src[w]]
        /\ up' = [w \in InputVCs |-> IF sends(w) THEN up[w] + 1 ELSE up[w]]
  /\ sink' = [x \in DOMAIN sink |->
                sink[x] \o SelectSeq(Receive(flits[x[1]]), LAMBDA f : f.vc = x[2])]
  /\ expect' = [x \in DOMAIN expect |-> Expected(x)]
  /\ flits' = [o \in Outputs |-> ChannelReadInputs(flits[o])]
  /\ credits' = [o \in Outputs |-> ChannelReadInputs(credits[o])]
  /\ phase' = "run" /\ partial' = partial + cfg.internal_speedup
  /\ UNCHANGED cfg

(* free: which VC every sink frees a slot of, if any. *)
WriteOutputs(free) ==
  /\ phase = "run" /\ partial < One
  /\ \A o \in Outputs : free[o] # None => sink[<<o, free[o]>>] # <<>>
  /\ LET sent(o) == ChannelWriteOutputs(flits[o])
         back(o) == ChannelWriteOutputs(credits[o])
         freed(w) == rt.credit_buffer[w[1]] # <<>> /\ w[2] \in Head(rt.credit_buffer[w[1]])
         rest(q) == IF q = <<>> THEN q ELSE Tail(q)
     IN /\ flits' = [o \in Outputs |->
                       Elapse(IF rt.output_buffer[o] = <<>> THEN sent(o)
                              ELSE Send(sent(o), Head(rt.output_buffer[o])))]
        /\ credits' = [o \in Outputs |->
                         Elapse(IF free[o] = None THEN back(o) ELSE Send(back(o), {free[o]}))]
        /\ rt' = [rt EXCEPT !.output_buffer = [o \in Outputs |-> rest(@[o])],
                            !.credit_buffer = [i \in Inputs |-> rest(@[i])],
                            !.route_vcs = Later(@), !.crossbar = Later(@),
                            !.proc_credits = [o \in Outputs |-> Later(@[o])]]
        /\ up' = [w \in InputVCs |-> IF freed(w) THEN up[w] - 1 ELSE up[w]]
        /\ sink' = [x \in DOMAIN sink |-> IF free[x[1]] = x[2] THEN Tail(sink[x]) ELSE sink[x]]
  /\ phase' = "read"
  /\ UNCHANGED <<cfg, partial, src, expect>>

Next ==
  \/ \E inj \in [Inputs -> VCs \cup {None}] : ReadInputs(inj)
  \/ InternalStep
  \/ \E free \in [Outputs -> VCs \cup {None}] : WriteOutputs(free)

Spec == Init /\ [][Next]_vars

(* Cycles go on, a source that can send again and again does, and so does a   *)
(* sink that can free a slot: weak fairness of the cycle, which is always      *)
(* enabled, and strong fairness of each source and sink, with their guards     *)
(* written out.                                                                *)
CanSend(i) ==
  phase = "read" /\ \E v \in VCs : src[<<i, v>>] # <<>> /\ up[<<i, v>>] < VcBufSize
Sends(i) == \E v \in VCs : src'[<<i, v>>] # src[<<i, v>>]
CanFree(o) == phase = "run" /\ partial < One /\ \E v \in VCs : sink[<<o, v>>] # <<>>
Frees(o) == credits'[o].input # <<>>

FairSpec ==
  /\ Spec /\ []<><<phase' # phase>>_vars
  /\ \A i \in Inputs : []<>CanSend(i) => []<><<Sends(i)>>_vars
  /\ \A o \in Outputs : []<>CanFree(o) => []<><<Frees(o)>>_vars

-----------------------------------------------------------------------------
(* Properties. *)

(* _output stays as it is after it was read. *)
OnWay(ch) == (IF phase = "read" THEN ch.output ELSE <<>>) \o Line(ch)
Occurrences(list, w) == Cardinality({k \in DOMAIN list : list[k] = w})

(* No VC is forgotten: one that is being routed, waits for an output VC or has *)
(* a flit to send is in the work list of its state, once, and in no other; and *)
(* a router with a flit in a buffer is active, although _active is computed   *)
(* from lists to which later stages of the same step add.                     *)
VCsQueued ==
  /\ \A w \in InputVCs :
       LET at(s) == IF rt.state[w] = s THEN 1 ELSE 0
       IN /\ Occurrences([k \in DOMAIN rt.route_vcs |-> rt.route_vcs[k].vc], w) = at("routing")
          /\ Occurrences(rt.vc_alloc_vcs, w) = IF cfg.piggyback THEN 0 ELSE at("vc_alloc")
          /\ Occurrences(rt.sw_alloc_vcs, w) + Occurrences(rt.sw_hold_vcs, w)
               = (IF rt.buf[w] = <<>> THEN 0 ELSE at("active"))
                   + (IF cfg.speculative THEN at("vc_alloc") ELSE 0)
  /\ (\E w \in InputVCs : rt.buf[w] # <<>>) => rt.active

(* An output VC carries one packet at a time: it is marked as used by the      *)
(* input VC that sends on it, from the grant to the tail, and by nobody else   *)
(* (assert(dest_buf->IsAvailableFor(match_vc)) in _VCAllocUpdate).             *)
OwnersMatch ==
  \A x \in Outputs \X VCs :
    LET b == rt.next_buf[x[1]]
        senders == {w \in InputVCs : rt.state[w] = "active" /\ rt.out[w] = x}
    IN /\ \A w \in senders : b.in_use_by[x[2]] = Tag(w)
       /\ b.in_use_by[x[2]] >= 0 => senders # {} \/ b.tail_sent[x[2]]

(* The next hop gets whole packets: a flit that arrives continues the packet   *)
(* of its VC, or starts one if there is none (the expected packet of           *)
(* VC::AddFlit).                                                               *)
WholePackets == phase = "read" =>
  \A o \in Outputs : \A f \in Entries(Receive(flits[o])) :
    LET e == expect[<<o, f.vc>>]
    IN IF e = <<>> THEN f.n = 1 ELSE f.p = e[1].p /\ f.n = e[1].n + 1

(* Credits are neither lost nor made up: the slots the router counts as used   *)
(* at the next hop are those of flits on their way or there and of credits on  *)
(* their way back; the same holds for its own buffers, which therefore never   *)
(* overflow.                                                                   *)
CreditsKept ==
  /\ \A o \in Outputs, v \in VCs :
       LET count(q) == Cardinality({k \in DOMAIN q : q[k].vc = v})
           inside == {k \in DOMAIN rt.crossbar :
                        OutputOf(rt.crossbar[k].eo) = o /\ rt.crossbar[k].f.vc = v}
           held == [k \in DOMAIN rt.proc_credits[o] |-> rt.proc_credits[o][k].vcs]
           coming == held \o OnWay(credits[o])
       IN rt.next_buf[o].vc_occupancy[v]
            = Cardinality(inside) + count(rt.output_buffer[o]) + count(OnWay(flits[o]))
                + Len(sink[<<o, v>>]) + Cardinality({k \in DOMAIN coming : v \in coming[k]})
  /\ \A w \in InputVCs :
       up[w] = Len(rt.buf[w])
                 + Cardinality({k \in DOMAIN rt.in_queue[w[1]] : rt.in_queue[w[1]][k].vc = w[2]})
                 + Cardinality({k \in DOMAIN rt.credit_buffer[w[1]] :
                                  w[2] \in rt.credit_buffer[w[1]][k]})

(* Room that was checked before the crossbar is still there behind it.  The    *)
(* next hop is never overrun: its flits and those on their way to it fit into  *)
(* its buffer, also when the crossbar was granted before the output VC was     *)
(* known (the overflow errors of BufferState::SendingFlit).  And an output     *)
(* buffer exceeds its size by no more than what the crossbar may hold at the   *)
(* moment of the check, the bound that _SwitchUpdate asserts (:2209).          *)
RoomBehindCrossbar ==
  \A o \in Outputs :
    LET b == rt.next_buf[o]
    IN /\ b.occupancy <= BufSize
       /\ cfg.policy = "private" => \A v \in VCs : b.vc_occupancy[v] <= VcBufSize
       /\ cfg.output_buffer_size # -1 =>
            Len(rt.output_buffer[o]) <= cfg.output_buffer_size
              + CrossbarDelay * cfg.output_speedup + (cfg.output_speedup - 1)

(* Every packet gets through: what the sources have is sent, routed, received *)
(* by the sinks and credited, whatever the allocators choose.                 *)
AllDelivered ==
  <>[](/\ \A w \in InputVCs : src[w] = <<>> /\ up[w] = 0
       /\ \A o \in Outputs : rt.next_buf[o].occupancy = 0)

=============================================================================
