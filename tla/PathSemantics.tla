---------------------------- MODULE PathSemantics ----------------------------
(***************************************************************************)
(* What the solution of the solver must mean, said without equations: in   *)
(* terms of walks through the graph that apply one event at a time, as an  *)
(* execution does.                                                         *)
(***************************************************************************)
EXTENDS Dataflow

\* The bound/unbound (live/dead) bit of local x after one more event.
BitStep(x, bit, e) == IF x \in TransferEvent(e, {}) THEN TRUE
                      ELSE IF x \notin TransferEvent(e, {x}) THEN FALSE
                      ELSE bit

\* The bit of local x at the end of block b, given its bit at the start.
AtEnd(b, x, start) ==
  LET Bit[k \in 0..Len(cfg.events[b])] ==
        IF k = 0 THEN start ELSE BitStep(x, Bit[k-1], cfg.events[b][k])
  IN  Bit[Len(cfg.events[b])]

(***************************************************************************)
(* W[k]: the <<block, local, bit>> an execution can bring to the start of  *)
(* a block after at most k edges from ENTRY, where the bit says whether    *)
(* the local is unbound.  A local has at most two bits at each of the N    *)
(* blocks, so 2 * N edges bring them all.                                  *)
(***************************************************************************)
MaySteps == 2 * N

Further(seen) ==
  seen \cup UNION {{<<s, t[2], AtEnd(t[1], t[2], t[3])>> : s \in cfg.succs[t[1]]} : t \in seen}

ArrivesWith ==
  LET W[k \in 0..MaySteps] ==
        IF k = 0 THEN {<<ENTRY, x, x \notin cfg.params>> : x \in Local} ELSE Further(W[k-1])
  IN  W[MaySteps]

UnboundOnSomePath(b) == {x \in Local : <<b, x, TRUE>> \in ArrivesWith}

(***************************************************************************)
(* The locals some execution from the end of block b reads before it       *)
(* overwrites them: follow edges through blocks that do not mention the    *)
(* local until one does, and look at the first event that decides.         *)
(***************************************************************************)
First(s, x) == {i \in Points(cfg, s) : /\ Decides(cfg.events[s][i], x)
                                       /\ \A j \in 1..(i-1) : ~ Decides(cfg.events[s][j], x)}

Through(x, seen) == seen \cup UNION {cfg.succs[s] : s \in {t \in seen : First(t, x) = {}}}

\* The blocks such a walk for local x from block b comes to.
Walk(b, x) ==
  LET R[k \in 0..N] == IF k = 0 THEN cfg.succs[b] ELSE Through(x, R[k-1])
  IN  R[N]

ReadOnSomePath(b) ==
  {x \in Local : \E s \in Walk(b, x) : \E i \in First(s, x) : Sets(cfg.events[s][i])}

(***************************************************************************)
(* When the worklist is empty the solution is exact for a may-analysis     *)
(* over paths: a local is in the fact at a reachable block if, and only    *)
(* if, some path of the graph puts it there.  Nothing a dead block does    *)
(* reaches a live one (dataflow.rs:137-142, issue #50), and nothing is     *)
(* missed round a loop.                                                    *)
(***************************************************************************)
ExactOnPaths ==
  Solved => \A b \in Block :
    /\ Forward /\ b \in reachable => into[b] = UnboundOnSomePath(b)
    /\ ~ Forward => into[b] = ReadOnSomePath(b)

(***************************************************************************)
(* The closed form of the transfer is the loop over the block's events,    *)
(* and the fact replay() shows before each event is the one the loop has   *)
(* at that point: solving and replaying agree.                             *)
(***************************************************************************)
InOrder(b) == IF Forward THEN cfg.events[b] ELSE Reverse(cfg.events[b])

ReplayAgrees ==
  \A b \in Block :
    LET evs    == InOrder(b)
        Pos(k) == IF Forward THEN k ELSE Len(evs) + 1 - k
        Loop[k \in 0..Len(evs)] ==
          IF k = 0 THEN into[b] ELSE TransferEvent(evs[k], Loop[k-1])
    IN  /\ ~ queued[b] => from[b] = Loop[Len(evs)]
        /\ \A k \in 1..Len(evs) : FactAt(cfg, b, Pos(k), into[b]) = Loop[k-1]
==============================================================================
