---------------------------------- MODULE Fit ----------------------------------
(***************************************************************************)
(* The fit evaluation and the loads that act on it: fit/mod.rs, and the    *)
(* verdict and load handlers of lib.rs.                                    *)
(*                                                                         *)
(* An evaluation is one request.  It reads the free memory of the graphics *)
(* card, then that of the machine, places layers one by one, and a load    *)
(* then switches the sidecar.  Other loads, the sidecar and the other      *)
(* programs on the machine move on in between.                             *)
(***************************************************************************)
EXTENDS Integers

CONSTANTS
    Evals,              \* the requests
    Asks,               \* what a request may ask: [model, context, kv, use]
    Models,
    Header,             \* what is known of each model (see ModelHeader)
    VramTotal, RamTotal,
    OtherUse,           \* what other programs may hold: [vram, ram]
    Ubatch, ActBytes, MaskBytes, FFRatio, ComputeUnknown, MoEUnmeasured,
    RuntimeOverhead, DisplayMin, OsMin,     \* the constants of fit/mod.rs
    None

ModelHeader == [
    known: BOOLEAN,     \* a standard attention of a supported architecture
    loadable: BOOLEAN,  \* the bundled llama-server knows the architecture
    gated: BOOLEAN,     \* the catalog asks for a newer llama-server
    blocks: Nat, embd: Nat, experts: BOOLEAN, heads: Nat, headsKv: Nat,
    ff: Nat \cup {None}, key: Nat \cup {None}, value: Nat \cup {None},
    bytes: Nat,         \* the catalog's size of the file
    weights: Nat, blockBytes: Nat]      \* of the tensors, and of those of blocks

\* "load" is runtime_load, "local" local_verdict, "catalog" verdict and all_verdicts.
Ask == [model: Models, context: Nat, kv: {1, 2}, use: {"load", "local", "catalog"}]

Memory == [vram: Nat, ram: Nat]

Kinds == {"fits_fully", "fits_tight", "gpu_cpu_split", "cpu_only", "exceeds_machine",
          "unverified_arch"}

\* A block has at least a byte: no model file is smaller than its number of layers.
ASSUME FitAssumption ==
    /\ Header \in [Models -> ModelHeader]
    /\ \A m \in Models : /\ Header[m].blocks <= Header[m].blockBytes
                         /\ Header[m].blockBytes <= Header[m].weights
                         /\ Header[m].weights <= Header[m].bytes
    /\ Asks \subseteq Ask
    /\ VramTotal \in Nat /\ RamTotal \in Nat
    /\ OtherUse \subseteq [vram: 0..VramTotal, ram: 0..RamTotal]
    /\ {Ubatch, ActBytes, MaskBytes, FFRatio, ComputeUnknown, MoEUnmeasured,
        RuntimeOverhead, DisplayMin, OsMin} \subseteq Nat
    /\ None \notin Nat \cup Evals \cup Kinds

VARIABLES
    pc,         \* where each evaluation is
    ask,        \* what it was asked
    avail,      \* the memory it may use: what was free, less the headroom
    ngl,        \* layers it has placed on the card,
    used,       \* and the bytes they take there
    verdict,
    sidecar,    \* the evaluation whose load started the sidecar, or None
    serving,    \* the sidecar has allocated its memory
    others,     \* what other programs hold
    seen        \* history: what they held when an evaluation looked

evals == <<pc, ask, avail, ngl, used, verdict, seen>>
vars == <<evals, sidecar, serving, others>>

----------------------------------------------------------------------------
(* The sizes.                                                              *)

\* saturating_sub
Minus(a, b) == IF a > b THEN a - b ELSE 0

Least(a, b) == IF a < b THEN a ELSE b
Most(a, b) == IF a > b THEN a ELSE b

\* unwrap_or
Else(option, default) == IF option = None THEN default ELSE option

\* A tenth in floating point, cut to an integer, is the integer quotient up to 2^50.
Tenth(n) == n \div 10

DisplayHeadroom == Most(DisplayMin, Tenth(VramTotal))
OsHeadroom == Most(OsMin, Tenth(RamTotal))

\* The f16 mask of attention over the context.
Mask(context) == Ubatch * context * MaskBytes

\* compute_buffer_bytes
ComputeBuffer(h, context) ==
    IF h.embd = 0 THEN ComputeUnknown
    ELSE IF h.experts THEN MoEUnmeasured + Mask(context)
    ELSE Ubatch * (2 * h.embd + 3 * Else(h.ff, h.embd * FFRatio)) * ActBytes
            + Mask(context)

\* What is kept free on the card beside layers; of an architecture that is not known
\* the width says nothing, so a flat reserve stands for it.
Buffers(a) ==
    LET h == Header[a.model]
    IN (IF h.known THEN ComputeBuffer(h, a.context)
        ELSE ComputeUnknown + Mask(a.context)) + RuntimeOverhead

\* compute_kv_bytes.  (Of an architecture that is not known it is not computed.)
Kv(a) ==
    LET h == Header[a.model]
        dim == IF h.heads > 0 THEN h.embd \div h.heads ELSE 0
        key == Else(h.key, dim)
        value == Else(h.value, key)
    IN IF h.known THEN h.blocks * h.headsKv * (key + value) * a.kv * a.context ELSE 0

\* The catalog knows the size of the file, a local evaluation the tensors.
Weights(a) == IF a.use = "catalog" THEN Header[a.model].bytes ELSE Header[a.model].weights

\* Bytes of a layer's weights: the average over the tensors of blocks, or of the file.
PerBlock(a) ==
    LET h == Header[a.model]
    IN IF h.blocks > 0
       THEN (IF a.use = "catalog" THEN h.bytes ELSE h.blockBytes) \div h.blocks
       ELSE IF h.known THEN Weights(a) ELSE 0

KvPerLayer(a) ==
    LET h == Header[a.model] IN IF h.blocks > 0 THEN Kv(a) \div h.blocks ELSE 0

Layer(a) == PerBlock(a) + KvPerLayer(a)

Blocks(a) == Header[a.model].blocks

Need(a) == Weights(a) + Kv(a) + Buffers(a)

\* What is left for main memory when n layers are on the card.
Remainder(a, n) ==
    Minus(Weights(a), n * PerBlock(a)) + Minus(Kv(a), KvPerLayer(a) * n)

\* What llama-server allocates on the card for n layers; without any it stays off it.
OnCard(a, n) == IF n = 0 THEN 0 ELSE n * Layer(a) + Buffers(a)

\* (Mutant: the subtraction wraps instead of ending at zero.)
BudgetWraps(e) == (avail[e].vram - Buffers(ask[e])) % 65536

Budget(e) == Minus(avail[e].vram, Buffers(ask[e]))

\* What the sidecar holds now: all of its memory once it has loaded.
SidecarVram ==
    IF sidecar # None /\ serving THEN OnCard(ask[sidecar], ngl[sidecar]) ELSE 0
SidecarRam ==
    IF sidecar # None /\ serving THEN Remainder(ask[sidecar], ngl[sidecar]) ELSE 0

----------------------------------------------------------------------------
Nothing == [vram |-> 0, ram |-> 0]

Init ==
    /\ pc = [e \in Evals |-> "idle"]
    /\ ask \in [Evals -> Asks]
    /\ avail = [e \in Evals |-> Nothing]
    /\ ngl = [e \in Evals |-> 0]
    /\ used = [e \in Evals |-> 0]
    /\ verdict = [e \in Evals |-> None]
    /\ seen = [e \in Evals |-> Nothing]
    /\ sidecar = None /\ serving = FALSE
    /\ others \in OtherUse

Move(e, from, to) == pc[e] = from /\ pc' = [pc EXCEPT ![e] = to]

machine == <<sidecar, serving, others>>

----------------------------------------------------------------------------
(* The evaluation: evaluate_local, evaluate_remote and evaluate_inner.     *)

Refuse(e, from) ==
    /\ Move(e, from, "done")
    /\ UNCHANGED <<ask, avail, ngl, used, verdict, seen, machine>>

\* The model's file cannot be read, or its architecture is newer than llama-server.
Refused(e) ==
    /\ ask[e].use # "catalog"
    /\ Refuse(e, "idle")

\* (Mutant: the display and the desktop get no reserve.)
MeasureVramAll(e) ==
    /\ Move(e, "idle", "probed")
    /\ ask[e].use = "load" => Header[ask[e].model].loadable
    /\ avail' = [avail EXCEPT ![e].vram = Minus(VramTotal, others.vram + SidecarVram)]
    /\ seen' = [seen EXCEPT ![e].vram = others.vram]
    /\ UNCHANGED <<ask, ngl, used, verdict, machine>>

\* The free memory of the card, whoever holds the rest, less the headroom.
MeasureVram(e) ==
    /\ Move(e, "idle", "probed")
    /\ ask[e].use = "load" => Header[ask[e].model].loadable
    /\ avail' = [avail EXCEPT
          ![e].vram = Minus(Minus(VramTotal, others.vram + SidecarVram), DisplayHeadroom)]
    /\ seen' = [seen EXCEPT ![e].vram = others.vram]
    /\ UNCHANGED <<ask, ngl, used, verdict, machine>>

MeasureRam(e) ==
    /\ Move(e, "probed", "measured")
    /\ avail' = [avail EXCEPT
          ![e].ram = Minus(Minus(RamTotal, others.ram + SidecarRam), OsHeadroom)]
    /\ seen' = [seen EXCEPT ![e].ram = others.ram]
    /\ UNCHANGED <<ask, ngl, used, verdict, machine>>

Judge(e, from, kind, n) ==
    /\ Move(e, from, "judged")
    /\ verdict' = [verdict EXCEPT ![e] = kind]
    /\ ngl' = [ngl EXCEPT ![e] = n]
    /\ used' = [used EXCEPT ![e] = 0]
    /\ UNCHANGED <<ask, avail, seen, machine>>

Known(e) == Header[ask[e].model].known

\* As many whole layers as their weights allow, and none if those are not known.
Unverified(e) ==
    LET layer == PerBlock(ask[e])
    IN /\ ~Known(e)
       /\ Judge(e, "measured", "unverified_arch",
                IF layer = 0 THEN 0 ELSE Least(Budget(e) \div layer, Blocks(ask[e])))

FitsFully(e) ==
    /\ Known(e)
    /\ Need(ask[e]) <= Minus(avail[e].vram, Tenth(avail[e].vram))
    /\ Judge(e, "measured", "fits_fully", Blocks(ask[e]))

FitsTight(e) ==
    /\ Known(e)
    /\ Need(ask[e]) > Minus(avail[e].vram, Tenth(avail[e].vram))
    /\ Need(ask[e]) <= avail[e].vram
    /\ Judge(e, "measured", "fits_tight", Blocks(ask[e]))

Splits(e) ==
    /\ Move(e, "measured", "placing")
    /\ Known(e)
    /\ Need(ask[e]) > avail[e].vram
    /\ UNCHANGED <<ask, avail, ngl, used, verdict, seen, machine>>

\* (Mutant: the last byte of the budget is not used.)
RoomLess(e) == ngl[e] < Blocks(ask[e]) /\ used[e] + Layer(ask[e]) < Budget(e)

\* Another layer would fit.
Room(e) == ngl[e] < Blocks(ask[e]) /\ used[e] + Layer(ask[e]) <= Budget(e)

Place(e) ==
    /\ pc[e] = "placing" /\ Room(e)
    /\ ngl' = [ngl EXCEPT ![e] = @ + 1]
    /\ used' = [used EXCEPT ![e] = @ + Layer(ask[e])]
    /\ UNCHANGED <<pc, ask, avail, verdict, seen, machine>>

\* The rest must fit main memory; with no layer placed, all of it.
GpuCpuSplit(e) ==
    /\ ~Room(e) /\ ngl[e] > 0
    /\ Remainder(ask[e], ngl[e]) <= avail[e].ram
    /\ Judge(e, "placing", "gpu_cpu_split", ngl[e])

CpuOnly(e) ==
    /\ ~Room(e) /\ ngl[e] = 0
    /\ Weights(ask[e]) + Kv(ask[e]) <= avail[e].ram
    /\ Judge(e, "placing", "cpu_only", 0)

Exceeds(e) ==
    /\ ~Room(e)
    /\ IF ngl[e] > 0 THEN Remainder(ask[e], ngl[e]) > avail[e].ram
       ELSE Weights(ask[e]) + Kv(ask[e]) > avail[e].ram
    /\ Judge(e, "placing", "exceeds_machine", 0)

----------------------------------------------------------------------------
(* What the handlers do with it, and the sidecar.                          *)

Shows(e) ==
    /\ ask[e].use # "load"
    /\ Refuse(e, "judged")

\* A load is refused if the model exceeds the machine or needs a newer llama-server.
LoadRefused(e) ==
    /\ ask[e].use = "load"
    /\ verdict[e] = "exceeds_machine" \/ Header[ask[e].model].gated
    /\ Refuse(e, "judged")

Launchable(e) ==
    /\ ask[e].use = "load"
    /\ verdict[e] # "exceeds_machine" /\ ~Header[ask[e].model].gated

\* The old sidecar is killed and reaped, and a new one spawned with the offload, the
\* context and the cache type that were evaluated.
Launches(e) ==
    /\ Move(e, "judged", "done")
    /\ Launchable(e)
    /\ sidecar' = e /\ serving' = FALSE
    /\ UNCHANGED <<ask, avail, ngl, used, verdict, seen, others>>

\* The old one is gone even if the new one cannot be spawned.
LaunchFails(e) ==
    /\ Move(e, "judged", "done")
    /\ Launchable(e)
    /\ sidecar' = None /\ serving' = FALSE
    /\ UNCHANGED <<ask, avail, ngl, used, verdict, seen, others>>

\* llama-server allocates what it was told to.
Serves ==
    /\ sidecar # None /\ ~serving
    /\ serving' = TRUE
    /\ UNCHANGED <<evals, sidecar, others>>

\* It is stopped, or dies.
SidecarEnds ==
    /\ sidecar # None
    /\ sidecar' = None /\ serving' = FALSE
    /\ UNCHANGED <<evals, others>>

\* Other programs come and go.
OthersMove ==
    /\ others' \in OtherUse
    /\ UNCHANGED <<evals, sidecar, serving>>

Evaluate(e) ==
    \/ Refused(e) \/ MeasureVram(e) \/ MeasureRam(e)
    \/ Unverified(e) \/ FitsFully(e) \/ FitsTight(e)
    \/ Splits(e) \/ Place(e) \/ GpuCpuSplit(e) \/ CpuOnly(e) \/ Exceeds(e)

Handle(e) == Shows(e) \/ LoadRefused(e) \/ Launches(e) \/ LaunchFails(e)

Next ==
    \/ \E e \in Evals : Evaluate(e) \/ Handle(e)
    \/ Serves \/ SidecarEnds \/ OthersMove

Spec == Init /\ [][Next]_vars

----------------------------------------------------------------------------
(* Properties.                                                             *)

TypeOK ==
    /\ pc \in [Evals -> {"idle", "probed", "measured", "placing", "judged", "done"}]
    /\ ask \in [Evals -> Asks]
    /\ avail \in [Evals -> Memory]
    /\ ngl \in [Evals -> Nat]
    /\ used \in [Evals -> Nat]
    /\ \A e \in Evals : ngl[e] <= Blocks(ask[e])
    /\ verdict \in [Evals -> Kinds \cup {None}]
    /\ sidecar \in Evals \cup {None}
    /\ serving \in BOOLEAN
    /\ others \in OtherUse
    /\ seen \in [Evals -> [vram: 0..VramTotal, ram: 0..RamTotal]]

\* "fit must match the runtime it predicts": whatever loads and sidecars overlap, and
\* although the memory was measured while another sidecar held or was about to take its
\* own, a sidecar that a load started takes no more of the card than there is while
\* other programs take no more than they did, and the display headroom on top; and no
\* more of main memory where the verdict counted on it.
LaunchesFit ==
    sidecar # None =>
        LET a == ask[sidecar]
            n == ngl[sidecar]
        IN /\ others.vram <= seen[sidecar].vram + DisplayHeadroom =>
                  OnCard(a, n) + others.vram <= VramTotal
           /\ others.ram <= seen[sidecar].ram + OsHeadroom
                 /\ verdict[sidecar] \in {"gpu_cpu_split", "cpu_only"} =>
                  Remainder(a, n) + others.ram <= RamTotal

\* n layers on the card and the rest in main memory fit what there is of each.
Fits(a, n, vram, ram) == OnCard(a, n) <= vram /\ Remainder(a, n) <= ram

\* "Honest refusal": a model that is said to exceed the memory that was free cannot be
\* placed in it with any number of layers; and no split could have placed more of them.
RefusesRightly ==
    \A e \in Evals : \A n \in 0..Blocks(ask[e]) :
        /\ verdict[e] = "exceeds_machine" => ~Fits(ask[e], n, avail[e].vram, avail[e].ram)
        /\ verdict[e] \in {"gpu_cpu_split", "cpu_only"} /\ n > ngl[e] =>
              OnCard(ask[e], n) > avail[e].vram

Rank == [fits_fully |-> 0, fits_tight |-> 1, gpu_cpu_split |-> 2, cpu_only |-> 3,
         exceeds_machine |-> 4, unverified_arch |-> 0]

\* e asks for no more than f of the same model, and has no less to place it in.
Easier(e, f) ==
    /\ ask[e].model = ask[f].model
    /\ ask[e].use = "catalog" <=> ask[f].use = "catalog"
    /\ ask[e].context <= ask[f].context /\ ask[e].kv <= ask[f].kv
    /\ avail[e].vram >= avail[f].vram /\ avail[e].ram >= avail[f].ram

\* "the budget shrinks monotonically with context": a request for less context, or a
\* smaller cache, or with more memory free, gets no worse a verdict and no fewer layers.
MoreNeverHurts ==
    \A e, f \in Evals : verdict[e] # None /\ verdict[f] # None /\ Easier(e, f) =>
        Rank[verdict[e]] <= Rank[verdict[f]] /\ ngl[e] >= ngl[f]

\* "don't start llama-server for a model the fit engine says can't fit at all ... exceeds
\* this machine's VRAM + RAM": a refused model does not fit beside the other programs.
RefusedExceedsMachine ==
    \A e \in Evals : \A n \in 0..Blocks(ask[e]) :
        verdict[e] = "exceeds_machine" =>
            ~Fits(ask[e], n, Minus(Minus(VramTotal, seen[e].vram), DisplayHeadroom),
                             Minus(Minus(RamTotal, seen[e].ram), OsHeadroom))
=============================================================================
