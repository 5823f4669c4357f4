---------------------------------- MODULE MCFit ----------------------------------
(* Instances of Fit for TLC: models read from small files. *)
EXTENDS Fit, TLC

CONSTANTS dense, hybrid, mixture

G == INSTANCE Gguf

Tensor(kind, dims, block) == [kind |-> kind, dims |-> dims, block |-> block]

\* Two blocks of 9 bytes, an embedding of 4; a cache of 1 byte per token and element.
DenseFile == [
    arch |-> "llama", archTag |-> None, generalTag |-> None, gated |-> FALSE,
    blocks |-> 2, embd |-> 1, experts |-> None, heads |-> 1, headsKv |-> None,
    ff |-> 1, key |-> None, value |-> None, bytes |-> 24,
    tensors |-> <<Tensor("I8", <<3, 3>>, TRUE), Tensor("I8", <<3, 3>>, TRUE),
                 Tensor("F32", <<>>, FALSE)>>]

\* Three blocks, experts, key heads that the header gives; needs a newer llama-server.
MixtureFile == [
    arch |-> "mixtral", archTag |-> None, generalTag |-> "standard", gated |-> TRUE,
    blocks |-> 3, embd |-> 2, experts |-> 2, heads |-> 2, headsKv |-> 1,
    ff |-> None, key |-> 1, value |-> None, bytes |-> 24,
    tensors |-> <<Tensor("Q4_0", <<2, 8>>, TRUE), Tensor("other", <<1>>, FALSE)>>]

\* The same tensors, but its attention is not a standard one.
HybridFile == [DenseFile EXCEPT !.archTag = "hybrid"]

Dense == [
    known |-> TRUE, loadable |-> TRUE, gated |-> FALSE, blocks |-> 2, embd |-> 1,
    experts |-> FALSE, heads |-> 1, headsKv |-> 1, ff |-> 1, key |-> None, value |-> None,
    bytes |-> 24, weights |-> 22, blockBytes |-> 18]

Hybrid == [Dense EXCEPT !.known = FALSE]

Mixture == [
    known |-> TRUE, loadable |-> TRUE, gated |-> TRUE, blocks |-> 3, embd |-> 2,
    experts |-> TRUE, heads |-> 2, headsKv |-> 1, ff |-> None, key |-> 1, value |-> None,
    bytes |-> 24, weights |-> 22, blockBytes |-> 18]

\* What the evaluation reads from these files.
ASSUME /\ G!Describe(DenseFile) = Dense
       /\ G!Describe(HybridFile) = Hybrid
       /\ G!Describe(MixtureFile) = Mixture

MCHeader == [m \in Models |-> CASE m = dense -> Dense
                            [] m = hybrid -> Hybrid
                            [] m = mixture -> Mixture]

MCAsks ==
    {[model |-> dense, context |-> c, kv |-> 1, use |-> "load"] : c \in {1, 3}}
    \cup {[model |-> dense, context |-> 1, kv |-> 2, use |-> "load"],
          [model |-> dense, context |-> 1, kv |-> 1, use |-> "catalog"],
          [model |-> hybrid, context |-> 1, kv |-> 1, use |-> "load"],
          [model |-> hybrid, context |-> 3, kv |-> 1, use |-> "load"],
          [model |-> mixture, context |-> 2, kv |-> 2, use |-> "load"],
          [model |-> mixture, context |-> 2, kv |-> 2, use |-> "local"]}

MCOtherUse == {[vram |-> 0, ram |-> 0], [vram |-> 4, ram |-> 4], [vram |-> 12, ram |-> 8]}

Symmetry == Permutations(Evals)
=============================================================================
