---------------------------------- MODULE Gguf ----------------------------------
(***************************************************************************)
(* What the fit evaluation reads from a model file: gguf/mod.rs and the    *)
(* head of evaluate_local.  A file is its architecture, its attention tag, *)
(* its numbers and its tensors; of a tensor there are its kind (a type of  *)
(* ggml), its dimensions, and whether its name is one of a block's.        *)
(***************************************************************************)
EXTENDS Integers, Sequences, SequencesExt

CONSTANT None

\* ggml_type_layout: elements of a block and its bytes.
Layout == [
    F32 |-> <<1, 4>>, F16 |-> <<1, 2>>, BF16 |-> <<1, 2>>,
    I8 |-> <<1, 1>>, I16 |-> <<1, 2>>, I32 |-> <<1, 4>>, I64 |-> <<1, 8>>, F64 |-> <<1, 8>>,
    Q4_0 |-> <<32, 18>>, Q4_1 |-> <<32, 20>>, Q5_0 |-> <<32, 22>>, Q5_1 |-> <<32, 24>>,
    Q8_0 |-> <<32, 34>>, Q8_1 |-> <<32, 36>>, IQ4_NL |-> <<32, 18>>,
    Q2_K |-> <<256, 84>>, Q3_K |-> <<256, 110>>, Q4_K |-> <<256, 144>>,
    Q5_K |-> <<256, 176>>, Q6_K |-> <<256, 210>>, Q8_K |-> <<256, 292>>,
    IQ2_XXS |-> <<256, 66>>, IQ2_XS |-> <<256, 74>>, IQ3_XXS |-> <<256, 98>>,
    IQ1_S |-> <<256, 50>>, IQ3_S |-> <<256, 110>>, IQ2_S |-> <<256, 82>>,
    IQ4_XS |-> <<256, 136>>, IQ1_M |-> <<256, 56>>,
    other |-> <<1, 4>>]

\* tensor_byte_size: whole blocks; a tensor without dimensions has one element.
TensorBytes(t) ==
    LET count == FoldSeq(LAMBDA x, y : x * y, 1, t.dims)
        ne == Layout[t.kind][1]
    IN ((count + ne - 1) \div ne) * Layout[t.kind][2]

SumTensorBytes(ts) == FoldSeq(LAMBDA t, sum : TensorBytes(t) + sum, 0, ts)

\* sum_block_tensor_bytes, first component.
SumBlockTensorBytes(ts) == SumTensorBytes(SelectSeq(ts, LAMBDA t : t.block))

\* attention_type: the tag under the architecture's name, before the general ones.
AttentionType(f) == IF f.archTag # None THEN f.archTag ELSE f.generalTag

StandardArchs == {"llama", "mistral", "gemma", "gemma2", "qwen2", "qwen3", "phi3", "phi",
    "starcoder2", "command-r", "cohere2", "deepseek2", "stablelm", "internlm2",
    "mixtral", "qwen2moe", "qwen3moe", "dbrx", "granitemoe", "olmoe"}

RuntimeArchs == {"llama", "mistral", "mixtral", "gemma", "gemma2", "gemma3", "qwen2",
    "qwen2moe", "qwen3", "phi2", "phi3", "phi", "starcoder2", "command-r", "cohere2",
    "deepseek2", "stablelm", "gptneox", "falcon", "mpt", "bloom", "baichuan", "internlm2",
    "orion", "olmo", "granite", "granitemoe", "nemotron", "exaone"}

\* An explicit tag wins over the architecture's name.
Standard(f) ==
    /\ AttentionType(f) \notin {"ssm", "linear", "hybrid", "mamba", "recurrent"}
    /\ f.arch \in StandardArchs

\* The numbers of the header, with the defaults of evaluate_local, and the sums.
Describe(f) ==
    LET number(key, default) == IF f[key] = None THEN default ELSE f[key]
        heads == number("heads", 1)
    IN [known |-> Standard(f), loadable |-> f.arch \in RuntimeArchs, gated |-> f.gated,
        blocks |-> number("blocks", 0), embd |-> number("embd", 0),
        experts |-> number("experts", 0) > 0,
        heads |-> heads, headsKv |-> number("headsKv", heads),
        ff |-> f.ff, key |-> f.key, value |-> f.value,
        bytes |-> f.bytes,
        weights |-> SumTensorBytes(f.tensors),
        blockBytes |-> SumBlockTensorBytes(f.tensors)]
=============================================================================
