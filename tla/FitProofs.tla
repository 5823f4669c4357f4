------------------------------ MODULE FitProofs ------------------------------
(***************************************************************************)
(* Theorems about Fit, for any models, any machine and any number of       *)
(* overlapping evaluations, loads and sidecars.                            *)
(***************************************************************************)
EXTENDS Fit, TLAPS

----------------------------------------------------------------------------
(* Arithmetic.                                                             *)

LEMMA TimesNat == ASSUME NEW x \in Nat, NEW y \in Nat PROVE x * y \in Nat
BY SMTT(20)

LEMMA TimesMono == ASSUME NEW x \in Nat, NEW y \in Nat, NEW c \in Nat, x <= y
                   PROVE x * c <= y * c /\ c * x <= c * y
BY SMTT(20)

LEMMA TimesPlus == ASSUME NEW x \in Nat, NEW y \in Nat, NEW c \in Nat
                   PROVE c * (x + y) = c * x + c * y /\ (x + y) * c = x * c + y * c
BY SMTT(20)

LEMMA TimesSwap == ASSUME NEW x \in Nat, NEW y \in Nat PROVE x * y = y * x
BY SMTT(20)

LEMMA Quotient == ASSUME NEW x \in Nat, NEW c \in Nat \ {0}
                  PROVE x \div c \in Nat /\ c * (x \div c) <= x /\ (x \div c) * c <= x
BY SMTT(20)

LEMMA QuotientMono == ASSUME NEW x \in Nat, NEW y \in Nat, NEW c \in Nat \ {0}, x <= y
                      PROVE x \div c <= y \div c
BY SMTT(20)

LEMMA QuotientExact == ASSUME NEW x \in Nat, NEW c \in Nat \ {0} PROVE (c * x) \div c = x
BY SMTT(20)

LEMMA QuotientPositive == ASSUME NEW x \in Nat, NEW c \in Nat \ {0}, c <= x PROVE x \div c >= 1
BY SMTT(20)

LEMMA MinusNat == ASSUME NEW x \in Nat, NEW y \in Nat
                  PROVE Minus(x, y) \in Nat /\ Minus(x, y) <= x
BY DEF Minus

LEMMA MinusMono == ASSUME NEW x \in Nat, NEW y \in Nat, NEW v \in Nat, NEW w \in Nat, x <= y, v >= w
                   PROVE Minus(x, v) <= Minus(y, w)
BY DEF Minus

\* What is left after the comfort margin grows with what there is.
LEMMA MarginMono == ASSUME NEW x \in Nat, NEW y \in Nat, x <= y
                    PROVE /\ Minus(x, Tenth(x)) \in Nat /\ Minus(x, Tenth(x)) <= x
                          /\ Minus(x, Tenth(x)) <= Minus(y, Tenth(y))
BY SMTT(30) DEF Minus, Tenth

----------------------------------------------------------------------------
(* Sizes.                                                                  *)

LEMMA HeaderOf ==
    ASSUME NEW a \in Asks
    PROVE /\ a.model \in Models /\ a.context \in Nat /\ a.kv \in Nat
          /\ a.use \in {"load", "local", "catalog"}
          /\ Header[a.model] \in ModelHeader
          /\ Header[a.model].blocks <= Header[a.model].blockBytes
          /\ Header[a.model].blockBytes <= Header[a.model].weights
          /\ Header[a.model].weights <= Header[a.model].bytes
<1>1. a \in Ask BY FitAssumption
<1>2. a.model \in Models /\ a.context \in Nat /\ a.kv \in {1, 2}
      /\ a.use \in {"load", "local", "catalog"}
  BY <1>1 DEF Ask
<1> QED BY <1>2, FitAssumption

LEMMA HeaderParts ==
    ASSUME NEW h \in ModelHeader
    PROVE /\ h.known \in BOOLEAN /\ h.experts \in BOOLEAN
          /\ h.blocks \in Nat /\ h.embd \in Nat /\ h.heads \in Nat /\ h.headsKv \in Nat
          /\ h.bytes \in Nat /\ h.weights \in Nat /\ h.blockBytes \in Nat
          /\ h.ff \in Nat \cup {None} /\ h.key \in Nat \cup {None}
          /\ h.value \in Nat \cup {None}
BY DEF ModelHeader

LEMMA ConstantsNat ==
    /\ Ubatch \in Nat /\ ActBytes \in Nat /\ MaskBytes \in Nat /\ FFRatio \in Nat
    /\ ComputeUnknown \in Nat /\ MoEUnmeasured \in Nat /\ RuntimeOverhead \in Nat
    /\ DisplayMin \in Nat /\ OsMin \in Nat /\ VramTotal \in Nat /\ RamTotal \in Nat
BY FitAssumption

LEMMA HeadroomsNat == DisplayHeadroom \in Nat /\ OsHeadroom \in Nat
BY ConstantsNat DEF DisplayHeadroom, OsHeadroom, Most, Tenth

LEMMA MaskGrows ==
    ASSUME NEW c \in Nat, NEW d \in Nat, c <= d
    PROVE Mask(c) \in Nat /\ Mask(d) \in Nat /\ Mask(c) <= Mask(d)
<1>1. Ubatch * c \in Nat /\ Ubatch * d \in Nat /\ Ubatch * c <= Ubatch * d
  BY ConstantsNat, TimesNat, TimesMono
<1> QED BY <1>1, ConstantsNat, TimesNat, TimesMono DEF Mask

LEMMA ComputeGrows ==
    ASSUME NEW h \in ModelHeader, NEW c \in Nat, NEW d \in Nat, c <= d
    PROVE /\ ComputeBuffer(h, c) \in Nat /\ ComputeBuffer(h, d) \in Nat
          /\ ComputeBuffer(h, c) <= ComputeBuffer(h, d)
<1> DEFINE ff == Else(h.ff, h.embd * FFRatio)
           act == Ubatch * (2 * h.embd + 3 * ff) * ActBytes
<1>1. h.embd * FFRatio \in Nat BY HeaderParts, ConstantsNat, TimesNat
<1>2. ff \in Nat BY <1>1, HeaderParts DEF Else
<1>3. 2 * h.embd + 3 * ff \in Nat BY <1>2, HeaderParts
<1>4. Ubatch * (2 * h.embd + 3 * ff) \in Nat BY <1>3, ConstantsNat, TimesNat
<1>5. act \in Nat BY <1>4, ConstantsNat, TimesNat
<1> HIDE DEF ff
<1>6. Mask(c) \in Nat /\ Mask(d) \in Nat /\ Mask(c) <= Mask(d) BY MaskGrows
<1>7. /\ ComputeBuffer(h, c) = IF h.embd = 0 THEN ComputeUnknown
                               ELSE IF h.experts THEN MoEUnmeasured + Mask(c) ELSE act + Mask(c)
      /\ ComputeBuffer(h, d) = IF h.embd = 0 THEN ComputeUnknown
                               ELSE IF h.experts THEN MoEUnmeasured + Mask(d) ELSE act + Mask(d)
  BY DEF ComputeBuffer, ff
<1> HIDE DEF act
<1> QED BY <1>5, <1>6, <1>7, ConstantsNat

LEMMA BuffersGrow ==
    ASSUME NEW a \in Asks, NEW b \in Asks, a.model = b.model, a.context <= b.context
    PROVE Buffers(a) \in Nat /\ Buffers(b) \in Nat /\ Buffers(a) <= Buffers(b)
<1>1. /\ ComputeBuffer(Header[a.model], a.context) \in Nat
      /\ ComputeBuffer(Header[a.model], b.context) \in Nat
      /\ ComputeBuffer(Header[a.model], a.context) <= ComputeBuffer(Header[a.model], b.context)
  BY HeaderOf, ComputeGrows
<1>2. /\ Mask(a.context) \in Nat /\ Mask(b.context) \in Nat /\ Mask(a.context) <= Mask(b.context)
  BY HeaderOf, MaskGrows
<1> QED BY <1>1, <1>2, ConstantsNat DEF Buffers

\* The cache of a layer: what a block's heads keep of the context.
PerLayer(a) ==
    LET h == Header[a.model]
        dim == IF h.heads > 0 THEN h.embd \div h.heads ELSE 0
        key == Else(h.key, dim)
        value == Else(h.value, key)
    IN IF h.known THEN h.headsKv * (key + value) * a.kv * a.context ELSE 0

\* The cache divides into equal layers: what the loop places of it for all of them is
\* all of it.
LEMMA CacheOfLayers ==
    ASSUME NEW a \in Asks, NEW b \in Asks, a.model = b.model, a.context <= b.context, a.kv <= b.kv
    PROVE /\ PerLayer(a) \in Nat /\ PerLayer(b) \in Nat /\ PerLayer(a) <= PerLayer(b)
          /\ Kv(a) = Blocks(a) * PerLayer(a)
<1> DEFINE h == Header[a.model]
           dim == IF h.heads > 0 THEN h.embd \div h.heads ELSE 0
           key == Else(h.key, dim)
           value == Else(h.value, key)
           k == h.headsKv * (key + value)
<1>1. h \in ModelHeader /\ a.kv \in Nat /\ b.kv \in Nat /\ a.context \in Nat /\ b.context \in Nat
  BY HeaderOf
<1>2. dim \in Nat BY <1>1, HeaderParts, Quotient
<1>3. key \in Nat BY <1>1, <1>2, HeaderParts DEF Else
<1>4. value \in Nat BY <1>1, <1>3, HeaderParts DEF Else
<1>5. key + value \in Nat BY <1>3, <1>4
<1>6. k \in Nat BY <1>1, <1>5, HeaderParts, TimesNat
<1>7. h.known \in BOOLEAN /\ h.blocks \in Nat BY <1>1, HeaderParts
<1>8. /\ PerLayer(a) = IF h.known THEN k * a.kv * a.context ELSE 0
      /\ PerLayer(b) = IF h.known THEN k * b.kv * b.context ELSE 0
      /\ Kv(a) = IF h.known THEN h.blocks * h.headsKv * (key + value) * a.kv * a.context ELSE 0
      /\ Blocks(a) = h.blocks
  BY DEF PerLayer, Kv, Blocks
<1>9. h.headsKv \in Nat BY <1>1, HeaderParts
<1> HIDE DEF h
<1>10. h.blocks * h.headsKv * (key + value) = h.blocks * k
  <2> DEFINE s == key + value
  <2>1. s \in Nat BY <1>5
  <2> HIDE DEF s
  <2>2. h.blocks * h.headsKv * s = h.blocks * (h.headsKv * s)
    BY <2>1, <1>7, <1>9, SMTT(20)
  <2> QED BY <2>2 DEF s
<1> HIDE DEF k, key, value
<1>11. /\ k * a.kv \in Nat /\ k * b.kv \in Nat /\ k * a.kv <= k * b.kv
  BY <1>1, <1>6, TimesNat, TimesMono
<1>12. /\ k * a.kv * a.context \in Nat /\ k * b.kv * b.context \in Nat /\ k * b.kv * a.context \in Nat
  BY <1>1, <1>11, TimesNat
<1>13. k * a.kv * a.context <= k * b.kv * a.context BY <1>1, <1>11, TimesMono
<1>14. k * b.kv * a.context <= k * b.kv * b.context BY <1>1, <1>11, TimesMono
<1>15. h.blocks * k * a.kv * a.context = h.blocks * (k * a.kv * a.context)
  <2>1. h.blocks * k * a.kv = h.blocks * (k * a.kv) BY <1>1, <1>6, <1>7, SMTT(20)
  <2>2. h.blocks * (k * a.kv) * a.context = h.blocks * (k * a.kv * a.context)
    <3> DEFINE t == k * a.kv
    <3>1. t \in Nat BY <1>11
    <3> HIDE DEF t
    <3>2. h.blocks * t * a.context = h.blocks * (t * a.context) BY <3>1, <1>1, <1>7, SMTT(20)
    <3> QED BY <3>2 DEF t
  <2> QED BY <2>1, <2>2
<1>16. h.blocks * 0 = 0 BY <1>7
<1> QED BY <1>7, <1>8, <1>10, <1>12, <1>13, <1>14, <1>15, <1>16

LEMMA Sizes ==
    ASSUME NEW a \in Asks
    PROVE /\ Blocks(a) \in Nat /\ Weights(a) \in Nat /\ PerBlock(a) \in Nat
          /\ KvPerLayer(a) \in Nat /\ Kv(a) \in Nat /\ Buffers(a) \in Nat
          /\ Layer(a) \in Nat /\ Need(a) \in Nat
          /\ Layer(a) = PerBlock(a) + KvPerLayer(a)
          /\ Need(a) = Weights(a) + Kv(a) + Buffers(a)
          /\ Blocks(a) > 0 => PerBlock(a) >= 1
          /\ Blocks(a) * PerBlock(a) <= Weights(a)
          /\ Kv(a) = Blocks(a) * KvPerLayer(a)
          /\ KvPerLayer(a) = IF Blocks(a) > 0 THEN PerLayer(a) ELSE 0
          /\ ~Header[a.model].known => KvPerLayer(a) = 0
<1> DEFINE h == Header[a.model]
<1>1. /\ h.known \in BOOLEAN /\ h.blocks \in Nat /\ h.bytes \in Nat /\ h.weights \in Nat
      /\ h.blockBytes \in Nat /\ h.blocks <= h.blockBytes /\ h.blockBytes <= h.weights
      /\ h.weights <= h.bytes
  BY HeaderOf, HeaderParts
<1>2. Blocks(a) = h.blocks BY DEF Blocks
<1>3. Weights(a) = IF a.use = "catalog" THEN h.bytes ELSE h.weights BY DEF Weights
<1>4. PerBlock(a) = IF h.blocks > 0
                    THEN (IF a.use = "catalog" THEN h.bytes ELSE h.blockBytes) \div h.blocks
                    ELSE IF h.known THEN Weights(a) ELSE 0
  BY DEF PerBlock
<1>5. KvPerLayer(a) = IF h.blocks > 0 THEN Kv(a) \div h.blocks ELSE 0 BY DEF KvPerLayer
<1>6. Buffers(a) \in Nat BY BuffersGrow, HeaderOf
<1>7. PerLayer(a) \in Nat /\ Kv(a) = h.blocks * PerLayer(a)
  BY CacheOfLayers, HeaderOf, <1>2
<1>8. ~h.known => PerLayer(a) = 0 BY DEF PerLayer
<1> HIDE DEF h
<1>9. Kv(a) \in Nat BY <1>1, <1>7, TimesNat
<1>10. CASE h.blocks = 0
  <2>1. KvPerLayer(a) = 0 /\ Kv(a) = 0 BY <1>1, <1>5, <1>7, <1>10
  <2>2. PerBlock(a) \in Nat /\ Weights(a) \in Nat BY <1>1, <1>3, <1>4, <1>10
  <2>3. Blocks(a) * PerBlock(a) = 0 /\ Blocks(a) * KvPerLayer(a) = 0 BY <1>2, <1>10, <2>1, <2>2
  <2> QED BY <1>1, <1>2, <1>6, <1>9, <1>10, <2>1, <2>2, <2>3 DEF Layer, Need, h
<1>11. CASE h.blocks > 0
  <2> DEFINE total == IF a.use = "catalog" THEN h.bytes ELSE h.blockBytes
  <2>1. total \in Nat /\ h.blocks <= total /\ total <= Weights(a) /\ Weights(a) \in Nat
    BY <1>1, <1>3
  <2>2. PerBlock(a) = total \div h.blocks BY <1>4, <1>11
  <2> HIDE DEF total
  <2>3. h.blocks \in Nat \ {0} BY <1>1, <1>11
  <2>4. PerBlock(a) \in Nat /\ h.blocks * PerBlock(a) <= total BY <2>1, <2>2, <2>3, Quotient
  <2>5. PerBlock(a) >= 1 BY <2>1, <2>2, <2>3, QuotientPositive
  <2>6. KvPerLayer(a) = PerLayer(a) BY <1>5, <1>7, <1>11, <2>3, QuotientExact
  <2>7. h.blocks * PerBlock(a) \in Nat BY <2>3, <2>4, TimesNat
  <2>8. Blocks(a) * PerBlock(a) <= Weights(a) BY <1>2, <2>1, <2>4, <2>7
  <2> QED BY <1>1, <1>2, <1>6, <1>7, <1>8, <1>9, <1>11, <2>1, <2>4, <2>5, <2>6, <2>8 DEF Layer, Need, h
<1> QED BY <1>1, <1>10, <1>11

\* a asks for no more than b of the same model.
Lighter(a, b) ==
    /\ a.model = b.model
    /\ a.use = "catalog" <=> b.use = "catalog"
    /\ a.context <= b.context /\ a.kv <= b.kv

LEMMA SizesGrow ==
    ASSUME NEW a \in Asks, NEW b \in Asks, Lighter(a, b)
    PROVE /\ Blocks(a) = Blocks(b) /\ Weights(a) = Weights(b) /\ PerBlock(a) = PerBlock(b)
          /\ KvPerLayer(a) <= KvPerLayer(b) /\ Kv(a) <= Kv(b) /\ Buffers(a) <= Buffers(b)
          /\ Layer(a) <= Layer(b) /\ Need(a) <= Need(b)
<1>1. Blocks(a) = Blocks(b) BY DEF Blocks, Lighter
<1>2. Weights(a) = Weights(b) BY DEF Weights, Lighter
<1>3. PerBlock(a) = PerBlock(b) BY <1>2 DEF PerBlock, Lighter
<1>4. PerLayer(a) <= PerLayer(b) BY CacheOfLayers DEF Lighter
<1>5. KvPerLayer(a) <= KvPerLayer(b) BY <1>1, <1>4, Sizes
<1>6. Kv(a) <= Kv(b) BY <1>1, <1>5, Sizes, TimesMono
<1>7. Buffers(a) <= Buffers(b) BY BuffersGrow DEF Lighter
<1> QED BY <1>1, <1>2, <1>3, <1>5, <1>6, <1>7, Sizes

\* More layers take more of the card and leave less for main memory.
LEMMA CardGrows ==
    ASSUME NEW a \in Asks, NEW n \in Nat, NEW i \in Nat, n <= i
    PROVE OnCard(a, n) \in Nat /\ OnCard(a, i) \in Nat /\ OnCard(a, n) <= OnCard(a, i)
<1>1. Layer(a) \in Nat /\ Buffers(a) \in Nat BY Sizes
<1>2. n * Layer(a) \in Nat /\ i * Layer(a) \in Nat /\ n * Layer(a) <= i * Layer(a)
  BY <1>1, TimesNat, TimesMono
<1> QED BY <1>1, <1>2 DEF OnCard

LEMMA RemainderOf ==
    ASSUME NEW a \in Asks, NEW n \in Nat, n <= Blocks(a)
    PROVE /\ n * PerBlock(a) \in Nat /\ n * KvPerLayer(a) \in Nat
          /\ n * PerBlock(a) <= Weights(a) /\ n * KvPerLayer(a) <= Kv(a)
          /\ Remainder(a, n) = (Weights(a) - n * PerBlock(a)) + (Kv(a) - n * KvPerLayer(a))
          /\ Remainder(a, n) \in Nat
<1>1. /\ Blocks(a) \in Nat /\ PerBlock(a) \in Nat /\ KvPerLayer(a) \in Nat
      /\ Weights(a) \in Nat /\ Kv(a) \in Nat
      /\ Blocks(a) * PerBlock(a) <= Weights(a) /\ Kv(a) = Blocks(a) * KvPerLayer(a)
  BY Sizes
<1>2. /\ n * PerBlock(a) \in Nat /\ n * PerBlock(a) <= Blocks(a) * PerBlock(a)
      /\ n * KvPerLayer(a) \in Nat /\ n * KvPerLayer(a) <= Blocks(a) * KvPerLayer(a)
      /\ Blocks(a) * PerBlock(a) \in Nat
  BY <1>1, TimesNat, TimesMono
<1>3. KvPerLayer(a) * n = n * KvPerLayer(a) BY <1>1, TimesSwap
<1>4. Remainder(a, n) = Minus(Weights(a), n * PerBlock(a)) + Minus(Kv(a), n * KvPerLayer(a))
  BY <1>3 DEF Remainder
<1> HIDE DEF Remainder
<1> QED BY <1>1, <1>2, <1>4 DEF Minus

LEMMA RemainderFalls ==
    ASSUME NEW a \in Asks, NEW n \in Nat, NEW i \in Nat, n <= i, i <= Blocks(a)
    PROVE Remainder(a, i) <= Remainder(a, n)
<1>1. Blocks(a) \in Nat /\ PerBlock(a) \in Nat /\ KvPerLayer(a) \in Nat
      /\ Weights(a) \in Nat /\ Kv(a) \in Nat
  BY Sizes
<1>2. n <= Blocks(a) BY <1>1
<1>3. n * PerBlock(a) <= i * PerBlock(a) /\ n * KvPerLayer(a) <= i * KvPerLayer(a)
  BY <1>1, TimesMono
<1> QED BY <1>1, <1>2, <1>3, RemainderOf

LEMMA RemainderWhole ==
    ASSUME NEW a \in Asks
    PROVE Remainder(a, 0) = Weights(a) + Kv(a) /\ OnCard(a, 0) = 0
<1>1. Blocks(a) \in Nat /\ PerBlock(a) \in Nat /\ KvPerLayer(a) \in Nat
      /\ Weights(a) \in Nat /\ Kv(a) \in Nat
  BY Sizes
<1>2. 0 * PerBlock(a) = 0 /\ 0 * KvPerLayer(a) = 0 BY <1>1
<1> QED BY <1>1, <1>2, RemainderOf DEF OnCard

LEMMA RemainderGrows ==
    ASSUME NEW a \in Asks, NEW b \in Asks, Lighter(a, b), NEW n \in Nat, n <= Blocks(a)
    PROVE Remainder(a, n) <= Remainder(b, n)
<1>1. /\ Blocks(a) \in Nat /\ PerBlock(a) \in Nat /\ KvPerLayer(a) \in Nat
      /\ KvPerLayer(b) \in Nat /\ Weights(a) \in Nat /\ Kv(a) \in Nat /\ Kv(b) \in Nat
      /\ Kv(a) = Blocks(a) * KvPerLayer(a) /\ Kv(b) = Blocks(b) * KvPerLayer(b)
  BY Sizes
<1>2. /\ Blocks(a) = Blocks(b) /\ Weights(a) = Weights(b) /\ PerBlock(a) = PerBlock(b)
      /\ KvPerLayer(a) <= KvPerLayer(b)
  BY SizesGrow
<1>3. PICK r \in Nat : Blocks(a) = n + r
  <2>1. Blocks(a) - n \in Nat BY <1>1
  <2>2. Blocks(a) = n + (Blocks(a) - n) BY <1>1
  <2> QED BY <2>1, <2>2
<1>4. /\ Kv(a) = n * KvPerLayer(a) + r * KvPerLayer(a)
      /\ Kv(b) = n * KvPerLayer(b) + r * KvPerLayer(b)
  BY <1>1, <1>2, <1>3, TimesPlus
<1>5. /\ r * KvPerLayer(a) \in Nat /\ r * KvPerLayer(b) \in Nat
      /\ r * KvPerLayer(a) <= r * KvPerLayer(b)
      /\ n * KvPerLayer(a) \in Nat /\ n * KvPerLayer(b) \in Nat
  BY <1>1, <1>2, TimesNat, TimesMono
<1>6. /\ Remainder(a, n) = (Weights(a) - n * PerBlock(a)) + (Kv(a) - n * KvPerLayer(a))
      /\ Remainder(b, n) = (Weights(a) - n * PerBlock(a)) + (Kv(b) - n * KvPerLayer(b))
      /\ n * PerBlock(a) \in Nat
  BY <1>2, RemainderOf
<1> QED BY <1>1, <1>4, <1>5, <1>6

\* All layers on the card take no more than was counted for the whole model.
LEMMA CardFull ==
    ASSUME NEW a \in Asks
    PROVE OnCard(a, Blocks(a)) <= Need(a)
<1>1. /\ Blocks(a) \in Nat /\ PerBlock(a) \in Nat /\ KvPerLayer(a) \in Nat /\ Buffers(a) \in Nat
      /\ Weights(a) \in Nat /\ Kv(a) \in Nat /\ Layer(a) = PerBlock(a) + KvPerLayer(a)
      /\ Need(a) = Weights(a) + Kv(a) + Buffers(a)
      /\ Blocks(a) * PerBlock(a) <= Weights(a) /\ Kv(a) = Blocks(a) * KvPerLayer(a)
  BY Sizes
<1>2. Blocks(a) * Layer(a) = Blocks(a) * PerBlock(a) + Blocks(a) * KvPerLayer(a)
  BY <1>1, TimesPlus
<1>3. Blocks(a) * PerBlock(a) \in Nat BY <1>1, TimesNat
<1>4. Blocks(a) * Layer(a) <= Weights(a) + Kv(a) BY <1>1, <1>2, <1>3
<1>5. Blocks(a) * Layer(a) + Buffers(a) <= Need(a) BY <1>1, <1>2, <1>3, <1>4
<1>6. 0 <= Need(a) BY <1>1
<1>7. OnCard(a, Blocks(a)) =
        IF Blocks(a) = 0 THEN 0 ELSE Blocks(a) * Layer(a) + Buffers(a)
  BY DEF OnCard
<1> QED BY <1>5, <1>6, <1>7

----------------------------------------------------------------------------
(* What a verdict says of the request a and the memory m it was given for. *)

BudgetOf(a, m) == Minus(m.vram, Buffers(a))

\* The loop placed i layers and no further one would fit.
Filled(a, m, i) ==
    /\ i \in Nat /\ i <= Blocks(a)
    /\ i * Layer(a) <= BudgetOf(a, m)
    /\ i < Blocks(a) => (i + 1) * Layer(a) > BudgetOf(a, m)

Comfortable(a, m) == Need(a) <= Minus(m.vram, Tenth(m.vram))

Grounds(a, m, kind, n) ==
    /\ Header[a.model].known <=> kind # "unverified_arch"
    /\ kind = "fits_fully" => n = Blocks(a) /\ Comfortable(a, m)
    /\ kind = "fits_tight" => n = Blocks(a) /\ Need(a) <= m.vram /\ ~Comfortable(a, m)
    /\ kind \in {"gpu_cpu_split", "cpu_only", "exceeds_machine"} => Need(a) > m.vram
    /\ kind = "gpu_cpu_split" => n > 0 /\ Filled(a, m, n) /\ Remainder(a, n) <= m.ram
    /\ kind = "cpu_only" => n = 0 /\ Filled(a, m, 0) /\ Remainder(a, 0) <= m.ram
    /\ kind = "exceeds_machine" =>
          n = 0 /\ \E i \in Nat : Filled(a, m, i) /\ Remainder(a, i) > m.ram
    /\ kind = "unverified_arch" =>
          n = IF PerBlock(a) = 0 THEN 0 ELSE Least(BudgetOf(a, m) \div PerBlock(a), Blocks(a))

LEMMA RoomNat ==
    ASSUME NEW a \in Asks, NEW m \in Memory
    PROVE m.vram \in Nat /\ m.ram \in Nat /\ BudgetOf(a, m) \in Nat
BY Sizes, MinusNat DEF Memory, BudgetOf

\* Layers within the budget fit the card beside the buffers.
LEMMA WithinBudget ==
    ASSUME NEW a \in Asks, NEW m \in Memory, NEW n \in Nat, n <= Blocks(a),
           n * Layer(a) <= BudgetOf(a, m)
    PROVE OnCard(a, n) <= m.vram
<1>1. m.vram \in Nat /\ BudgetOf(a, m) \in Nat /\ Buffers(a) \in Nat /\ Layer(a) \in Nat
      /\ Blocks(a) \in Nat /\ PerBlock(a) \in Nat /\ KvPerLayer(a) \in Nat
      /\ Layer(a) = PerBlock(a) + KvPerLayer(a) /\ (Blocks(a) > 0 => PerBlock(a) >= 1)
  BY RoomNat, Sizes
<1>2. CASE n = 0 BY <1>1, <1>2 DEF OnCard
<1>3. CASE n > 0
  <2>1. Layer(a) >= 1 BY <1>1, <1>3
  <2>2. n * Layer(a) \in Nat /\ n * 1 <= n * Layer(a) BY <1>1, <2>1, TimesNat, TimesMono
  <2>3. n * Layer(a) > 0 BY <1>3, <2>2
  <2>4. BudgetOf(a, m) = IF m.vram > Buffers(a) THEN m.vram - Buffers(a) ELSE 0
    BY DEF BudgetOf, Minus
  <2>5. OnCard(a, n) = n * Layer(a) + Buffers(a) BY <1>3 DEF OnCard
  <2> QED BY <1>1, <2>2, <2>3, <2>4, <2>5
<1> QED BY <1>2, <1>3

\* One more than the loop placed does not.
LEMMA BeyondBudget ==
    ASSUME NEW a \in Asks, NEW m \in Memory, NEW i, Filled(a, m, i),
           NEW n \in Nat, n > i, n <= Blocks(a)
    PROVE OnCard(a, n) > m.vram
<1>1. m.vram \in Nat /\ BudgetOf(a, m) \in Nat /\ Buffers(a) \in Nat /\ Layer(a) \in Nat
      /\ Blocks(a) \in Nat
  BY RoomNat, Sizes
<1>2. i \in Nat /\ i < Blocks(a) /\ (i + 1) * Layer(a) > BudgetOf(a, m) BY <1>1 DEF Filled
<1>3. i + 1 \in Nat /\ i + 1 <= n BY <1>2
<1>4. /\ (i + 1) * Layer(a) \in Nat /\ n * Layer(a) \in Nat
      /\ (i + 1) * Layer(a) <= n * Layer(a)
  BY <1>1, <1>3, TimesNat, TimesMono
<1>5. n * Layer(a) > BudgetOf(a, m) BY <1>1, <1>2, <1>4
<1>6. BudgetOf(a, m) = IF m.vram > Buffers(a) THEN m.vram - Buffers(a) ELSE 0
  BY DEF BudgetOf, Minus
<1>7. OnCard(a, n) = n * Layer(a) + Buffers(a) BY <1>2 DEF OnCard
<1> QED BY <1>1, <1>4, <1>5, <1>6, <1>7

LEMMA UnverifiedWithin ==
    ASSUME NEW a \in Asks, NEW m \in Memory, ~Header[a.model].known, NEW n,
           n = IF PerBlock(a) = 0 THEN 0 ELSE Least(BudgetOf(a, m) \div PerBlock(a), Blocks(a))
    PROVE n \in Nat /\ n <= Blocks(a) /\ n * Layer(a) <= BudgetOf(a, m)
<1>1. /\ Blocks(a) \in Nat /\ PerBlock(a) \in Nat /\ Layer(a) = PerBlock(a)
      /\ BudgetOf(a, m) \in Nat
  BY Sizes, RoomNat
<1>2. CASE PerBlock(a) = 0
  <2>1. n = 0 /\ 0 * Layer(a) = 0 BY <1>1, <1>2
  <2> QED BY <1>1, <2>1
<1>3. CASE PerBlock(a) # 0
  <2> DEFINE q == BudgetOf(a, m) \div PerBlock(a)
  <2>1. q \in Nat /\ q * PerBlock(a) <= BudgetOf(a, m) BY <1>1, <1>3, Quotient
  <2>2. n = Least(q, Blocks(a)) BY <1>3
  <2> HIDE DEF q
  <2>3. n \in Nat /\ n <= q /\ n <= Blocks(a) BY <1>1, <2>1, <2>2 DEF Least
  <2>4. n * PerBlock(a) \in Nat /\ q * PerBlock(a) \in Nat /\ n * PerBlock(a) <= q * PerBlock(a)
    BY <1>1, <2>1, <2>3, TimesNat, TimesMono
  <2> QED BY <1>1, <2>1, <2>3, <2>4
<1> QED BY <1>2, <1>3

\* What is launched fits the memory it was judged by.
LEMMA GroundsFit ==
    ASSUME NEW a \in Asks, NEW m \in Memory, NEW kind \in Kinds \ {"exceeds_machine"}, NEW n,
           Grounds(a, m, kind, n)
    PROVE /\ n \in Nat /\ n <= Blocks(a) /\ OnCard(a, n) <= m.vram
          /\ kind \in {"gpu_cpu_split", "cpu_only"} => Remainder(a, n) <= m.ram
<1>1. m.vram \in Nat /\ Need(a) \in Nat /\ Blocks(a) \in Nat
  BY RoomNat, Sizes
<1>2. CASE kind \in {"fits_fully", "fits_tight"}
  <2>1. n = Blocks(a) /\ Need(a) <= m.vram
    <3>1. CASE kind = "fits_fully"
      <4>1. n = Blocks(a) /\ Need(a) <= Minus(m.vram, Tenth(m.vram))
        BY <3>1 DEF Grounds, Comfortable
      <4>2. Minus(m.vram, Tenth(m.vram)) \in Nat /\ Minus(m.vram, Tenth(m.vram)) <= m.vram
        BY <1>1, MarginMono
      <4> QED BY <1>1, <4>1, <4>2
    <3>2. CASE kind = "fits_tight" BY <3>2 DEF Grounds
    <3> QED BY <1>2, <3>1, <3>2
  <2>2. OnCard(a, n) <= Need(a) BY <2>1, CardFull
  <2>3. OnCard(a, n) \in Nat BY <1>1, <2>1, CardGrows
  <2> QED BY <1>1, <1>2, <2>1, <2>2, <2>3
<1>3. CASE kind = "gpu_cpu_split"
  <2>1. Filled(a, m, n) /\ Remainder(a, n) <= m.ram BY <1>3 DEF Grounds
  <2>2. n \in Nat /\ n <= Blocks(a) /\ n * Layer(a) <= BudgetOf(a, m) BY <2>1 DEF Filled
  <2> QED BY <2>1, <2>2, WithinBudget
<1>4. CASE kind = "cpu_only"
  <2>1. n = 0 /\ Filled(a, m, n) /\ Remainder(a, n) <= m.ram BY <1>4 DEF Grounds
  <2>2. n \in Nat /\ n <= Blocks(a) /\ n * Layer(a) <= BudgetOf(a, m) BY <2>1 DEF Filled
  <2> QED BY <2>1, <2>2, WithinBudget
<1>5. CASE kind = "unverified_arch"
  <2>1. /\ ~Header[a.model].known
        /\ n = IF PerBlock(a) = 0 THEN 0 ELSE Least(BudgetOf(a, m) \div PerBlock(a), Blocks(a))
    BY <1>5 DEF Grounds
  <2>2. n \in Nat /\ n <= Blocks(a) /\ n * Layer(a) <= BudgetOf(a, m) BY <2>1, UnverifiedWithin
  <2> QED BY <1>5, <2>2, WithinBudget
<1> QED BY <1>2, <1>3, <1>4, <1>5 DEF Kinds

\* What is refused fits with no number of layers, and a split placed as many as fit.
LEMMA GroundsRefuse ==
    ASSUME NEW a \in Asks, NEW m \in Memory, NEW kind, NEW n, Grounds(a, m, kind, n),
           NEW i \in Nat, i <= Blocks(a)
    PROVE /\ kind = "exceeds_machine" => ~Fits(a, i, m.vram, m.ram)
          /\ kind \in {"gpu_cpu_split", "cpu_only"} /\ i > n => OnCard(a, i) > m.vram
<1>1. ASSUME kind = "exceeds_machine" PROVE ~Fits(a, i, m.vram, m.ram)
  <2>1. PICK j \in Nat : Filled(a, m, j) /\ Remainder(a, j) > m.ram BY <1>1 DEF Grounds
  <2>2. j <= Blocks(a) BY <2>1 DEF Filled
  <2>3. m.vram \in Nat /\ m.ram \in Nat BY RoomNat
  <2>4. CASE i > j
    <3>1. OnCard(a, i) > m.vram BY <2>1, <2>4, BeyondBudget
    <3>2. OnCard(a, i) \in Nat BY CardGrows
    <3> QED BY <2>3, <3>1, <3>2 DEF Fits
  <2>5. CASE i <= j
    <3>1. Remainder(a, j) <= Remainder(a, i) BY <2>2, <2>5, RemainderFalls
    <3>2. Remainder(a, i) \in Nat /\ Remainder(a, j) \in Nat BY <2>2, RemainderOf
    <3> QED BY <2>1, <2>3, <3>1, <3>2 DEF Fits
  <2> QED BY <2>4, <2>5
<1>2. ASSUME kind \in {"gpu_cpu_split", "cpu_only"}, i > n PROVE OnCard(a, i) > m.vram
  <2>1. Filled(a, m, n) BY <1>2 DEF Grounds
  <2> QED BY <1>2, <2>1, BeyondBudget
<1> QED BY <1>1, <1>2

\* A lighter request with no less memory places no fewer layers,
LEMMA FilledOrder ==
    ASSUME NEW a \in Asks, NEW b \in Asks, NEW m \in Memory, NEW w \in Memory,
           Lighter(a, b), m.vram >= w.vram, NEW i, NEW j, Filled(a, m, i), Filled(b, w, j)
    PROVE j <= i
<1>1. /\ i \in Nat /\ i <= Blocks(a) /\ j \in Nat /\ j <= Blocks(b)
      /\ j * Layer(b) <= BudgetOf(b, w)
      /\ i < Blocks(a) => (i + 1) * Layer(a) > BudgetOf(a, m)
  BY DEF Filled
<1>2. /\ Layer(a) \in Nat /\ Layer(b) \in Nat /\ Buffers(a) \in Nat /\ Buffers(b) \in Nat
      /\ Blocks(a) \in Nat /\ Blocks(b) \in Nat
  BY Sizes
<1>3. Blocks(a) = Blocks(b) /\ Layer(a) <= Layer(b) /\ Buffers(a) <= Buffers(b) BY SizesGrow
<1>4. m.vram \in Nat /\ w.vram \in Nat /\ BudgetOf(a, m) \in Nat /\ BudgetOf(b, w) \in Nat
  BY RoomNat
<1>5. BudgetOf(b, w) <= BudgetOf(a, m) BY <1>2, <1>3, <1>4, MinusMono DEF BudgetOf
<1>6. ASSUME j > i PROVE FALSE
  <2>1. i + 1 \in Nat /\ i + 1 <= j /\ i < Blocks(a) BY <1>1, <1>2, <1>3, <1>6
  <2>2. /\ (i + 1) * Layer(a) <= j * Layer(a) /\ j * Layer(a) <= j * Layer(b)
        /\ (i + 1) * Layer(a) \in Nat /\ j * Layer(a) \in Nat /\ j * Layer(b) \in Nat
    BY <1>1, <1>2, <1>3, <2>1, TimesNat, TimesMono
  <2> QED BY <1>1, <1>4, <1>5, <2>1, <2>2
<1> QED BY <1>1, <1>6

\* gets no worse a verdict, and no fewer layers to launch with.
LEMMA GroundsOrder ==
    ASSUME NEW a \in Asks, NEW b \in Asks, NEW m \in Memory, NEW w \in Memory,
           Lighter(a, b), m.vram >= w.vram, m.ram >= w.ram,
           NEW k \in Kinds, NEW l \in Kinds, NEW n, NEW o,
           Grounds(a, m, k, n), Grounds(b, w, l, o)
    PROVE Rank[k] <= Rank[l] /\ n >= o
<1>1. /\ m.vram \in Nat /\ m.ram \in Nat /\ w.vram \in Nat /\ w.ram \in Nat
      /\ Need(a) \in Nat /\ Need(b) \in Nat /\ Need(a) <= Need(b)
      /\ Blocks(a) \in Nat /\ Blocks(a) = Blocks(b)
  BY RoomNat, Sizes, SizesGrow
<1>2. Header[a.model] = Header[b.model] BY DEF Lighter
<1>3. k = "unverified_arch" <=> l = "unverified_arch"
  BY <1>2 DEF Grounds
<1>4. /\ Minus(m.vram, Tenth(m.vram)) \in Nat /\ Minus(w.vram, Tenth(w.vram)) \in Nat
      /\ Minus(m.vram, Tenth(m.vram)) <= m.vram
      /\ Minus(w.vram, Tenth(w.vram)) <= w.vram
      /\ Minus(w.vram, Tenth(w.vram)) <= Minus(m.vram, Tenth(m.vram))
  BY <1>1, MarginMono
<1>5. Comfortable(b, w) => Comfortable(a, m) BY <1>1, <1>4 DEF Comfortable
<1>6. k \in {"fits_fully", "fits_tight"} <=> k # "unverified_arch" /\ Need(a) <= m.vram
  <2>1. k = "fits_fully" => Need(a) <= m.vram BY <1>1, <1>4 DEF Grounds, Comfortable
  <2>2. k = "fits_tight" => Need(a) <= m.vram BY DEF Grounds
  <2>3. k \in {"gpu_cpu_split", "cpu_only", "exceeds_machine"} => Need(a) > m.vram BY DEF Grounds
  <2> QED BY <1>1, <2>1, <2>2, <2>3 DEF Kinds
<1>7. k \in {"fits_fully", "fits_tight"} => n = Blocks(a) BY DEF Grounds
<1>8. CASE l = "unverified_arch"
  <2>1. /\ k = "unverified_arch" /\ ~Header[a.model].known /\ ~Header[b.model].known
        /\ n = IF PerBlock(a) = 0 THEN 0
               ELSE Least(BudgetOf(a, m) \div PerBlock(a), Blocks(a))
        /\ o = IF PerBlock(b) = 0 THEN 0
               ELSE Least(BudgetOf(b, w) \div PerBlock(b), Blocks(b))
    BY <1>3, <1>8 DEF Grounds
  <2>2. /\ PerBlock(a) = PerBlock(b) /\ PerBlock(a) \in Nat /\ Buffers(a) <= Buffers(b)
        /\ Buffers(a) \in Nat /\ Buffers(b) \in Nat
    BY Sizes, SizesGrow
  <2>3. BudgetOf(a, m) \in Nat /\ BudgetOf(b, w) \in Nat /\ BudgetOf(b, w) <= BudgetOf(a, m)
    BY <1>1, <2>2, RoomNat, MinusMono DEF BudgetOf
  <2>4. n >= o
    <3>1. CASE PerBlock(a) = 0 BY <2>1, <2>2, <3>1
    <3>2. CASE PerBlock(a) # 0
      <4>1. /\ BudgetOf(a, m) \div PerBlock(a) \in Nat /\ BudgetOf(b, w) \div PerBlock(a) \in Nat
            /\ BudgetOf(b, w) \div PerBlock(a) <= BudgetOf(a, m) \div PerBlock(a)
        BY <2>2, <2>3, <3>2, Quotient, QuotientMono
      <4> QED BY <1>1, <2>1, <2>2, <3>2, <4>1 DEF Least
    <3> QED BY <3>1, <3>2
  <2> QED BY <1>8, <2>1, <2>4 DEF Rank
<1>9. CASE l = "fits_fully"
  <2>1. Comfortable(a, m) /\ o = Blocks(a) BY <1>1, <1>5, <1>9 DEF Grounds
  <2>2. Need(a) <= m.vram BY <1>1, <1>4, <2>1 DEF Comfortable
  <2>3. k \in {"fits_fully", "fits_tight"} BY <1>3, <1>6, <1>9, <2>2
  <2>4. k = "fits_fully" BY <2>1, <2>3 DEF Grounds
  <2> QED BY <1>1, <1>7, <1>9, <2>1, <2>4 DEF Rank
<1>10. CASE l = "fits_tight"
  <2>1. Need(b) <= w.vram /\ o = Blocks(a) BY <1>1, <1>10 DEF Grounds
  <2>2. k \in {"fits_fully", "fits_tight"} BY <1>1, <1>3, <1>6, <1>10, <2>1
  <2> QED BY <1>1, <1>7, <1>10, <2>1, <2>2 DEF Rank
<1>11. CASE l \in {"gpu_cpu_split", "cpu_only"}
  <2>1. Filled(b, w, o) /\ Remainder(b, o) <= w.ram BY <1>11 DEF Grounds
  <2>2. o \in Nat /\ o <= Blocks(a) BY <1>1, <2>1 DEF Filled
  <2>3. l = "gpu_cpu_split" => o > 0 BY DEF Grounds
  <2>4. CASE k \in {"fits_fully", "fits_tight"}
    BY <1>1, <1>7, <1>11, <2>2, <2>4 DEF Rank
  <2>5. CASE k \in {"gpu_cpu_split", "cpu_only"}
    <3>1. Filled(a, m, n) BY <2>5 DEF Grounds
    <3>2. n \in Nat /\ o <= n BY <2>1, <3>1, FilledOrder DEF Filled
    <3>3. k = "cpu_only" => n = 0 BY DEF Grounds
    <3>4. l = "gpu_cpu_split" => k = "gpu_cpu_split" BY <2>2, <2>3, <2>5, <3>2, <3>3
    <3> QED BY <1>11, <2>2, <2>5, <3>2, <3>4 DEF Rank
  <2>6. CASE k = "exceeds_machine"
    <3>1. PICK i \in Nat : Filled(a, m, i) /\ Remainder(a, i) > m.ram BY <2>6 DEF Grounds
    <3>2. o <= i /\ i <= Blocks(a) BY <2>1, <3>1, FilledOrder DEF Filled
    <3>3. Remainder(a, i) <= Remainder(a, o) BY <2>2, <3>2, RemainderFalls
    <3>4. Remainder(a, o) <= Remainder(b, o) BY <2>2, RemainderGrows
    <3>5. Remainder(a, i) \in Nat /\ Remainder(a, o) \in Nat /\ Remainder(b, o) \in Nat
      BY <1>1, <2>2, <3>2, RemainderOf
    <3> QED BY <1>1, <2>1, <3>1, <3>3, <3>4, <3>5
  <2> QED BY <1>3, <1>11, <2>4, <2>5, <2>6 DEF Kinds
<1>12. CASE l = "exceeds_machine"
  <2>1. o = 0 BY <1>12 DEF Grounds
  <2>2. n >= 0
    <3>1. CASE k = "exceeds_machine" BY <3>1 DEF Grounds
    <3>2. CASE k # "exceeds_machine" BY <3>2, GroundsFit
    <3> QED BY <3>1, <3>2
  <2>3. Rank[k] <= 4 BY <1>3, <1>12 DEF Rank, Kinds
  <2> QED BY <1>12, <2>1, <2>2, <2>3 DEF Rank
<1> QED BY <1>8, <1>9, <1>10, <1>11, <1>12 DEF Kinds

----------------------------------------------------------------------------
(* The inductive invariant.  It speaks of one evaluation's record at a     *)
(* time: p where it is, a what it was asked, m the memory it may use,      *)
(* n and u the layers it placed and their bytes, v its verdict, and s what *)
(* other programs held.                                                    *)

Underway(p, a, m, n, u, v) ==
    /\ p \in {"idle", "probed", "measured"} => v = None /\ n = 0 /\ u = 0
    /\ p = "placing" =>
          /\ v = None /\ Header[a.model].known /\ Need(a) > m.vram
          /\ n <= Blocks(a) /\ u = n * Layer(a) /\ u <= BudgetOf(a, m)
    /\ p = "judged" => v # None

Reserved(m, s) ==
    /\ m.vram > 0 => m.vram + s.vram + DisplayHeadroom <= VramTotal
    /\ m.ram > 0 => m.ram + s.ram + OsHeadroom <= RamTotal

Sound(p, a, m, n, u, v, s) ==
    /\ Underway(p, a, m, n, u, v)
    /\ v # None => Grounds(a, m, v, n)
    /\ Reserved(m, s)

Loaded == sidecar # None => pc[sidecar] = "done" /\ verdict[sidecar] \in Kinds \ {"exceeds_machine"}

AllSound ==
    \A e \in Evals :
        Sound(pc[e], ask[e], avail[e], ngl[e], used[e], verdict[e], seen[e])

FitInv == TypeOK /\ AllSound /\ Loaded

\* A record of e that stays sound leaves all sound, as the others do not change.
LEMMA OneSound ==
    ASSUME AllSound, NEW e \in Evals,
           \A f \in Evals \ {e} :
               /\ pc'[f] = pc[f] /\ ask'[f] = ask[f] /\ avail'[f] = avail[f] /\ ngl'[f] = ngl[f]
               /\ used'[f] = used[f] /\ verdict'[f] = verdict[f] /\ seen'[f] = seen[f],
           Sound(pc'[e], ask'[e], avail'[e], ngl'[e], used'[e], verdict'[e], seen'[e])
    PROVE AllSound'
<1> SUFFICES ASSUME NEW f \in Evals
             PROVE Sound(pc'[f], ask'[f], avail'[f], ngl'[f], used'[f], verdict'[f], seen'[f])
  BY DEF AllSound
<1>1. CASE f = e BY <1>1
<1>2. CASE f # e
  <2>1. Sound(pc[f], ask[f], avail[f], ngl[f], used[f], verdict[f], seen[f]) BY DEF AllSound
  <2> QED BY <1>2, <2>1
<1> QED BY <1>1, <1>2

LEMMA InitSound == Init => FitInv
<1> SUFFICES ASSUME Init PROVE FitInv OBVIOUS
<1>1. \A e \in Evals : ask[e] \in Asks /\ Blocks(ask[e]) \in Nat BY Sizes DEF Init
<1>2. Nothing \in Memory BY DEF Nothing, Memory
<1>3. Nothing \in [vram: 0..VramTotal, ram: 0..RamTotal] BY ConstantsNat DEF Nothing
<1>4. TypeOK
  <2>1. pc \in [Evals -> {"idle", "probed", "measured", "placing", "judged", "done"}] BY DEF Init
  <2>2. ASSUME NEW e \in Evals PROVE ngl[e] <= Blocks(ask[e])
    <3>1. ngl[e] = 0 /\ Blocks(ask[e]) \in Nat BY <1>1 DEF Init
    <3> QED BY <3>1
  <2>3. avail \in [Evals -> Memory] BY <1>2 DEF Init
  <2>4. seen \in [Evals -> [vram: 0..VramTotal, ram: 0..RamTotal]] BY <1>3 DEF Init
  <2> QED BY <2>1, <2>2, <2>3, <2>4 DEF Init, TypeOK
<1>5. AllSound
  <2> SUFFICES ASSUME NEW e \in Evals
               PROVE Sound(pc[e], ask[e], avail[e], ngl[e], used[e], verdict[e], seen[e])
    BY DEF AllSound
  <2>1. /\ pc[e] = "idle" /\ avail[e] = Nothing /\ ngl[e] = 0 /\ used[e] = 0
        /\ verdict[e] = None
    BY DEF Init
  <2>2. Reserved(Nothing, seen[e]) BY DEF Reserved, Nothing
  <2>3. Underway("idle", ask[e], Nothing, 0, 0, None) BY DEF Underway
  <2> QED BY <2>1, <2>2, <2>3 DEF Sound
<1>6. Loaded BY DEF Init, Loaded
<1> QED BY <1>4, <1>5, <1>6 DEF FitInv

LEMMA EvalTypes ==
    ASSUME TypeOK, NEW e \in Evals
    PROVE /\ ask[e] \in Asks /\ avail[e] \in Memory /\ ngl[e] \in Nat /\ used[e] \in Nat
          /\ verdict[e] \in Kinds \cup {None} /\ ngl[e] <= Blocks(ask[e])
          /\ seen[e] \in [vram: 0..VramTotal, ram: 0..RamTotal]
BY DEF TypeOK

\* A judgement on good grounds keeps everything.
LEMMA JudgeSound ==
    ASSUME FitInv, NEW e \in Evals, NEW kind \in Kinds, NEW n \in Nat, NEW from,
           Judge(e, from, kind, n), from \in {"measured", "placing"},
           n <= Blocks(ask[e]), Grounds(ask[e], avail[e], kind, n)
    PROVE FitInv'
<1>1. kind # None BY FitAssumption
<1>2. /\ pc[e] = from /\ pc' = [pc EXCEPT ![e] = "judged"]
      /\ verdict' = [verdict EXCEPT ![e] = kind] /\ ngl' = [ngl EXCEPT ![e] = n]
      /\ used' = [used EXCEPT ![e] = 0]
      /\ UNCHANGED <<ask, avail, seen, sidecar, serving, others>>
  BY DEF Judge, Move, machine
<1>3. TypeOK'
  <2>1. pc' \in [Evals -> {"idle", "probed", "measured", "placing", "judged", "done"}]
    BY <1>2 DEF FitInv, TypeOK
  <2>2. \A f \in Evals : ngl'[f] <= Blocks(ask'[f]) BY <1>2 DEF FitInv, TypeOK
  <2>3. /\ ngl' \in [Evals -> Nat] /\ used' \in [Evals -> Nat]
        /\ verdict' \in [Evals -> Kinds \cup {None}]
    BY <1>2 DEF FitInv, TypeOK
  <2> QED BY <1>2, <2>1, <2>2, <2>3 DEF FitInv, TypeOK
<1>4. Sound(pc[e], ask[e], avail[e], ngl[e], used[e], verdict[e], seen[e]) BY DEF FitInv, AllSound
<1>5. Reserved(avail[e], seen[e]) BY <1>4 DEF Sound
<1>6. Underway("judged", ask[e], avail[e], n, 0, kind) BY <1>1 DEF Underway
<1>7. /\ pc'[e] = "judged" /\ verdict'[e] = kind /\ ngl'[e] = n /\ used'[e] = 0
      /\ ask'[e] = ask[e] /\ avail'[e] = avail[e] /\ seen'[e] = seen[e]
  BY <1>2 DEF FitInv, TypeOK
<1>8. Sound("judged", ask[e], avail[e], n, 0, kind, seen[e]) BY <1>5, <1>6 DEF Sound
<1>9. AllSound'
  <2>1. \A f \in Evals \ {e} :
            /\ pc'[f] = pc[f] /\ ask'[f] = ask[f] /\ avail'[f] = avail[f] /\ ngl'[f] = ngl[f]
            /\ used'[f] = used[f] /\ verdict'[f] = verdict[f] /\ seen'[f] = seen[f]
    BY <1>2 DEF FitInv, TypeOK
  <2> QED BY <1>7, <1>8, <2>1, OneSound DEF FitInv
<1>10. Loaded'
  <2>1. ASSUME sidecar # None PROVE pc'[sidecar] = "done" /\ verdict'[sidecar] \in Kinds \ {"exceeds_machine"}
    <3>1. pc[sidecar] = "done" /\ verdict[sidecar] \in Kinds \ {"exceeds_machine"} /\ sidecar \in Evals
      BY <2>1 DEF FitInv, Loaded, TypeOK
    <3>2. sidecar # e BY <1>2, <3>1
    <3> QED BY <1>2, <3>1, <3>2 DEF FitInv, TypeOK
  <2> QED BY <1>2, <2>1 DEF Loaded
<1> QED BY <1>3, <1>9, <1>10 DEF FitInv

LEMMA EvalSound ==
    ASSUME FitInv, NEW e \in Evals
    PROVE /\ ask[e] \in Asks /\ avail[e] \in Memory /\ ngl[e] \in Nat /\ used[e] \in Nat
          /\ ngl[e] <= Blocks(ask[e])
          /\ Sound(pc[e], ask[e], avail[e], ngl[e], used[e], verdict[e], seen[e])
          /\ Budget(e) = BudgetOf(ask[e], avail[e])
BY EvalTypes DEF FitInv, AllSound, Budget, BudgetOf

LEMMA UnverifiedSound == ASSUME FitInv, NEW e \in Evals, Unverified(e) PROVE FitInv'
<1> DEFINE n == IF PerBlock(ask[e]) = 0 THEN 0
                ELSE Least(Budget(e) \div PerBlock(ask[e]), Blocks(ask[e]))
<1>1. ~Header[ask[e].model].known /\ Judge(e, "measured", "unverified_arch", n)
  BY DEF Unverified, Known
<1>2. n = IF PerBlock(ask[e]) = 0 THEN 0
          ELSE Least(BudgetOf(ask[e], avail[e]) \div PerBlock(ask[e]), Blocks(ask[e]))
  BY EvalSound
<1> HIDE DEF n
<1>3. ask[e] \in Asks /\ avail[e] \in Memory BY EvalSound
<1>4. n \in Nat /\ n <= Blocks(ask[e]) BY <1>1, <1>2, <1>3, UnverifiedWithin
<1>5. Grounds(ask[e], avail[e], "unverified_arch", n) BY <1>1, <1>2 DEF Grounds
<1>6. "unverified_arch" \in Kinds BY DEF Kinds
<1> QED BY <1>1, <1>4, <1>5, <1>6, JudgeSound

LEMMA FitsSound == ASSUME FitInv, NEW e \in Evals, FitsFully(e) \/ FitsTight(e) PROVE FitInv'
<1>1. ask[e] \in Asks /\ avail[e] \in Memory BY EvalSound
<1>2. Blocks(ask[e]) \in Nat /\ Blocks(ask[e]) <= Blocks(ask[e]) BY <1>1, Sizes
<1>3. "fits_fully" \in Kinds /\ "fits_tight" \in Kinds BY DEF Kinds
<1>4. CASE FitsFully(e)
  <2>1. /\ Header[ask[e].model].known /\ Comfortable(ask[e], avail[e])
        /\ Judge(e, "measured", "fits_fully", Blocks(ask[e]))
    BY <1>4 DEF FitsFully, Known, Comfortable
  <2>2. Grounds(ask[e], avail[e], "fits_fully", Blocks(ask[e])) BY <2>1 DEF Grounds
  <2> QED BY <1>2, <1>3, <2>1, <2>2, JudgeSound
<1>5. CASE FitsTight(e)
  <2>1. /\ Header[ask[e].model].known
        /\ Need(ask[e]) > Minus(avail[e].vram, Tenth(avail[e].vram))
        /\ Need(ask[e]) <= avail[e].vram
        /\ Judge(e, "measured", "fits_tight", Blocks(ask[e]))
    BY <1>5 DEF FitsTight, Known
  <2>2. Need(ask[e]) \in Nat /\ avail[e].vram \in Nat BY <1>1, Sizes, RoomNat
  <2>3. Minus(avail[e].vram, Tenth(avail[e].vram)) \in Nat BY <2>2, MarginMono
  <2>4. ~Comfortable(ask[e], avail[e]) BY <2>1, <2>2, <2>3 DEF Comfortable
  <2>5. Grounds(ask[e], avail[e], "fits_tight", Blocks(ask[e])) BY <2>1, <2>4 DEF Grounds
  <2> QED BY <1>2, <1>3, <2>1, <2>5, JudgeSound
<1> QED BY <1>4, <1>5

\* Where no further layer would fit, the loop has filled the budget.
LEMMA PlacedFilled ==
    ASSUME FitInv, NEW e \in Evals, pc[e] = "placing", ~Room(e)
    PROVE /\ Header[ask[e].model].known /\ Need(ask[e]) > avail[e].vram
          /\ Filled(ask[e], avail[e], ngl[e])
<1>1. /\ ask[e] \in Asks /\ avail[e] \in Memory /\ ngl[e] \in Nat
      /\ Sound(pc[e], ask[e], avail[e], ngl[e], used[e], verdict[e], seen[e])
      /\ Budget(e) = BudgetOf(ask[e], avail[e])
  BY EvalSound
<1>2. /\ Header[ask[e].model].known /\ Need(ask[e]) > avail[e].vram
      /\ ngl[e] <= Blocks(ask[e]) /\ used[e] = ngl[e] * Layer(ask[e])
      /\ used[e] <= BudgetOf(ask[e], avail[e])
  BY <1>1 DEF Sound, Underway
<1>3. /\ Layer(ask[e]) \in Nat /\ BudgetOf(ask[e], avail[e]) \in Nat /\ Blocks(ask[e]) \in Nat
  BY <1>1, Sizes, RoomNat
<1>4. /\ (ngl[e] + 1) * Layer(ask[e]) = used[e] + Layer(ask[e])
      /\ used[e] \in Nat
  BY <1>1, <1>2, <1>3, TimesPlus, TimesNat
<1>5. ngl[e] < Blocks(ask[e]) => used[e] + Layer(ask[e]) > BudgetOf(ask[e], avail[e])
  BY <1>1, <1>3, <1>4 DEF Room
<1> QED BY <1>1, <1>2, <1>4, <1>5 DEF Filled

LEMMA PlacingEndsSound ==
    ASSUME FitInv, NEW e \in Evals, GpuCpuSplit(e) \/ CpuOnly(e) \/ Exceeds(e) PROVE FitInv'
<1>1. pc[e] = "placing" /\ ~Room(e) BY DEF GpuCpuSplit, CpuOnly, Exceeds, Judge, Move
<1>2. /\ Header[ask[e].model].known /\ Need(ask[e]) > avail[e].vram
      /\ Filled(ask[e], avail[e], ngl[e])
  BY <1>1, PlacedFilled
<1>3. ask[e] \in Asks /\ avail[e] \in Memory /\ ngl[e] \in Nat /\ ngl[e] <= Blocks(ask[e])
  BY EvalSound
<1>4. /\ Remainder(ask[e], 0) = Weights(ask[e]) + Kv(ask[e]) /\ Blocks(ask[e]) \in Nat
  BY <1>3, RemainderWhole, Sizes
<1>5. {"gpu_cpu_split", "cpu_only", "exceeds_machine"} \subseteq Kinds BY DEF Kinds
<1>6. CASE GpuCpuSplit(e)
  <2>1. /\ ngl[e] > 0 /\ Remainder(ask[e], ngl[e]) <= avail[e].ram
        /\ Judge(e, "placing", "gpu_cpu_split", ngl[e])
    BY <1>6 DEF GpuCpuSplit
  <2>2. Grounds(ask[e], avail[e], "gpu_cpu_split", ngl[e]) BY <1>2, <2>1 DEF Grounds
  <2> QED BY <1>3, <1>5, <2>1, <2>2, JudgeSound
<1>7. CASE CpuOnly(e)
  <2>1. /\ ngl[e] = 0 /\ Weights(ask[e]) + Kv(ask[e]) <= avail[e].ram
        /\ Judge(e, "placing", "cpu_only", 0)
    BY <1>7 DEF CpuOnly
  <2>2. Filled(ask[e], avail[e], 0) /\ Remainder(ask[e], 0) <= avail[e].ram
    BY <1>2, <1>4, <2>1
  <2>3. Grounds(ask[e], avail[e], "cpu_only", 0) BY <1>2, <2>2 DEF Grounds
  <2>4. 0 \in Nat /\ 0 <= Blocks(ask[e]) BY <1>4
  <2> QED BY <1>5, <2>1, <2>3, <2>4, JudgeSound
<1>8. CASE Exceeds(e)
  <2>1. Judge(e, "placing", "exceeds_machine", 0) BY <1>8 DEF Exceeds
  <2>2. Remainder(ask[e], ngl[e]) > avail[e].ram
    <3>1. IF ngl[e] > 0 THEN Remainder(ask[e], ngl[e]) > avail[e].ram
          ELSE Weights(ask[e]) + Kv(ask[e]) > avail[e].ram
      BY <1>8 DEF Exceeds
    <3>2. CASE ngl[e] > 0 BY <3>1, <3>2
    <3>3. CASE ngl[e] = 0 BY <1>4, <3>1, <3>3
    <3> QED BY <1>3, <3>2, <3>3
  <2>3. \E i \in Nat : Filled(ask[e], avail[e], i) /\ Remainder(ask[e], i) > avail[e].ram
    BY <1>2, <1>3, <2>2
  <2>4. Grounds(ask[e], avail[e], "exceeds_machine", 0) BY <1>2, <2>3 DEF Grounds
  <2>5. 0 \in Nat /\ 0 <= Blocks(ask[e]) BY <1>4
  <2> QED BY <1>5, <2>1, <2>4, <2>5, JudgeSound
<1> QED BY <1>6, <1>7, <1>8

LEMMA LoadedKept ==
    ASSUME FitInv, NEW e \in Evals, NEW from, NEW to, Move(e, from, to), from # "done",
           verdict' = verdict, sidecar' = sidecar
    PROVE Loaded'
<1> SUFFICES ASSUME sidecar # None
             PROVE pc'[sidecar] = "done" /\ verdict[sidecar] \in Kinds \ {"exceeds_machine"}
  BY DEF Loaded
<1>1. /\ pc[sidecar] = "done" /\ verdict[sidecar] \in Kinds \ {"exceeds_machine"}
      /\ sidecar \in Evals
  BY DEF FitInv, Loaded, TypeOK
<1>2. sidecar # e BY <1>1 DEF Move
<1> QED BY <1>1, <1>2 DEF Move, FitInv, TypeOK

LEMMA SidecarNat == ASSUME FitInv PROVE SidecarVram \in Nat /\ SidecarRam \in Nat
<1>1. CASE sidecar # None /\ serving
  <2>1. sidecar \in Evals BY <1>1 DEF FitInv, TypeOK
  <2>2. ask[sidecar] \in Asks /\ ngl[sidecar] \in Nat /\ ngl[sidecar] <= Blocks(ask[sidecar])
    BY <2>1, EvalSound
  <2> QED BY <1>1, <2>2, CardGrows, RemainderOf DEF SidecarVram, SidecarRam
<1>2. CASE ~(sidecar # None /\ serving) BY <1>2 DEF SidecarVram, SidecarRam
<1> QED BY <1>1, <1>2

LEMMA OthersNat ==
    ASSUME TypeOK
    PROVE others.vram \in 0..VramTotal /\ others.ram \in 0..RamTotal
BY FitAssumption DEF TypeOK

\* What is free after others and the sidecar, less the headroom.
LEMMA FreeReserved ==
    ASSUME NEW total \in Nat, NEW o \in Nat, NEW s \in Nat, NEW h \in Nat
    PROVE /\ Minus(Minus(total, o + s), h) \in Nat
          /\ Minus(Minus(total, o + s), h) > 0 => Minus(Minus(total, o + s), h) + o + h <= total
BY DEF Minus

LEMMA MeasureVramSound == ASSUME FitInv, NEW e \in Evals, MeasureVram(e) PROVE FitInv'
<1> DEFINE v == Minus(Minus(VramTotal, others.vram + SidecarVram), DisplayHeadroom)
<1>1. /\ pc[e] = "idle" /\ pc' = [pc EXCEPT ![e] = "probed"]
      /\ avail' = [avail EXCEPT ![e].vram = v]
      /\ seen' = [seen EXCEPT ![e].vram = others.vram]
      /\ UNCHANGED <<ask, ngl, used, verdict, sidecar, serving, others>>
  BY DEF MeasureVram, Move, machine
<1>2. others.vram \in 0..VramTotal BY OthersNat DEF FitInv
<1>3. v \in Nat /\ (v > 0 => v + others.vram + DisplayHeadroom <= VramTotal)
  BY <1>2, SidecarNat, ConstantsNat, HeadroomsNat, FreeReserved
<1> HIDE DEF v
<1>4. /\ avail[e] \in Memory /\ seen[e] \in [vram: 0..VramTotal, ram: 0..RamTotal]
      /\ Sound(pc[e], ask[e], avail[e], ngl[e], used[e], verdict[e], seen[e])
  BY EvalSound, EvalTypes DEF FitInv
<1>5. /\ avail'[e] = [avail[e] EXCEPT !.vram = v]
      /\ seen'[e] = [seen[e] EXCEPT !.vram = others.vram]
      /\ pc'[e] = "probed"
  BY <1>1 DEF FitInv, TypeOK
<1>6. /\ avail'[e].vram = v /\ avail'[e].ram = avail[e].ram
      /\ seen'[e].vram = others.vram /\ seen'[e].ram = seen[e].ram
      /\ avail'[e] \in Memory /\ seen'[e] \in [vram: 0..VramTotal, ram: 0..RamTotal]
  BY <1>2, <1>3, <1>4, <1>5 DEF Memory
<1>7. TypeOK'
  <2>1. pc' \in [Evals -> {"idle", "probed", "measured", "placing", "judged", "done"}]
    BY <1>1 DEF FitInv, TypeOK
  <2>2. avail' \in [Evals -> Memory] BY <1>1, <1>6 DEF FitInv, TypeOK
  <2>3. seen' \in [Evals -> [vram: 0..VramTotal, ram: 0..RamTotal]]
    BY <1>1, <1>6 DEF FitInv, TypeOK
  <2> QED BY <1>1, <2>1, <2>2, <2>3 DEF FitInv, TypeOK
<1>8. Reserved(avail'[e], seen'[e]) BY <1>3, <1>4, <1>6 DEF Sound, Reserved
<1>9. verdict[e] = None /\ ngl[e] = 0 /\ used[e] = 0 BY <1>1, <1>4 DEF Sound, Underway
<1>10. Underway("probed", ask[e], avail'[e], 0, 0, None) BY DEF Underway
<1>11. Sound(pc'[e], ask'[e], avail'[e], ngl'[e], used'[e], verdict'[e], seen'[e])
  BY <1>1, <1>5, <1>8, <1>9, <1>10 DEF Sound
<1>12. AllSound'
  <2>1. \A f \in Evals \ {e} :
            /\ pc'[f] = pc[f] /\ ask'[f] = ask[f] /\ avail'[f] = avail[f] /\ ngl'[f] = ngl[f]
            /\ used'[f] = used[f] /\ verdict'[f] = verdict[f] /\ seen'[f] = seen[f]
    BY <1>1 DEF FitInv, TypeOK
  <2> QED BY <1>11, <2>1, OneSound DEF FitInv
<1>13. Loaded' BY <1>1, LoadedKept DEF Move
<1> QED BY <1>7, <1>12, <1>13 DEF FitInv

LEMMA MeasureRamSound == ASSUME FitInv, NEW e \in Evals, MeasureRam(e) PROVE FitInv'
<1> DEFINE v == Minus(Minus(RamTotal, others.ram + SidecarRam), OsHeadroom)
<1>1. /\ pc[e] = "probed" /\ pc' = [pc EXCEPT ![e] = "measured"]
      /\ avail' = [avail EXCEPT ![e].ram = v]
      /\ seen' = [seen EXCEPT ![e].ram = others.ram]
      /\ UNCHANGED <<ask, ngl, used, verdict, sidecar, serving, others>>
  BY DEF MeasureRam, Move, machine
<1>2. others.ram \in 0..RamTotal BY OthersNat DEF FitInv
<1>3. v \in Nat /\ (v > 0 => v + others.ram + OsHeadroom <= RamTotal)
  BY <1>2, SidecarNat, ConstantsNat, HeadroomsNat, FreeReserved
<1> HIDE DEF v
<1>4. /\ avail[e] \in Memory /\ seen[e] \in [vram: 0..VramTotal, ram: 0..RamTotal]
      /\ Sound(pc[e], ask[e], avail[e], ngl[e], used[e], verdict[e], seen[e])
  BY EvalSound, EvalTypes DEF FitInv
<1>5. /\ avail'[e] = [avail[e] EXCEPT !.ram = v]
      /\ seen'[e] = [seen[e] EXCEPT !.ram = others.ram]
      /\ pc'[e] = "measured"
  BY <1>1 DEF FitInv, TypeOK
<1>6. /\ avail'[e].ram = v /\ avail'[e].vram = avail[e].vram
      /\ seen'[e].ram = others.ram /\ seen'[e].vram = seen[e].vram
      /\ avail'[e] \in Memory /\ seen'[e] \in [vram: 0..VramTotal, ram: 0..RamTotal]
  BY <1>2, <1>3, <1>4, <1>5 DEF Memory
<1>7. TypeOK'
  <2>1. pc' \in [Evals -> {"idle", "probed", "measured", "placing", "judged", "done"}]
    BY <1>1 DEF FitInv, TypeOK
  <2>2. avail' \in [Evals -> Memory] BY <1>1, <1>6 DEF FitInv, TypeOK
  <2>3. seen' \in [Evals -> [vram: 0..VramTotal, ram: 0..RamTotal]]
    BY <1>1, <1>6 DEF FitInv, TypeOK
  <2> QED BY <1>1, <2>1, <2>2, <2>3 DEF FitInv, TypeOK
<1>8. Reserved(avail'[e], seen'[e]) BY <1>3, <1>4, <1>6 DEF Sound, Reserved
<1>9. verdict[e] = None /\ ngl[e] = 0 /\ used[e] = 0 BY <1>1, <1>4 DEF Sound, Underway
<1>10. Underway("measured", ask[e], avail'[e], 0, 0, None) BY DEF Underway
<1>11. Sound(pc'[e], ask'[e], avail'[e], ngl'[e], used'[e], verdict'[e], seen'[e])
  BY <1>1, <1>5, <1>8, <1>9, <1>10 DEF Sound
<1>12. AllSound'
  <2>1. \A f \in Evals \ {e} :
            /\ pc'[f] = pc[f] /\ ask'[f] = ask[f] /\ avail'[f] = avail[f] /\ ngl'[f] = ngl[f]
            /\ used'[f] = used[f] /\ verdict'[f] = verdict[f] /\ seen'[f] = seen[f]
    BY <1>1 DEF FitInv, TypeOK
  <2> QED BY <1>11, <2>1, OneSound DEF FitInv
<1>13. Loaded' BY <1>1, LoadedKept DEF Move
<1> QED BY <1>7, <1>12, <1>13 DEF FitInv

LEMMA MoveSound ==
    ASSUME FitInv, NEW e \in Evals, NEW from, NEW to \in {"placing", "done"}, Move(e, from, to),
           UNCHANGED <<ask, avail, ngl, used, verdict, seen>>,
           Underway(to, ask[e], avail[e], ngl[e], used[e], verdict[e])
    PROVE /\ pc' \in [Evals -> {"idle", "probed", "measured", "placing", "judged", "done"}]
          /\ AllSound'
<1>1. /\ pc' \in [Evals -> {"idle", "probed", "measured", "placing", "judged", "done"}]
      /\ pc'[e] = to /\ \A f \in Evals \ {e} : pc'[f] = pc[f]
  BY DEF FitInv, TypeOK, Move
<1>2. Sound(pc[e], ask[e], avail[e], ngl[e], used[e], verdict[e], seen[e]) BY EvalSound
<1>3. Sound(pc'[e], ask'[e], avail'[e], ngl'[e], used'[e], verdict'[e], seen'[e])
  BY <1>1, <1>2 DEF Sound
<1>4. AllSound' BY <1>1, <1>3, OneSound DEF FitInv
<1> QED BY <1>1, <1>4

LEMMA SplitsSound == ASSUME FitInv, NEW e \in Evals, Splits(e) PROVE FitInv'
<1>1. /\ Move(e, "measured", "placing") /\ Header[ask[e].model].known
      /\ Need(ask[e]) > avail[e].vram
      /\ UNCHANGED <<ask, avail, ngl, used, verdict, seen, sidecar, serving, others>>
  BY DEF Splits, Known, machine
<1>2. /\ ask[e] \in Asks /\ avail[e] \in Memory
      /\ Sound(pc[e], ask[e], avail[e], ngl[e], used[e], verdict[e], seen[e])
  BY EvalSound
<1>3. verdict[e] = None /\ ngl[e] = 0 /\ used[e] = 0
  BY <1>1, <1>2 DEF Sound, Underway, Move
<1>4. Layer(ask[e]) \in Nat /\ BudgetOf(ask[e], avail[e]) \in Nat /\ Blocks(ask[e]) \in Nat
  BY <1>2, Sizes, RoomNat
<1>5. 0 * Layer(ask[e]) = 0 BY <1>4
<1>6. Underway("placing", ask[e], avail[e], ngl[e], used[e], verdict[e])
  BY <1>1, <1>3, <1>4, <1>5 DEF Underway
<1>7. /\ pc' \in [Evals -> {"idle", "probed", "measured", "placing", "judged", "done"}]
      /\ AllSound'
  BY <1>1, <1>6, MoveSound
<1>8. TypeOK' BY <1>1, <1>7 DEF FitInv, TypeOK
<1>9. Loaded' BY <1>1, LoadedKept
<1> QED BY <1>7, <1>8, <1>9 DEF FitInv

LEMMA PlaceSound == ASSUME FitInv, NEW e \in Evals, Place(e) PROVE FitInv'
<1>1. /\ pc[e] = "placing" /\ ngl[e] < Blocks(ask[e])
      /\ used[e] + Layer(ask[e]) <= Budget(e)
      /\ ngl' = [ngl EXCEPT ![e] = @ + 1]
      /\ used' = [used EXCEPT ![e] = @ + Layer(ask[e])]
      /\ UNCHANGED <<pc, ask, avail, verdict, seen, sidecar, serving, others>>
  BY DEF Place, Room, machine
<1>2. /\ ask[e] \in Asks /\ avail[e] \in Memory /\ ngl[e] \in Nat
      /\ Sound(pc[e], ask[e], avail[e], ngl[e], used[e], verdict[e], seen[e])
      /\ Budget(e) = BudgetOf(ask[e], avail[e])
  BY EvalSound
<1>3. /\ verdict[e] = None /\ Header[ask[e].model].known /\ Need(ask[e]) > avail[e].vram
      /\ used[e] = ngl[e] * Layer(ask[e]) /\ Reserved(avail[e], seen[e])
  BY <1>1, <1>2 DEF Sound, Underway
<1>4. Layer(ask[e]) \in Nat /\ Blocks(ask[e]) \in Nat BY <1>2, Sizes
<1>5. used[e] \in Nat /\ (ngl[e] + 1) * Layer(ask[e]) = used[e] + Layer(ask[e])
  BY <1>2, <1>3, <1>4, TimesNat, TimesPlus
<1>6. ngl'[e] = ngl[e] + 1 /\ used'[e] = used[e] + Layer(ask[e])
  BY <1>1 DEF FitInv, TypeOK
<1>7. ngl[e] + 1 \in Nat /\ ngl[e] + 1 <= Blocks(ask[e]) BY <1>1, <1>2, <1>4
<1>8. Underway("placing", ask[e], avail[e], ngl[e] + 1, used[e] + Layer(ask[e]), None)
  BY <1>1, <1>2, <1>3, <1>5, <1>7 DEF Underway
<1>9. Sound(pc'[e], ask'[e], avail'[e], ngl'[e], used'[e], verdict'[e], seen'[e])
  BY <1>1, <1>3, <1>6, <1>8 DEF Sound
<1>10. \A f \in Evals \ {e} :
            /\ pc'[f] = pc[f] /\ ask'[f] = ask[f] /\ avail'[f] = avail[f] /\ ngl'[f] = ngl[f]
            /\ used'[f] = used[f] /\ verdict'[f] = verdict[f] /\ seen'[f] = seen[f]
  BY <1>1 DEF FitInv, TypeOK
<1>11. AllSound' BY <1>9, <1>10, OneSound DEF FitInv
<1>12. TypeOK'
  <2>1. ngl' \in [Evals -> Nat] BY <1>1, <1>7 DEF FitInv, TypeOK
  <2>2. used[e] + Layer(ask[e]) \in Nat BY <1>4, <1>5
  <2>3. used' \in [Evals -> Nat] BY <1>1, <2>2 DEF FitInv, TypeOK
  <2>4. ASSUME NEW f \in Evals PROVE ngl'[f] <= Blocks(ask'[f])
    BY <1>1, <1>6, <1>7, <1>10 DEF FitInv, TypeOK
  <2> QED BY <1>1, <2>1, <2>3, <2>4 DEF FitInv, TypeOK
<1>13. Loaded' BY <1>1 DEF FitInv, Loaded
<1> QED BY <1>11, <1>12, <1>13 DEF FitInv

\* The ends of a request, which touch only where it is and the sidecar.
LEMMA EndSound ==
    ASSUME FitInv, NEW e \in Evals, NEW from \in {"idle", "judged"}, Move(e, from, "done"),
           UNCHANGED <<ask, avail, ngl, used, verdict, seen, others>>,
           serving' \in BOOLEAN,
           sidecar' \in {sidecar, None} \/ (sidecar' = e /\ verdict[e] \in Kinds \ {"exceeds_machine"})
    PROVE FitInv'
<1>1. Underway("done", ask[e], avail[e], ngl[e], used[e], verdict[e]) BY DEF Underway
<1>2. /\ pc' \in [Evals -> {"idle", "probed", "measured", "placing", "judged", "done"}]
      /\ AllSound'
  BY <1>1, MoveSound
<1>3. sidecar' \in Evals \cup {None} BY DEF FitInv, TypeOK
<1>4. TypeOK' BY <1>2, <1>3 DEF FitInv, TypeOK
<1>5. Loaded'
  <2>1. CASE sidecar' = sidecar BY <2>1, LoadedKept
  <2>2. CASE sidecar' = None BY <2>2 DEF Loaded
  <2>3. CASE sidecar' = e /\ verdict[e] \in Kinds \ {"exceeds_machine"}
    <3>1. pc'[e] = "done" BY DEF Move, FitInv, TypeOK
    <3> QED BY <2>3, <3>1 DEF Loaded
  <2> QED BY <2>1, <2>2, <2>3
<1> QED BY <1>2, <1>4, <1>5 DEF FitInv

LEMMA HandleSound ==
    ASSUME FitInv, NEW e \in Evals, Refused(e) \/ Handle(e)
    PROVE FitInv'
<1>1. CASE Refused(e)
  <2>1. /\ Move(e, "idle", "done")
        /\ UNCHANGED <<ask, avail, ngl, used, verdict, seen, sidecar, serving, others>>
    BY <1>1 DEF Refused, Refuse, machine
  <2> QED BY <2>1, EndSound DEF FitInv, TypeOK
<1>2. CASE Shows(e) \/ LoadRefused(e)
  <2>1. /\ Move(e, "judged", "done")
        /\ UNCHANGED <<ask, avail, ngl, used, verdict, seen, sidecar, serving, others>>
    BY <1>2 DEF Shows, LoadRefused, Refuse, machine
  <2> QED BY <2>1, EndSound DEF FitInv, TypeOK
<1>3. CASE Launches(e)
  <2>1. /\ Move(e, "judged", "done") /\ verdict[e] # "exceeds_machine"
        /\ sidecar' = e /\ serving' = FALSE
        /\ UNCHANGED <<ask, avail, ngl, used, verdict, seen, others>>
    BY <1>3 DEF Launches, Launchable
  <2>2. Sound(pc[e], ask[e], avail[e], ngl[e], used[e], verdict[e], seen[e]) BY EvalSound
  <2>3. verdict[e] # None BY <2>1, <2>2 DEF Sound, Underway, Move
  <2>4. verdict[e] \in Kinds \ {"exceeds_machine"} BY <2>1, <2>3 DEF FitInv, TypeOK
  <2> QED BY <2>1, <2>4, EndSound
<1>4. CASE LaunchFails(e)
  <2>1. /\ Move(e, "judged", "done") /\ sidecar' = None /\ serving' = FALSE
        /\ UNCHANGED <<ask, avail, ngl, used, verdict, seen, others>>
    BY <1>4 DEF LaunchFails
  <2> QED BY <2>1, EndSound
<1> QED BY <1>1, <1>2, <1>3, <1>4 DEF Handle

LEMMA MachineSound ==
    ASSUME FitInv, UNCHANGED evals, sidecar' \in {sidecar, None}, serving' \in BOOLEAN,
           others' \in OtherUse
    PROVE FitInv'
<1>1. UNCHANGED <<pc, ask, avail, ngl, used, verdict, seen>> BY DEF evals
<1>2. AllSound' BY <1>1 DEF FitInv, AllSound
<1>3. TypeOK'
  <2>1. sidecar' \in Evals \cup {None} BY DEF FitInv, TypeOK
  <2> QED BY <1>1, <2>1 DEF FitInv, TypeOK
<1>4. Loaded' BY <1>1 DEF FitInv, Loaded
<1> QED BY <1>2, <1>3, <1>4 DEF FitInv

LEMMA NextSound == FitInv /\ [Next]_vars => FitInv'
<1> SUFFICES ASSUME FitInv, [Next]_vars PROVE FitInv' OBVIOUS
<1>1. ASSUME NEW e \in Evals, Evaluate(e) \/ Handle(e) PROVE FitInv'
  BY <1>1, MeasureVramSound, MeasureRamSound, UnverifiedSound, FitsSound, SplitsSound, PlaceSound,
     PlacingEndsSound, HandleSound DEF Evaluate
<1>2. CASE Serves BY <1>2, MachineSound DEF Serves, FitInv, TypeOK
<1>3. CASE SidecarEnds BY <1>3, MachineSound DEF SidecarEnds, FitInv, TypeOK
<1>4. CASE OthersMove BY <1>4, MachineSound DEF OthersMove, FitInv, TypeOK
<1>5. CASE UNCHANGED vars BY <1>5, MachineSound DEF vars, FitInv, TypeOK
<1> QED BY <1>1, <1>2, <1>3, <1>4, <1>5 DEF Next

LEMMA AlwaysSound == Spec => []FitInv
BY InitSound, NextSound, PTL DEF Spec

----------------------------------------------------------------------------
(* The theorems.                                                           *)

\* Whatever requests, sidecars and other programs there are, every variable keeps its type,
\* and no evaluation places more layers than the model has.
THEOREM FitTyped == Spec => []TypeOK
BY AlwaysSound, PTL DEF FitInv

\* A sidecar that a load started takes no more than the machine has, if the other programs
\* have not outgrown the headroom since they were looked at; however loads overlap.
THEOREM FitLaunchesFit == Spec => []LaunchesFit
<1>1. FitInv => LaunchesFit
  <2> SUFFICES ASSUME FitInv, sidecar # None
               PROVE /\ others.vram <= seen[sidecar].vram + DisplayHeadroom =>
                           OnCard(ask[sidecar], ngl[sidecar]) + others.vram <= VramTotal
                     /\ others.ram <= seen[sidecar].ram + OsHeadroom
                           /\ verdict[sidecar] \in {"gpu_cpu_split", "cpu_only"} =>
                           Remainder(ask[sidecar], ngl[sidecar]) + others.ram <= RamTotal
    BY DEF LaunchesFit
  <2>1. sidecar \in Evals /\ verdict[sidecar] \in Kinds \ {"exceeds_machine"}
    BY DEF FitInv, Loaded, TypeOK
  <2> DEFINE a == ask[sidecar]
             n == ngl[sidecar]
             m == avail[sidecar]
             s == seen[sidecar]
  <2>2. /\ a \in Asks /\ m \in Memory /\ n \in Nat /\ n <= Blocks(a)
        /\ s \in [vram: 0..VramTotal, ram: 0..RamTotal]
        /\ Sound(pc[sidecar], a, m, n, used[sidecar], verdict[sidecar], s)
    BY <2>1, EvalSound, EvalTypes DEF FitInv
  <2>3. verdict[sidecar] # None BY <2>1, FitAssumption
  <2>4. Grounds(a, m, verdict[sidecar], n) /\ Reserved(m, s) BY <2>2, <2>3 DEF Sound
  <2>5. /\ OnCard(a, n) <= m.vram
        /\ verdict[sidecar] \in {"gpu_cpu_split", "cpu_only"} => Remainder(a, n) <= m.ram
    BY <2>1, <2>2, <2>4, GroundsFit
  <2>6. OnCard(a, n) \in Nat /\ Remainder(a, n) \in Nat BY <2>2, CardGrows, RemainderOf
  <2>7. m.vram \in Nat /\ m.ram \in Nat BY <2>2, RoomNat
  <2>8. others.vram \in 0..VramTotal /\ others.ram \in 0..RamTotal BY OthersNat DEF FitInv
  <2>9. s.vram \in Nat /\ s.ram \in Nat BY <2>2, ConstantsNat
  <2> HIDE DEF a, n, m, s
  <2>10. others.vram <= s.vram + DisplayHeadroom => OnCard(a, n) + others.vram <= VramTotal
    BY <2>4, <2>5, <2>6, <2>7, <2>8, <2>9, ConstantsNat, HeadroomsNat DEF Reserved
  <2>11. others.ram <= s.ram + OsHeadroom /\ verdict[sidecar] \in {"gpu_cpu_split", "cpu_only"} =>
            Remainder(a, n) + others.ram <= RamTotal
    BY <2>4, <2>5, <2>6, <2>7, <2>8, <2>9, ConstantsNat, HeadroomsNat DEF Reserved
  <2> QED BY <2>10, <2>11 DEF a, n, s
<1> QED BY <1>1, AlwaysSound, PTL

\* What is said to exceed the memory that was free fits it with no number of layers, and no
\* split could have placed more.
THEOREM FitRefusesRightly == Spec => []RefusesRightly
<1>1. FitInv => RefusesRightly
  <2> SUFFICES ASSUME FitInv, NEW e \in Evals, NEW n \in 0..Blocks(ask[e])
               PROVE /\ verdict[e] = "exceeds_machine" =>
                           ~Fits(ask[e], n, avail[e].vram, avail[e].ram)
                     /\ verdict[e] \in {"gpu_cpu_split", "cpu_only"} /\ n > ngl[e] =>
                           OnCard(ask[e], n) > avail[e].vram
    BY DEF RefusesRightly
  <2>1. /\ ask[e] \in Asks /\ avail[e] \in Memory
        /\ Sound(pc[e], ask[e], avail[e], ngl[e], used[e], verdict[e], seen[e])
    BY EvalSound
  <2>2. Blocks(ask[e]) \in Nat BY <2>1, Sizes
  <2>3. n \in Nat /\ n <= Blocks(ask[e]) BY <2>2
  <2>4. CASE verdict[e] \in Kinds
    <3>1. verdict[e] # None BY <2>4, FitAssumption
    <3>2. Grounds(ask[e], avail[e], verdict[e], ngl[e]) BY <2>1, <3>1 DEF Sound
    <3> QED BY <2>1, <2>3, <3>2, GroundsRefuse
  <2>5. CASE verdict[e] \notin Kinds BY <2>5 DEF Kinds
  <2> QED BY <2>4, <2>5
<1> QED BY <1>1, AlwaysSound, PTL

\* A lighter request with no less memory gets no worse a verdict and no fewer layers.
THEOREM FitMoreNeverHurts == Spec => []MoreNeverHurts
<1>1. FitInv => MoreNeverHurts
  <2> SUFFICES ASSUME FitInv, NEW e \in Evals, NEW f \in Evals,
                      verdict[e] # None, verdict[f] # None, Easier(e, f)
               PROVE Rank[verdict[e]] <= Rank[verdict[f]] /\ ngl[e] >= ngl[f]
    BY DEF MoreNeverHurts
  <2>1. /\ ask[e] \in Asks /\ avail[e] \in Memory /\ ask[f] \in Asks /\ avail[f] \in Memory
        /\ verdict[e] \in Kinds /\ verdict[f] \in Kinds
    BY EvalTypes DEF FitInv
  <2>2. /\ Grounds(ask[e], avail[e], verdict[e], ngl[e])
        /\ Grounds(ask[f], avail[f], verdict[f], ngl[f])
    BY EvalSound DEF Sound
  <2>3. Lighter(ask[e], ask[f]) BY DEF Easier, Lighter
  <2>4. avail[e].vram >= avail[f].vram /\ avail[e].ram >= avail[f].ram BY DEF Easier
  <2> QED BY <2>1, <2>2, <2>3, <2>4, GroundsOrder
<1> QED BY <1>1, AlwaysSound, PTL
=============================================================================
