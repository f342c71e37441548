----------------------------- MODULE FieldLimbs -----------------------------
(***************************************************************************)
(* The arithmetic of field_5x64.rs on limbs: a program holds registers of  *)
(* the three types (Fe301 below p, Fe301Lazy below 2p, Fe301LazyLinear     *)
(* below 4p) and calls their operations in any order the types allow.  A   *)
(* word is below RADIX; every sum and product wraps as its u64 or u128     *)
(* does.  residue is what integer arithmetic modulo p says a register      *)
(* stands for: no operation reads it.                                      *)
(***************************************************************************)
EXTENDS Integers

CONSTANTS
    RADIX,              \* of a limb: 2^64
    TOP_RADIX,          \* of the bits of p in the top limb: 2^45
    FOLD_RADIX,         \* p = TOP_RADIX * RADIX^4 - FOLD_RADIX * RADIX + ...: 2^35
    FOLD_SUBTRAHEND,    \* ... + FOLD_SUBTRAHEND: 947
    STEP_RADIX,         \* a divisor of RADIX: how residue is multiplied, in no code
    Multipliers,        \* the constants given to mul_small: any u32
    Samples,            \* the integers the registers start from
    MaxOperations       \* bound on the operations of one behaviour

VARIABLES
    held,       \* register -> its type and its words
    residue,    \* register -> the element it stands for
    operations  \* operations performed

vars == <<held, residue, operations>>

LIMBS == 5
WideRadix == RADIX * RADIX      \* of a u128
P == TOP_RADIX * RADIX * RADIX * RADIX * RADIX - FOLD_RADIX * RADIX + FOLD_SUBTRAHEND

\* Shifts split a limb evenly.
ASSUME RadixAssumption ==
    /\ {RADIX, TOP_RADIX, FOLD_RADIX, FOLD_SUBTRAHEND, STEP_RADIX} \subseteq Nat \ {0}
    /\ RADIX % 2 = 0 /\ RADIX % TOP_RADIX = 0 /\ RADIX % STEP_RADIX = 0

\* The room the comments of the reducers claim: an operand below 4p and its
\* fold fit their limbs, and the penalty of a small product fits one.
ASSUME LimbAssumption ==
    /\ 16 * TOP_RADIX <= RADIX
    /\ 16 * FOLD_RADIX <= RADIX
    /\ FOLD_SUBTRAHEND < RADIX
    /\ \A c \in Multipliers : c \in Nat /\ 4 * c * FOLD_SUBTRAHEND < RADIX
    /\ Samples \subseteq 0 .. 4 * P - 1

Registers == {"left", "right"}

Value(words) ==
    words[0] + RADIX * (words[1] + RADIX * (words[2] + RADIX * (words[3] + RADIX * words[4])))

Words(n) ==
    LET rest[i \in 0 .. LIMBS - 1] == IF i = 0 THEN n ELSE rest[i - 1] \div RADIX
    IN  [i \in 0 .. LIMBS - 1 |-> rest[i] % RADIX]

MODULUS == Words(P)
MODULUS_TIMES_TWO == Words(2 * P)

-----------------------------------------------------------------------------
(* Carry chains. *)

\* The accumulators (u128) of a loop that adds a column and the carry.
Accumulators(column, n) ==
    LET acc[i \in 0 .. n - 1] ==
            (column[i] + (IF i = 0 THEN 0 ELSE acc[i - 1] \div RADIX)) % WideRadix
    IN  [i \in 0 .. n - 1 |-> acc[i]]

Low(acc) == [i \in DOMAIN acc |-> acc[i] % RADIX]

add_limbs(left, right) ==
    Low(Accumulators([i \in 0 .. LIMBS - 1 |-> left[i] + right[i]], LIMBS))

\* The words of the difference, and the borrow out of the last one.
subtract_limbs_runtime(left, right) ==
    LET borrow[i \in 0 .. LIMBS] ==
            IF i = 0 THEN 0
            ELSE IF left[i - 1] < right[i - 1] + borrow[i - 1] THEN 1 ELSE 0
    IN  [words |-> [i \in 0 .. LIMBS - 1 |-> (left[i] - right[i] - borrow[i]) % RADIX],
         borrow |-> borrow[LIMBS]]

SubtractIfNotBelow(input, bound) ==
    LET reduced == subtract_limbs_runtime(input, bound)
    IN  IF reduced.borrow = 1 THEN input ELSE reduced.words

conditional_subtract_modulus_ct(input) == SubtractIfNotBelow(input, MODULUS)

-----------------------------------------------------------------------------
(* Products. *)

Zeros(n) == [i \in 0 .. n - 1 |-> 0]

\* One row: factor times the words of right from index first on, added to
\* output at offset; the carry is stored above the row.
AddRow(output, factor, right, first, offset) ==
    LET n == LIMBS - first
        acc == Accumulators([j \in 0 .. n - 1 |->
                   factor * right[first + j] + output[offset + first + j]], n)
    IN  [k \in DOMAIN output |->
            CASE k - offset \in first .. LIMBS - 1 -> acc[k - offset - first] % RADIX
              [] k = offset + LIMBS -> acc[n - 1] \div RADIX
              [] OTHER -> output[k]]

multiply_wide(left, right) ==
    LET Row(output, i) == AddRow(output, left[i], right, 0, i)
    IN  Row(Row(Row(Row(Row(Zeros(2 * LIMBS), 0), 1), 2), 3), 4)

multiply_five_by_u32(value, multiplier) ==
    AddRow(Zeros(LIMBS + 1), multiplier, value, 0, 0)

\* The cross products once, doubled by a shift, and then the diagonals.
square_wide(value) ==
    LET Row(output, i) == AddRow(output, value[i], value, i + 1, i)
        cross == Row(Row(Row(Row(Zeros(2 * LIMBS), 0), 1), 2), 3)
        doubled == [k \in 0 .. 2 * LIMBS - 1 |->
                       ((2 * cross[k]) % RADIX)
                       + (IF k = 0 THEN 0 ELSE cross[k - 1] \div (RADIX \div 2))]
        diagonal(k) == LET p == value[k \div 2] * value[k \div 2]
                       IN  IF k % 2 = 0 THEN p % RADIX ELSE p \div RADIX
    IN  Low(Accumulators([k \in 0 .. 2 * LIMBS - 1 |-> doubled[k] + diagonal(k)], 2 * LIMBS))

-----------------------------------------------------------------------------
(* Reduction: TOP_RADIX * RADIX^4 = FOLD_RADIX * RADIX - FOLD_SUBTRAHEND.    *)

FOLD_CONSTANT_LOW == RADIX - FOLD_SUBTRAHEND
FOLD_CONSTANT_HIGH == FOLD_RADIX - 1

\* The n words of product above the field, and the five below it.
HighWords(product, n) ==
    [k \in 0 .. n - 1 |-> (product[LIMBS - 1 + k] \div TOP_RADIX)
                          + ((product[LIMBS + k] * (RADIX \div TOP_RADIX)) % RADIX)]
LowWords(product) ==
    [k \in 0 .. LIMBS - 1 |-> IF k = LIMBS - 1 THEN product[k] % TOP_RADIX ELSE product[k]]

\* low + high * K in width words: one chain for each word of K.
accumulate_fold(low, high, width) ==
    LET At(words, k) == IF k \in DOMAIN words THEN words[k] ELSE 0
        first == Low(Accumulators([k \in 0 .. width - 1 |->
                     At(low, k) + At(high, k) * FOLD_CONSTANT_LOW], width))
    IN  Low(Accumulators([k \in 0 .. width - 1 |->
                first[k] + At(high, k - 1) * FOLD_CONSTANT_HIGH], width))

\* Fault: what the first fold leaves above the field is dropped.
reduce_wide_unreduced_OneFold(product) ==
    LowWords(accumulate_fold(LowWords(product), HighWords(product, LIMBS), 7))

reduce_wide_unreduced(product) ==
    LET first_fold == accumulate_fold(LowWords(product), HighWords(product, LIMBS), 7)
    IN  accumulate_fold(LowWords(first_fold), HighWords(first_fold, 2), LIMBS)

reduce_small_product_unreduced(product) ==
    LET high == HighWords(product, 1)[0]
        low == LowWords(product)
        shifted == high * FOLD_RADIX
        added == Low(Accumulators([k \in 0 .. LIMBS - 1 |->
                     low[k] + (CASE k = 1 -> shifted % RADIX
                                 [] k = 2 -> shifted \div RADIX
                                 [] OTHER -> 0)], LIMBS))
        penalty == [Words(0) EXCEPT ![0] = (high * FOLD_SUBTRAHEND) % RADIX]
    IN  subtract_limbs_runtime(added, penalty).words

-----------------------------------------------------------------------------
(* The three types and their operations: a value of another type, or two   *)
(* operands of a type the operation does not take, is a type error.        *)

Fe301(words) == [type |-> "Fe301", words |-> words]
Fe301Lazy(words) == [type |-> "Fe301Lazy", words |-> words]
Fe301LazyLinear(words) == [type |-> "Fe301LazyLinear", words |-> words]

\* The bound each type documents.
Bound(type) ==
    CASE type = "Fe301" -> P [] type = "Fe301Lazy" -> 2 * P [] OTHER -> 4 * P

Are(type, x, y) == x.type = type /\ y.type = type

Add(x, y) ==
    IF x.type = "Fe301" THEN Fe301(conditional_subtract_modulus_ct(add_limbs(x.words, y.words)))
    ELSE Fe301LazyLinear(add_limbs(x.words, y.words))

\* sub adds the modulus back after a borrow; sub_loose adds 2p beforehand.
Sub(x, y) ==
    IF x.type = "Fe301"
    THEN LET difference == subtract_limbs_runtime(x.words, y.words)
         IN  Fe301(IF difference.borrow = 1 THEN add_limbs(difference.words, MODULUS)
                   ELSE difference.words)
    ELSE Fe301LazyLinear(
             subtract_limbs_runtime(add_limbs(x.words, MODULUS_TIMES_TWO), y.words).words)

\* The types multiply alike; Fe301 subtracts the modulus at the end.
Reduced(x, words) ==
    IF x.type = "Fe301" THEN Fe301(conditional_subtract_modulus_ct(words)) ELSE Fe301Lazy(words)

Mul(x, y) == Reduced(x, reduce_wide_unreduced(multiply_wide(x.words, y.words)))
Square(x) == Reduced(x, reduce_wide_unreduced(square_wide(x.words)))
MulSmall(x, c) == Reduced(x, reduce_small_product_unreduced(multiply_five_by_u32(x.words, c)))

from_fe301(x) == Fe301Lazy(x.words)
canonical(x) == Fe301(conditional_subtract_modulus_ct(x.words))
tighten(x) == Fe301Lazy(SubtractIfNotBelow(x.words, MODULUS_TIMES_TWO))

-----------------------------------------------------------------------------
(* Programs over two registers. *)

\* x * y modulo p, half a word of y at a time: every step fits 31 bits.
TimesModP(x, y) ==
    LET w == Words(y)
        Digit(sum, radix, digit) == (radix * sum + x * digit) % P
        Word(sum, i) == Digit(Digit(sum, RADIX \div STEP_RADIX, w[i] \div STEP_RADIX),
                              STEP_RADIX, w[i] % STEP_RADIX)
    IN  Word(Word(Word(Word(Word(0, 4), 3), 2), 1), 0)

Write(d, value, element) ==
    /\ operations < MaxOperations
    /\ operations' = operations + 1
    /\ held' = [held EXCEPT ![d] = value]
    /\ residue' = [residue EXCEPT ![d] = element]

AddOp(d, e) ==
    /\ Are("Fe301", held[d], held[e]) \/ Are("Fe301Lazy", held[d], held[e])
    /\ Write(d, Add(held[d], held[e]), (residue[d] + residue[e]) % P)

SubOp(d, e) ==
    /\ Are("Fe301", held[d], held[e]) \/ Are("Fe301Lazy", held[d], held[e])
    /\ Write(d, Sub(held[d], held[e]), (residue[d] - residue[e]) % P)

\* mul of each type, and mul_tight of a linear value by a lazy one.
MulOp(d, e) ==
    /\ \/ held[d].type = held[e].type
       \/ held[d].type = "Fe301LazyLinear" /\ held[e].type = "Fe301Lazy"
    /\ Write(d, Mul(held[d], held[e]), TimesModP(residue[d], residue[e]))

SquareOp(d) == Write(d, Square(held[d]), TimesModP(residue[d], residue[d]))

MulSmallOp(d, c) == Write(d, MulSmall(held[d], c), TimesModP(residue[d], c))

FromFe301Op(d) ==
    /\ held[d].type = "Fe301"
    /\ Write(d, from_fe301(held[d]), residue[d])

CanonicalOp(d) ==
    /\ held[d].type = "Fe301Lazy"
    /\ Write(d, canonical(held[d]), residue[d])

TightenOp(d) ==
    /\ held[d].type = "Fe301LazyLinear"
    /\ Write(d, tighten(held[d]), residue[d])

\* Registers of any type, anywhere below its bound: tighten, add_loose and
\* sub_loose reach every value of the lazy types.
Init ==
    /\ held \in [Registers -> {v \in {[type |-> t, words |-> Words(x)] :
                                      t \in {"Fe301", "Fe301Lazy", "Fe301LazyLinear"},
                                      x \in Samples} :
                               Value(v.words) < Bound(v.type)}]
    /\ residue = [r \in Registers |-> Value(held[r].words) % P]
    /\ operations = 0

Next ==
    \E d \in Registers :
        \/ \E e \in Registers : AddOp(d, e) \/ SubOp(d, e) \/ MulOp(d, e)
        \/ SquareOp(d) \/ FromFe301Op(d) \/ CanonicalOp(d) \/ TightenOp(d)
        \/ \E c \in Multipliers : MulSmallOp(d, c)

Spec == Init /\ [][Next]_vars

-----------------------------------------------------------------------------
(* What the code promises. *)

\* However the operations of the three types are chained, no carry, borrow,
\* shift or fold loses a bit: a register's words stay below the bound its
\* type promises (p, 2p, 4p) and are congruent to the element that integer
\* arithmetic modulo p gives for the same operations; an Fe301 is therefore
\* the canonical representative.
LimbsFollowTheField ==
    \A r \in Registers :
        /\ \A i \in 0 .. LIMBS - 1 : held[r].words[i] \in 0 .. RADIX - 1
        /\ Value(held[r].words) < Bound(held[r].type)
        /\ Value(held[r].words) % P = residue[r]
=============================================================================
