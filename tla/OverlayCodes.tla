---------------------------- MODULE OverlayCodes ----------------------------
(***************************************************************************)
(* The two error correcting codes that turn the hash of a name into the    *)
(* overlay id of the peer responsible for it: the (23,12,7) Golay code the *)
(* peers use and the Reed-Muller code kept as an alternative.              *)
(*                                                                         *)
(* A word is the set of its bits that are 1, bit 0 being the lowest, so    *)
(* exclusive or is the symmetric difference.                               *)
(***************************************************************************)
EXTENDS Naturals, Sequences, SequencesExt, FiniteSets, FiniteSetsExt

CONSTANTS rm_r, rm_m        \* order and variables of the Reed-Muller code
ASSUME ReedMullerSize == rm_r \in Nat \ {0} /\ rm_m \in Nat /\ rm_r <= rm_m

Xor(v, w) == (v \ w) \cup (w \ v)
Shifted(w, n) == { b + n : b \in w }

-----------------------------------------------------------------------------
(* Golay code.                                                             *)

GENPOL == { 0, 2, 4, 5, 6, 10, 11 }     \* 0xc75

\* The remainder of the division by GENPOL: left[aux] is the pattern once all
\* bits above aux are gone.
get_syndrome(pattern) ==
    LET left[aux \in 10..22] ==
            IF aux = 22 THEN pattern
            ELSE LET w == left[aux + 1]
                 IN  IF aux + 1 \in w THEN Xor(w, Shifted(GENPOL, aux - 10)) ELSE w
    IN  left[10]

\* temp + get_syndrome(temp): the two share no bit.
encode_golay(data) == LET temp == Shifted(data, 11) IN temp \cup get_syndrome(temp)

arr2int(a, r) == { a[i] - 1 : i \in 1..r }

\* The next r-combination of 1..n.  a[0] is the unused first element of the
\* global array, which is zero.
nextcomb(n, r, a) ==
    IF a[r] + 1 <= n THEN [a EXCEPT ![r] = @ + 1]
    ELSE LET j == Max({ k \in 0..(r - 1) : a[k] # n - r + k })
         IN  [i \in 0..r |-> IF i < j THEN a[i] ELSE a[j] + i - j + 1]

CombinationsOf(n, r) == { a \in [0..r -> 0..n] : a[0] = 0 /\ \A i \in 1..r : a[i - 1] < a[i] }

\* The error patterns that are entered.  The loops start from the first
\* combination and nextcomb steps through all of them (Successor below).
Patterns == { {} } \cup { { b } : b \in 0..22 }
            \cup UNION { { arr2int(a, r) : a \in CombinationsOf(23, r) } : r \in { 2, 3 } }

Value(w) == MapThenSumSet(LAMBDA b : 2^b, w)
Syndromes == [p \in Patterns |-> Value(get_syndrome(p))]
gen_dec_table == [s \in 0..2047 |-> CHOOSE p \in Patterns : Syndromes[p] = s]
decoding_table == gen_dec_table

\* The error pattern is removed and the upper 12 bits are the data.
decode_golay(codeword) ==
    { b - 11 : b \in { x \in Xor(codeword, decoding_table[Value(get_syndrome(codeword))]) : x >= 11 } }

-----------------------------------------------------------------------------
(* Reed-Muller code.  A vector is the set of the positions where it is 1;  *)
(* subsets of the variables are increasing sequences.                      *)

nCr[i \in Nat, j \in Nat] ==
    IF j > i THEN 0 ELSE IF i = 0 THEN 1
    ELSE IF j = 0 THEN nCr[i - 1, 0] ELSE nCr[i - 1, j - 1] + nCr[i - 1, j]

\* The k-subset after orig in lexicographic order, << >> if there is none.
ksubset_lex_succ(n, k, orig) ==
    LET movable == { i \in 1..k : orig[i] # n - k + i }
    IN  IF movable = {} THEN << >>
        ELSE LET i == Max(movable)
             IN  [j \in 1..k |-> IF j < i THEN orig[j] ELSE orig[i] + 1 + j - i]

\* The k-subset with rank r: x is the next candidate element.
ksubset_lex_unrank(n, k, r) ==
    FoldLeft(LAMBDA s, x :
                IF Len(s.subset) = k THEN s
                ELSE LET below == nCr[n - x, k - Len(s.subset) - 1]
                     IN  IF below <= s.r THEN [s EXCEPT !.r = @ - below]
                         ELSE [s EXCEPT !.subset = Append(@, x)],
             [r |-> r, subset |-> << >>], [x \in 1..n |-> x]).subset

rm_n == 2^rm_m
rm_k == MapThenSumSet(LAMBDA i : nCr[rm_m, i], 0..rm_r)

vector_multiply(v, w) == v \cap w
vector_not(v) == (0..(rm_n - 1)) \ v
vector_subtract(v, w) == Xor(v, w)
vector_dotproduct(v, w) == Cardinality(v \cap w) % 2

\* Row i of the single variables: blocks of 2^(m - i) ones and zeros.
Monomial(i) == { x \in 0..(rm_n - 1) : (x \div 2^(rm_m - i)) % 2 = 0 }
Product(subset) ==
    FoldLeft(LAMBDA v, i : vector_multiply(Monomial(i), v), 0..(rm_n - 1), subset)

\* The subsets of size i in the order reedmuller_init visits them.
Subsets(i) ==
    FoldLeft(LAMBDA seen, x : Append(seen, ksubset_lex_succ(rm_m, i, Last(seen))),
             << ksubset_lex_unrank(rm_m, i, 0) >>, [x \in 1..(nCr[rm_m, i] - 1) |-> x])

\* The rows of the generator matrix: the constant, then the monomials by degree.
reedmuller_init ==
    LET monomials == FlattenSeq([i \in 1..rm_r |-> Subsets(i)])
    IN  << 0..(rm_n - 1) >> \o [p \in 1..(rm_k - 1) |-> Product(monomials[p])]

\* A message is the set of the positions, from 1 on, of its rows.
reedmuller_encode(message) ==
    { x \in 0..(rm_n - 1) : Cardinality({ p \in message : x \in reedmuller_init[p] }) % 2 = 1 }

\* How many rows have a smaller degree than i.
Offset(i) == MapThenSumSet(LAMBDA d : nCr[rm_m, d], 0..(i - 1))

\* The vectors that vote on the monomial of degree i and rank j: the products of
\* the other variables, each taken as it is or negated.  The loop runs to
\* 2 << (m - i), so every product votes twice.
Voters(i, j) ==
    LET others == SetToSortSeq((1..rm_m) \ ToSet(ksubset_lex_unrank(rm_m, i, j)), <)
        taken(k, l) == IF (k \div 2^(l - 1)) % 2 = 1 THEN Monomial(others[l]) ELSE vector_not(Monomial(others[l]))
    IN  [k \in 0..(2 * 2^(rm_m - i) - 1) |->
            FoldLeft(LAMBDA v, l : vector_multiply(v, taken(k, l)), 0..(rm_n - 1), [l \in 1..(rm_m - i) |-> l])]
AllVoters == [i \in 0..rm_r |-> [j \in 0..(nCr[rm_m, i] - 1) |-> Voters(i, j)]]

coeff1(i, j, rest) == Cardinality({ k \in DOMAIN AllVoters[i][j] : vector_dotproduct(rest, AllVoters[i][j][k]) = 1 })
coeff0(i, j, rest) == Cardinality(DOMAIN AllVoters[i][j]) - coeff1(i, j, rest)

\* Variant: a tie between the voters is taken for a zero.
reedmuller_decode_no_tie(received) ==
    FoldLeft(LAMBDA s, i :
                LET ranks == 0..(nCr[rm_m, i] - 1)
                    ones  == { Offset(i) + 1 + j : j \in { x \in ranks : coeff0(i, x, s.rest) < coeff1(i, x, s.rest) } }
                IN  [ok |-> TRUE, message |-> s.message \cup ones,
                     rest |-> vector_subtract(s.rest, reedmuller_encode(ones))],
             [ok |-> TRUE, message |-> {}, rest |-> received], [i \in 1..(rm_r + 1) |-> rm_r + 1 - i])

\* Majority vote, from the highest degree down.  A tie gives up: ok is FALSE and
\* the caller does not look at it.
reedmuller_decode(received) ==
    FoldLeft(LAMBDA s, i :
                LET ranks == 0..(nCr[rm_m, i] - 1)
                    ties  == { j \in ranks : coeff0(i, j, s.rest) = coeff1(i, j, s.rest) }
                    ones  == { Offset(i) + 1 + j : j \in { x \in ranks : coeff0(i, x, s.rest) < coeff1(i, x, s.rest) } }
                IN  IF ~s.ok \/ ties # {} THEN [s EXCEPT !.ok = FALSE]
                    ELSE [ok |-> TRUE, message |-> s.message \cup ones,
                          rest |-> vector_subtract(s.rest, reedmuller_encode(ones))],
             [ok |-> TRUE, message |-> {}, rest |-> received], [i \in 1..(rm_r + 1) |-> rm_r + 1 - i])
\* ReedMuller::decode works on integers; the arrays have the highest bit first.
int2array(value, size) == { size - 1 - b : b \in value }
array2int(array, size) == { size - p : p \in array }
ReedMuller_decode(codeword) ==
    LET decoded == reedmuller_decode(int2array(codeword, rm_n))
    IN  [ok |-> decoded.ok, message |-> array2int(decoded.message, rm_k)]

-----------------------------------------------------------------------------

\* nextcomb steps to the next combination in lexicographic order, so the loops
\* of gen_dec_table meet every error pattern and fill the whole table.
Below(a, b, r) == \E i \in 1..r : a[i] < b[i] /\ \A k \in 1..(i - 1) : a[k] = b[k]
Successor(n, r, a) ==
    (\E i \in 1..r : a[i] # n - r + i) =>
        LET next == nextcomb(n, r, a)
        IN  /\ next \in CombinationsOf(n, r) /\ Below(a, next, r)
            /\ \A c \in CombinationsOf(n, r) : Below(a, c, r) => c = next \/ Below(next, c, r)

\* A codeword with at most three wrong bits decodes to the data it was made of:
\* the names that hash near a codeword all belong to the same peer.
GolayCorrects(data, errors) == decode_golay(Xor(encode_golay(data), errors)) = data

\* The Reed-Muller decoder corrects fewer than half the distance of the code and
\* with exactly half of it gives up rather than return another message; that
\* needs the ranks of reedmuller_decode and the order of the rows to agree.
RMCorrects(message, errors) ==
    LET decoded == ReedMuller_decode({ rm_n - 1 - x : x \in Xor(reedmuller_encode(message), errors) })
    IN  /\ 2 * Cardinality(errors) < 2^(rm_m - rm_r) => decoded.ok
        /\ decoded.ok => decoded.message = array2int(message, rm_k)
=============================================================================
